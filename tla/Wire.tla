-------------------------------- MODULE Wire --------------------------------
(***************************************************************************)
(* The forms a value takes outside the engine: the JSON of requests,       *)
(* authored data and views (liasse-value decode.rs, to_wire), the tagged   *)
(* JSON of a stored row (liasse-pg value_codec.rs), and the captured state *)
(* of an artifact (liasse-runtime portable.rs).                            *)
(*                                                                         *)
(* A JSON string is what it spells, and whether it spells it canonically;  *)
(* a number what it is; the members of an object are pairs of a name and a *)
(* form.  Names and labels are sequences of bytes.  The members that mark  *)
(* the objects standing for one value go by their first letters.           *)
(***************************************************************************)
EXTENDS Values

Refused == <<"refused">>
Absent == <<"absent">>
Null == <<"null">>
String(v) == <<"string", v, TRUE>>
Number(v) == <<"number", v>>
Object(members) == <<"object", members>>

Name(letter) == <<36, letter>>
Sha512 == Name(115)
Bytes == Name(98)
Media == Name(109)
BlobName == Name(110)
Magnitudes == <<<<121>>, <<109>>, <<119>>, <<100>>>>     \* years, months, weeks, days
Time == <<116>>
Zone == <<122>>
Policies == <<<<111>>, <<97>>, <<115>>>>                 \* overflow, ambiguous, missing
PolicyCount == <<2, 3, 3>>

NamesOf(members) == {members[i][1] : i \in DOMAIN members}
Member(members, name) ==
  IF name \in NamesOf(members)
  THEN members[CHOOSE i \in DOMAIN members : members[i][1] = name][2]
  ELSE Absent
Declared(fields) == {fields[i][1] : i \in DOMAIN fields}
Optional(t) == t[1] = "optional"
Whole(parts, value) == IF Refused \in ToSet(parts) THEN Refused ELSE value

-----------------------------------------------------------------------------
(* The canonical spelling of a scalar: a decimal at its least scale, a     *)
(* timestamp as its count, an enum as its label.                           *)

RECURSIVE Least(_, _)
Least(mantissa, scale) ==
  IF scale <= 0 THEN IntVal(mantissa * 10^(-scale))
  ELSE IF mantissa % 10 = 0 THEN Least(mantissa \div 10, scale - 1)
  ELSE <<"decimal", mantissa, scale>>
Spelling(v) ==
  CASE v[1] = "decimal" -> Least(v[2], v[3])
    [] v[1] = "timestamp" -> IntVal(v[2])
    [] v[1] = "enum" -> TextVal(v[3])
    [] v[1] = "fixed" -> <<"duration", v[2]>>
    [] OTHER -> v

(* The scalar a string or a number is under a type.                        *)
Read(t, spelled) ==
  CASE t[1] = spelled[1] /\ t[1] \in {"int", "text", "uuid", "date", "duration"} -> spelled
    [] t[1] = "decimal" /\ spelled[1] = "int" -> <<"decimal", spelled[2], 0>>
    [] t[1] = "decimal" /\ spelled[1] = "decimal" -> spelled
    [] t[1] = "timestamp" /\ spelled[1] = "int" -> <<"timestamp", spelled[2], t[2]>>
    [] t[1] = "enum" /\ spelled[1] = "text" /\ spelled[2] \in ToSet(t[2]) ->
         <<"enum", (CHOOSE i \in DOMAIN t[2] : t[2][i] = spelled[2]) - 1, spelled[2]>>
    [] t[1] = "period" /\ spelled[1] = "duration" -> <<"fixed", spelled[2]>>
    [] OTHER -> Refused
Numeric == {"int", "decimal", "timestamp"}

(* A string on the wire has to be the canonical spelling of what it is     *)
(* read as; an authored one, and a number, need not.                       *)
DecodeScalar(t, w, mode) ==
  IF w[1] = "number" THEN (IF t[1] \in Numeric THEN Read(t, w[2]) ELSE Refused)
  ELSE LET v == Read(t, w[2])
       IN IF v = Refused \/ mode = "authored" THEN v
          ELSE IF w = String(Spelling(v)) THEN v ELSE Refused

DecodeBytes(w) ==
  LET payload == Member(w[2], Bytes)
  IN IF payload # Absent /\ payload[1] = "string" /\ payload[2][1] = "bytes" /\ payload[3]
     THEN payload[2] ELSE Refused

DecodeBlob(w, mode) ==
  LET m(name) == Member(w[2], name)
      text(name) == m(name) # Absent /\ m(name)[1] = "string" /\ (mode = "wire" => m(name)[3])
  IN IF /\ NamesOf(w[2]) \subseteq {Sha512, Bytes, Media, BlobName}
        /\ text(Sha512) /\ text(Bytes) /\ m(Media) # Absent /\ m(Media)[1] = "string"
        /\ m(Sha512)[2][1] = "bytes" /\ m(Bytes)[2][1] = "int" /\ m(Bytes)[2][2] >= 0
        /\ m(BlobName) # Absent => m(BlobName)[1] = "string"
     THEN <<"blob", m(Sha512)[2][2], m(Bytes)[2][2], m(Media)[2][2],
            IF m(BlobName) = Absent THEN None ELSE m(BlobName)[2]>>
     ELSE Refused

(* A calendar period has defaults for all it leaves out, and is not empty. *)
DecodeCalendar(members) ==
  LET given(name) == Member(members, name)
      magnitude(i) == IF given(Magnitudes[i]) = Absent THEN 0 ELSE given(Magnitudes[i])[2][2]
      time == IF given(Time) = Absent THEN 0 ELSE given(Time)[2][2]
      zone == IF given(Zone) = Absent THEN None ELSE given(Zone)[2]
      policy(i) == IF given(Policies[i]) = Absent THEN 0 ELSE given(Policies[i])[2][2][1]
      magnitudes == [i \in 1..4 |-> magnitude(i)] \o <<time>>
  IN IF /\ NamesOf(members) \subseteq ToSet(Magnitudes) \union {Time, Zone} \union ToSet(Policies)
        /\ \A i \in DOMAIN members :
             LET name == members[i][1] w == members[i][2]
             IN CASE name \in ToSet(Magnitudes) -> w[1] = "number" /\ w[2][1] = "int"
                  [] name = Time -> w[1] = "string" /\ w[2][1] = "duration"
                  [] OTHER -> w[1] = "string" /\ w[2][1] = "text"
        /\ \A i \in DOMAIN Policies : policy(i) \in 0..(PolicyCount[i] - 1)
        /\ ToSet(magnitudes) # {0}
     THEN <<"calendar", magnitudes, zone, [i \in DOMAIN Policies |-> policy(i)]>>
     ELSE Refused

RECURSIVE JsonFrom(_)
JsonFrom(w) ==
  CASE w[1] \in {"null", "bool"} -> w
    [] w[1] = "number" -> Read(<<"decimal">>, w[2])
    [] w[1] = "string" -> w[2]
    [] w[1] = "array" -> <<"array", [i \in DOMAIN w[2] |-> JsonFrom(w[2][i])]>>
    [] w[1] = "object" -> Object([i \in DOMAIN w[2] |-> <<w[2][i][1], JsonFrom(w[2][i][2])>>])

-----------------------------------------------------------------------------
(* Decoding against a type, from the wire or as authored.                  *)
RECURSIVE DecodeAs(_, _, _)

(* A component of a composite key that may be absent reads null as that,   *)
(* in a `json?` too.                                                       *)
DecodeComponent(t, w, mode) ==
  CASE w = Absent -> IF Optional(t) THEN None ELSE Refused
    [] w = Null /\ Optional(t) -> None
    [] OTHER -> DecodeAs(t, w, mode)

DecodeComposite(components, w, mode) ==
  IF \/ w[1] = "array" /\ Len(w[2]) = Len(components)
     \/ w[1] = "object" /\ NamesOf(w[2]) \subseteq Declared(components)
  THEN [i \in DOMAIN components |->
         DecodeComponent(components[i][2],
                         IF w[1] = "array" THEN w[2][i] ELSE Member(w[2], components[i][1]), mode)]
  ELSE <<Refused>>

(* What a struct leaves out is none where it may be: every value of a      *)
(* shape has the same members.                                             *)
DecodeMember(t, w, mode) ==
  IF w = Absent THEN (IF Optional(t) THEN None ELSE Refused) ELSE DecodeAs(t, w, mode)
DecodeStruct(fields, w, mode) ==
  IF w[1] = "object" /\ NamesOf(w[2]) \subseteq Declared(fields)
  THEN [i \in DOMAIN fields |-> DecodeMember(fields[i][2], Member(w[2], fields[i][1]), mode)]
  ELSE <<Refused>>

(* Every value decodes before its key does; a none takes its entry, and    *)
(* its key's faults, with it.                                              *)
DecodeEntry(t, entry, mode) ==
  IF entry[1] # "array" \/ Len(entry[2]) # 2 THEN <<Refused, Refused>>
  ELSE LET v == DecodeAs(t[3], entry[2][2], mode)
       IN <<IF v = None THEN None ELSE DecodeAs(t[2], entry[2][1], mode), v>>
(* A set keeps the first of equal members, a map the first of equal keys   *)
(* and the last of their values.                                           *)
FirstOf(parts, i) == ~ \E j \in 1..(i - 1) : j \in DOMAIN parts /\ Same(parts[j], parts[i])
SetValue(parts) ==
  LET there == SelectSeq(parts, LAMBDA v : v # None)
  IN <<"set", {there[i] : i \in {j \in DOMAIN there : FirstOf(there, j)}}>>
MapValue(entries) ==
  LET there == SelectSeq(entries, LAMBDA e : e[2] # None)
      keys == [i \in DOMAIN there |-> there[i][1]]
  IN <<"map", [k \in SetValue(keys)[2] |-> there[Max({i \in DOMAIN keys : Same(keys[i], k)})][2]]>>

DecodeSeveral(t, parts, entries) ==
  CASE t[1] = "set" -> Whole(parts, SetValue(parts))
    [] t[1] = "map" -> Whole(FlattenSeq(entries), MapValue(entries))
    [] t[1] = "struct" -> Whole(parts, <<"struct", [i \in DOMAIN parts |-> <<t[2][i][1], parts[i]>>]>>)
    [] OTHER -> Whole(parts, <<t[1], parts>>)

DecodeAs(t, w, mode) ==
  CASE Optional(t) ->
         IF w = Null /\ t[2] # <<"json">> THEN None ELSE DecodeAs(t[2], w, mode)
    [] t[1] = "json" -> JsonOf(JsonFrom(w))
    [] t[1] = "bool" -> IF w[1] = "bool" THEN w ELSE Refused
    [] t[1] = "bytes" -> IF w[1] = "object" THEN DecodeBytes(w) ELSE Refused
    [] t[1] = "blob" -> IF w[1] = "object" THEN DecodeBlob(w, mode) ELSE Refused
    [] t[1] = "period" /\ w[1] = "object" -> DecodeCalendar(w[2])
    [] t[1] = "ref" -> LET key == DecodeAs(t[2], w, mode)
                       IN Whole(<<key>>, <<"ref", key>>)
    [] t[1] \in {"set", "map", "struct", "refs", "composite"} ->
         IF t[1] \in {"set", "map"} /\ w[1] # "array" THEN Refused
         ELSE DecodeSeveral(t,
                CASE t[1] = "set" -> [i \in DOMAIN w[2] |-> DecodeAs(t[2], w[2][i], mode)]
                  [] t[1] = "struct" -> DecodeStruct(t[2], w, mode)
                  [] t[1] \in {"refs", "composite"} -> DecodeComposite(t[2], w, mode)
                  [] OTHER -> <<>>,
                IF t[1] = "map" THEN [i \in DOMAIN w[2] |-> DecodeEntry(t, w[2][i], mode)] ELSE <<>>)
    [] w[1] \in {"string", "number"} -> DecodeScalar(t, w, mode)
    [] OTHER -> Refused

-----------------------------------------------------------------------------
(* The JSON a value is sent as.                                            *)
RECURSIVE JsonTo(_)
JsonTo(j) ==
  CASE j[1] \in {"null", "bool"} -> j
    [] j[1] = "decimal" -> Number(Spelling(j))
    [] j[1] = "text" -> String(j)
    [] j[1] = "array" -> <<"array", [i \in DOMAIN j[2] |-> JsonTo(j[2][i])]>>
    [] j[1] = "object" -> Object([i \in DOMAIN j[2] |-> <<j[2][i][1], JsonTo(j[2][i][2])>>])

BlobForm(v) ==
  Object(<<<<Bytes, String(IntVal(v[3]))>>, <<Media, String(TextVal(v[4]))>>>>
         \o (IF v[5] = None THEN <<>> ELSE <<<<BlobName, String(v[5])>>>>)
         \o <<<<Sha512, String(<<"bytes", v[2]>>)>>>>)

CalendarForm(v) ==
  Object([i \in 1..4 |-> <<Magnitudes[i], Number(IntVal(v[2][i]))>>]
         \o <<<<Time, String(<<"duration", v[2][5]>>)>>>>
         \o [i \in 1..3 |-> <<Policies[i], String(TextVal(<<v[4][i]>>))>>]
         \o (IF v[3] = None THEN <<>> ELSE <<<<Zone, String(v[3])>>>>))

(* A mutant: a member that is none is sent as null.                        *)
ShownWithNulls(fields) == fields

(* The members of a struct that are sent.                                  *)
Shown(fields) == SelectSeq(fields, LAMBDA f : f[2] # None)

RECURSIVE ToWire(_)
ToWires(parts) == <<"array", [i \in DOMAIN parts |-> ToWire(parts[i])]>>
ToWire(v) ==
  CASE v[1] = "none" -> Null
    [] v[1] = "bool" -> v
    [] v[1] = "bytes" -> Object(<<<<Bytes, String(v)>>>>)
    [] v[1] = "blob" -> BlobForm(v)
    [] v[1] = "calendar" -> CalendarForm(v)
    [] v[1] = "json" -> JsonTo(v[2])
    [] v[1] = "ref" -> ToWire(v[2])
    [] v[1] = "struct" -> LET fields == Shown(v[2])
                          IN Object([i \in DOMAIN fields |-> <<fields[i][1], ToWire(fields[i][2])>>])
    [] v[1] \in {"refs", "composite", "set", "map"} ->
         ToWires(CASE v[1] = "set" -> Sorted(v[2])
                   [] v[1] = "map" -> [i \in 1..Cardinality(DOMAIN v[2]) |->
                                        LET k == Sorted(DOMAIN v[2])[i] IN Composite(<<k, v[2][k]>>)]
                   [] OTHER -> v[2])
    [] OTHER -> String(Spelling(v))

-----------------------------------------------------------------------------
(* The stored form names the kind of every value, so that it needs no type *)
(* to be read: the precision of a timestamp and the ordinal of an enum are *)
(* there, and a member that is none.                                       *)
Tagged(kind, payload) == <<"tagged", kind, payload>>

RECURSIVE Encode(_)
EncodePairs(pairs) == [i \in DOMAIN pairs |-> <<pairs[i][1], Encode(pairs[i][2])>>]
Encode(v) ==
  CASE v[1] \in {"text", "bool", "bytes", "uuid", "date", "duration", "blob", "none", "enum"} ->
         Tagged(v[1], Tail(v))
    [] v[1] \in {"int", "decimal"} -> Tagged(v[1], Spelling(v))
    [] v[1] = "timestamp" -> Tagged(v[1], <<String(IntVal(v[2])), v[3]>>)
    [] v[1] \in {"fixed", "calendar"} -> Tagged("period", v)
    [] v[1] = "json" -> Tagged(v[1], JsonTo(v[2]))
    [] v[1] = "ref" -> Tagged("ref", <<"scalar", Encode(v[2])>>)
    [] v[1] = "refs" -> Tagged("ref", <<"composite", [i \in DOMAIN v[2] |-> Encode(v[2][i])]>>)
    [] v[1] = "struct" -> Tagged(v[1], EncodePairs(v[2]))
    [] v[1] = "composite" -> Tagged(v[1], [i \in DOMAIN v[2] |-> Encode(v[2][i])])
    [] v[1] = "set" -> Tagged(v[1], [i \in 1..Cardinality(v[2]) |-> Encode(Sorted(v[2])[i])])
    [] v[1] = "map" -> Tagged(v[1], [i \in 1..Cardinality(DOMAIN v[2]) |->
                                      LET k == Sorted(DOMAIN v[2])[i] IN <<Encode(k), Encode(v[2][k])>>])

RECURSIVE Stored(_)
StoredAll(forms) == [i \in DOMAIN forms |-> Stored(forms[i])]
Stored(form) ==
  LET kind == form[2]
      payload == form[3]
  IN CASE kind = "int" -> payload
       [] kind = "decimal" -> Read(<<"decimal">>, payload)
       [] kind = "timestamp" -> <<"timestamp", payload[1][2][2], payload[2]>>
       [] kind = "period" -> payload
       [] kind = "json" -> JsonOf(JsonFrom(payload))
       [] kind = "ref" -> IF payload[1] = "scalar" THEN <<"ref", Stored(payload[2])>>
                          ELSE <<"refs", StoredAll(payload[2])>>
       [] kind = "struct" -> <<kind, [i \in DOMAIN payload |-> <<payload[i][1], Stored(payload[i][2])>>]>>
       [] kind = "composite" -> <<kind, StoredAll(payload)>>
       [] kind = "set" -> SetValue(StoredAll(payload))
       [] kind = "map" -> MapValue([i \in DOMAIN payload |-> StoredAll(payload[i])])
       [] OTHER -> <<kind>> \o payload

-----------------------------------------------------------------------------
(* The type the captured rows of a collection are read back by: a row may  *)
(* lack any of its members, and so may a struct directly in it.            *)
RECURSIVE Optionalized(_)
Optionalized(t) ==
  IF t[1] # "struct" THEN t
  ELSE <<"struct", [i \in DOMAIN t[2] |->
                     <<t[2][i][1], <<"optional", Optionalized(t[2][i][2])>>>>]>>
Captured(row) == ToWire(row)
Restored(t, form) == DecodeAs(Optionalized(t), form, "authored")

(* A `json?` member of a row, or of a struct in it, that holds JSON null.  *)
RECURSIVE HoldsNull(_)
HoldsNull(v) ==
  v[1] = "struct" /\ \E i \in DOMAIN v[2] : v[2][i][2] = JsonOf(Null) \/ HoldsNull(v[2][i][2])

(* The rows that may stand where a value of the type does: any member of   *)
(* one may be none.                                                        *)
RowsAround(v) == {v} \union {<<"struct", [v[2] EXCEPT ![i] = <<v[2][i][1], None>>]>> : i \in DOMAIN v[2]}

(* What is read from a form reads back from every other form of it.        *)
ReadsBack(t, v) ==
  /\ v = None \/ \A mode \in {"wire", "authored"} : Same(DecodeAs(t, ToWire(v), mode), v)
  /\ v[1] \in {"timestamp", "enum"} => Stored(Encode(v)) = v
  /\ Same(Stored(Encode(v)), v)
  /\ t[1] = "struct" =>
       \A row \in RowsAround(v) : HoldsNull(row) \/ Same(Restored(t, Captured(row)), row)
=============================================================================
