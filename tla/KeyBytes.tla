------------------------------ MODULE KeyBytes ------------------------------
(***************************************************************************)
(* The keys of liasse-pg as bytes: PostgreSQL orders rows by comparing     *)
(* them, so the order of the bytes has to be the order of the values, in a *)
(* descending component of a $sort too.  Signed numbers of a fixed width   *)
(* are two bytes here, whatever they are in the code.                      *)
(***************************************************************************)
EXTENDS Values, Folds

Complement(bytes) == [i \in DOMAIN bytes |-> 255 - bytes[i]]
SeqItem == <<1>>
SeqStop == <<0>>

(* A number in so many bytes, the most significant first.                  *)
BigEndian(n, width) ==
  [i \in 1..width |-> IF width - i > 3 THEN 0 ELSE (n \div 256^(width - i)) % 256]
Magnitude(n) == LET a == IF n < 0 THEN -n ELSE n
                IN BigEndian(a, Min({w \in 0..3 : a < 256^w}))
OffsetBinary(n) == BigEndian(n + 2^15, 2)

(* The sign, then the length and the magnitude: a shorter number is a      *)
(* smaller one, and what is below zero is complemented.                    *)
WriteLenMag(n) == BigEndian(Len(Magnitude(n)), 4) \o Magnitude(n)
WriteInt(n) ==
  CASE n = 0 -> <<1>>
    [] n > 0 -> <<2>> \o WriteLenMag(n)
    [] n < 0 -> <<0>> \o Complement(WriteLenMag(n))

(* A zero byte is followed by 255, the end is two zeros.                   *)
PutEscaped(bytes) ==
  FlattenSeq([i \in DOMAIN bytes |-> IF bytes[i] = 0 THEN <<0, 255>> ELSE <<bytes[i]>>]) \o <<0, 0>>

-----------------------------------------------------------------------------
(* A decimal as 0.significand times a power of ten.                        *)
Digits(n) == LET count == Min({w \in 1..9 : n < 10^w})
             IN [i \in 1..count |-> 48 + ((n \div 10^(count - i)) % 10)]
Significand(digits) ==
  SubSeq(digits, 1, Max({i \in DOMAIN digits : digits[i] # 48}))

PutNumber(mantissa, scale) ==
  LET digits == Digits(IF mantissa < 0 THEN -mantissa ELSE mantissa)
      body == WriteInt(Len(digits) - scale) \o Significand(digits) \o <<0>>
  IN CASE mantissa = 0 -> <<1>>
       [] mantissa > 0 -> <<2>> \o body
       [] mantissa < 0 -> <<0>> \o Complement(body)

(* Item after item, each behind a 1, and a 0 at the end.                   *)
PutSeq(encoded) == FlattenSeq([i \in DOMAIN encoded |-> SeqItem \o encoded[i]]) \o SeqStop
PutMaybe(v) == IF v = None THEN <<1>> ELSE <<0>> \o PutEscaped(v[2])

RECURSIVE PutJson(_)
PutJson(j) ==
  <<JsonRank(j)>> \o
  CASE j[1] = "null" -> <<>>
    [] j[1] = "bool" -> <<IF j[2] THEN 1 ELSE 0>>
    [] j[1] = "decimal" -> PutNumber(j[2], j[3])
    [] j[1] = "text" -> PutEscaped(j[2])
    [] j[1] = "array" -> PutSeq([i \in DOMAIN j[2] |-> PutJson(j[2][i])])
    [] j[1] = "object" -> PutSeq([i \in DOMAIN j[2] |-> PutEscaped(j[2][i][1]) \o PutJson(j[2][i][2])])

RECURSIVE Put(_)
Put(v) ==
  LET each(vs) == [i \in DOMAIN vs |-> Put(vs[i])]
  IN <<Rank(v)>> \o
     CASE v[1] = "bool" -> <<IF v[2] THEN 1 ELSE 0>>
       [] v[1] = "int" -> WriteInt(v[2])
       [] v[1] = "decimal" -> PutNumber(v[2], v[3])
       [] v[1] \in {"text", "bytes"} -> PutEscaped(v[2])
       [] v[1] = "uuid" -> v[2]
       [] v[1] = "date" -> OffsetBinary(v[2]) \o <<v[3], v[4]>>
       [] v[1] = "timestamp" -> LET s == SecondsAndSubnanos(v)
                                IN OffsetBinary(s[1]) \o BigEndian(s[2], 4)
       [] v[1] = "duration" -> OffsetBinary(v[2])
       [] v[1] = "fixed" -> <<0>> \o OffsetBinary(v[2])
       [] v[1] = "calendar" -> <<1>> \o FlattenSeq([i \in DOMAIN v[2] |-> OffsetBinary(v[2][i])])
                                 \o PutMaybe(v[3]) \o v[4]
       [] v[1] = "enum" -> BigEndian(v[2], 4) \o PutEscaped(v[3])
       [] v[1] = "ref" -> <<0>> \o Put(v[2])
       [] v[1] = "refs" -> <<1>> \o PutSeq(each(v[2]))
       [] v[1] = "json" -> PutJson(v[2])
       [] v[1] = "blob" -> v[2] \o BigEndian(v[3], 8) \o PutEscaped(v[4]) \o PutMaybe(v[5])
       [] v[1] = "struct" -> PutSeq([i \in DOMAIN v[2] |-> PutEscaped(v[2][i][1]) \o Put(v[2][i][2])])
       [] v[1] = "set" -> PutSeq(each(Sorted(v[2])))
       [] v[1] = "map" -> LET keys == Sorted(DOMAIN v[2])
                          IN PutSeq([i \in DOMAIN keys |-> Put(keys[i]) \o Put(v[2][keys[i]])])
       [] v[1] = "composite" -> PutSeq(each(v[2]))
       [] v[1] = "none" -> <<>>

-----------------------------------------------------------------------------
(* Equal decimals and equal timestamps have one spelling in a key.         *)

RECURSIVE Normalized(_, _)
Normalized(mantissa, scale) ==
  IF mantissa = 0 THEN <<"decimal", 0, 0>>
  ELSE IF mantissa % 10 = 0 THEN Normalized(mantissa \div 10, scale - 1)
  ELSE <<"decimal", mantissa, scale>>

RECURSIVE CanonicalTimestamp(_, _)
CanonicalTimestamp(count, ticks) ==
  IF ticks > 1 /\ count % 1000 = 0 THEN CanonicalTimestamp(count \div 1000, ticks \div 1000)
  ELSE <<"timestamp", count, ticks>>

RECURSIVE CanonicalKey(_)
CanonicalKey(v) ==
  LET each(vs) == [i \in DOMAIN vs |-> CanonicalKey(vs[i])]
  IN CASE v[1] = "decimal" -> Normalized(v[2], v[3])
       [] v[1] = "timestamp" -> CanonicalTimestamp(v[2], v[3])
       [] v[1] = "ref" -> <<"ref", CanonicalKey(v[2])>>
       [] v[1] \in {"refs", "composite"} -> <<v[1], each(v[2])>>
       [] v[1] = "struct" -> <<"struct", [i \in DOMAIN v[2] |-> <<v[2][i][1], CanonicalKey(v[2][i][2])>>]>>
       [] v[1] = "set" -> <<"set", {CanonicalKey(m) : m \in v[2]}>>
       [] v[1] = "map" -> <<"map", [k \in {CanonicalKey(m) : m \in DOMAIN v[2]} |->
                              CanonicalKey(v[2][CHOOSE m \in DOMAIN v[2] : CanonicalKey(m) = k])]>>
       [] OTHER -> v

EncodeValue(v) == Put(CanonicalKey(v))
EncodeKeyValue(key) == FlattenSeq([i \in DOMAIN key |-> EncodeValue(key[i])])

(* A mutant: the rank of a descending component keeps its order.           *)
EncodeSortKeyPastRank(v, descending) ==
  LET unit == EncodeValue(v)
  IN IF descending THEN <<Head(unit)>> \o Complement(Tail(unit)) ELSE unit

EncodeSortKey(v, descending) ==
  IF descending THEN Complement(EncodeValue(v)) ELSE EncodeValue(v)
EncodeSortTuple(tuple, descending) ==
  FlattenSeq([i \in DOMAIN tuple |-> EncodeSortKey(tuple[i], descending[i])])

-----------------------------------------------------------------------------
(* The order the bytes stand for: component by component, each in its      *)
(* direction.                                                              *)
TupleBefore(s, t, descending) ==
  \E i \in DOMAIN s :
    /\ \A j \in 1..(i - 1) : Same(s[j], t[j])
    /\ IF descending[i] THEN Before(t[i], s[i]) ELSE Before(s[i], t[i])

OrderIsPreserved(s, t, descending) ==
  LET a == EncodeSortTuple(s, descending)
      b == EncodeSortTuple(t, descending)
  IN /\ BytesBefore(a, b) <=> TupleBefore(s, t, descending)
     /\ BytesBefore(b, a) <=> TupleBefore(t, s, descending)
     /\ a = b <=> \A i \in DOMAIN s : Same(s[i], t[i])
=============================================================================
