------------------------------- MODULE Values -------------------------------
(***************************************************************************)
(* The values of liasse-value and the total order on them: the order of    *)
(* keys, of $sort and of sets.  A value is a tuple whose first element is  *)
(* its kind; text and bytes are sequences of bytes, a decimal is a         *)
(* mantissa and a scale, a timestamp a count of ticks and the ticks in a   *)
(* second, a struct is its fields in order of name.                        *)
(***************************************************************************)
EXTENDS Integers, Sequences, FiniteSets, SequencesExt, FiniteSetsExt

None == <<"none">>
IntVal(n) == <<"int", n>>
BoolVal(b) == <<"bool", b>>
TextVal(s) == <<"text", s>>
Composite(vs) == <<"composite", vs>>

NanosPerSecond == 1000000000

Rank(v) ==
  CASE v[1] = "bool" -> 0 [] v[1] = "int" -> 1 [] v[1] = "decimal" -> 2 [] v[1] = "text" -> 3
    [] v[1] = "bytes" -> 4 [] v[1] = "uuid" -> 5 [] v[1] = "date" -> 6 [] v[1] = "timestamp" -> 7
    [] v[1] = "duration" -> 8 [] v[1] \in {"fixed", "calendar"} -> 9 [] v[1] = "enum" -> 10
    [] v[1] \in {"ref", "refs"} -> 11 [] v[1] = "json" -> 12 [] v[1] = "blob" -> 13
    [] v[1] = "struct" -> 14 [] v[1] = "set" -> 15 [] v[1] = "map" -> 16
    [] v[1] = "composite" -> 17 [] v[1] = "none" -> 255

BytesBefore(s, t) ==
  \/ IsStrictPrefix(s, t)
  \/ \E i \in DOMAIN s \intersect DOMAIN t :
       SubSeq(s, 1, i - 1) = SubSeq(t, 1, i - 1) /\ s[i] < t[i]

(* The seconds and the nanoseconds below them, whatever the precision.     *)
SecondsAndSubnanos(v) ==
  LET count == v[2]
      ticks == v[3]
  IN <<count \div ticks, (count % ticks) * (NanosPerSecond \div ticks)>>

JsonRank(j) ==
  CASE j[1] = "null" -> 0 [] j[1] = "bool" -> 1 [] j[1] = "decimal" -> 2
    [] j[1] = "text" -> 3 [] j[1] = "array" -> 4 [] j[1] = "object" -> 5

(* Field after field, or entry after entry.                                *)
Flattened(pairs) == FlattenSeq([i \in DOMAIN pairs |-> <<TextVal(pairs[i][1]), pairs[i][2]>>])
JsonOf(j) == <<"json", j>>

RECURSIVE Before(_, _)
Same(a, b) == ~Before(a, b) /\ ~Before(b, a)
Sorted(S) ==
  [i \in 1..Cardinality(S) |-> CHOOSE x \in S : Cardinality({y \in S : Before(y, x)}) = i - 1]
MapEntries(m) == LET keys == Sorted(DOMAIN m) IN FlattenSeq([i \in DOMAIN keys |-> <<keys[i], m[keys[i]]>>])

(* The parts a compound value is compared by, first to last.  What may be  *)
(* absent is none there, and none is last.                                 *)
Parts(v) ==
  LET ints(ns) == [i \in DOMAIN ns |-> IntVal(ns[i])]
      json(j) == CASE j[1] = "null" -> <<>>
                   [] j[1] = "array" -> [i \in DOMAIN j[2] |-> JsonOf(j[2][i])]
                   [] j[1] = "object" -> Flattened([i \in DOMAIN j[2] |-> <<j[2][i][1], JsonOf(j[2][i][2])>>])
                   [] OTHER -> <<j>>
  IN CASE v[1] = "date" -> ints(Tail(v))
       [] v[1] = "timestamp" -> ints(SecondsAndSubnanos(v))
       [] v[1] = "fixed" -> ints(<<0, v[2]>>)
       [] v[1] = "calendar" -> ints(<<1>> \o v[2]) \o <<v[3]>> \o ints(v[4])
       [] v[1] = "enum" -> <<IntVal(v[2]), TextVal(v[3])>>
       [] v[1] = "ref" -> <<IntVal(0), v[2]>>
       [] v[1] = "refs" -> <<IntVal(1), Composite(v[2])>>
       [] v[1] = "json" -> <<IntVal(JsonRank(v[2]))>> \o json(v[2])
       [] v[1] = "blob" -> <<TextVal(v[2]), IntVal(v[3]), TextVal(v[4]), v[5]>>
       [] v[1] = "struct" -> Flattened(v[2])
       [] v[1] = "set" -> Sorted(v[2])
       [] v[1] = "map" -> MapEntries(v[2])
       [] v[1] = "composite" -> v[2]

SeqBefore(s, t) ==
  \E i \in 1..Len(t) :
    /\ \A j \in 1..(i - 1) : j \in DOMAIN s /\ Same(s[j], t[j])
    /\ i \in DOMAIN s => Before(s[i], t[i])

Before(a, b) ==
  IF Rank(a) # Rank(b) THEN Rank(a) < Rank(b)
  ELSE CASE a[1] = "none" -> FALSE
         [] a[1] = "bool" -> ~a[2] /\ b[2]
         [] a[1] \in {"int", "duration"} -> a[2] < b[2]
         [] a[1] = "decimal" -> LET scale == Max({a[3], b[3]})
                                IN a[2] * 10^(scale - a[3]) < b[2] * 10^(scale - b[3])
         [] a[1] \in {"text", "bytes", "uuid"} -> BytesBefore(a[2], b[2])
         [] OTHER -> SeqBefore(Parts(a), Parts(b))

(* The key a reference stands for.                                         *)
RECURSIVE IdentityValue(_)
IdentityValue(v) ==
  CASE v[1] = "ref" -> IdentityValue(v[2])
    [] v[1] \in {"refs", "composite"} -> Composite([i \in DOMAIN v[2] |-> IdentityValue(v[2][i])])
    [] OTHER -> v
=============================================================================
