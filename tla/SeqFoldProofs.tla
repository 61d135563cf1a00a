--------------------------- MODULE SeqFoldProofs ---------------------------
(***************************************************************************)
(* What SeqFold!Fold computes, for every step operator and every sequence. *)
(* The recursive function behind Fold exists and is unique by induction on *)
(* the naturals, which is available here only in its set form: a           *)
(* non-empty set of naturals has a least element (WFMin).  The theorems    *)
(* the other modules cite are stated with quantifiers, so that they can be *)
(* used from an INSTANCE.                                                  *)
(***************************************************************************)
EXTENDS SeqFold, TLAPS, WellFoundedInduction

Below == {p \in Nat \X Nat : p[1] < p[2]}

\* The less-than relation of the naturals is well founded.
LEMMA BelowIsWellFounded == IsWellFoundedOn(Below, Nat)
<1>1. OpToRel(<, Nat) = Below
  BY DEF OpToRel, Below
<1> QED
  BY <1>1, NatLessThanWellFounded

\* A set with 0 that is closed under successor contains every natural number.
LEMMA SetInduction ==
  ASSUME NEW S, 0 \in S, \A n \in Nat : n \in S => n + 1 \in S
  PROVE  Nat \subseteq S
<1> DEFINE T == Nat \ S
<1> SUFFICES ASSUME T # {} PROVE FALSE
  OBVIOUS
<1>1. PICK x \in T : \A y \in T : <<y, x>> \notin Below
  <2>1. T \subseteq Nat
    OBVIOUS
  <2> HIDE DEF T
  <2> QED BY <2>1, BelowIsWellFounded, WFMin
<1>2. x \in Nat /\ x # 0 /\ x - 1 \in Nat
  OBVIOUS
<1>3. x - 1 \in S
  <2>1. <<x - 1, x>> \in Below
    BY <1>2 DEF Below
  <2> QED BY <2>1, <1>1, <1>2
<1>4. (x - 1) + 1 \in S
  BY <1>2, <1>3
<1> QED
  BY <1>2, <1>4

\* The same for use from an INSTANCE.
THEOREM NatSetInduction ==
  \A S : 0 \in S /\ (\A n \in Nat : n \in S => n + 1 \in S) => Nat \subseteq S
BY SetInduction

\* f lists the accumulators of the first n iterations of the loop.
IsTrace(f, base, xs, c, n) ==
  f = [i \in 0..n |-> IF i = 0 THEN base ELSE Step(f[i-1], xs[i], c)]

\* The loop can always be run for n iterations.
LEMMA TraceExists ==
  ASSUME NEW base, NEW xs, NEW c
  PROVE  \A n \in Nat : \E f : IsTrace(f, base, xs, c, n)
<1> DEFINE S == {n \in Nat : \E f : IsTrace(f, base, xs, c, n)}
<1>1. 0 \in S
  <2>1. IsTrace([i \in 0..0 |-> base], base, xs, c, 0)
    BY DEF IsTrace
  <2> QED BY <2>1
<1>2. ASSUME NEW n \in Nat, n \in S PROVE n + 1 \in S
  <2>1. PICK f : IsTrace(f, base, xs, c, n)
    BY <1>2
  <2> DEFINE g == [i \in 0..(n+1) |-> IF i = n+1 THEN Step(f[n], xs[n+1], c) ELSE f[i]]
  <2>2. ASSUME NEW i \in 0..(n+1)
        PROVE  g[i] = IF i = 0 THEN base ELSE Step(g[i-1], xs[i], c)
    <3>1. CASE i = n+1
      BY <3>1
    <3>2. CASE i # n+1
      <4>1. i \in 0..n /\ (i # 0 => i-1 \in 0..n)
        BY <3>2
      <4>2. f[i] = IF i = 0 THEN base ELSE Step(f[i-1], xs[i], c)
        BY <2>1, <4>1 DEF IsTrace
      <4> QED BY <4>1, <4>2, <3>2
    <3> QED BY <3>1, <3>2
  <2>3. IsTrace(g, base, xs, c, n+1)
    BY <2>2 DEF IsTrace
  <2> HIDE DEF g
  <2> QED BY <2>3
<1> HIDE DEF S
<1>3. Nat \subseteq S
  BY <1>1, <1>2, SetInduction
<1> QED
  BY <1>3 DEF S

\* Two runs of the loop agree as far as the shorter one goes.
LEMMA TraceUnique ==
  ASSUME NEW base, NEW xs, NEW c, NEW m \in Nat, NEW n \in Nat, m <= n,
         NEW f, IsTrace(f, base, xs, c, m), NEW g, IsTrace(g, base, xs, c, n)
  PROVE  \A i \in 0..m : f[i] = g[i]
<1> DEFINE S == {i \in Nat : i <= m => f[i] = g[i]}
<1>1. 0 \in S
  BY DEF IsTrace
<1>2. ASSUME NEW i \in Nat, i \in S PROVE i + 1 \in S
  <2> SUFFICES ASSUME i + 1 <= m PROVE f[i+1] = g[i+1]
    OBVIOUS
  <2>1. f[i+1] = Step(f[i], xs[i+1], c) /\ g[i+1] = Step(g[i], xs[i+1], c)
    BY DEF IsTrace
  <2> QED BY <1>2, <2>1
<1> HIDE DEF S
<1>3. Nat \subseteq S
  BY <1>1, <1>2, SetInduction
<1> QED
  BY <1>3 DEF S

\* The fold is the last accumulator of any run of the loop over the sequence.
LEMMA FoldIsTrace ==
  ASSUME NEW base, NEW xs, NEW c, Len(xs) \in Nat,
         NEW f, IsTrace(f, base, xs, c, Len(xs))
  PROVE  Fold(base, xs, c) = f[Len(xs)]
<1> DEFINE h == CHOOSE h : IsTrace(h, base, xs, c, Len(xs))
<1>1. IsTrace(h, base, xs, c, Len(xs))
  OBVIOUS
<1>2. Fold(base, xs, c) = h[Len(xs)]
  BY DEF Fold, IsTrace
<1> HIDE DEF h
<1> QED
  BY <1>1, <1>2, TraceUnique

\* A loop over nothing returns its base.
THEOREM FoldEmpty == \A base, c : Fold(base, << >>, c) = base
<1> SUFFICES ASSUME NEW base, NEW c PROVE Fold(base, << >>, c) = base
  OBVIOUS
<1>1. PICK f : IsTrace(f, base, << >>, c, 0)
  BY TraceExists
<1>2. f[0] = base
  BY <1>1 DEF IsTrace
<1> QED
  BY <1>1, <1>2, FoldIsTrace

\* One more element is one more iteration.
THEOREM FoldAppend ==
  \A T, base, c : \A xs \in Seq(T), x \in T :
    Fold(base, Append(xs, x), c) = Step(Fold(base, xs, c), x, c)
<1> SUFFICES ASSUME NEW T, NEW base, NEW c, NEW xs \in Seq(T), NEW x \in T
             PROVE  Fold(base, Append(xs, x), c) = Step(Fold(base, xs, c), x, c)
  OBVIOUS
<1>1. PICK n \in Nat : n = Len(xs)
  OBVIOUS
<1>2. PICK ys : ys = Append(xs, x)
  OBVIOUS
<1>3. Len(ys) = n+1 /\ ys[n+1] = x /\ \A i \in 1..n : ys[i] = xs[i]
  BY <1>1, <1>2
<1>4. PICK f : IsTrace(f, base, ys, c, n+1)
  <2>1. n+1 \in Nat
    OBVIOUS
  <2> QED BY <2>1, TraceExists
<1>5. PICK g : IsTrace(g, base, xs, c, n)
  BY TraceExists
<1>6. IsTrace(g, base, ys, c, n)
  <2>1. ASSUME NEW i \in 0..n
        PROVE  (IF i = 0 THEN base ELSE Step(g[i-1], xs[i], c))
                 = (IF i = 0 THEN base ELSE Step(g[i-1], ys[i], c))
    BY <1>3
  <2> QED BY <1>5, <2>1 DEF IsTrace
<1>7. f[n] = g[n]
  <2>1. n+1 \in Nat /\ n <= n+1
    OBVIOUS
  <2>2. \A i \in 0..n : g[i] = f[i]
    BY <2>1, <1>4, <1>6, TraceUnique
  <2> QED BY <2>2
<1>8. f[n+1] = Step(f[n], ys[n+1], c)
  BY <1>4 DEF IsTrace
<1>9. Fold(base, xs, c) = g[n]
  BY <1>1, <1>5, FoldIsTrace
<1>10. Fold(base, ys, c) = f[n+1]
  <2>1. Len(ys) \in Nat /\ IsTrace(f, base, ys, c, Len(ys))
    BY <1>3, <1>4
  <2>2. Fold(base, ys, c) = f[Len(ys)]
    BY <2>1, FoldIsTrace
  <2> QED BY <2>2, <1>3
<1> QED
  BY <1>2, <1>3, <1>7, <1>8, <1>9, <1>10

\* Two contexts that no element of the sequence tells apart give the same fold.
THEOREM FoldSameContext ==
  \A T, base, c, d : \A xs \in Seq(T) :
    (\A i \in 1..Len(xs) : \A acc : Step(acc, xs[i], c) = Step(acc, xs[i], d))
      => Fold(base, xs, c) = Fold(base, xs, d)
<1> SUFFICES ASSUME NEW T, NEW base, NEW c, NEW d, NEW xs \in Seq(T),
                    \A i \in 1..Len(xs) : \A acc : Step(acc, xs[i], c) = Step(acc, xs[i], d)
             PROVE  Fold(base, xs, c) = Fold(base, xs, d)
  OBVIOUS
<1>1. PICK n \in Nat : n = Len(xs)
  OBVIOUS
<1>2. PICK f : IsTrace(f, base, xs, c, n)
  BY TraceExists
<1>3. IsTrace(f, base, xs, d, n)
  <2>1. ASSUME NEW i \in 0..n
        PROVE  (IF i = 0 THEN base ELSE Step(f[i-1], xs[i], c))
                 = (IF i = 0 THEN base ELSE Step(f[i-1], xs[i], d))
    BY <1>1
  <2> QED BY <1>2, <2>1 DEF IsTrace
<1>4. Fold(base, xs, c) = f[n]
  BY <1>1, <1>2, FoldIsTrace
<1>5. Fold(base, xs, d) = f[n]
  BY <1>1, <1>3, FoldIsTrace
<1> QED
  BY <1>4, <1>5

\* What every iteration keeps, the loop keeps.
THEOREM FoldKeeps ==
  \A T, G, base, c : \A xs \in Seq(T) :
    base \in G /\ (\A acc \in G, x \in T : Step(acc, x, c) \in G) => Fold(base, xs, c) \in G
<1> SUFFICES ASSUME NEW T, NEW G, NEW base, NEW c, NEW xs \in Seq(T),
                    base \in G, \A acc \in G, x \in T : Step(acc, x, c) \in G
             PROVE  Fold(base, xs, c) \in G
  OBVIOUS
<1>1. PICK n \in Nat : n = Len(xs)
  OBVIOUS
<1>2. PICK f : IsTrace(f, base, xs, c, n)
  BY TraceExists
<1> DEFINE S == {i \in Nat : i <= n => f[i] \in G}
<1>3. 0 \in S
  BY <1>2 DEF IsTrace
<1>4. ASSUME NEW i \in Nat, i \in S PROVE i + 1 \in S
  <2> SUFFICES ASSUME i + 1 <= n PROVE f[i+1] \in G
    OBVIOUS
  <2>1. f[i+1] = Step(f[i], xs[i+1], c)
    BY <1>2 DEF IsTrace
  <2>2. f[i] \in G /\ xs[i+1] \in T
    BY <1>1, <1>4
  <2> QED
    BY <2>1, <2>2
<1> HIDE DEF S
<1>5. Nat \subseteq S
  BY <1>3, <1>4, SetInduction
<1>6. f[n] \in G
  <2>1. n \in S /\ n <= n
    BY <1>5
  <2> QED
    BY <2>1 DEF S
<1>7. Fold(base, xs, c) = f[n]
  BY <1>1, <1>2, FoldIsTrace
<1> QED
  BY <1>6, <1>7
=============================================================================
