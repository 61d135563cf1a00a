-------------------------- MODULE StoreRowsProofs --------------------------
(***************************************************************************)
(* Lemmas about the operators every store backend shares: the fold of a    *)
(* transition's operations, the replay of a log, and the tokens that the   *)
(* inserts of a transition hold.                                           *)
(***************************************************************************)
EXTENDS StoreRows, TLAPS

OpsP == INSTANCE SeqFoldProofs WITH Step <- SnapshotApply
LogP == INSTANCE SeqFoldProofs WITH Step <- ReplayTransition

\* The folds of the specification are the ones the theorems are about.
LEMMA SameFolds ==
  /\ \A r, o, c : Ops!Fold(r, o, c) = OpsP!Fold(r, o, c)
  /\ \A r, o, c : Log!Fold(r, o, c) = LogP!Fold(r, o, c)
BY DEF Ops!Fold, OpsP!Fold, Log!Fold, LogP!Fold

\* Unfolding one operation of a replayed transition.
LEMMA OpsAppend ==
  ASSUME NEW rows, NEW c, NEW xs \in Seq(RowOp), NEW x \in RowOp
  PROVE  Ops!Fold(rows, Append(xs, x), c) = SnapshotApply(Ops!Fold(rows, xs, c), x, c)
<1>1. OpsP!Fold(rows, Append(xs, x), c) = SnapshotApply(OpsP!Fold(rows, xs, c), x, c)
  BY OpsP!FoldAppend
<1> QED
  BY <1>1, SameFolds

\* Unfolding the last transition of a replay.
LEMMA ReplayAppend ==
  ASSUME NEW f, NEW xs \in Seq(CommittedTransition), NEW x \in CommittedTransition
  PROVE  Replay(Append(xs, x), f) = ReplayTransition(Replay(xs, f), x, f)
<1>1. LogP!Fold(EmptyRows, Append(xs, x), f)
        = ReplayTransition(LogP!Fold(EmptyRows, xs, f), x, f)
  BY LogP!FoldAppend
<1> QED
  BY <1>1, SameFolds DEF Replay

\* Empty loops.
LEMMA EmptyFolds ==
  /\ \A rows, c : Ops!Fold(rows, << >>, c) = rows
  /\ \A f : Replay(<< >>, f) = EmptyRows
BY SameFolds, OpsP!FoldEmpty, LogP!FoldEmpty DEF Replay

\* A record at the next position of a gapless log replays over all those before it.
LEMMA ReplayNext ==
  ASSUME NEW xs \in Seq(CommittedTransition), \A i \in 1..Len(xs) : xs[i].seq = i,
         NEW x \in CommittedTransition, x.seq = Len(xs) + 1
  PROVE  Replay(Append(xs, x), Len(xs) + 1) = Ops!Fold(Replay(xs, Len(xs)), x.ops, x.created)
<1>1. \A i \in 1..Len(xs) : \A acc :
        ReplayTransition(acc, xs[i], Len(xs)) = ReplayTransition(acc, xs[i], Len(xs) + 1)
  BY DEF ReplayTransition
<1>2. LogP!Fold(EmptyRows, xs, Len(xs)) = LogP!Fold(EmptyRows, xs, Len(xs) + 1)
  BY <1>1, LogP!FoldSameContext
<1>3. Replay(xs, Len(xs) + 1) = Replay(xs, Len(xs))
  BY <1>2, SameFolds DEF Replay
<1>4. Replay(Append(xs, x), Len(xs) + 1) = ReplayTransition(Replay(xs, Len(xs)), x, Len(xs) + 1)
  BY <1>3, ReplayAppend
<1> QED
  BY <1>4 DEF ReplayTransition
-----------------------------------------------------------------------------
(* Tokens.                                                                 *)

\* The tokens the inserts of a sequence of operations hold.
Tokens(xs) == {xs[i].inc : i \in {j \in DOMAIN xs : xs[j].kind = "insert"}}

\* No two inserts of a sequence hold one token.
Distinct(xs) ==
  \A i, j \in DOMAIN xs :
    xs[i].kind = "insert" /\ xs[j].kind = "insert" /\ xs[i].inc = xs[j].inc => i = j

\* Appending an insert adds its token, appending anything else adds none.
LEMMA TokensAppend ==
  ASSUME NEW xs \in Seq(RowOp), NEW x \in RowOp
  PROVE  Tokens(Append(xs, x))
           = Tokens(xs) \cup (IF x.kind = "insert" THEN {x.inc} ELSE {})
<1> DEFINE ys == Append(xs, x)
<1>1. PICK n \in Nat : n = Len(xs)
  OBVIOUS
<1>2. DOMAIN ys = 1..n+1 /\ DOMAIN xs = 1..n /\ ys[n+1] = x /\ \A i \in 1..n : ys[i] = xs[i]
  BY <1>1
<1> HIDE DEF ys
<1>3. \A inc : inc \in Tokens(ys) <=> \E i \in 1..n+1 : ys[i].kind = "insert" /\ ys[i].inc = inc
  BY <1>2 DEF Tokens
<1>4. \A inc : inc \in Tokens(xs) <=> \E i \in 1..n : xs[i].kind = "insert" /\ xs[i].inc = inc
  BY <1>2 DEF Tokens
<1>5. \A inc : inc \in Tokens(ys) <=> inc \in Tokens(xs) \/ (x.kind = "insert" /\ x.inc = inc)
  BY <1>2, <1>3, <1>4
<1> QED
  BY <1>5 DEF ys

\* An insert with a token none of the others holds keeps them distinct.
LEMMA DistinctAppend ==
  ASSUME NEW xs \in Seq(RowOp), NEW x \in RowOp, Distinct(xs),
         x.kind = "insert" => x.inc \notin Tokens(xs)
  PROVE  Distinct(Append(xs, x))
<1> DEFINE ys == Append(xs, x)
<1>1. PICK n \in Nat : n = Len(xs)
  OBVIOUS
<1>2. DOMAIN ys = 1..n+1 /\ DOMAIN xs = 1..n /\ ys[n+1] = x /\ \A i \in 1..n : ys[i] = xs[i]
  BY <1>1
<1> HIDE DEF ys
<1>3. \A i \in 1..n : x.kind = "insert" /\ xs[i].kind = "insert" => xs[i].inc # x.inc
  BY <1>2 DEF Tokens
<1> SUFFICES ASSUME NEW i \in 1..n+1, NEW j \in 1..n+1,
                    ys[i].kind = "insert", ys[j].kind = "insert", ys[i].inc = ys[j].inc
             PROVE  i = j
  BY <1>2 DEF Distinct, ys
<1>4. CASE i \in 1..n /\ j \in 1..n
  BY <1>2, <1>4 DEF Distinct
<1>5. CASE i = n+1 \/ j = n+1
  BY <1>2, <1>3, <1>5
<1> QED
  BY <1>4, <1>5

\* Tokens are numbers.
LEMMA TokensAreNumbers ==
  ASSUME NEW xs \in Seq(RowOp)
  PROVE  Tokens(xs) \subseteq Nat
<1>1. \A i \in DOMAIN xs : xs[i] \in RowOp
  OBVIOUS
<1>2. \A x \in RowOp : x.inc \in Nat
  BY DEF RowOp
<1> QED
  BY <1>1, <1>2 DEF Tokens

\* The empty transition holds no token.
LEMMA NoTokens == Tokens(<< >>) = {} /\ Distinct(<< >>)
BY DEF Tokens, Distinct
=============================================================================
