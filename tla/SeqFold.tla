------------------------------ MODULE SeqFold ------------------------------
(***************************************************************************)
(* The left fold of a sequence by a three-argument step: the shape of      *)
(* every `for op in ops { apply(&mut state, op, context)? }` loop of the   *)
(* store.  Step(acc, x, c) is the loop body, c the loop's fixed context    *)
(* (the commit's admission instant, or the frontier of a replay).          *)
(* Written as a recursive function, so that the theorems of SeqFoldProofs  *)
(* hold for every instance.                                                *)
(***************************************************************************)
EXTENDS Integers, Sequences

CONSTANT Step(_, _, _)

Fold(base, xs, c) ==
  LET acc[i \in 0..Len(xs)] ==
        IF i = 0 THEN base ELSE Step(acc[i-1], xs[i], c)
  IN  acc[Len(xs)]
=============================================================================
