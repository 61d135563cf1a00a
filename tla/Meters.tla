------------------------------- MODULE Meters -------------------------------
(***************************************************************************)
(* Meters of liasse-runtime (meter/admit.rs, meter/resolve.rs,             *)
(* meter/accessor.rs): spends under an account are funded from the pools   *)
(* of the account and of the company above it, and the allocation is       *)
(* frozen on the spend.                                                    *)
(*                                                                         *)
(* One company, the level Company, holds accounts that hold spends; pools  *)
(* sit under the company and under accounts.  A funding entry names its    *)
(* pool by level, key and the incarnation the index of committed rows      *)
(* gives it.  That index is keyed by the chain of keys alone               *)
(* (materialize::row_id_of), so a row of any other collection under the    *)
(* same parent with the pool's key, a twin, makes the entry ambiguous.     *)
(*                                                                         *)
(* A call is a few statements on a working copy and a finish; `row` in a   *)
(* pool and in an entry is a ghost, the row the money is really of.        *)
(***************************************************************************)
EXTENDS Integers, Sequences, FiniteSets, FiniteSetsExt
LOCAL INSTANCE SequencesExt

CONSTANTS Company, Account, PoolKey, SpendKey, None,
          TwinKey,             \* keys a pool may share with a row of another collection
          Quantity,            \* projected capacities a pool is written with
          SeedQuantity(_),     \* capacity of a seeded pool of this key, or 0 for none
          Amount, Time,        \* of a spend
          Until(_),            \* when the pools of this key stop being active
          MaxCalls, MaxStatements

VARIABLES pools,      \* <<level, key>> -> None or [inc, quantity, row]
          spends,     \* <<account, key>> -> None or [amount, time, funding]
          twins,      \* rows of other collections, by parent and key
          accounts,   \* the live accounts
          work,       \* the working copy of the call that runs, or None
          serial,     \* rows created so far
          calls

state == [pools |-> pools, spends |-> spends, twins |-> twins, accounts |-> accounts]
vars == <<pools, spends, twins, accounts, work, serial, calls>>

Level == {Company} \cup Account
PoolAddress == Level \X PoolKey
SpendAddress == Account \X SpendKey

Live(rows) == {x \in DOMAIN rows : rows[x] # None}
Pick(rows, values(_)) == [x \in DOMAIN rows |-> values(x)]

(* The genesis seeds the pools of the company and of one account *)
SeedPool(p) == [inc |-> <<0, 0, p>>, quantity |-> SeedQuantity(p[2]), row |-> <<0, p>>]

Init ==
  /\ \E a \in Account :
       /\ accounts = {a}
       /\ pools = [p \in PoolAddress |-> IF p[1] \in {Company, a} /\ SeedQuantity(p[2]) > 0
                                       THEN SeedPool(p) ELSE None]
  /\ spends = [s \in SpendAddress |-> None]
  /\ twins = {}
  /\ work = None /\ serial = 0 /\ calls = 0

----------------------------------------------------------------------------
(* Pools as a spend sees them                                              *)

(* Prospective::incarnation_index: committed rows only; a twin makes the   *)
(* identity ambiguous                                                      *)
IncarnationOf(p) == IF p \in twins \/ pools[p] = None THEN None ELSE pools[p].inc

(* What the spends hold of a pool, named by its incarnation or by the ghost *)
Held(copy, level, key, inc, of) ==
  LET entries(s) == {e \in copy.spends[s].funding :
                       e.level = level /\ e.pool = key /\ e[of] = inc} IN
  MapThenSumSet(LAMBDA s : MapThenSumSet(LAMBDA e : e.amount, entries(s)), Live(copy.spends))

(* A mutant: the allocations of the committed state, not the prospective   *)
AllocatedAtGather(copy, p) == Held(state, p[1], p[2], IncarnationOf(p), "inc")

(* allocated: what extant spends of the working copy hold of a pool        *)
Allocated(copy, p) == Held(copy, p[1], p[2], IncarnationOf(p), "inc")

(* resolve_pools and sort_pools: the active pools, by $until and key       *)
Before(p, q) == Until(p[2]) < Until(q[2]) \/ (Until(p[2]) = Until(q[2]) /\ p[2] < q[2])
Resolved(copy, level, time) ==
  SetToSortSeq({p \in Live(copy.pools) : p[1] = level /\ time < Until(p[2])}, Before)

(* drain: in order, what is left of each pool, until nothing is needed     *)
Drain(copy, level, time, amount) ==
  LET take(p, plan) ==
        LET left == copy.pools[p].quantity - Allocated(copy, p)
            part == IF left < plan.needed THEN left ELSE plan.needed IN
        IF plan.needed = 0 \/ left <= 0 THEN plan
        ELSE [needed |-> plan.needed - part,
              entries |-> plan.entries \cup
                {[level |-> level, pool |-> p[2], inc |-> IncarnationOf(p),
                  amount |-> part, row |-> copy.pools[p].row]}] IN
  FoldRight(take, Reverse(Resolved(copy, level, time)), [needed |-> amount, entries |-> {}])

(* reachable_levels: every ancestor row that declares the meter            *)
Reachable(s) == {s[1], Company}

(* fund_spend first gives back what the spend held                         *)
Released(copy, s) == [copy EXCEPT !.spends[s].funding = {}]

(* fund_spend and fund_consume: drains every level.  A marked spend that   *)
(* is gone by now is put back empty, and fails for it                      *)
FundSpend(copy, s) ==
  IF copy.spends[s] = None THEN None
  ELSE LET released == Released(copy, s)
           spend == copy.spends[s]
           plan == [l \in Reachable(s) |-> Drain(released, l, spend.time, spend.amount)]
       IN IF \E l \in Reachable(s) : plan[l].needed > 0 THEN None
          ELSE [released EXCEPT !.spends[s].funding =
                                  @ \cup UNION {plan[l].entries : l \in Reachable(s)}]

(* enforce_pool_quantities: every pool active now projects at least zero   *)
QuantitiesFit(copy) == \A p \in Live(copy.pools) : 0 < Until(p[2]) => copy.pools[p].quantity >= 0

(* enforce: the working copy with every marked spend funded in the order   *)
(* the spends were marked, or None                                         *)
Enforced(copy, touched) ==
  LET fund(s, funded) == IF funded = None THEN None ELSE FundSpend(funded, s) IN
  IF ~QuantitiesFit(copy) THEN None ELSE FoldRight(fund, Reverse(touched), copy)

----------------------------------------------------------------------------
(* The statements of a call                                                *)
Begin ==
  /\ work = None /\ calls < MaxCalls
  /\ work' = [rows |-> state, touched |-> <<>>, statements |-> 0]
  /\ calls' = calls + 1
  /\ UNCHANGED <<pools, spends, twins, accounts, serial>>

Mark(touched, s) == IF s \in Range(touched) THEN touched ELSE Append(touched, s)

Stage(rows, touched) ==
  /\ work.statements < MaxStatements
  /\ work' = [rows |-> rows, touched |-> touched, statements |-> work.statements + 1]
  /\ UNCHANGED <<pools, spends, twins, accounts, calls>>

LevelIsLive(l) == l = Company \/ l \in work.rows.accounts

InsertPool(p, q) ==
  /\ work # None /\ LevelIsLive(p[1]) /\ work.rows.pools[p] = None
  /\ Stage([work.rows EXCEPT !.pools[p] = [inc |-> None, quantity |-> q, row |-> <<serial + 1, p>>]],
           work.touched)
  /\ serial' = serial + 1

ChangePool(p, q) ==
  /\ work # None /\ work.rows.pools[p] # None
  /\ Stage([work.rows EXCEPT !.pools[p].quantity = q], work.touched)
  /\ UNCHANGED serial

DeletePool(p) ==
  /\ work # None /\ work.rows.pools[p] # None
  /\ Stage([work.rows EXCEPT !.pools[p] = None], work.touched)
  /\ UNCHANGED serial

FlipTwin(p) ==
  /\ work # None /\ LevelIsLive(p[1]) /\ p[2] \in TwinKey
  /\ Stage([work.rows EXCEPT !.twins = SymDiff(@, {p})], work.touched)
  /\ UNCHANGED serial

(* An insert, or a write of the amount or the time of a spend              *)
WriteSpend(s, amount, time) ==
  /\ work # None /\ s[1] \in work.rows.accounts
  /\ Stage([work.rows EXCEPT !.spends[s] =
              [amount |-> amount, time |-> time,
               funding |-> IF @ = None THEN {} ELSE @.funding]],
           Mark(work.touched, s))
  /\ UNCHANGED serial

DeleteSpend(s) ==
  /\ work # None /\ work.rows.spends[s] # None
  /\ Stage([work.rows EXCEPT !.spends[s] = None], work.touched)
  /\ UNCHANGED serial

(* place: the account moves with everything under it, and every row moved  *)
(* is marked at its new address                                            *)
Moved(a, b, rows) ==
  [x \in DOMAIN rows |-> IF x[1] = b THEN rows[<<a, x[2]>>] ELSE IF x[1] = a THEN None ELSE rows[x]]

RenameAccount(a, b) ==
  /\ work # None /\ a \in work.rows.accounts /\ b \notin work.rows.accounts
  /\ LET moved == [s \in {s \in Live(work.rows.spends) : s[1] = a} |-> <<b, s[2]>>]
         order == SetToSortSeq(Range(moved), LAMBDA s, t : s[2] < t[2]) IN
     Stage([pools |-> Moved(a, b, work.rows.pools), spends |-> Moved(a, b, work.rows.spends),
            twins |-> {IF p[1] = a THEN <<b, p[2]>> ELSE p : p \in work.rows.twins},
            accounts |-> (work.rows.accounts \ {a}) \cup {b}],
           FoldLeft(Mark, work.touched, order))
  /\ UNCHANGED serial

(* diff and stage: a pool keeps its incarnation at the address it had, and *)
(* has a fresh one where no row was                                        *)
Admitted(rows) ==
  Pick(rows, LAMBDA p : IF rows[p] = None THEN None
                        ELSE [rows[p] EXCEPT !.inc = IF pools[p] # None THEN pools[p].inc
                                                     ELSE <<calls, serial, p>>])

Finish ==
  /\ work # None
  /\ LET funded == Enforced(work.rows, work.touched) IN
     IF funded = None THEN UNCHANGED <<pools, spends, twins, accounts>>
     ELSE /\ pools' = Admitted(funded.pools)
          /\ spends' = funded.spends /\ twins' = funded.twins /\ accounts' = funded.accounts
  /\ work' = None
  /\ UNCHANGED <<serial, calls>>

Next ==
  \/ Begin
  \/ \E p \in PoolAddress, q \in Quantity : InsertPool(p, q)
  \/ \E p \in PoolAddress, q \in Quantity : ChangePool(p, q)
  \/ \E p \in PoolAddress : DeletePool(p)
  \/ \E p \in PoolAddress : FlipTwin(p)
  \/ \E s \in SpendAddress, amount \in Amount, time \in Time : WriteSpend(s, amount, time)
  \/ \E s \in SpendAddress : DeleteSpend(s)
  \/ \E a, b \in Account : RenameAccount(a, b)
  \/ Finish

Spec == Init /\ [][Next]_vars

----------------------------------------------------------------------------
(* Properties                                                              *)

(* admit.rs: whatever was written, moved, released or drained, an extant   *)
(* spend is funded at every level above it, for exactly its amount, and at *)
(* no other level.                                                         *)
EverySpendIsFunded ==
  \A s \in Live(spends) :
    LET spend == spends[s]
        at(l) == MapThenSumSet(LAMBDA e : e.amount, {e \in spend.funding : e.level = l}) IN
    \A l \in Level : at(l) = IF l \in Reachable(s) THEN spend.amount ELSE 0

(* admit.rs drain: two spends of one call, or a spend and its own older    *)
(* allocation, never share capacity: what is held of a pool by its         *)
(* incarnation grows only up to the capacity the pool then has.            *)
DrainsNoPoolTwice ==
  \A p \in Live(pools') :
    LET held == Held(state, p[1], p[2], pools'[p].inc, "inc")
        heldNow == Held(state', p[1], p[2], pools'[p].inc, "inc") IN
    heldNow > held => heldNow <= pools'[p].quantity

(* A call leaves every spend funded, and from capacity that was there      *)
(* (admit.rs enforce); there is no spend before the first call.            *)
SpendsAreFundedOnce == [][EverySpendIsFunded' /\ DrainsNoPoolTwice]_vars

(* meter/admit.rs: "Balance is always the current pool quantity minus the  *)
(* allocations held by the extant spend rows."  What the accessor still    *)
(* offers of a pool is what the spends funded from that very row left.     *)
Remaining(q, held) == IF q - held < 0 THEN 0 ELSE q - held
BalanceIsTheRemainder ==
  \A p \in Live(pools) :
    Remaining(pools[p].quantity, Allocated(state, p)) =
    Remaining(pools[p].quantity, Held(state, p[1], p[2], pools[p].row, "row"))
=============================================================================
