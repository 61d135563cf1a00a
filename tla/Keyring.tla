------------------------------ MODULE Keyring ------------------------------
(***************************************************************************)
(* A managed keyring (liasse-runtime keyring.rs): the life of its key      *)
(* versions, rotation on the engine's virtual clock, and the versions      *)
(* accepted for verification.                                              *)
(*                                                                         *)
(* The clock only moves when the host moves it, so a rotation is late by   *)
(* as much as the host jumps: ensure_current then performs every cutover   *)
(* that was due, each at its own boundary.  The provider serves some of    *)
(* the keys an operation asks for and then fails.                          *)
(***************************************************************************)
EXTENDS Integers, Sequences, FiniteSets, FiniteSetsExt

CONSTANTS Every, Overlap, Retain,   \* the $rotate and $retain policy
          Never,                    \* the instant of what did not happen
          MaxTime, MaxVersions, MaxTokens, MaxAdmin

ASSUME PolicyIsOfDurations == Every \in Int /\ Overlap \in Int /\ Retain \in Int
ASSUME RingBounds == MaxTime \in Nat /\ MaxVersions \in Nat

VARIABLES mode,       \* "automatic" or "manual"
          now,        \* the engine's clock
          versions,   \* the ring's versions, by ordinal
          overdue,    \* a due rotation failed
          tokens,     \* signed tokens: [version, at]
          admin       \* operator commands so far

ringVars == <<mode, now, versions, overdue, tokens, admin>>

InState(vs, s) == {i \in DOMAIN vs : vs[i].state = s}

(***************************************************************************)
(* A ring under an operation: its versions and the keys the provider will  *)
(* still serve                                                             *)
(***************************************************************************)
Fresh(at) == [state |-> "pending", created |-> at, activated |-> Never, retired |-> Never]

Recorded(r, at) == [versions |-> Append(r.versions, Fresh(at)), supply |-> r.supply - 1]

(* A mutant: the prior version is retired as of its own activation *)
ActivateStampsActivation(vs, v, at) ==
  [i \in DOMAIN vs |->
     IF i = v THEN [vs[i] EXCEPT !.state = "active", !.activated = at]
     ELSE IF vs[i].state = "active" THEN [vs[i] EXCEPT !.state = "retired", !.retired = vs[i].activated]
     ELSE vs[i]]

Activate(vs, v, at) ==
  [i \in DOMAIN vs |->
     IF i = v THEN [vs[i] EXCEPT !.state = "active", !.activated = at]
     ELSE IF vs[i].state = "active" THEN [vs[i] EXCEPT !.state = "retired", !.retired = at]
     ELSE vs[i]]

(* rotate: the pending version if one is exposed, else a new one; no ring if
   the provider fails *)
Rotate(r, at) ==
  LET pending == InState(r.versions, "pending")
      made == Recorded(r, at)
  IN IF pending # {} THEN [r EXCEPT !.versions = Activate(@, Min(pending), at)]
     ELSE IF r.supply = 0 THEN Never
     ELSE [made EXCEPT !.versions = Activate(@, Len(@), at)]

ExposePending(r, at, due) ==
  IF InState(r.versions, "pending") = {} /\ at >= due - Overlap /\ r.supply > 0
  THEN Recorded(r, at) ELSE r

(* A mutant: late cutovers happen when they are performed *)
BoundaryIsNow(due, k, at) == at

(* The instant the k-th cutover of a catch-up at `at` is placed at *)
Boundary(due, k, at) == due + (k - 1) * Every

(* A cadence that does not advance defines one cutover at most *)
CutoversDue(due, at) ==
  CASE at < due -> 0
    [] at >= due /\ Every <= 0 -> 1
    [] OTHER -> (at - due) \div Every + 1

(* One cutover of a catch-up; the first that fails ends it *)
Cutover(catch, boundary, at) ==
  LET after == Rotate(catch.ring, boundary)
  IN IF catch.failed THEN catch
     ELSE IF after = Never THEN [catch EXCEPT !.failed = TRUE]
     ELSE [ring |-> after, done |-> catch.done + 1, failed |-> FALSE]

Cutovers == INSTANCE SeqFold WITH Step <- Cutover

Idle(r) == [ring |-> r, done |-> 0, failed |-> FALSE]

Boundaries(due, count, at) == [k \in 1 .. count |-> Boundary(due, k, at)]

CatchUp(r, due, count, at) == Cutovers!Fold(Idle(r), Boundaries(due, count, at), at)

(* ensure_current; `failed` when a due rotation could not be performed *)
EnsureCurrent(r, at) ==
  LET active == InState(r.versions, "active")
      due == r.versions[Min(active)].activated + Every
      count == CutoversDue(due, at)
      next == due + count * Every
      caught == CatchUp(r, due, count, at)
  IN IF mode # "automatic" \/ active = {} THEN Idle(r)
     ELSE IF caught.failed \/ at >= next THEN caught
     ELSE [caught EXCEPT !.ring = ExposePending(@, at, next)]

Accepted(v) ==
  \/ versions[v].state = "active"
  \/ versions[v].state = "retired" /\ now < versions[v].retired + Retain

(***************************************************************************)
(* Loading bootstraps an automatic ring; a manual one waits for its        *)
(* operator                                                                *)
(***************************************************************************)
RingInit ==
  /\ mode \in {"automatic", "manual"}
  /\ now = 0
  /\ versions = IF mode = "manual" THEN <<>>
                ELSE Activate(<<Fresh(0)>>, 1, 0)
  /\ overdue = FALSE
  /\ tokens = {}
  /\ admin = 0

(* Engine::set_time / advance, then rotate_due *)
SetTime(to, supply) ==
  LET out == EnsureCurrent([versions |-> versions, supply |-> supply], to)
  IN /\ now <= to
     /\ Len(out.ring.versions) <= MaxVersions
     /\ now' = to
     /\ versions' = out.ring.versions
     /\ overdue' = IF out.failed THEN TRUE ELSE IF out.done > 0 THEN FALSE ELSE overdue
     /\ UNCHANGED <<mode, tokens, admin>>

(* Keyring::bind_activate *)
BindActivate ==
  /\ Len(versions) < MaxVersions
  /\ admin < MaxAdmin
  /\ admin' = admin + 1
  /\ versions' = Activate(Append(versions, Fresh(now)), Len(versions) + 1, now)
  /\ UNCHANGED <<mode, now, overdue, tokens>>

Revoke(v) ==
  /\ admin < MaxAdmin
  /\ admin' = admin + 1
  /\ versions' = [versions EXCEPT ![v].state = "revoked"]
  /\ UNCHANGED <<mode, now, overdue, tokens>>

Destroy(v) ==
  /\ admin < MaxAdmin
  /\ admin' = admin + 1
  /\ versions' = [versions EXCEPT ![v].state = "destroyed"]
  /\ UNCHANGED <<mode, now, overdue, tokens>>

(* Keyring::sign by a mutation that mints a token; a provider that does not
   serve rejects it *)
Sign ==
  /\ Cardinality(tokens) < MaxTokens
  /\ \E v \in InState(versions, "active") : tokens' = tokens \cup {[version |-> v, at |-> now]}
  /\ UNCHANGED <<mode, now, versions, overdue, admin>>

RingNext ==
  \/ \E to \in now .. MaxTime, supply \in 0 .. MaxVersions : SetTime(to, supply)
  \/ BindActivate
  \/ \E v \in DOMAIN versions : Revoke(v)
  \/ \E v \in DOMAIN versions : Destroy(v)
  \/ Sign

RingSpec == RingInit /\ [][RingNext]_ringVars

-----------------------------------------------------------------------------
(* What a reader of the ring's lifecycle sees *)
Lifecycle(vs) == [i \in DOMAIN vs |-> [vs[i] EXCEPT !.created = Never]]

(* The ring a runtime that moves its clock one tick at a time would have *)
Ticked(r, from, to) ==
  LET ring[t \in from .. to] == IF t = from THEN r ELSE EnsureCurrent(ring[t - 1], t).ring
  IN ring[to]

(* ensure_current's promise: however far the clock jumps, the logical order
   of the versions, the selected key, and the instants of every cutover are
   those of a runtime that rotated on schedule (keyring.rs ensure_current:
   "the lazy result's logical order and key selection are identical"). *)
CatchUpIsScheduled ==
  [][\A to \in now .. MaxTime :
       LET plenty == [versions |-> versions, supply |-> 2 * MaxVersions]
           jump == EnsureCurrent(plenty, to).ring
       IN now' = to /\ to > now /\ versions' = jump.versions
            => Lifecycle(versions') = Lifecycle(Ticked(plenty, now, to).versions)]_ringVars

(* The instant a token counts as signed at: a version the ring kept past
   its boundary counts to that boundary *)
Signed(t) ==
  LET boundary == versions[t.version].activated + Every
  IN IF mode = "automatic" /\ boundary < t.at THEN boundary ELSE t.at

(* A token verifies for $retain after it was signed unless its version is
   revoked or destroyed, and even if rotations failed and were caught up
   late (keyring.rs ensure_current, is_accepted). *)
TokensOutliveRotation ==
  \A t \in tokens :
    versions[t.version].state \notin {"revoked", "destroyed"} /\ now < Signed(t) + Retain
      => Accepted(t.version)
=============================================================================
