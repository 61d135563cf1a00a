------------------------------ MODULE Modules ------------------------------
(***************************************************************************)
(* The module host (liasse-runtime modules/): instances of packages        *)
(* installed under the rows of the root application, bound to their peers  *)
(* in the same space and to what the containing row offers them, disabled, *)
(* renamed, updated and uninstalled.                                       *)
(*                                                                         *)
(* A space is the containing row it hangs off.  Peers are resolved when an *)
(* instance is installed and recorded by name.  A package exposes an       *)
(* interface when it binds its operations, be there none: its view is the  *)
(* fields it projects, each a name and a type, or the whole of a source    *)
(* row, or there is none; the view may read handles, and the whole may     *)
(* depend on one being bound.                                              *)
(***************************************************************************)
EXTENDS Contracts

CONSTANTS Space, Name, Interface,
          View(_, _),         \* fields of an interface of a package, or Nothing
          PassesThrough(_, _),\* it is the whole source row
          Binds(_, _),        \* its operations -> mutations; Nothing if not exposed
          Reads(_, _),        \* the handles its view reads
          Guard(_, _),        \* the handle it is exposed for, or Nothing
          Uses(_),            \* required or optional peers: handle -> requirement
          Parents(_),         \* handle -> the parent surface it stands for
          Offered,            \* parent surfaces the spaces declare
          Contract(_),        \* what the spaces declare for an interface
          MaxInstalls, MaxSteps

VARIABLES containing,  \* the live rows spaces hang off
          children,    \* installed instances
          minted,      \* incarnations minted so far
          steps

hostVars == <<containing, children, minted, steps>>

Exposed(p, i) == Binds(p, i) # Nothing
Readable(p, i) == View(p, i) # Nothing
Names(p, i) == IF Readable(p, i) THEN {f[1] : f \in View(p, i)} ELSE {}

Running(c) == c.releases[Len(c.releases)]   \* of every release it has had, the last

At(space, name) == {c \in children : c.space = space /\ c.name = name}
Siblings(space) == {c \in children : c.space = space /\ c.enabled}

-----------------------------------------------------------------------------
(* Installation *)

Satisfies(c, need) ==
  LET p == Running(c)
  IN Line(p) = need.line /\ VersionOf(p)[1] = need.major /\ Readable(p, need.interface)

(* What a package asks of a peer is one of the interfaces                  *)
NeedsAreInterfaces == \A p \in Package : \A h \in DOMAIN Uses(p) : Uses(p)[h].interface \in Interface

(* A view is that of an interface the package exposes                      *)
ViewsAreExposed == \A p \in Package : \A i \in Interface : Readable(p, i) => Exposed(p, i)

(* The instances a handle may be bound to: peer::resolve.  explicit is the
   sibling the operator names, or Nothing *)
Resolutions(space, need, explicit) ==
  LET candidates == {c \in Siblings(space) : Satisfies(c, need)}
  IN IF explicit # Nothing THEN {c \in candidates : c.name = explicit}
     ELSE IF Cardinality(candidates) = 1 THEN candidates
     ELSE IF candidates = {} /\ need.optional THEN {Nothing}
     ELSE {}

Bound(need, c) ==
  [interface |-> need.interface, optional |-> need.optional,
   to |-> IF c = Nothing THEN Nothing ELSE c.name,
   \* what the handle was resolved to: an incarnation, at one of its releases
   was |-> IF c = Nothing THEN Nothing ELSE [inc |-> c.inc, at |-> Len(c.releases)]]

(* check_interface_muts: a mutation reads no parameter the interface does not
   declare, and returns what it declares, where both can be read *)
MeetsMutation(declared, mutation) ==
  LET response == Response(mutation)
  IN /\ declared.params # Nothing => DOMAIN mutation.params \subseteq declared.params
     /\ declared.returns # Nothing /\ response # Nothing =>
          \A f \in DOMAIN declared.returns : f \in DOMAIN response /\ response[f] = declared.returns[f]

(* check_interface_contracts: only what a package exposes is compared *)
MeetsContracts ==
  {p \in Package : \A i \in Interface :
     /\ Readable(p, i) => Contract(i).fields \subseteq View(p, i)
     /\ Exposed(p, i) =>
          \A o \in DOMAIN Contract(i).muts \cap DOMAIN Binds(p, i) :
            Binds(p, i)[o] \in DOMAIN Mutations(p) =>
              MeetsMutation(Contract(i).muts[o], Mutations(p)[Binds(p, i)[o]])}

(* parent_imports: what the containing row offers, while it is there *)
ParentHandles(p, space) == {h \in DOMAIN Parents(p) : Parents(p)[h] \in Offered /\ space \in containing}

Mint(space, name) == <<space, name, Cardinality(minted)>>

ModulesInit == containing = Space /\ children = {} /\ minted = {} /\ steps = 0

Tick == steps < MaxSteps /\ steps' = steps + 1

Install(space, name, p, explicit) ==
  LET inc == Mint(space, name)
      peersOf(peers) == [space |-> space, name |-> name, inc |-> inc,
                         releases |-> <<p>>, enabled |-> TRUE, peers |-> peers]
      needs == Uses(p)
  IN /\ Cardinality(children) < MaxInstalls
     /\ space \in containing
     /\ At(space, name) = {}
     /\ p \in MeetsContracts
     /\ \A h \in DOMAIN needs : Resolutions(space, needs[h], explicit) # {}
     /\ \A i \in Interface : Reads(p, i) \subseteq ParentHandles(p, space) \cup DOMAIN needs
     /\ LET to == [h \in DOMAIN needs |-> CHOOSE c \in Resolutions(space, needs[h], explicit) : TRUE]
        IN children' = children \cup {peersOf([h \in DOMAIN needs |-> Bound(needs[h], to[h])])}
     /\ minted' = minted \cup {inc}
     /\ Tick
     /\ UNCHANGED containing

-----------------------------------------------------------------------------
(* The life of an instance *)

Becomes(c, d) ==
  /\ children' = (children \ {c}) \cup {d}
  /\ Tick
  /\ UNCHANGED <<containing, minted>>

Disable(c) == c.enabled /\ Becomes(c, [c EXCEPT !.enabled = FALSE])

Enable(c) == ~c.enabled /\ Becomes(c, [c EXCEPT !.enabled = TRUE])

Rename(c, to) == At(c.space, to) = {} /\ Becomes(c, [c EXCEPT !.name = to])

Uninstall(c) ==
  /\ children' = children \ {c}
  /\ Tick
  /\ UNCHANGED <<containing, minted>>

(* ViewSurface::dropped_from: only two projections can be compared; no view is
   a projection of no field *)
Drops(from, to, i) ==
  ~PassesThrough(from, i) /\ ~PassesThrough(to, i) /\ ~(Names(from, i) \subseteq Names(to, i))

Unbinds(from, to, i) == ~(DOMAIN Binds(from, i) \subseteq DOMAIN Binds(to, i))

(* compat::exposed_narrowing *)
ExposedNarrowing(from, to) ==
  \E i \in Interface :
    Exposed(from, i) /\ (~Exposed(to, i) \/ Drops(from, to, i) \/ Unbinds(from, to, i))

(* host update, then Engine::update: the target is compiled without imports,
   so a view of it that reads a handle is an unknown name *)
Update(c, p) ==
  LET from == Running(c)
  IN /\ p # from /\ Line(p) = Line(from)
     /\ ~ExposedNarrowing(from, p)
     /\ RequiresNonNarrowing(from, p) => ~BoundaryNarrows(Promised[from], Promised[p])
     /\ \A i \in Interface : Reads(p, i) = {}
     /\ Becomes(c, [c EXCEPT !.releases = Append(@, p)])

(* Root mutations: a containing row goes and may come back; its instances
   are not touched *)
DeleteRow(r) ==
  /\ r \in containing /\ containing' = containing \ {r}
  /\ Tick
  /\ UNCHANGED <<children, minted>>

InsertRow(r) ==
  /\ r \in Space \ containing /\ containing' = containing \cup {r}
  /\ Tick
  /\ UNCHANGED <<children, minted>>

ModulesNext ==
  \/ \E s \in Space, n \in Name, p \in Package, e \in Name \cup {Nothing} : Install(s, n, p, e)
  \/ \E c \in children : Disable(c)
  \/ \E c \in children : Enable(c)
  \/ \E c \in children, n \in Name : Rename(c, n)
  \/ \E c \in children : Uninstall(c)
  \/ \E c \in children, p \in Package : Update(c, p)
  \/ \E r \in Space : DeleteRow(r)
  \/ \E r \in Space : InsertRow(r)

ModulesSpec == ModulesInit /\ [][ModulesNext]_hostVars

-----------------------------------------------------------------------------
(* What a handle reads now: bind_peer finds the instance by its name *)
Reached(c, h) ==
  IF c.peers[h].to = Nothing THEN {} ELSE {d \in At(c.space, c.peers[h].to) : d.enabled}

(* bind_peer: an optional peer is bound to whether it is there, a required one
   to the rows of its interface *)
PeerHandles(c) ==
  {h \in DOMAIN c.peers :
     \/ c.peers[h].optional
     \/ \E d \in Reached(c, h) : Readable(Running(d), c.peers[h].interface)}

Handles(c) == ParentHandles(c.releases[1], c.space) \cup PeerHandles(c)

(* child_imports: the view of a required peer is evaluated with the parent
   handles of that peer alone *)
ImportsFault(c) ==
  \E h \in DOMAIN c.peers :
    /\ ~c.peers[h].optional
    /\ \E d \in Reached(c, h) :
         ~(Reads(Running(d), c.peers[h].interface) \subseteq ParentHandles(d.releases[1], d.space))

(* interface_guard_active *)
GuardHolds(c, i) ==
  LET h == Guard(Running(c), i)
  IN h # Nothing => h \in DOMAIN c.peers /\ Reached(c, h) # {}

(* Engine interface_read.  A fault is one that a row of the view may meet *)
ReadThrough(c, i) ==
  CASE ~Readable(Running(c), i) -> "absent"
    [] Readable(Running(c), i) /\ Reads(Running(c), i) \subseteq Handles(c) -> "rows"
    [] OTHER -> "fault"

(* ModuleHost interface_read *)
InterfaceRead(c, i) ==
  CASE ~c.enabled -> "disabled"
    [] c.enabled /\ ~GuardHolds(c, i) -> "absent"
    [] c.enabled /\ GuardHolds(c, i) /\ ImportsFault(c) -> "fault"
    [] OTHER -> ReadThrough(c, i)

(* aggregate_snapshot: one instance that faults fails every view of the root *)
RootViewsFault ==
  \E c \in children :
    c.enabled /\ (ImportsFault(c) \/ \E i \in Interface : InterfaceRead(c, i) = "fault")

-----------------------------------------------------------------------------
(* The releases a handle's peer ran since the handle was resolved           *)
Since(was, d) == {d.releases[k] : k \in was.at..Len(d.releases)}

(* Neither its fields nor that it can be read are compared with the next one *)
Opaque(p, i) == PassesThrough(p, i) \/ View(p, i) = {}

(* The instance a handle was resolved to, if its name still leads there     *)
Resolved(c, h) == {d \in Reached(c, h) : d.inc = c.peers[h].was.inc}

(* While a handle is bound to the instance it was resolved to, the interface
   stays exposed with the operations it bound, and the fields it was resolved
   with stay readable through it, whatever updates the instance takes, unless
   one of the releases passed the whole row through: no projection is compared
   with that one (compat.rs exposed_narrowing, dropped_from; modules/host.rs
   bind_peer, update). *)
PeersKeepTheirFields ==
  \A c \in children : \A h \in DOMAIN c.peers :
    \A d \in Resolved(c, h) :
      LET i == c.peers[h].interface  then == d.releases[c.peers[h].was.at]
      IN /\ Exposed(Running(d), i)
         /\ DOMAIN Binds(then, i) \subseteq DOMAIN Binds(Running(d), i)
         /\ \/ \E p \in Since(c.peers[h].was, d) : PassesThrough(p, i)
            \/ Names(then, i) \subseteq Names(Running(d), i)

(* A client written against the surfaces of one release of an instance is served
   by every later one, as long as each update in between was one that may not
   narrow: update by update, nothing it relies on is lost (contract/mod.rs
   narrowing, migrate.rs boundary_narrowing). *)
Forward(releases, k) ==
  \A j \in k..(Len(releases) - 1) : RequiresNonNarrowing(releases[j], releases[j + 1])

Served(releases, k) ==
  BoundaryUpheld(Promised[releases[k]],
                 {Promised[releases[j]] : j \in k..Len(releases)},
                 Promised[releases[Len(releases)]])

ClientsAreServed ==
  \A c \in children : \A k \in DOMAIN c.releases : Forward(c.releases, k) => Served(c.releases, k)

(* A read through an interface faults only when the containing row is gone, or
   the name of a required peer no longer leads to the enabled instance it was
   resolved to, or that instance has since run a release whose view promised
   nothing, or its view reads a peer of its own (modules/host.rs child_imports,
   bind_peer). *)
FaultsHaveAReason ==
  \A c \in children : \A i \in Interface :
    InterfaceRead(c, i) = "fault" =>
      \/ c.space \notin containing
      \/ \E h \in DOMAIN c.peers :
           /\ ~c.peers[h].optional
           /\ LET via == c.peers[h].interface
              IN \/ Resolved(c, h) = {}
                 \/ \E d \in Resolved(c, h) :
                      \/ \E p \in Since(c.peers[h].was, d) : Opaque(p, via)
                      \/ Reads(Running(d), via) \cap DOMAIN d.peers # {}

(* What an instance promised at one release holds at the later ones, for its
   peers, for the clients of its surfaces and for whoever reads it          *)
PromisesAreKept == PeersKeepTheirFields /\ ClientsAreServed /\ FaultsHaveAReason
=============================================================================
