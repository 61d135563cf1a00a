----------------------------- MODULE MCSurface -----------------------------
(***************************************************************************)
(* The surface host, the window of one subscription over a view that       *)
(* changes (Window), and what a caller may reach (Access).  They share no  *)
(* state, so a run steps in one of them, whichever it starts in.           *)
(***************************************************************************)
EXTENDS Surface, Access, TLC

CONSTANTS Misfit, Occurrence, Value, AtStart, AtEnd, Size
VARIABLES view, descending, window, windowed, client
windowVars == <<view, descending, window, windowed, client>>

W == INSTANCE Window

MCConn == {1, 2}
MCSub == {1, 2}
MCRoleSub == {2}
MCGrants == {{}, {1, 2}}
(* The first connection's session ends at instant 1, the other's never does *)
MCExpires == [c \in MCConn |-> IF c = 1 THEN 1 ELSE MaxTime + 1]

-----------------------------------------------------------------------------
CONSTANTS MaxMoves      \* bound on the steps of Access
VARIABLE moves
reachVars == <<accessVars, moves>>

(* Two scoped roles: the coverage of one descends, the other also has a    *)
(* surface of calls alone                                                  *)
CallOf(receiver, params) == [receiver |-> receiver, params |-> params]
Editing == [calls |-> [edit |-> CallOf({}, {"text"})], view |-> [params |-> {"since"}]]
Filing == [calls |-> [edit |-> CallOf({"id"}, {"text"})], view |-> Nothing]
MCRole ==
  [editor |-> [accepts |-> {"login"}, scoped |-> TRUE, recursive |-> TRUE,
               surfaces |-> [doc |-> Editing]],
   clerk |-> [accepts |-> {"login", "token"}, scoped |-> TRUE, recursive |-> FALSE,
              surfaces |-> [doc |-> Editing, file |-> Filing]]]

Proof(auth, session, account) == [auth |-> auth, session |-> session, account |-> account]
MCSelection ==
  [auth : {"login"}, credential : {Forged, Proof("login", "s", Nothing)}]
    \cup [auth : {"token"}, credential : {Proof("token", Nothing, "b")}]

MCAddress ==
  [role : {"editor", "clerk", "public"}, surface : {"doc"}, call : {Nothing, "edit"}]
    \cup [role : {"nobody", "clerk"}, surface : {"file"}, call : {"edit"}]

SessionOf(account, until) == [key |-> "s", account |-> account, until |-> until, revoked |-> FALSE]
GrantOf(scope, actor) == [scope |-> scope, actor |-> actor]
NodeOf(where, except) == [where |-> where, except |-> except]

MCPublicSurface == [doc |-> Filing]
MCAuthenticator == [login |-> TRUE, token |-> FALSE]
MCAccountRow == {[row |-> 2, key |-> "a"], [row |-> 3, key |-> "b"]}
MCSessionRow == {SessionOf("b", Nothing)}
MCGrant == {GrantOf(1, "a"), GrantOf(1, "b"), GrantOf(4, "b")}
MCNode == {NodeOf({"b"}, {}), NodeOf({"a", "b"}, {"b"})}
MCNodePath == {<<1>>, <<1, 2>>, <<1, 2, 3>>, <<4>>}
MCSeed ==
  [accounts |-> {[row |-> 1, key |-> "a"]}, sessions |-> {SessionOf("a", 1)},
   grants |-> [r \in DOMAIN MCRole |-> {}], nodes |-> (<<1>> :> NodeOf({}, {}))]
MCScope == {<<>>, <<1>>}
MCDescendant == {<<>>, <<2>>}
MCArgs == {{}, {"id"}}

-----------------------------------------------------------------------------
(* The initial state a part keeps while another one steps *)
ServingRests == Init /\ history[1].granted = {}
WindowRests == W!Init /\ (\A o \in Occurrence : view[o] = None) /\ ~descending /\ window = None
ReachRests == moves = 0

SurfaceInit ==
  /\ Init /\ W!Init /\ AccessInit /\ ReachRests
  /\ ServingRests \/ WindowRests

Serving == WindowRests /\ ReachRests /\ Next /\ UNCHANGED <<windowVars, reachVars>>
Windowing == ServingRests /\ ReachRests /\ W!Next /\ UNCHANGED <<surfaceVars, reachVars>>
Reaching ==
  /\ ServingRests /\ WindowRests
  /\ moves < MaxMoves
  /\ AccessNext
  /\ moves' = moves + 1
  /\ UNCHANGED <<surfaceVars, windowVars>>

SurfaceSpec ==
  SurfaceInit /\ [][Serving \/ Windowing \/ Reaching]_<<surfaceVars, windowVars, reachVars>>

(* Window.ClientHoldsTheWindow (patch.rs diff and apply, window.rs)        *)
ClientHoldsTheWindow == W!ClientHoldsTheWindow

=============================================================================
