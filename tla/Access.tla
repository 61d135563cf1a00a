------------------------------- MODULE Access -------------------------------
(***************************************************************************)
(* crates/liasse-surface: what a caller may reach.  A request names a role,*)
(* a surface, a credential and a scope; the host verifies the credential   *)
(* against the committed rows (authn/), confirms the membership (role.rs), *)
(* and only then says whether the surface exists (host/call.rs, router/).  *)
(* A surface of a scoped role reads and addresses the row that holds the   *)
(* role and the descendants its coverage includes (runtime recursion.rs).  *)
(*                                                                         *)
(* The application's rows are what its views show: account rows, session   *)
(* rows, grants, and the tree of rows below those that hold a role.  A     *)
(* $where or $except condition is the set of actors it holds for.  There is*)
(* one connection, when it is open; its frontier is the head, and of its   *)
(* state only the contexts matter here: the watches and the lag are in     *)
(* Surface.                                                                *)
(***************************************************************************)
EXTENDS Naturals, FiniteSets, SequencesExt

CONSTANTS
  Nothing,
  Forged,             \* a credential no verifier accepts
  Public,             \* the authority of the public addresses
  PublicSurface,      \* by name: [calls, view], a view being Nothing or [params]
  Role,               \* by name: [accepts, scoped, recursive, surfaces]
  Authenticator,      \* by name: whether it declares a $session
  AccountRow,         \* rows [row, key] the accounts' view may show
  SessionRow,         \* rows [key, account, until, revoked] of the sessions' view
  Grant,              \* rows [scope, actor] a membership view may show
  Node,               \* rows [where, except] of the tree
  NodePath,           \* the paths of keys they may live at
  Seed,               \* the rows of the package: [accounts, sessions, grants, nodes]
  Selection,          \* [auth, credential] a client may send
  Context,            \* names of contexts
  Address,            \* [role, surface, call]; the address of a view has no call
  Scope, Descendant, Args,  \* keys of a row, keys below it, names of arguments
  MaxClock

VARIABLES accounts, sessions, grants,
          nodes,      \* the live rows of the tree, by path
          clock,
          contexts,   \* Connection::contexts: per name Nothing or [role, member, selection];
              \* Nothing while the connection is not open
          bound,      \* history variable: the actor each context was bound for
          held        \* history variable: the <<role, actor>> ever granted

rowVars == <<accounts, sessions, grants, nodes, clock>>
contextVars == <<contexts, bound>>
accessVars == <<rowVars, contextVars, held>>

-----------------------------------------------------------------------------
(* Denials.  The host and the router each have one for a name that does    *)
(* not resolve; the router's goes to a caller known to hold the role.      *)

Denial(reason) == [denied |-> reason]
Unresolved == Denial("unresolved")
NotExposed == Denial("not exposed")
Malformed == [rejected |-> "malformed"]
IsDenied(answer) == "denied" \in DOMAIN answer

-----------------------------------------------------------------------------
(* Authenticators: verify the credential, then resolve exactly one session *)
(* and exactly one actor.                                                  *)

RowsWith(rows, key) == {r \in rows : r.key = key}

IsActive(s) == ~s.revoked /\ (s.until = Nothing \/ clock < s.until)

SessionResolves(key) ==
  /\ Cardinality(RowsWith(sessions, key)) = 1
  /\ \A s \in RowsWith(sessions, key) : s.account # Nothing /\ IsActive(s)

ActorOf(auth, key, session) ==
  IF Cardinality(RowsWith(accounts, key)) = 1
  THEN [auth |-> auth, actor |-> key, session |-> session]
  ELSE Denial("actor unresolved")

ResolveSession(auth, key) ==
  IF key = Nothing \/ ~SessionResolves(key) THEN Denial("session invalid")
  ELSE LET row == CHOOSE s \in sessions : s.key = key IN ActorOf(auth, row.account, key)

ResolveAccount(auth, key) ==
  IF key = Nothing THEN Denial("actor unresolved") ELSE ActorOf(auth, key, Nothing)

Resolve(auth, credential) ==
  IF credential = Forged THEN Denial("unverified")
  ELSE IF credential.auth # auth THEN Denial("check failed")
  ELSE IF Authenticator[auth] THEN ResolveSession(auth, credential.session)
  ELSE ResolveAccount(auth, credential.account)

VerifySelection(role, selection) ==
  IF selection.auth \notin Role[role].accepts \/ selection.auth \notin DOMAIN Authenticator
  THEN Denial("authenticator not accepted")
  ELSE Resolve(selection.auth, selection.credential)

-----------------------------------------------------------------------------
(* Membership.                                                             *)

HoldsAnywhere(role, actor) == \E g \in grants[role] : g.actor = actor

Holds(role, actor, scope) ==
  \E g \in grants[role] : /\ g.actor = actor
                          /\ Role[role].scoped => scope # <<>> /\ g.scope = scope[1]

AuthorizeRole(role, selection, scope) ==
  LET context == VerifySelection(role, selection)
  IN  IF IsDenied(context) \/ Holds(role, context.actor, scope) THEN context ELSE Unresolved

-----------------------------------------------------------------------------
(* Requests.  A call may address a row below the one its scope names; a    *)
(* resume continues a subscription, but carries no scope.                  *)

IsCall(address) == address.call # Nothing

AuthSelection == Selection \cup {Nothing}

SurfaceCall ==
  [address : {a \in Address : IsCall(a)}, auth : AuthSelection, context : Context,
   scope : Scope, descendant : Descendant, args : Args]

SurfaceWatch ==
  [address : {a \in Address : ~IsCall(a)}, auth : AuthSelection, context : Context,
   scope : Scope, descendant : {<<>>}, args : Args]

SurfaceResume == {[watch EXCEPT !.scope = <<>>] : watch \in SurfaceWatch}

SurfaceRequest == SurfaceCall \cup SurfaceWatch \cup SurfaceResume

(* A request arrives on an open connection.                                *)
AnyRequest == IF contexts = Nothing THEN {} ELSE SurfaceRequest

RoleOf(request) == request.address.role
IsRole(request) == RoleOf(request) \in (DOMAIN Role) \ {Public}

-----------------------------------------------------------------------------
(* The selection of a request, and what it may learn from a refusal.       *)

CallSelection(request) ==
  IF request.auth # Nothing THEN request.auth
  ELSE IF contexts[request.context] = Nothing THEN Nothing
  ELSE contexts[request.context].selection

(* A mutant: a bound context is taken for authority over its role, though  *)
(* its actor was never a member.                                           *)
EstablishedByAnyone(request) ==
  /\ request.auth = Nothing
  /\ contexts[request.context] # Nothing
  /\ contexts[request.context].role = RoleOf(request)

Established(request) ==
  /\ request.auth = Nothing
  /\ contexts[request.context] # Nothing
  /\ contexts[request.context].member
  /\ contexts[request.context].role = RoleOf(request)

HideUnenumerable(established, denial) == IF established THEN denial ELSE Unresolved

(* Of a role that exists *)
Authorize(request) ==
  LET selection == CallSelection(request) IN
  IF selection = Nothing THEN HideUnenumerable(FALSE, Denial("unauthenticated"))
  ELSE LET context == AuthorizeRole(RoleOf(request), selection, request.scope)
       IN  IF IsDenied(context) THEN HideUnenumerable(Established(request), context) ELSE context

-----------------------------------------------------------------------------
(* Coverage: the row that holds the role, and below it every row that is   *)
(* included together with all that is above it.                            *)

Included(path, actor) == actor \in nodes[path].where /\ actor \notin nodes[path].except

IncludedChild(path, key, actor) ==
  LET child == Append(path, key)
  IN  IF child \in DOMAIN nodes /\ Included(child, actor) THEN child ELSE Nothing

(* A mutant: only the row that is addressed is checked, not the way to it. *)
ReceiverUnwalked(role, scope, descendant, actor) ==
  LET path == scope \o descendant
  IN  IF scope \in DOMAIN nodes /\ path \in DOMAIN nodes
           /\ (descendant # <<>> => Role[role].recursive /\ Included(path, actor))
      THEN path ELSE Nothing

ResolveReceiver(role, scope, descendant, actor) ==
  IF scope \notin DOMAIN nodes \/ (descendant # <<>> /\ ~Role[role].recursive) THEN Nothing
  ELSE FoldLeft(LAMBDA path, key : IF path = Nothing THEN Nothing ELSE IncludedChild(path, key, actor),
                scope, descendant)

ChildrenOf(path) == {c \in DOMAIN nodes : Len(c) = Len(path) + 1 /\ Front(c) = path}

Cover(actor) ==
  LET cover[p \in DOMAIN nodes] ==
        {p} \cup UNION {cover[c] : c \in {d \in ChildrenOf(p) : Included(d, actor)}}
  IN  cover

(* The rows of a scoped view; none when the scope names no live row.       *)
Materialize(role, scope, actor) ==
  IF scope \notin DOMAIN nodes THEN {}
  ELSE IF Role[role].recursive THEN Cover(actor)[scope]
  ELSE {scope}

-----------------------------------------------------------------------------
(* A request, once its authority is settled.  A surface of a scoped role   *)
(* carries the scope in its view: without one, the receiver is read from   *)
(* the arguments, as for any other role.                                   *)

SurfaceOf(request) ==
  LET surfaces == IF RoleOf(request) = Public THEN PublicSurface ELSE Role[RoleOf(request)].surfaces
      name == request.address.surface
  IN  IF name \in DOMAIN surfaces THEN surfaces[name] ELSE Nothing

ExposesCall(request) ==
  SurfaceOf(request) # Nothing /\ request.address.call \in DOMAIN SurfaceOf(request).calls
ExposesView(request) == SurfaceOf(request) # Nothing /\ SurfaceOf(request).view # Nothing
Addressed(request) == IsRole(request) /\ Role[RoleOf(request)].scoped /\ ExposesView(request)

Declared(binding) == binding.receiver \cup binding.params

ClosedArgs(args, declared) == declared = {} \/ args \subseteq declared

(* The call the engine is given, or the malformed arguments.               *)
BuildRequest(request, binding, context, receiver) ==
  IF /\ ClosedArgs(request.args, Declared(binding))
     /\ Addressed(request) \/ binding.receiver \subseteq request.args
  THEN [actor |-> context.actor, session |-> context.session, receiver |-> receiver]
  ELSE Malformed

NoActor == [actor |-> Nothing, session |-> Nothing]

ResolvePublicCall(request) ==
  IF ~ExposesCall(request) THEN NotExposed
  ELSE IF request.auth # Nothing THEN Malformed
  ELSE BuildRequest(request, SurfaceOf(request).calls[request.address.call], NoActor, Nothing)

ResolveCall(request, context) ==
  LET role == RoleOf(request)
      receiver == IF Addressed(request)
                  THEN ResolveReceiver(role, request.scope, request.descendant, context.actor)
                  ELSE Nothing
  IN  IF IsDenied(context) THEN context
      ELSE IF ~ExposesCall(request) THEN NotExposed
      ELSE IF Addressed(request) /\ receiver = Nothing THEN Unresolved
      ELSE BuildRequest(request, SurfaceOf(request).calls[request.address.call], context, receiver)

ResolvePublicView(request) ==
  IF ~ExposesView(request) THEN NotExposed
  ELSE IF request.auth # Nothing THEN Denial("authenticator not accepted")
  ELSE IF ~ClosedArgs(request.args, SurfaceOf(request).view.params) THEN Denial("malformed")
  ELSE [actor |-> Nothing, session |-> Nothing, rows |-> {}]

(* SurfaceHost::watch, and resume                                          *)
ResolveView(request, context) ==
  LET rows == IF Addressed(request) THEN Materialize(RoleOf(request), request.scope, context.actor)
              ELSE {}
  IN  IF IsDenied(context) THEN context
      ELSE IF ~ExposesView(request) THEN NotExposed
      ELSE IF ~ClosedArgs(request.args, SurfaceOf(request).view.params) THEN Denial("malformed")
      ELSE IF Addressed(request) /\ rows = {} THEN Unresolved
      ELSE [actor |-> context.actor, session |-> context.session, rows |-> rows]

AnswerTo(request) ==
  IF RoleOf(request) = Public
  THEN IF IsCall(request.address) THEN ResolvePublicCall(request) ELSE ResolvePublicView(request)
  ELSE IF ~IsRole(request) THEN Unresolved
  ELSE IF IsCall(request.address) THEN ResolveCall(request, Authorize(request))
  ELSE ResolveView(request, Authorize(request))

(* The public surfaces, and those of the roles the actor of a context      *)
(* holds, wherever.                                                        *)
ListedRoles(name) ==
  IF contexts[name] = Nothing \/ contexts[name].selection.auth \notin DOMAIN Authenticator THEN {}
  ELSE LET selection == contexts[name].selection
           context == Resolve(selection.auth, selection.credential)
       IN  {r \in DOMAIN Role : /\ ~IsDenied(context)
                                /\ selection.auth \in Role[r].accepts
                                /\ HoldsAnywhere(r, context.actor)}

Manifest(name) ==
  {<<Public, s>> : s \in DOMAIN PublicSurface}
    \cup UNION {{<<r, s>> : s \in DOMAIN Role[r].surfaces} : r \in ListedRoles(name)}

-----------------------------------------------------------------------------
Granted == UNION {{<<r, g.actor>> : g \in grants[r]} : r \in DOMAIN Role}

AccessInit ==
  /\ accounts = Seed.accounts /\ sessions = Seed.sessions /\ nodes = Seed.nodes
  /\ grants = [r \in DOMAIN Role |-> Seed.grants[r]]
  /\ clock = 0
  /\ contexts = Nothing
  /\ bound = [c \in Context |-> Nothing]
  /\ held = Granted

(* SurfaceHost::authenticate                                               *)
VerifyAndBind(name, role, selection) ==
  LET context == VerifySelection(role, selection) IN
  /\ contexts # Nothing
  /\ ~IsDenied(context)
  /\ contexts' = [contexts EXCEPT ![name] =
       [role |-> role, member |-> HoldsAnywhere(role, context.actor), selection |-> selection]]
  /\ bound' = [bound EXCEPT ![name] = context.actor]
  /\ UNCHANGED <<rowVars, held>>

(* SurfaceHost::connect and disconnect                                     *)
OpenConnection ==
  /\ contexts = Nothing
  /\ contexts' = [c \in Context |-> Nothing]
  /\ UNCHANGED <<rowVars, bound, held>>

CloseConnection ==
  /\ contexts # Nothing
  /\ contexts' = Nothing
  /\ bound' = [c \in Context |-> Nothing]
  /\ UNCHANGED <<rowVars, held>>

(* What the application's own mutations commit.                            *)
WriteAccount(row) ==
  /\ accounts' = IF row \in accounts THEN accounts \ {row} ELSE accounts \cup {row}
  /\ UNCHANGED <<sessions, grants, nodes, clock, contextVars, held>>

OpenSession(row) ==
  /\ row \notin sessions
  /\ sessions' = sessions \cup {row}
  /\ UNCHANGED <<accounts, grants, nodes, clock, contextVars, held>>

RevokeSession(row) ==
  /\ ~row.revoked
  /\ sessions' = (sessions \ {row}) \cup {[row EXCEPT !.revoked = TRUE]}
  /\ UNCHANGED <<accounts, grants, nodes, clock, contextVars, held>>

RemoveSession(row) ==
  /\ sessions' = sessions \ {row}
  /\ UNCHANGED <<accounts, grants, nodes, clock, contextVars, held>>

WriteGrant(role, g) ==
  /\ grants' = [grants EXCEPT ![role] = IF g \in @ THEN @ \ {g} ELSE @ \cup {g}]
  /\ held' = held \cup Granted'
  /\ UNCHANGED <<accounts, sessions, nodes, clock, contextVars>>

(* A row is written below a live one, and taken away with all below it.    *)
WriteNode(path, node) ==
  /\ Len(path) > 1 => Front(path) \in DOMAIN nodes
  /\ nodes' = [p \in DOMAIN nodes \cup {path} |-> IF p = path THEN node ELSE nodes[p]]
  /\ UNCHANGED <<accounts, sessions, grants, clock, contextVars, held>>

DeleteNode(path) ==
  /\ path \in DOMAIN nodes
  /\ nodes' = [p \in {q \in DOMAIN nodes : ~IsPrefix(path, q)} |-> nodes[p]]
  /\ UNCHANGED <<accounts, sessions, grants, clock, contextVars, held>>

Tick ==
  /\ clock < MaxClock
  /\ clock' = clock + 1
  /\ UNCHANGED <<accounts, sessions, grants, nodes, contextVars, held>>

AccessNext ==
  \/ \E name \in Context, role \in DOMAIN Role, selection \in Selection :
       VerifyAndBind(name, role, selection)
  \/ OpenConnection \/ CloseConnection
  \/ \E row \in AccountRow : WriteAccount(row)
  \/ \E row \in SessionRow : OpenSession(row)
  \/ \E row \in sessions : RevokeSession(row) \/ RemoveSession(row)
  \/ \E role \in DOMAIN Role, g \in Grant : WriteGrant(role, g)
  \/ \E path \in NodePath, node \in Node : WriteNode(path, node)
  \/ \E path \in NodePath : DeleteNode(path)
  \/ Tick

AccessSpec == AccessInit /\ [][AccessNext]_accessVars

-----------------------------------------------------------------------------
IsServed(answer) == "actor" \in DOMAIN answer

(* The actors a request may speak for: the one its context was bound for,  *)
(* and the one its credential names now.                                   *)
SpeaksFor(request) ==
  LET selection == CallSelection(request)
      context == VerifySelection(RoleOf(request), selection)
  IN  (IF request.auth = Nothing THEN {bound[request.context]} ELSE {})
        \cup (IF selection = Nothing THEN {} ELSE IF IsDenied(context) THEN {} ELSE {context.actor})

(* The roles cannot be enumerated (call.rs hide_unenumerable_denial): a    *)
(* request to a role is answered as one to a name that does not exist,     *)
(* unless an actor it speaks for has held that very role, wherever.        *)
AnswersRevealNoRole ==
  \A request \in AnyRequest :
    IsRole(request) => \/ AnswerTo(request) = Unresolved
                       \/ \E a \in SpeaksFor(request) : <<RoleOf(request), a>> \in held

(* Who is served through a role (call.rs authorize_role) holds it now,     *)
(* under the scope the request names, by a proof made for its              *)
(* authenticator and a live session.                                       *)
IsAuthorized(request, answer) ==
  /\ \E g \in grants[RoleOf(request)] :
       /\ g.actor = answer.actor
       /\ Role[RoleOf(request)].scoped => request.scope # <<>> /\ g.scope = request.scope[1]
  /\ CallSelection(request).credential.auth = CallSelection(request).auth
  /\ answer.session # Nothing =>
       \E s \in sessions : /\ s.key = answer.session /\ s.account = answer.actor
                           /\ ~s.revoked /\ (s.until # Nothing => clock < s.until)

(* A call through a scoped role addresses a row (recursion.rs, the walk of *)
(* resolve_receiver) exactly when a subscription of the same actor shows   *)
(* it (the descent of cover).                                              *)
ShowsWhatItAddresses(request, answer) ==
  LET role == RoleOf(request)
      shown == Materialize(role, request.scope, answer.actor)
      below(path) == SubSeq(path, Len(request.scope) + 1, Len(path))
  IN  \A path \in {p \in NodePath : IsPrefix(request.scope, p)} :
        path \in shown <=>
          path = ResolveReceiver(role, request.scope, below(path), answer.actor)

(* The manifest (host/mod.rs manifest) lists the surfaces of a role to a   *)
(* context exactly when admission would authorize it under some scope.     *)
ListedIsHeld == contexts # Nothing =>
  \A name \in Context, r \in (DOMAIN Role) \ {Public} : \A s \in DOMAIN Role[r].surfaces :
    <<r, s>> \in Manifest(name) <=>
      /\ contexts[name] # Nothing
      /\ \E g \in grants[r] : ~IsDenied(AuthorizeRole(r, contexts[name].selection, <<g.scope>>))

(* What is shown to a caller, as a manifest and as the rows of a           *)
(* subscription, is what its calls can reach, and it reaches nothing       *)
(* without authority.                                                      *)
ReachIsWhatIsShown ==
  /\ ListedIsHeld
  /\ \A request \in AnyRequest :
       LET answer == AnswerTo(request)
       IN  IsRole(request) /\ IsServed(answer) =>
             /\ IsAuthorized(request, answer)
             /\ Addressed(request) => ShowsWhatItAddresses(request, answer)
=============================================================================
