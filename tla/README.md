# A TLA+ development of Liasse

Liasse is an application-state engine: a *package* (a definition in HJSON) declares collections,
views, mutations, roles and surfaces; the engine runs requests against one durable instance of it,
and a connector streams views of that instance to clients. This directory models the parts of it
whose correctness depends on order, interleaving and failure, checks them with TLC on small
instances, and proves about the two stores, the engine's admission, the surface host, its authorization,
the connector, the histories of instances, the three-way merge and the keyrings, with TLAPS, what TLC can only sample.

Paths below are relative to the repository; `crates/...` is `src/crates/...` in `PROJECT.json`.

## 1. Inventory

### The parts and how they interact

```
 client (clients/connect TS, liasse-connect-wasm replica)
    |  hello / view / call / unsubscribe            ^  init, scalar, patch, close, reset (SSE)
    v                                               |
 liasse-connect  core: ConnectCore -> per connection SubState + Outbound ring; bind/std_http
    |  watch, call, connect, disconnect             ^  current rows of a watch
    v                                               |
 liasse-surface  SurfaceHost: connections, watches, operation log, completion barrier
    |  call, view, head                             ^  CallOutcome, rows at a frontier
    v                                               |
 liasse-runtime  Engine: admission, interpreter, cascade, deletion, meters, keyrings, migration
    |  begin, stage, commit                         ^  rows at head, snapshot(frontier)
    v
 liasse-store (contract, MemoryStore)   |   liasse-pg (PostgreSQL)   |   liasse-blob-fs
```

Everything below the binding is synchronous Rust with `&mut` ownership: no step of the host
interleaves with another. The concurrency is between *connections* (calls of different clients,
retries, peers' subscriptions, time), between the *stream* and the requests of one connection, and
between the process and PostgreSQL (crashes, lost answers).

| Component | State | Operations | Hard behaviours | What makes it correct |
|---|---|---|---|---|
| Store contract, `MemoryStore` (`liasse-store`) | current rows, commit log, head, incarnation counter, history points, blobs, definition, composition; one staged transition with its overlay | begin, insert, update, delete, rekey, set definition or composition, commit, abort, snapshot, record point, put blob | long sequences of operations on one address; burned identities; two answers to "rows at head" | replay of the log = current rows; reads in a transition = what its commit leaves; identities never return; history never changes |
| PostgreSQL store (`liasse-pg`) | tables `instance_meta`, `commit_log`, `nodes`, `history_points`, `blobs`; overlay in memory | the same, plus create and reopen | tombstones, revived nodes, orphans; crash or lost answer at any statement | tree = fold of the log; scans agree with the flat reference; tokens burned across crashes |
| Surface host (`liasse-surface`) | connections, contexts, watches (frontier, closed), operation log, clock | connect, disconnect, authenticate, watch, resume, call, advance_time, operator commits | retries on another connection, revocation by a peer, expiry, a sweep that fails half way | completion barrier; one cut per connection; no watch outlives its authority; frontiers never go back; one commit per operation key |
| Roles, authentication, coverage (`liasse-surface` authn, role, router; `recursion.rs`) | account, session and grant rows, the rows of the tree, bound contexts | authenticate, call, watch, resume, manifest | several reasons to refuse, of which a stranger may learn none; a credential whose session or membership went; two walks down one tree | no answer tells a stranger that a role exists; what is shown is what can be reached, and neither without authority |
| Connector core (`liasse-connect`) | per connection: subscriptions with the snapshot last sent, bounded ring, cursor, overflow latch | hello, view, unsubscribe, call, disconnect, poll, resume | slow and cut streams, eviction, event ids shared by several frames | replica + frames on their way = server's snapshot; patches fit; a commit answered is on the stream |
| Client replica (`liasse-wire` store, `liasse-connect-wasm`) | per subscription: rows or value, phase | apply a frame | a frame for a closed subscription, patch without init | as above |
| Stream sessions, HTTP binding, TypeScript client (`liasse-connect` stream, bind; `clients/connect`) | session table, actor with sockets, posts in flight, the client's source and header | open, bind, rebind, close; drain to a socket; mount, reconnect, unmount | a full socket loses a drained batch; stale sessions; posts out of order | a subscription that stays mounted catches up |
| Engine admission (`liasse-runtime`: engine, state, interp, rules, cascade, deletion) | loaded package; per call: working rows, marked addresses, captures of erasures | insert, replace, write, patch, rekey, delete, erase, finalize, diff | only marked rows are validated; one deletion mixes policies over several hops; a rekey rewrites references to a whole subtree; identity is recovered from addresses | unmarked rows are unchanged and valid; committed references resolve; nothing stays under a row that left; rekeys keep references |
| Mutation programs (`liasse-model` mutation, interp.rs) | the statements, locals, the rows | load checks; assign, clear, patch, insert, delete, call, return | the load leaves parts untyped; handles of rows that move | accepted programs do not fail for their types; writes read back |
| Expressions (`liasse-expr`, `liasse-pred`) | none | check, evaluate, hoist, lower, scan | names, `.` and outputs bound in two places; a view lowered to a program over stored rows | typed expressions keep their types; a scan is the evaluation |
| Values and their forms (`liasse-value`, `liasse-pg` codecs, portable.rs) | none | decode, to wire, store, capture; key bytes | absent, none and null; order of bytes | every form reads back; bytes order as values |
| Buckets (`bucket.rs`, `source_bucket.rs`, `recur.rs`) | source rows, recurrences, the clock | put and drop sources, reads at instants | infinite series compared by arithmetic; a horizon | generated keys are unique; reads miss no period |
| Meters (`meter/`) | pools, spends with frozen allocations | spend, refill, delete, transfer | two levels; pools inserted by the same call | every spend is funded; no pool is drained twice |
| Keyrings (`keyring.rs`) | versions, clock, tokens | rotate, revoke, jump of the clock, sign | catch-up of several cutovers, a provider that fails half way | a token verifies while it is retained; catch-up is the schedule |
| Blobs (`blobs.rs`, `placement.rs`, `liasse-blob-fs`) | placement, objects in stores | put, reconcile, fetch, repair | partial failures, rotten copies, stores on one connector | repair never loses content that has a copy of its own |
| Migration, seeds (`migrate.rs`, `seed.rs`) | the release in force, rows | update, downgrade, calls in between | enum keys change order; bundle rows edited locally | rows fit the release; local changes stay; a downgrade loses nothing |
| History, lineage, merge (`lineage.rs`, `history.rs`) | cursor, ancestors, artifacts | commit, export, restore, fast-forward, rollback, merge | re-imports, copies that go on upon one lineage | the relation read off two points is true wherever no lineage forked; a clean merge keeps both sides |
| Module hosting (`modules/`) | children per space, recorded peers | install, disable, rename, update, uninstall, read | releases are compared pairwise, handles bound by name | peers and clients keep what they were promised; reads fault for a reason |
| Windows (`liasse-surface/window.rs`, `patch.rs`) | anchor, gap, rows delivered | open, advance, apply | anchors that vanish | the client holds the window |
| Front end (`syntax`, most of `model`, `ident`, `diag`) | none | parse, validate | recursive data | not modelled: pure functions covered by the corpus under `tests/` |
| Artifacts (`liasse-artifact`) | the entries of one container | build, open, restore; the test kit's damage | an entry replaced together with its checksum; two entries of one name; containers in containers | what opens is certified entry by entry; what restores is what was exported |
| Host seams, tokens, test kit, CLI | none, or external | codecs, adapters | - | not modelled, apart from the kit's damage to containers |

`PROJECT.json` lists the same components with their files, and under `hazards` every place found so
far where the code is hard to test, with the properties that watch it.

## 2. Modules

```
 SeqFold            folds over sequences as recursive functions (no RECURSIVE operator)
 StoreRows          rows, row operations, Snapshot::apply and replay     EXTENDS SeqFold
 StoreContract      what any store promises                             EXTENDS StoreRows
 Store              MemoryStore + MemoryTransition                      EXTENDS StoreRows, refines StoreContract
 NodeTree           the nodes table: reads and writes as operators      EXTENDS StoreRows
 PgStore            PgStore + PgTransition, crashes, lost answers       EXTENDS NodeTree, refines StoreContract
 RowGraph           row addresses, references, constraints, marking
 Deletion           the deletion planner and its effects                EXTENDS RowGraph
 Admission          Engine::call: statements, final pass, commit        EXTENDS Deletion
 Surface            SurfaceHost
 Access             roles, credentials, coverage, the manifest
 Connect            ConnectCore + client replica + network              EXTENDS Surface
 Streams            sessions, the std_http actor, the TypeScript client
 Window             patches between ordered results; windowed watches
 Lineage            cursors, exports and movements between instances
 Reconcile          the three-way merge of two diverging sides
 Migration          updates and downgrades between releases
 Contracts          what a release promises its clients, and what narrows it
 Modules            installed packages, their peers, reads          EXTENDS Contracts
 Meters, Keyring, Blobs    facts an engine keeps beside its rows
 Buckets            stored and source-backed buckets, recurrences
 Artifacts          containers: building, opening, damage, restoring
 Values             values and their order
 KeyBytes, Wire     key bytes; the JSON, stored and captured forms      EXTEND Values
 Typing             the checker of expressions
 Evaluation         the evaluator                                       EXTENDS Typing, Values
 Pushdown           hoisting, lowering, scans by row programs           EXTENDS Evaluation
 Programs           load checks of mutations and the interpreter        EXTENDS Evaluation
 SeqFoldProofs, StoreRowsProofs, StoreProofs, PgStoreProofs,
 AdmissionProofs, SurfaceProofs, ConnectProofs, InstanceProofs          lemmas and theorems
 MCEdges, MCAdmission, MCSurface, MCConnect, MCInstance, MCLanguage    instances for TLC
```

`MCInstance` composes `Lineage`, `Reconcile`, `Migration`, `Modules`, `Meters`, `Keyring` and `Blobs`,
`MCSurface` adds `Window` and `Access` to `Surface`, `MCAdmission` has `Admission` beside `Store`, `MCEdges` has
`PgStore`, `Streams` and `Buckets`, and `MCLanguage` puts
`Pushdown`, `KeyBytes`, `Wire`, `Programs` and `Artifacts` beside each other. The parts of such a composition share no
state (modules that one instance extends name theirs apart: `Admission` has `engine` and `CallsSpec`, `Streams`
`version` and `StreamsNext`); a behaviour moves one of them and leaves the others at rest, so that the run explores the sum
of their state spaces and not the product.

### Store (`StoreRows`, `StoreContract`, `Store`)

`Store` has one variable per field of `MemoryStore` (`head`, `current`, `log`,
`next_incarnation`, `points`, `blobs`, `definition`, `composition`) and one per field of
`MemoryTransition` (`overlay`, `ops`, `now`, the staged texts); `phase` is the exclusive borrow that
a transition holds on its store. An action is one trait method. Three things stay separate because
the code keeps them separate: the *overlay* (what a transition reads), `ApplyCurrent` (the unchecked
live fold at commit) and `SnapshotApply` (the strict fold of a replay, whose failed occupancy check
is `Corrupt`). Properties compare them. A call that returns an error and changes nothing is a step
that is not enabled. Blob contents stand for their own digest.

`StoreContract` is the promise without staging: `AllocIncarnation`, `Commit`, `RecordPoint`,
`PutBlob`. `Commit` says what a new log record must be (strictly applicable to the rows, fresh
identities, the next position), not how it came about. Both back ends refine it.

### PostgreSQL (`NodeTree`, `PgStore`)

`NodeTree` has the adjacency tree as a sequence of nodes by surrogate id, its reads (`ResolveId`,
`RowAt`, `Scan`, `ScanSubtree`, `MaterializeHead`) and its writes (`Place`, `Tombstone`,
`NodeApply`). Its one assumption about codecs is that `key_enc` is injective on the keys used.
`PgStore` gives `MemoryStore`'s operations over tables: staging reads committed rows live
(`Resolve`), the token of an insert is burned by an autocommit statement, a commit is one SQL
transaction. Failure is explicit: `InsertLost` and `CommitLost` are statements that took effect and
lost their answer, `CommitRolledBack` one that failed, `Crash` the end of the process or connection
between statements, `Reopen` the factory's `reopen`. `Contract` maps `current` to the point lookup of
every address.

### Admission (`RowGraph`, `Deletion`, `Admission`)

A package is a value: `schema` maps a declaration path to the key fields, references (kind, optional,
`$on_delete` policy), unique groups, checks and assignments of its collection. A row's address is the
sequence of its levels, and a reference *is* the address of its target. `Gather` is
`Prospective::gather`: the top-level rows and what is stored under them (a stored row without a
top-level ancestor is not gathered, and stays). A call is then a run of statement actions on `working`:

| Action | Code |
|---|---|
| `InsertRow`, `InsertFromView` | `insert_row` with `stage_initializer`, `insert_from_view` |
| `WriteFields` | `write_field`, `exec_clear`, `set_mutate`, one row of `exec_patch`: all end in `place` |
| `Place` | `place` with both reference rewrites: the rekey of a row, its subtree and what refers into it |
| `DeleteRows`, `Erase`, `ReplaceCollection` | `exec_delete`, `exec_erase`, `replace_collection`; at the top level through `Deletion` |
| `DeleteNested`, nested `ReplaceCollection` | `remove_subtree`, no policy consulted |
| `AdmitCall`, `Reject` | `finalize`, `diff`, `stage`, commit; every early return |

`Deletion` has the planner of `deletion.rs` over the graph of `cascade.rs`. The worklist closure is
written as the least set closed under cascading references; `IsBlocked` and `HasConflict` are the
planner's two refusals, `Survivor` what patches, clears and dropped members leave of a row. `touched` is
the interpreter's list; `Marked` stops at the first ancestor that is not live or is already marked, as
`mark` does. `origin` is a history variable: the incarnation a working row was gathered with, carried
along when it moves. One call runs at a time (`&mut Engine`), so what interleaves is the statements.

### Surface host (`Surface`)

The engine is reduced to its log: `history[n]` is what commit *n* left, as far as the surface reads it
(a version of the data that views project, and who holds the role). A view is a pure function of
(commit, instant), so a watch is its frontier, the instant of its last evaluation and its close
latch. `Swept` is the completion barrier: connections and watches in id order, the caller's advanced
to the settled commit (never behind its own frontier), the others only checked for authority. A sweep
may err at any open watch (`Stops`); what was visited stays changed, what follows is untouched, the
commit is durable and nothing is recorded - as `settle_commit` behaves. `promised`, `reported` and
`settled` are history variables: what clients were told, and whether the last sweep was complete.
What a request may reach stands here as `Authorized` (bound context, live session, membership in the
given state); `Access` has it in full, and `Window` has what is delivered of a view.

### Authority (`Access`)

A request is a value: an address, a credential or the bound context, a scope, keys below it, the names
of its arguments. `Answer` is the whole path of `host/call.rs` from the request to the call given to the
engine, the rows a subscription is opened on, or a refusal, with every early return in its order:
`Resolve` is `authn`, `AuthorizeRole` the membership, `HideUnenumerable` the rule that a caller whose
context never held the role learns nothing, `ResolveCall` and `ResolveView` the router. A view of a scoped
role shows what `Cover` descends to; a call through it addresses what `ResolveReceiver` walks to, key by
key. The two are separate functions in `recursion.rs` and a property compares them. The actions are what
moves beneath a caller: `authenticate` and reconnection, and the application's own commits to accounts,
sessions, grants and the tree, with the clock. `bound` and `held` are history variables: the actor a context
was bound for, and who was ever granted a role. Authenticate's own refusals are precise by design and are no
answers here; a resume carries no scope, so the subscription of a scoped role is not resumed; a scoped
surface without a view takes its receiver from the arguments like any other.

### Connector and client (`Connect`)

Each inbound frame is the host's action conjoined with what the connector does about it. A snapshot is
what a watch shows (`Shown`), a patch is the ordered pair of two snapshots and fits only a replica that
holds the first; so *any* patch that would be applied to other rows than it was computed from is a
visible misfit. `EmptyOutbound` and the operators after it are the ring with cursor, eviction watermark and overflow latch. `client` is
the peer: the frames in flight (`wire`), the replica, the last event id. `Cut` breaks the stream with
frames in flight, `Resume` reconnects with the last id, `StartOver` without one. External parts, and
modelled from how the code uses them: the network (`Cut`) and the application that decides to start
over (`StartOver`).

### Streams (`Streams`)

The binding, for one connection: a session is minted by the core, announced on the stream it belongs to
and carried by the client's POSTs; the actor binds a connection to the session of the last POST it
took, drains the ring into that socket and drops a socket it finds full, with the batch it had drained.
What the server shows is a version; the ring is the frames not delivered yet. The client is
`session.ts`: a source that reconnects, a header it takes from the announcement, a re-view of every
live subscription on each reconnection.

### Windows (`Window`)

`diff` in its two passes, and `apply`, which refuses an operation that does not fit. The actions open
a watch with or without a window, move the rows of the view by single steps, and let
`advance` re-slice: the anchor followed, lost or clamped, sliding or frozen. The client applies only
patches.

### The life of an instance (`Lineage`, `Reconcile`, `Migration`, `Contracts`, `Modules`)

`Lineage` keeps, beside the cursor of each engine, the sequence of commits its state is made of, each with the
point it was given, which the code does not: properties compare what `classify` reads off two points with what
the states are. Nothing restrains an engine: any number of copies are restored from one artifact, each commits
on the lineage it took over (`advance` asks nothing), and `activate_merge` commits rows of whatever origin. So a
point may name two states, and `RelationIsTrue` is false of the code (section 4). What does hold is
`OnlyForksMislead`: an answer is true unless the two states in question both went on upon one lineage after
they had parted (`Forked`). It is said of engines that never followed a false answer (`misled`, the third
history variable, which an artifact carries on); one that did has a chain of lineages its state did not come by.
`Reconcile` has `ThreeWayMerge` as operators over tables, and the two sides that diverge by admitted
commits and merge. `Migration` is one update as a whole: the enum keys rebuilt in the order of the new
release, mappings forward and back, per-version programs, references rewritten, seed if absent, bundle
merged. `Contracts` has the boundary contract of a release as it is extracted (the output of each surface's view, its
parameters, its operations with their parameters and response) and the comparison of two, part by part.
`Modules` installs, disables, renames, updates and uninstalls instances under the rows of a
root application, with their peers recorded by name; and it has the read of an interface as a function of
the state, with the ways it may fail. A fault there is one that some row may meet: an expression that reads
a handle which is not bound fails only when it is evaluated. An instance keeps every release it has had, and a
handle the incarnation and release it was resolved at, which the code does not: `PromisesAreKept` compares
promise and present. It has three parts.

- `PeersKeepTheirFields` excepts a release that passes the whole row through, because `dropped_from` compares
  projections only: a package that exposed `{ id, label }`, then the row, then `{ id }` has taken `label` from
  its peers in two accepted updates (so the comment on `exposed_grouping`, that an accepted update never
  narrows, holds between two projections only). One release of the instance does so, and without the
  exception TLC finds the property violated.
- `ClientsAreServed` takes the first release a client saw and, part by part, excepts what a release in between
  did not show: the check compares two releases, and a parameter that one dropped, or a key, ordering or
  response that could not be read, comes back as new. `SPEC.md` (5394) has a release rejected that narrows
  against an earlier one of the same major; `compat.rs` leaves that to a registry, which has the history.
- `FaultsHaveAReason` lists why a read may fail. Handles are bound by name at each read, so a sibling that took
  over a name is read instead; and disabling one required peer makes every view of the root that
  aggregates its consumer fail (`aggregate_snapshot`, `RootViewsFault`).

Read off the code while it was modelled, and not a property of a run: `structured_sort_key` takes `$dir`
from a quoted string only, while the surface syntax writes it bare (`ordering.rs` 56 and `contract/mod.rs` 25
say `{ $by, $dir: desc }` is a descending key), so the flip of a bare direction is not noticed (`Ordering`);
`exposed_narrowing` is applied to major updates too, which `SPEC.md` lets break; a release whose views read a
handle cannot be updated *to*, since `Engine::update` compiles it without imports.

### Facts beside the rows (`Meters`, `Keyring`, `Blobs`)

`Meters` runs calls of a few statements and a finish that resolves spends against the pools of two
levels and freezes the allocation; a ghost names the pool row the money is really of. `Keyring` has the
versions of a ring on a clock the host moves by jumps, the provider failing after any number of keys.
`Blobs` places one content over stores that fail with or without effect and may rot. A store is a row
(`stores`) with a connector and a switch, both free fields, and the object is named by its digest: two rows that
name one connector have one object between them. A repair clears its destination before it writes, so
`RepairNeverLosesContent` is false where a store to be filled or repaired shares its connector with a verified one
(section 4). `UnsharedCopiesKeepContent` is what holds: as long as some verified holder has a clean object that
no such store names (`Shared`), the content can be fetched after every operation, whatever the other rows do and
whichever upload of the operation fails.

### Buckets (`Buckets`)

Period arithmetic in a calendar of months of two lengths, the series of a source with or without an
end, key components, the comparison of two unbounded grids by greatest common divisors, and the
horizon a temporal read generates to. A longer enumeration than any the code makes (`Depth`) is the
reference.

### The language (`Values`, `KeyBytes`, `Wire`, `Typing`, `Evaluation`, `Pushdown`, `Programs`)

Expressions, types, nodes, values and forms are tagged tuples. `Typing` is the checker, `Evaluation`
the evaluator in both its modes (a view as a source, a view as a value), `Pushdown` the hoisting of
what does not read the candidate, the lowering to a row program and the scan that runs it over stored
fields. `Values` has the order, `KeyBytes` the bytes PostgreSQL compares, `Wire` the request, authored,
view, stored and captured forms. `Programs` has the checks a mutation passes at load and the
interpreter with its receivers, locals, handles and calls. An action adds one construct to an
expression, a component to a key, a container to a form or a statement to a program; then the whole of
what was grown is checked.

### Containers (`Artifacts`)

`Build` is `ArtifactBuilder` over an export (definition, state, further sections, child containers):
the order of the entries, one entry for what was added twice, the manifest with the digest of each leaf,
the index of the history. `Opens` is `Artifact::open` with every refusal in its order: the names in the
archive, `mimetype` first, the closed format of the manifest, canonical role paths, leaves and
modules under different rules, digests, the children to a bounded depth. `Restores` adds
`verify_selection_coherence`, which `restore_from` asks and `import` and `classify` do not: they read the
selection from the manifest alone. A digest is injective, a byte string is what it holds, and a JSON document
has its real members, so that a member too many, one that is missing and one of another type are told apart.
The actions are the damage the test kit does (`liasse-testkit/src/adapter/artifacts.rs`): corrupt, replace,
add, duplicate, remove or copy an entry, edit the manifest at a pointer, rewrite an identifier, compute the
checksums anew. `ArtifactsReadBack` says what survives each. The ZIP and JSON bytes, compression and media types are left
out.

## 3. Runs

| Run | Question | Bounds | Distinct states |
|---|---|---|---|
| `Edges` | Do the tables give the same answers as the reference, through tombstones and crashes? Does a mounted subscription always catch up? Are generated keys unique, reads complete? | 3 addresses, one nested below another, 3 operations, 3 commits, 2 tokens; 2 subscriptions, ring of 3, 1 commit, 1 cut, 1 full socket, fairness; 2 sources, every recurrence over 12 periods | 439 k |
| `Surface` | Barrier, cut, authority, deduplication, monotone frontiers; does a client hold its window? What can a caller reach, and what can a stranger learn? | 2 connections, a public and a role subscription each, 3 commits, one failing sweep, one expiry; 4 occurrences, 2 sort values, windows of 0, 1 and 3; 2 scoped roles, 4 rows of a tree, `MaxMoves` 5, every request in every state | 516 k |
| `Connect` | Does the replica reconstruct the server's snapshot, is an answer preceded by its patches? | streaming client and writing peer, a row and a scalar subscription, ring of 3, 2 commits, 1 fault, 1 cut | 2.3 M |
| `Admission` | Does what is not marked stay valid, do rekeys and deletions keep references and subtrees whole? Do the reference store's map, replay and overlay agree, is history immutable, is the contract implemented? | 5 packages, 2 companies, 2 offices each, 2 accounts, 2 rows at the start, 2 statements of up to 2 rows, 1 call; 2 addresses, 2 operations per transition, 3 commits (2 once anything but rows was written: `StoreDepth`), 2 tokens, 2 instants | 338 k |
| `Instance` | Are answers about lineages true where no lineage forked? Merge, migration, modules, meters, keyrings; does a repair keep content that has a copy of its own? | per part, in `MCInstance.cfg`; of lineages, 2 engines, `MaxCommits` 4, `MaxArtifacts` 2; of blobs, 3 stores on 3 connectors, on 2, or on one and the first disabled, 3 faults | 318 k |
| `Language` | Do checker, evaluator, row programs, key bytes, forms and interpreter agree? What does a damaged container hand out? | 3 constructs, 3 statements with the return, 2 worlds; 7 exports, nested, `MaxDamage` 2 | 322 k |
| `AdmissionRekey` (violation) | Does a rekey keep the incarnation? | 1 statement | - |
| `ConnectResume` (violation) | Is a resume never gapped? | two views at one frontier, 1 cut | - |
| `MetersBalance` (violation) | Is the balance shown what is left? | 1 account, 2 statements | - |
| `CaptureNull` (violation) | Does a captured row come back as it was? | one member | - |
| `LineageForks` (violation) | Is the relation `classify` gives always that of the states? | as in `Instance`, the other parts at rest | - |
| `BlobsShared` (violation) | Does a repair keep the content whatever the stores are? | as in `Instance`, the other parts at rest | - |

Why the bounds are enough. *Store*: every disagreement between the three folds concerns one or two
addresses (a rekey) and a sequence such as insert, delete, insert, or insert, rekey, within or across
transitions; transitions of two operations contain every pair of kinds on both sides of a commit, two
tokens let one be burned by an abort, three commits let a row appear, vanish and appear again in
history. *PostgreSQL*: the tree's hazards need a parent that is deleted, a child that survives it and the
parent's revival or a rekey onto it: three addresses (two siblings, one below the first) and three
operations in a behaviour, spread over up to three commits. *Admission*: a cascade of two hops needs a
chain of three rows, which two seed rows and one insertion give, and the second statement deletes or
rekeys its head; the same two statements reach a mark forgotten under a row already marked, a deletion
after a rekey, and an erasure of nested rows. The packages cover each policy on scalars, plain sets and
sets inside structs; the nested one has a $check over the children. *Surface*: a caller, a peer, a retry
and a fault; four rows are enough for a window of three to lose its anchor and slide; a chain of three rows has an
included row below an excluded one, and five moves write the two lower rows and the grant, connect and authenticate. *Connect*: a ring
that can evict an undelivered frame; a commit before, during and after a cut. *Streams*: a full socket
and a cut, in either order, around a commit. *Instance*: three releases make a step forward, a step
over a dropped label and a step back; of seven packages, one line widens, hides and breaks what its surface
promised, one reads an optional peer and its parent, one a required peer and one that peer's own; two levels and two
spends can exhaust a pool; a clock of six ticks and a period of two holds a catch-up of three cutovers. Four commits over two engines and
two exports make a copy that commits, is exported, branches after a rollback and is compared with the other
branch; one export and two commits make a fork. Of three stores, one can be verified beside two that share a
connector, and one that shares the verified one's.
*Language*: a mistake in binding needs a construct inside a construct inside a construct. What the bounds
leave open is proved for the stores, admission, surface and connector, which bound nothing.

Deadlock checking is off in the runs, since their bounds exhaust (`MaxCommits`, `MaxFrames`, `MaxCuts`, `MaxTime`,
`MaxSize` and the like).

Each property is stated with its reason in its module, and each has a mutant in `PROJECT.json`: a
plausible bug in the code the property is about, under which TLC finds it violated.

| Run | Properties |
|---|---|
| `Edges` | `TreeIsLogFold`, `ScansMatchReference`, `ImplementsContract` (of `PgStore`), `TheStreamSelfHeals`, `GeneratedKeysAreUnique`, `TemporalReadsAreComplete` |
| `Surface` | `CompletionBarrier`, `OneCutPerConnection`, `NoWatchOutlivesAuthority`, `RetryReobservesOneCommit`, `FrontiersNeverRegress`, `ClientHoldsTheWindow`, `AnswersRevealNoRole`, `ReachIsWhatIsShown` |
| `Connect` | `StreamReconstructs`, `CommittedIsOnTheStream`, `RowsNeedAuthority` |
| `Admission` | `GovernedReferencesResolve`, `AdmissionKeepsConstraints`, `ErasureCapturesWhatItRemoves`, `RekeyKeepsReferences`; of `Store`: `CurrentIsReplay`, `StagedIsWhatCommits`, `HistoryIsImmutable`, `ImplementsContract` |
| `Instance` | `OnlyForksMislead`, `CleanMergeKeepsBothSides`, `RowsFitTheRelease`, `UpdatesKeepLocalChanges`, `PromisesAreKept`, `SpendsAreFundedOnce`, `TokensOutliveRotation`, `CatchUpIsScheduled`, `UnsharedCopiesKeepContent` |
| `Language` | `TypedExpressionsKeepTheirTypes`, `ScansAgreeWithTheEvaluator`, `BytesKeepTheOrder`, `FormsKeepTheValue`, `AcceptedProgramsRun`, `WritesReadBack` |

### Fairness

Only the streams of `Edges` assume any (`StreamsFairness`). The actor takes every job it was sent: its thread loops on its
channel (`bind/std_http.rs`). A client with a source that ended reconnects (`session.ts`), an open
socket delivers what its writer wrote, and a socket whose writer was dropped ends. Requests,
commits, cuts, stalls and mounting are never fair. `TheStreamSelfHeals` needs a ring of at least one frame
more than the live subscriptions (`RoomForReinit`); with less, a reconstruction overflows the ring it
fills and the code resets for ever. It is checked with POSTs that reach the actor in the order they were
issued (`InOrder`): a late POST with an old session re-binds delivery to a dead socket until the next
reconnection.

## 4. What the violated statements show

- **`ResumeIsGapless`.** `tests/resume.rs` calls a resume "always correct, never a gapped replay".
  An event id is a frontier, and several frames can share one; `replay_after` is strict, so a stream
  cut between two of them resumes past an unread frame. The ids of one ring are not in order either: a
  peer's close is stamped with the commit it follows, which is ahead of the connection's own frontier,
  and behind it when the peer's call was a replay of an old operation; a resume from such an id skips
  frames, or sends patches again that the client has applied. The passing runs set `CleanResumeOnly`
  and take a replay only where the id separates what was read from what was not (`CleanResume`: every
  unread frame is in the ring and above the id, and of those already read only a close is), so that
  the other properties are about everything else.
- **`RekeyingPreservesIncarnation`.** `SPEC.md` says a rekey preserves the incarnation (5178) and the
  history continuity of the row and its descendants (472). `Prospective::diff` compares addresses, so
  the moved rows are admitted as deletions and insertions with fresh incarnations; the store's `rekey`,
  which would keep them, is never called. Deleting and reinserting one key within a program is the
  converse: it comes out as an update and keeps the incarnation.
- **`BalanceIsTheRemainder`.** A funding entry is frozen with the incarnation its pool has in the index of
  committed rows. A pool the call itself inserts, or one whose account the call renames, has none there;
  read back after the commit, when the pool has one, the entry does not match and what the spend
  took is offered again. That no pool is drained twice *within* what the code accounts for, and that every
  spend is funded, do hold.
- **`NullsSurviveCapture`.** A captured row is read back by a struct type whose members are all wrapped in
  an optional; a `json?` field becomes an optional of an optional there, and its null comes back as none.
- **`RelationIsTrue`.** A point is a lineage and a position, and `lineage.rs` (51) holds that "two points are the
  same point exactly when their lineage and position agree". But `HistoryCursor::advance` gives whoever holds a
  lineage the next position on it, and an export can be restored any number of times: the exporter and a copy
  (or two copies) both go on upon one lineage, and each makes its own commit at the same position. `classify`
  then answers `SamePoint`, `FastForward` or `Rollback` where the states have parted, and an import that is
  told `FastForward` drops the local commits. `SPEC.md` (3510) and the corpus
  (`19-history-artifacts/common/merge-compatible-separate-coordinates.hjson`) have a three-way merge there;
  the test kit's reconcile step gets it because it goes to the merge without asking `classify`.
- **`RepairNeverLosesContent`.** `copy_and_verify` deletes the object at the destination's connector "clear any
  demoted/corrupt object first" (`blobs.rs` 451). If the store to be repaired or filled names the
  connector of a verified store, as the two stores of `tests/blobs.rs` (284) do, the object deleted is that store's
  only copy; if the upload then fails, no holder delivers the content any more.

Two further statements were found false earlier and are watched from the side that holds: an operation
key may be executed twice when the sweep after a durable commit errs (nothing is recorded and a retry
commits again), though `RetryReobservesOneCommit`, what clients are *told*, is proved; and an answer lost
after PostgreSQL committed is an error that did change state, `CommitLost` in `PgStore`.

## 5. Proofs

Every theorem holds for all values of the constants that satisfy the named assumptions; TLC evaluates the
assumptions on each run. `PROJECT.json` lists the theorems with the property each states.

### The reference store (`StoreProofs`)

| Theorem | Says |
|---|---|
| `StoreInvariant` | `Spec => []StoreInv`, the inductive invariant below |
| `TypeCorrect`, `IdentitiesAreUnique` | its types; no two live rows, staged ones included, share an identity |
| `CurrentReplaysTheLog` | `Spec => []CurrentIsReplay` |
| `StagedReadsAreExact` | `Spec => []StagedIsWhatCommits` |
| `HistoryNeverChanges` | `Spec => HistoryIsImmutable` |
| `ImplementsStoreContract` | `Spec => ImplementsContract`, the refinement of `StoreContract` |

`CurrentIsReplay` alone is not preserved by `Commit`, since the staged operations could be ones that a
strict replay rejects. `StoreInv` therefore adds `GaplessLog` (record *n* has position *n*, so a replay to
`head` skips nothing), `StagedFolds` (for an open transition both the strict and the unchecked fold of its
operations over `current` give the overlay's view), `IdleIsClean`, and `IdentitiesOf` for current and for
effective rows: identities are pairwise distinct *and* below the counter, without which a fresh token could
collide. The refinement needs `TokensAreFresh` besides: the tokens of staged inserts and of every log record
were handed out, and no two inserts hold one. The contract's `Commit` speaks of the whole log, while
`StoreInv` speaks of living rows only.

The argument rests on `SeqFoldProofs` (a fold over no elements is its base, over `Append(s, x)` one step
after the fold over `s`, and contexts that agree on every element give one fold) and on `StoreRowsProofs`
(what an append does to replay, to the tokens of a list of operations and to their distinctness), which
both stores use. The library's induction theorems take an operator, so `SeqFoldProofs` derives induction
over a *set* of naturals from the well-foundedness of `<`, and characterises a fold by its trace.

### The PostgreSQL store (`PgStoreProofs`)

| Theorem | Says |
|---|---|
| `PgInvariant` | `Spec => []PgInv` |
| `PgImplementsContract` | `Spec => ImplementsContract`, through crashes, lost answers, rollbacks and reopened handles |
| `TreeIsTheLog` | `Spec => []TreeIsLogFold`: point lookups and a full load both give the replay of the log |
| `ScansSeeTheRows` | `Spec => []ScansMatchReference`: collection and subtree scans list the reference's rows |

`PgInv` says that `nodes` is a table (`IsTree`: at most one node per parent, step name and encoded key, a
parent's id is lower than its child's, a node's `key_enc` is the encoding of its `key_wire`; and every live
node sits at an address of the instance), that its rows are the replay of the log (`TreeIsReplay`), and, for
an open transition, that the staged operations mean the same written to the tree as read through the
overlay as folded strictly (`StagedIsWritten`). The core is a lemma of each write of `NodeApply`: `Place`
and `Tombstone` keep a table and change the rows at one address only, whether the level was missing, live
or a tombstone. Two facts about paths carry the reads: a path of steps leads to at most one node
(`ResolveId` is the descent), and the chain of parents of a node spells its address back, so the subtree scan
that starts at an anchor and descends reaches exactly the nodes whose address extends the anchor's. Both go
by induction over a set of lengths. Assumed of the codecs: `KeyEnc` is injective on the keys of the
instance (`KeyEncAssumption`; `BytesKeepTheOrder` checks the real encoding), steps are records of name and
key, and the sentinels are not values.

### Admission (`AdmissionProofs`)

| Theorem | Says |
|---|---|
| `UnmarkedIsUnchanged` | `Spec => []EveryChangeIsMarked` |
| `UnmarkedReferencesAreLive` | `Spec => []UnmarkedReferencesResolve` |
| `CommittedReferencesResolve` | `Spec => []GovernedReferencesResolve` |
| `RekeysKeepReferences` | `Spec => RekeyKeepsReferences` |
| `ErasuresCapture` | `Spec => ErasureCapturesWhatItRemoves` |
| `AdmissionIsSound` | `ChecksLookDown` gives `Spec => AdmissionKeepsConstraints` |

The third alone is not inductive: the final pass looks at marked rows only, so the invariant must say
what holds of the others while the program runs. `IInv` is the conjunction of the three, of
`Addressed` (rows sit at addresses of the package), of `MarksClimb` (the live parent of a marked row is
marked) and of `ChildrenStay` (under an unmarked row every row the call found is still there). Each statement is shown to satisfy two facts,
`KeepsUnmarked` (an unmarked row after the step is the same row before it) and `KeepsTargets` (no
top-level target of an unmarked row went), from which `StatementPreserves` concludes. The two hard
cases are `PlaceKeeps`, where a row that referred into the moved subtree would differ after the rewrite
and so be marked, and `DeleteKeeps`, where a surviving referrer of a deleted row is either in the
closure, or blocks the deletion, or is written and so marked: every policy falls in one of the three.
The last two conjuncts are what `AdmissionIsSound` needs. The final pass evaluates the checks of marked
rows; the check of an unmarked row gives what it gave before because nothing under the row is marked or
gone. Uniqueness is symmetric, so of two rows that clash one was validated or both are as they were.
`MarkAllClimbs` is the hard lemma: `Interp::mark` stops at an ancestor already marked, and that is
sound only because every row a statement makes live is itself marked by that statement. The theorem has
one hypothesis, `ChecksLookDown`: a check reads its row and what hangs under it through live rows. The
code does not enforce it (a check that reads the root is a hazard listed), so it is said in the theorem.
A rekey is an action property: with `IInv` before the step, `MovedReferences` follows one reference
through it. `RerootIsUndone` gives that moving a row back undoes the move and that its declaration stays
(`KeyAddressKeepsNames`: only the last key changes), so both ends are found again at their new
addresses; the rewrite then sends the referrer's field to where its target went, whichever of the two
moved. The fields the write assigns are excepted on the written row alone: an assigned reference may be
meant to go elsewhere.
The assumptions are that addresses are non-empty and none is `Nil`, that a level is a name and a key, that
seeds are addressed and policies known, and that
`Place` moves rows to addresses of the package (the instance's bound). Rows that are not top level are
outside: the deletion graph does not have them.

### Surface host (`SurfaceProofs`)

| Theorem | Says |
|---|---|
| `SurfaceInvariant` | `Spec => []SurfaceInv` |
| `BarrierCompletes` | `Spec => []CompletionBarrier` |
| `SubscriptionsShowOneCut` | `Spec => []OneCutPerConnection` |
| `WatchesAreAuthorized` | `Spec => []NoWatchOutlivesAuthority` |
| `RetriesNameOneCommit` | `Spec => []RetryReobservesOneCommit` |
| `FrontiersAdvance` | `Spec => FrontiersNeverRegress` |

`SurfaceInv` is the types and `WatchesFollow` (no watch is ahead of its connection, no connection ahead
of the log), `PromisesKept` (what a connection was promised is at or below every open watch),
`AnswersAreRetained` (what was reported under a key is what the operation log holds), and the two
properties themselves. The lemma behind every action is that a sweep that ran to its end visited each
open watch: the caller's stand at the settled commit, the others were checked for authority at the
head. Assumed: identifiers are naturals, `None` is none of the values, and connections end (the
set in use has a greatest id), which every finite set has.

### Authority (`SurfaceProofs`)

| Theorem | Says |
|---|---|
| `AccessInvariant` | `Spec => []AccessInv` |
| `RolesAreNotRevealed` | `Spec => []AnswersRevealNoRole` |
| `ServedIsAuthorized` | in any state, a request served through a role is authorized now: the grant under its scope, the credential's authenticator, the session |
| `ManifestIsAuthority` | in any state, the manifest lists exactly what some scope would authorize (`ListedIsHeld`) |

`AccessInv` says that every grant is remembered in `held`, and that a context marked as a member was bound
for an actor that had been granted the role; a refusal other than `Unresolved` needs an established context
or a verified membership, and each leads to `held`. The last two theorems need no induction, since
answers and manifest are functions of the state: they are the two parts of `ReachIsWhatIsShown` that speak
of authority. The third, that a call addresses exactly what
a subscription shows, compares the recursive descent with a fold over keys and is checked only. Assumed:
nothing beyond the shape of the state.

### Connector (`ConnectProofs`)

| Theorem | Says |
|---|---|
| `ConnectorInvariant` | `ConnectSpec => []ConnectInv`: the host keeps `SurfaceInv` behind every connector step, and retained snapshots are well formed |
| `AnswersFollowTheirPatches` | `ConnectSpec => []CommittedIsOnTheStream`, for any ring capacity, cuts and resumes |
| `StreamsReconstruct` | `CleanResumeOnly` and `Cardinality(Sub) < Capacity` give `ConnectSpec => []StreamReconstructs` |
| `RowsAreAuthorized` | `ConnectSpec => RowsNeedAuthority`, for any ring capacity, cuts and resumes |

`StreamReconstructs` compares the replica, the wire and the ring with the server's snapshots, and says
nothing of frames the ring has evicted, or of those a client that was cut off has already read: a resume
may need both. `StreamInv` therefore adds `Tracked`, for each open connection: there is a log of the frames it was sent
and, for each position of the log, what a reader up to there holds of each subscription. The ring is a
slice of the log up to its end; the wire is the slice a client reads next, perhaps behind
repeated closes, and the ring's undelivered part follows it; the replica holds what the log says at the position the client has reached, or a close;
and at the end of the log a reader holds what the server diffs against (`Wanted`). Log and positions are
existentially quantified, so that the model needs no variable for them. Each operation has a lemma about
any log: `EnqueueLogs` (one frame extends it, evicting from its other end), `SweptLogs` (the frames of a
sweep, one subscription after another), `PendingIsRest` and `ReplayIsRest` (what `drain_pending` and
`replay_after` pick is exactly the rest of the log), `ResetTracked` and `RebasedTracked` (a reconstruction
starts a log anew), `ReceivedStreams` (a reader moves one position, and a patch fits). What repeats in a
replay is only closes, and a close applied twice changes nothing (`RepeatsKeepCover`). That a watch shows
a commit the log has, so that its rows are never mistaken for the absent subscription, is an invariant of
its own (`CommitsExist`).

The theorem has two hypotheses. `CleanResumeOnly` is the condition of the run: without it the statement is
false of the code, as `ResumeIsGapless` shows. `Cardinality(Sub) < Capacity` says that the ring holds a reset
and a frame for each subscription, as the code's default of 256 does for any client with fewer; a
reconstruction that does not fit evicts its own reset and trips the overflow latch again, and the
connection is then never whole. The instance has a ring of 3 over 2 subscriptions.

`RowsAreAuthorized` needs neither. A step that adds frames is a view, which was authorized as it was opened;
a close, which carries no rows; a reconciliation that ran to its end, after which each watch left open was
checked at the head (`SweptIsAuthorized`); or a reconstruction, which sends what the watches show, and these
the last complete sweep found authorized. `Numbered` is what tells the frames a step adds from older ones:
every position in a ring is below the next.

### Histories, merges, keyrings and peers (`InstanceProofs`)

| Theorem | Says |
|---|---|
| `HistoriesHold` | `Spec => []LineageInv` |
| `FalseRelationsComeOfForks` | `Spec => []OnlyForksMislead` |
| `CleanMergesKeepBothSides` | `SidesSpec => []CleanMergeKeepsBothSides` |
| `KeyringInvariant` | `RingSpec => []KeyInv` |
| `TokensOutliveRotations` | `RingSpec => []TokensOutliveRotation` |
| `HandlesKeepTheirFields` | `ModulesSpec => []PeersKeepTheirFields`, for well-formed packages (`PackagesAreWellFormed`) |
| `PromisesKept` | `ModulesSpec => []PromisesAreKept`, for well-formed packages |

The theorem about histories has no bound, and no condition but `Home \in Engine`. It needs an invariant since
`OnlyForksMislead` compares an engine with an artifact some other engine exported long ago. `LineageInv` is
about holders: an engine or an artifact, with the chain of lineages its cursor or its index spells (that the
index gives the chain back is `RestoredIsTheChain`, an induction over its length), its point and its past.
Along a past points grow and lineages only branch deeper (`Sorted`); a commit is made once, so pasts that
have it share all before it (`SharesCommits`); and a holder that was not misled left each lineage of its
chain at the last point its past has of it (`BranchesRecorded`). The last is why false answers have to be
remembered: an import keeps the local chain and takes the state of the artifact, and where the answer was
false the two do not belong together. With these, two pasts that did not fork and end on one lineage are one
the beginning of the other (`EndsForked`), and their points say which; and where the artifact ends on an
ancestor, its point is past the recorded branch exactly if the pasts have parted (`ClassifiedTruly`).

The merge theorem is about the operators: its invariant says only that the three sides are tables. A row
without a conflict is whole (`NoClash`, `WholeRows`), its fields are those of whichever side changed them
(`MergedFields`), and so resolving the merged table against the incoming one again takes, row by row, the
case that answers the merged row (`ResolvedRow`): the second merge reports nothing because the first one
settled every difference. Unique groups need their own step, `UniqueIsChecked`, since two changes that are
clean alone can collide.

`TokensOutliveRotation` is not inductive: it says nothing of when a version was retired. `KeyInv` adds
`RingOK` (at most one version is active, at most one pending, and instants are there where the state needs
them) and `Held`, that a token's version is active, was taken away, or was retired no earlier than the
token counts as signed. A catch-up is the loop of `ensure_current`, a fold over the boundaries
(`CatchUp`), so its effect is proved by induction over how many cutovers were performed
(`CatchUpIsCaughtUp`, with `SeqFoldProofs`): the first retires the active version at its own boundary, the
later ones touch only versions the loop made, and a failure of the provider keeps what was done. Assumed:
the policy's durations are integers (of either sign: a cadence that does not advance is cut over once),
the clock's bound is a natural, and `Absent` is no row.

`PromisesAreKept` speaks of one handle and one instance; `HostInv` says of every instance that each
interface only widens from any of its releases to any later one, up to a release that passes the row
through (`Widening`, which `exposed_narrowing` extends by one release, `UpdatesWiden`), that an incarnation
names one instance and a new one none that ever was (`MintedInOrder`), that a bound handle names a
release its instance has had, which exposed the interface (`WellBound`), that an update leads to releases
without handles (`ReadsHandles`), and that no two instances of a space have one name. It is the incarnation, never the
name, that ties the two: a renamed or reinstalled sibling may take over a name, and then nothing is claimed.
For the clients the invariant is `Serving`: of the releases an instance has had, each is upheld by every
later one a run of non-narrowing updates leads to. One more update extends it by a lemma for each part of a
contract (`ParamsStayUpheld`, `OutputStaysUpheld`, `OperationStaysUpheld`, `SurfaceStaysUpheld`,
`BoundaryStaysUpheld`); that pairwise comparison chains is not obvious, as keys, orderings and responses that
one release hides break the chain, and the exceptions of `...Upheld` are exactly what the induction needs.
Packages are well formed when they ask their peers for interfaces and when a view is that of an exposed
interface, which the shape of `$use` and `$expose` gives.

### What stays with TLC

Liveness (`TheStreamSelfHeals`) is out of the prover's reach. So is every module that declares or
reaches a RECURSIVE operator (`Values`, `Typing`, `Evaluation`, `Pushdown`, `KeyBytes`, `Wire`,
`Programs`, `Artifacts`, `Blobs`): there the run is the evidence. `SpendsAreFundedOnce` (over `MapThenSumSet`) and
`ReachIsWhatIsShown` (over `FoldLeft`) speak of folds of the community modules, about which nothing can be
proved without an induction theorem that takes an operator; the connector's folds were written with
`SeqFold` for this reason. `ClientHoldsTheWindow`, `GeneratedKeysAreUnique`, `TemporalReadsAreComplete`,
`UnsharedCopiesKeepContent` and the properties of `Migration` are checked only; so is
`CatchUpIsScheduled`, which compares a jump of the clock with an induction over its ticks.

## 6. What is left out of the modelled parts

- *Store*: `scan_view` (a pure read that hands the rows to a caller's program; the program is in
  `Pushdown`).
- *PgStore*: the reconciler and its DDL, SQL text, two handles open on one instance (the Rust API gives
  one writer per handle; across handles only the row lock at commit orders them), the writer's id memo.
- *Admission*: expressions, defaults, coercion and `$normalize` (a row appears with its final values),
  type and per-field conditions, singletons, return values: `Programs` has the interpreter for rows without
  references. A policy patch assigns no key field, and no key field is a reference (in the code such a key
  leaves a rekeyed referrer at its old address). The key write of one row stands for bulk patches, which
  apply row by row. Incarnations are named by address and call instead of a counter. References of or to
  nested rows, and checks that read the root, are what the code does not govern: see the hazards.
- *Surface*: module surfaces; `update`'s rebuild of the router. Time only moves forward.
- *Access*: composite actor keys and scopes of more than one component; the checks a router passes at load;
  a connection behind the head (its frontier is the head here; the lag is in `Surface`).
- *Connect*: opaque tokens, fetch and manifest requests. Commits that bypass the surface (`engine_mut`)
  are in `Surface` and excluded from `Connect`'s `HostMoves`. A server-side close in flight while the client
  re-views the same id leaves the replica closed; the stream properties accept a replica that stays closed
  until a reset.
- *Migration*: one collection with scalar fields and one reference. *Modules*: calls across interfaces (`interface_call`
  resolves a handle without its `$if_module` guard, and caches the parameter types of an inline binding by
  its first call), the rows of an aggregate; contracts of views that are not of rows.
  *Meters*: two levels. *Blobs*: the temporary file of the file store.
- *The language*: decimals, times and composite keys in expressions, grouping by several outputs, structs
  and enums in programs. Expressions the checker accepts without looking at some operand (`Unchecked`)
  are set aside where they are known to go wrong; each exemption is a named definition beside its
  property.

## 7. Plan

Proof still open: `UpdatesKeepLocalChanges` of `Migration`. Model: the crash points of the file store, constraint checks that read the root, and meters
between the final pass and the commit of `Admission`.
