------------------------------ MODULE MCEdges ------------------------------
(***************************************************************************)
(* What lies at the edges of the process and comes about without a call:   *)
(* the tables of the PostgreSQL store (PgStore) and the event streams of   *)
(* the HTTP binding (Streams), where what is sent may be lost, and the     *)
(* rows a bucket generates over time (Buckets).  They share no state, and  *)
(* a run steps in one of them.  The tables hold two top-level rows of one  *)
(* collection and one row nested below the first of them; the calendar has *)
(* months of four and of three days.                                       *)
(***************************************************************************)
EXTENDS PgStore, Streams, TLC

Top(k) == [name |-> "orgs", key |-> k]
Nested == [name |-> "teams", key |-> 1]

MCAddressStep == {Top(1), Top(2), Nested}
MCAddr == {<<Top(1)>>, <<Top(2)>>, <<Top(1), Nested>>}
MCKeyEnc(k) == <<"enc", k>>

-----------------------------------------------------------------------------
CONSTANTS SourceNames, Parents, ItemNames, Starts, Instants, SeriesCap, Depth, MaxNow
VARIABLES bucket, plans, sources, items, clock
bucketVars == <<bucket, plans, sources, items, clock>>

Period(kind, n, past) == [kind |-> kind, size |-> n, overflow |-> past]
BucketPeriods == {Period("fixed", 0, "clip"), Period("fixed", 2, "clip"), Period("fixed", 3, "clip"),
                  Period("calendar", 1, "clip"), Period("calendar", 1, "reject")}
BucketKeys == {<<>>, <<"from">>, <<"index">>, <<"from", "until">>, <<"source", "week">>}
Timed == INSTANCE Buckets WITH subs <- sources,
           Ends <- {None, 7}, Periods <- BucketPeriods,
           Declarations <- {[key |-> k, repeats |-> TRUE] : k \in BucketKeys},
           LongMonth <- 4, ShortMonth <- 3

Untimed == bucket.key = <<>> /\ sources = <<>> /\ clock = 0
           /\ \A s \in SourceNames : plans[s] = None
           /\ \A p \in Parents : items[p] = {}

-----------------------------------------------------------------------------
Storing == StreamsInit /\ Untimed /\ Next /\ UNCHANGED <<streamVars, bucketVars>>
Streaming == Init /\ Untimed /\ StreamsNext /\ UNCHANGED <<vars, bucketVars>>

\* The rows a bucket stores beside an empty series only.
Timing ==
  /\ Init /\ StreamsInit
  /\ Timed!Next
  /\ items' # items =>
       bucket.key = <<>> /\ sources = <<>> /\ \A s \in SourceNames : plans[s] = None
  /\ <<plans', sources'>> # <<plans, sources>> => \A p \in Parents : items[p] = {}
  /\ UNCHANGED <<vars, streamVars>>

EdgesInit == Init /\ StreamsInit /\ Timed!Init
EdgesNext == Storing \/ Streaming \/ Timing
EdgesSpec ==
  EdgesInit /\ [][EdgesNext]_<<vars, streamVars, bucketVars>> /\ StreamsFairness

(* Buckets.GeneratedKeysAreUnique (source_bucket.rs validate)              *)
GeneratedKeysAreUnique == Untimed \/ Timed!GeneratedKeysAreUnique

(* Buckets.TemporalReadsAreComplete (env.rs horizon_for, working_set)      *)
TemporalReadsAreComplete == Untimed \/ Timed!TemporalReadsAreComplete
=============================================================================
