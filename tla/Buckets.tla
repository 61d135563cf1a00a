------------------------------ MODULE Buckets ------------------------------
(***************************************************************************)
(* Bucketed collections: rows that are extant for an interval of time.    *)
(* A stored bucket (liasse-runtime/src/bucket.rs) computes the interval    *)
(* of each stored row; a source-backed bucket (source_bucket.rs) stores    *)
(* nothing and generates one row per period of each row of another        *)
(* collection, from a start, an optional end and an optional recurrence    *)
(* (liasse-value/src/recur.rs).  The series of a source without end is     *)
(* infinite: it is only ever generated up to the horizon a read needs,     *)
(* and its keys are argued to be unique, not enumerated.                   *)
(*                                                                         *)
(* A time is a count of ticks of one precision, a tick of a calendar is a  *)
(* day in UTC, and long and short months alternate.                        *)
(***************************************************************************)
EXTENDS Integers, FiniteSets, Sequences

CONSTANTS
    SourceNames,    \* the keys the rows of the source collection can have
    Parents,        \* rows that hold a nested stored bucket
    ItemNames,      \* keys of the rows of a stored bucket
    Starts, Ends,   \* the starts and the ends a row may state
    Periods,        \* the recurrences a plan may state
    Declarations,   \* the $key, <<>> for none, and whether $repeat is declared
    LongMonth, ShortMonth,      \* the days of a month
    SeriesCap,      \* the longest series generated for one source
    Instants,       \* the instants a temporal read may state
    Depth,          \* bound on the periods looked at of an infinite series
    MaxNow,         \* bound on the clock
    None            \* no value

VARIABLES
    bucket,     \* the declaration of the source-backed bucket
    plans,      \* the recurrence each source row reads from its plan
    subs,       \* the rows of the source collection
    items,      \* the rows of the stored bucket nested under each parent
    clock       \* the instant of the current request

vars == <<bucket, plans, subs, items, clock>>

Least(S) == CHOOSE x \in S : \A y \in S : x <= y

----------------------------------------------------------------------------
(* Period arithmetic (recur.rs). *)

MonthLength(m) == IF m % 2 = 0 THEN LongMonth ELSE ShortMonth

Year == LongMonth + ShortMonth

MonthStart(m) == (m \div 2) * Year + (m % 2) * LongMonth

MonthOf(t) == 2 * (t \div Year) + (IF t % Year < LongMonth THEN 0 ELSE 1)

\* The boundary `steps` periods after the anchor, counted from the anchor and
\* not from the boundary before, so that a clipped month does not drift; and
\* whether the policy of the period refuses the date it fell on.
Boundary(period, anchor, steps) ==
    IF period.kind = "fixed"
    THEN [at |-> anchor + steps * period.size, reject |-> FALSE]
    ELSE LET month == MonthOf(anchor) + steps * period.size
             day == anchor - MonthStart(MonthOf(anchor))
             missing == day >= MonthLength(month)
         IN [at |-> MonthStart(month) +
                       (IF missing THEN MonthLength(month) - 1 ELSE day),
             reject |-> missing /\ period.overflow = "reject"]

Failed == [ok |-> FALSE, rows |-> {}]

\* The intervals of one source up to a horizon.  A series with an end is
\* generated whole whatever the horizon, its last interval cut at the end; a
\* series without one stops with the first interval that reaches the horizon.
\* A boundary that does not advance, that falls on a refused date or that is
\* one too many fails the whole series.
Intervals(from, until, period, horizon) ==
    LET next(k) == Boundary(period, from, k + 1)
        bound == IF until # None THEN until ELSE horizon
        closes(k) == next(k).at >= bound
        refused(k) == next(k).reject /\ (until = None \/ ~closes(k))
        stuck(k) == next(k).at <= Boundary(period, from, k).at
                    /\ (until = None \/ ~closes(k))
        last == Least({k \in 0 .. (IF bound > from THEN bound - from ELSE 0) :
                         closes(k) \/ refused(k) \/ stuck(k)})
        row(k) == [index |-> k, from |-> Boundary(period, from, k).at,
                   until |-> IF until # None /\ k = last THEN until
                                                         ELSE next(k).at]
    IN IF until # None /\ until <= from THEN Failed
       ELSE IF period = None
       THEN [ok |-> TRUE,
             rows |-> {[index |-> 0, from |-> from, until |-> until]}]
       ELSE IF refused(last) \/ stuck(last) \/ last > SeriesCap THEN Failed
       ELSE [ok |-> TRUE, rows |-> {row(k) : k \in 0 .. last}]

----------------------------------------------------------------------------
(* The rows a source-backed bucket generates (source_bucket.rs). *)

\* The recurrence of a source row: the plan's, if the bucket declares one.
PeriodOf(b, ps, s) == IF b.repeats THEN ps[s] ELSE None

Series(b, ps, rows, s, horizon) ==
    Intervals(rows[s].from, rows[s].until, PeriodOf(b, ps, s), horizon)

\* A component of the declared key, evaluated for one generated row.
Component(c, s, interval) ==
    CASE c = "source" -> s
      [] c = "from"   -> interval.from
      [] c = "until"  -> interval.until
      [] c = "index"  -> interval.index
      [] c = "week"   -> interval.from \div 4

\* The identity of a generated row: the declared key, or the identity of the
\* source row, with the start when the bucket recurs.
Identity(b, s, interval) ==
    IF b.key # <<>>
    THEN [n \in 1 .. Len(b.key) |-> Component(b.key[n], s, interval)]
    ELSE IF b.repeats THEN <<s, interval.from>> ELSE <<s>>

ActiveAt(interval, t) ==
    /\ interval.from = None \/ interval.from <= t
    /\ interval.until = None \/ t < interval.until

\* The rows of the bucket up to a horizon, each with its identity.
Materialize(b, ps, rows, horizon) ==
    UNION {{[id |-> Identity(b, s, i), source |-> s, index |-> i.index,
             from |-> i.from, until |-> i.until] :
               i \in Series(b, ps, rows, s, horizon).rows} :
           s \in DOMAIN rows}

----------------------------------------------------------------------------
(* What admission requires of the series of all sources (validate). *)

IsUnbounded(b, ps, rows, s) ==
    rows[s].until = None /\ PeriodOf(b, ps, s) # None

\* The key a row would have at one start common to all sources.
ProbeIdentity(b, s, t) == Identity(b, s, [index |-> 0, from |-> t, until |-> None])

\* A component of the key is the start itself, whatever the other bindings.
KeyHasFromIdentity(b, s, base) ==
    \E n \in 1 .. Len(b.key) :
       \A i \in {[index |-> 0, from |-> base + 1, until |-> None],
                 [index |-> 0, from |-> base + 3, until |-> None],
                 [index |-> 3, from |-> base + 1, until |-> None],
                 [index |-> 0, from |-> base + 1, until |-> base + 9]} :
          Component(b.key[n], s, i) = i.from

Gcd(a, b) == CHOOSE d \in 1 .. a :
                /\ a % d = 0 /\ b % d = 0
                /\ \A e \in 1 .. a : a % e = 0 /\ b % e = 0 => e <= d

(* A mutant: the offset is compared with the smaller period only. *)
GridsLookDisjoint(b, ps, rows, s, t) ==
    /\ KeyHasFromIdentity(b, s, rows[s].from)
    /\ KeyHasFromIdentity(b, t, rows[t].from)
    /\ ps[s].kind = "fixed" /\ ps[t].kind = "fixed"
    /\ ps[s].size > 0 /\ ps[t].size > 0
    /\ (rows[s].from - rows[t].from) % Least({ps[s].size, ps[t].size}) # 0

\* The starts of two fixed recurrences never meet.
GridsAreDisjoint(b, ps, rows, s, t) ==
    /\ KeyHasFromIdentity(b, s, rows[s].from)
    /\ KeyHasFromIdentity(b, t, rows[t].from)
    /\ ps[s].kind = "fixed" /\ ps[t].kind = "fixed"
    /\ ps[s].size > 0 /\ ps[t].size > 0
    /\ (rows[s].from - rows[t].from) % Gcd(ps[s].size, ps[t].size) # 0

\* How far the keys of one source are enumerated: a series without end over
\* its first two periods.
UniquenessHorizon(b, ps, rows, s) ==
    IF IsUnbounded(b, ps, rows, s) /\ ~Boundary(ps[s], rows[s].from, 2).reject
    THEN Boundary(ps[s], rows[s].from, 2).at
    ELSE rows[s].from

\* The rows whose keys are compared one by one.
Enumerated(b, ps, rows) ==
    UNION {{<<s, i>> : i \in Series(b, ps, rows, s,
                                    UniquenessHorizon(b, ps, rows, s)).rows} :
           s \in DOMAIN rows}

Validates(b, ps, rows) ==
    /\ \A s \in DOMAIN rows : Series(b, ps, rows, s, rows[s].from).ok
    /\ b.key # <<>> =>
       /\ \A s, t \in {r \in DOMAIN rows : IsUnbounded(b, ps, rows, r)} :
             s # t /\ ProbeIdentity(b, s, clock) = ProbeIdentity(b, t, clock)
                => GridsAreDisjoint(b, ps, rows, s, t)
       /\ \A seen \in {Enumerated(b, ps, rows)} :
             Cardinality({Identity(b, g[1], g[2]) : g \in seen}) = Cardinality(seen)

----------------------------------------------------------------------------
(* Temporal reads (liasse-expr eval/temporal.rs, liasse-runtime env.rs). *)

\* The static type of the bucket: reading it whole is refused when a series
\* may be without end (liasse-model/src/bucket.rs).
ReadsWhole(b) == ~(b.repeats /\ None \in Ends)

Queries(b) ==
    {[kind |-> "at", at |-> t] : t \in Instants}
        \cup {[kind |-> "between", start |-> a, end |-> e] :
                a, e \in Instants}
        \cup (IF ReadsWhole(b) THEN {[kind |-> "all"]} ELSE {})

\* The orders the parents can be materialized in.
Orders == {o \in [1 .. Cardinality(Parents) -> Parents] :
             \A m, n \in DOMAIN o : o[m] = o[n] => m = n}

Later(a, b) == IF a >= b THEN a ELSE b

(* A mutant: the row that starts at the instant itself is not generated. *)
HorizonStopsShort(q, t) ==
    CASE q.kind = "all"     -> t
      [] q.kind = "at"      -> Later(q.at, t)
      [] q.kind = "between" -> Later(q.end, t)

\* The bound below which a read needs the starts of the generated rows.
HorizonFor(q, t) ==
    CASE q.kind = "all"     -> t + 1
      [] q.kind = "at"      -> Later(q.at, t) + 1
      [] q.kind = "between" -> Later(q.end, t + 1)

Selects(row, q) ==
    CASE q.kind = "all"     -> TRUE
      [] q.kind = "at"      -> ActiveAt(row, q.at)
      [] q.kind = "between" -> /\ row.from = None \/ row.from < q.end
                               /\ row.until = None \/ q.start < row.until

\* A range that ends where it starts or before is refused.
IsRefused(q) == q.kind = "between" /\ q.end <= q.start

\* A temporal read of the source-backed bucket, at clock t.
ReadSeries(b, ps, rows, q, t) ==
    {r \in Materialize(b, ps, rows, HorizonFor(q, t)) : Selects(r, q)}

\* The bare read: the rows active at the clock.
ActiveSeries(b, ps, rows, t) ==
    {r \in Materialize(b, ps, rows, t + 1) : ActiveAt(r, t)}

\* The rows a nested stored bucket shows without a selector.
ActiveItems(its, p, t) == {r \in its[p] : ActiveAt(r, t)}

\* A temporal read over a nested stored bucket is given the rows the bare read
\* shows, and finds the whole bucket as the first one, of any parent, whose
\* active rows are these; when there is none it reads the rows it was given.
WorkingSet(its, order, p, t) ==
    LET same == {n \in 1 .. Len(order) :
                   ActiveItems(its, order[n], t) = ActiveItems(its, p, t)}
    IN IF same = {} THEN ActiveItems(its, p, t) ELSE its[order[Least(same)]]

ReadItems(its, order, p, q, t) == {r \in WorkingSet(its, order, p, t) : Selects(r, q)}

----------------------------------------------------------------------------
Init ==
    /\ bucket \in Declarations
    /\ plans = [s \in SourceNames |-> None]
    /\ subs = <<>>
    /\ items = [p \in Parents |-> {}]
    /\ clock = 0

\* A mutation inserts or edits a source row; the prospective series of all
\* sources are validated before it commits.
PutSource(s, from, until) ==
    LET rows == [r \in DOMAIN subs \cup {s} |->
                   IF r = s THEN [from |-> from, until |-> until] ELSE subs[r]]
    IN /\ Validates(bucket, plans, rows)
       /\ subs' = rows
       /\ UNCHANGED <<bucket, plans, items, clock>>

DropSource(s) ==
    /\ s \in DOMAIN subs
    /\ subs' = [r \in DOMAIN subs \ {s} |-> subs[r]]
    /\ Validates(bucket, plans, subs')
    /\ UNCHANGED <<bucket, plans, items, clock>>

\* The recurrence is data of another row: editing it revalidates the series.
SetPeriod(s, period) ==
    LET ps == [plans EXCEPT ![s] = period]
    IN /\ Validates(bucket, ps, subs)
       /\ plans' = ps
       /\ UNCHANGED <<bucket, subs, items, clock>>

\* A stored row of a bucket starts when it is created, and its end, when it
\* has one, has to come after (check_interval).
PutItem(p, i, until) ==
    /\ until # None => clock < until
    /\ \A r \in items[p] : r.id # <<p, i>>
    /\ items' = [items EXCEPT ![p] =
                   @ \cup {[id |-> <<p, i>>, from |-> clock, until |-> until]}]
    /\ UNCHANGED <<bucket, plans, subs, clock>>

Tick ==
    /\ clock < MaxNow
    /\ clock' = clock + 1
    /\ UNCHANGED <<bucket, plans, subs, items>>

Next ==
    \/ \E s \in SourceNames, f \in Starts, u \in Ends : PutSource(s, f, u)
    \/ \E s \in SourceNames : DropSource(s)
    \/ \E s \in SourceNames, d \in Periods \cup {None} : SetPeriod(s, d)
    \/ \E p \in Parents, i \in ItemNames, u \in Ends : PutItem(p, i, u)
    \/ Tick

Spec == Init /\ [][Next]_vars

----------------------------------------------------------------------------
(* Properties. *)

\* The series as it is meant: the periods counted from the start, cut at the
\* end of the series.
Meant(s) ==
    LET period == PeriodOf(bucket, plans, s)
        row(k) == LET from == Boundary(period, subs[s].from, k).at
                      next == Boundary(period, subs[s].from, k + 1).at
                  IN [index |-> k, from |-> from,
                      until |-> IF subs[s].until # None /\ next > subs[s].until
                                THEN subs[s].until ELSE next]
    IN IF period = None
       THEN {[index |-> 0, from |-> subs[s].from, until |-> subs[s].until]}
       ELSE {i \in {row(k) : k \in 0 .. Depth} :
               subs[s].until = None \/ i.from < subs[s].until}

\* The pairs of sources whose keys admission compares: both with an end or
\* both without; a source without end with itself only where every component
\* of the key is a structural binding, since its keys are looked at for two
\* periods.
AreCompared(s, t) ==
    /\ IsUnbounded(bucket, plans, subs, s) = IsUnbounded(bucket, plans, subs, t)
    /\ s = t /\ IsUnbounded(bucket, plans, subs, s)
          => \A n \in 1 .. Len(bucket.key) : bucket.key[n] # "week"

(* No two generated rows share a key, over the whole of every series and not *)
(* only over the periods a read has generated: the comparison of grids and   *)
(* the two enumerated periods of CompiledSourceBucket::validate are enough   *)
(* for the pairs of sources it compares.                                     *)
GeneratedKeysAreUnique ==
    \A s, t \in DOMAIN subs : AreCompared(s, t) =>
       LET keys(r) == {Identity(bucket, r, i) : i \in Meant(r)}
       IN IF s = t THEN Cardinality(keys(s)) = Cardinality(Meant(s))
          ELSE keys(s) \cap keys(t) = {}

\* A read whose horizon lies before a refused date and within the cap.
IsGenerated(s, q) == Series(bucket, plans, subs, s, HorizonFor(q, clock)).ok

(* A read finds exactly the periods it asks for, past or future, wherever    *)
(* the clock stands and although the series is only generated up to a        *)
(* horizon: every instant of a series is in one period, the bare read is the *)
(* read at the clock, and a nested stored bucket with a row to show reads    *)
(* its own rows, the ended ones too (RuntimeEnv::horizon_for, working_set).  *)
TemporalReadsAreComplete ==
    /\ \A s \in DOMAIN subs : \A meant \in {Meant(s)} :
          \A q \in {r \in Queries(bucket) : ~IsRefused(r) /\ IsGenerated(s, r)} :
             \A read \in {{[index |-> r.index, from |-> r.from, until |-> r.until] :
                             r \in ReadSeries(bucket, plans, [n \in {s} |-> subs[n]], q, clock)}} :
                /\ read = {i \in meant : Selects(i, q)}
                /\ q.kind = "at" =>
                      Cardinality(read) = IF ActiveAt(subs[s], q.at) THEN 1 ELSE 0
    /\ \A read \in {ActiveSeries(bucket, plans, subs, clock)} :
          read = ReadSeries(bucket, plans, subs, [kind |-> "at", at |-> clock], clock)
    /\ \A order \in Orders, p \in Parents : ActiveItems(items, p, clock) # {} =>
          \A q \in Queries(bucket) :
             ReadItems(items, order, p, q, clock) = {r \in items[p] : Selects(r, q)}
=============================================================================
