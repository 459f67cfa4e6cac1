------------------------------ MODULE Snapshot ------------------------------
(***************************************************************************)
(* The readiness snapshot (backend/app/domain/snapshot.py) and the SQL     *)
(* aggregation that feeds it (backend/app/db/snapshot.py).  There are two  *)
(* ways to build it from one history of activities: record by record, and  *)
(* from the groups of a GROUP BY.  Both are loops over rows that arrive in *)
(* any order and accumulate into one bucket per topic; an iteration is one *)
(* step here, with the next row chosen freely.  The two loops run one      *)
(* after the other over the same rows.                                     *)
(*                                                                         *)
(* Timestamps are instants: that psycopg returns them in a session's zone  *)
(* and _utc normalises them is not visible here, nor are the refusals of   *)
(* naive timestamps.  Text is a member of a small set.                     *)
(***************************************************************************)
EXTENDS Integers, FiniteSetsExt, Functions

CONSTANTS
    Record,      \* the ids of the stored activities
    Topic,       \* TOPICS, the vocabulary
    Retired,     \* topics that rows may name although the vocabulary does not
    Difficulty,  \* DIFFICULTIES
    Minutes,     \* values of minutes_spent other than NULL
    Instant,     \* values of occurred_at
    AsOf,        \* the snapshot's as_of
    UnknownTopic,  \* the exception
    None         \* NULL

ASSUME SnapshotAssumption ==
    /\ Topic \cap Retired = {}
    /\ Minutes \subseteq Nat \ {0}
    /\ Instant \subseteq Nat
    /\ AsOf \in Nat
    /\ None \notin Nat
    /\ IsFiniteSet(Record) /\ IsFiniteSet(Topic) /\ IsFiniteSet(Difficulty)

OUTCOMES == {"solved", "attempted"}

VARIABLES
    stored,   \* the student's rows: id -> activity
    todo,     \* the rows the running loop has not seen: ids, then groups
    buckets,  \* its accumulators: topic -> bucket
    phase,    \* "records", "groups" or "done"
    built     \* the finished snapshots: phase -> snapshot, or why there is none

vars == <<stored, todo, buckets, phase, built>>

Activity ==
    [topic : Topic \cup Retired, difficulty : Difficulty, outcome : OUTCOMES,
     minutes_spent : Minutes \cup {None}, occurred_at : Instant]
Group == (Topic \cup Retired) \X Difficulty \X OUTCOMES

EmptyBucket ==
    [counts |-> [k \in Difficulty \X OUTCOMES |-> 0], minutes_recorded |-> 0,
     activities_with_minutes |-> 0, first_at |-> None, last_at |-> None]
NoBuckets == [t \in Topic |-> EmptyBucket]

-----------------------------------------------------------------------------
(* The aggregation of app.db.snapshot *)

\* SUM and COUNT(minutes_spent) see the rows that have a value.
MinutesOf(ids) ==
    LET timed == {i \in ids : stored[i].minutes_spent # None}
    IN  [sum |-> SumFunction([i \in timed |-> stored[i].minutes_spent]),
         number |-> Cardinality(timed)]

\* Mutant: strictly before as_of.
Visible_Strict == {i \in Record : stored[i].occurred_at < AsOf}
\* WHERE occurred_at <= as_of
Visible == {i \in Record : stored[i].occurred_at <= AsOf}

KeyOf(i) == <<stored[i].topic, stored[i].difficulty, stored[i].outcome>>

\* One row per (topic, difficulty, outcome) that occurs.
Row(g) ==
    LET ids == {i \in Visible : KeyOf(i) = g}
        minutes == MinutesOf(ids)
        dates == {stored[i].occurred_at : i \in ids}
    IN  [topic |-> g[1], difficulty |-> g[2], outcome |-> g[3], count |-> Cardinality(ids),
         minutes |-> minutes.sum, with_minutes |-> minutes.number,
         first_at |-> Min(dates), last_at |-> Max(dates)]

-----------------------------------------------------------------------------
(* The builder of app.domain.snapshot *)

Earlier(a, b) == IF a = None \/ b < a THEN b ELSE a
\* Mutant: the first date seen stays.
Later_First(a, b) == IF a = None THEN b ELSE a
Later(a, b) == IF a = None \/ b > a THEN b ELSE a

\* _Bucket.add
Add(bucket, row) ==
    [counts |-> [bucket.counts EXCEPT ![<<row.difficulty, row.outcome>>] = @ + row.count],
     minutes_recorded |-> bucket.minutes_recorded + row.minutes,
     activities_with_minutes |-> bucket.activities_with_minutes + row.with_minutes,
     first_at |-> Earlier(bucket.first_at, row.first_at),
     last_at |-> Later(bucket.last_at, row.last_at)]

Total(counts, keys) == SumFunctionOnSet(counts, keys)

\* _freeze_topic
Frozen(bucket) ==
    [solved |-> Total(bucket.counts, Difficulty \X {"solved"}),
     attempted |-> Total(bucket.counts, Difficulty \X {"attempted"}),
     by_difficulty |-> bucket.counts,
     minutes_recorded |-> bucket.minutes_recorded,
     activities_with_minutes |-> bucket.activities_with_minutes,
     last_practised_at |-> bucket.last_at]

\* _assemble: dense over the vocabulary; extrema over the buckets that have one.
Assembled(bucket) ==
    LET firsts == {bucket[t].first_at : t \in Topic} \ {None}
        lasts == {bucket[t].last_at : t \in Topic} \ {None}
    IN  [total_activities |->
            SumFunction([t \in Topic |-> Total(bucket[t].counts, Difficulty \X OUTCOMES)]),
         first_activity_at |-> IF firsts = {} THEN None ELSE Min(firsts),
         last_activity_at |-> IF lasts = {} THEN None ELSE Max(lasts),
         topics |-> [t \in Topic |-> Frozen(bucket[t])]]

Init ==
    /\ stored \in [Record -> Activity]
    /\ phase = "records"
    /\ todo = Record
    /\ buckets = NoBuckets
    /\ built = [p \in {"records", "groups"} |-> None]

\* A loop ends with a snapshot or with an exception; the other one follows.
Finish(outcome) ==
    /\ built' = [built EXCEPT ![phase] = outcome]
    /\ buckets' = NoBuckets
    /\ IF phase = "records"
       THEN phase' = "groups" /\ todo' = {KeyOf(i) : i \in Visible}
       ELSE phase' = "done" /\ todo' = {}
    /\ UNCHANGED stored

Accumulate(x, row) ==
    /\ buckets' = [buckets EXCEPT ![row.topic] = Add(@, row)]
    /\ todo' = todo \ {x}
    /\ UNCHANGED <<stored, phase, built>>

\* Mutant: every record counts as one with minutes.
AsRow_NullCounted(a) ==
    [topic |-> a.topic, difficulty |-> a.difficulty, outcome |-> a.outcome, count |-> 1,
     minutes |-> IF a.minutes_spent = None THEN 0 ELSE a.minutes_spent, with_minutes |-> 1,
     first_at |-> a.occurred_at, last_at |-> a.occurred_at]

\* What one activity contributes: NULL minutes are not zero minutes.
AsRow(a) ==
    [topic |-> a.topic, difficulty |-> a.difficulty, outcome |-> a.outcome, count |-> 1,
     minutes |-> IF a.minutes_spent = None THEN 0 ELSE a.minutes_spent,
     with_minutes |-> IF a.minutes_spent = None THEN 0 ELSE 1,
     first_at |-> a.occurred_at, last_at |-> a.occurred_at]

SkipLater(i) ==
    /\ phase = "records" /\ i \in todo
    /\ stored[i].occurred_at > AsOf
    /\ todo' = todo \ {i}
    /\ UNCHANGED <<stored, buckets, phase, built>>

AddActivity(i) ==
    /\ phase = "records" /\ i \in todo
    /\ stored[i].occurred_at <= AsOf
    /\ stored[i].topic \in Topic
    /\ Accumulate(i, AsRow(stored[i]))

AddGroup(g) ==
    /\ phase = "groups" /\ g \in todo
    /\ g[1] \in Topic
    /\ Accumulate(g, Row(g))

\* Mutant: rows outside the vocabulary are skipped.
RefuseTopic_Skips(x) ==
    /\ x \in todo
    /\ IF phase = "records"
       THEN stored[x].occurred_at <= AsOf /\ stored[x].topic \notin Topic
       ELSE x[1] \notin Topic
    /\ todo' = todo \ {x}
    /\ UNCHANGED <<stored, buckets, phase, built>>

\* UnknownTopic
RefuseTopic(x) ==
    /\ x \in todo
    /\ IF phase = "records"
       THEN stored[x].occurred_at <= AsOf /\ stored[x].topic \notin Topic
       ELSE x[1] \notin Topic
    /\ Finish(UnknownTopic)

Assemble ==
    /\ phase # "done" /\ todo = {}
    /\ Finish(Assembled(buckets))

Next ==
    \/ \E i \in Record : SkipLater(i) \/ AddActivity(i)
    \/ \E g \in Group : AddGroup(g)
    \/ \E x \in todo : RefuseTopic(x)
    \/ Assemble

Spec == Init /\ [][Next]_vars

-----------------------------------------------------------------------------
(* Properties *)

\* domain/snapshot.py:28: both construction paths "must produce the same
\* snapshot over the same data", for every order in which rows arrive, and refuse
\* the same data.
PathsAgree == phase = "done" => built["records"] = built["groups"]

IsSnapshot(p) == built[p] \notin {None, UnknownTopic}

\* No practice is lost or invented: the total is the number of visible rows and
\* the sum of the topics' own counts; a row that no topic can count prevents the
\* snapshot rather than the count.
TotalsCountEveryActivity ==
    \A p \in {"records", "groups"} : IsSnapshot(p) =>
        /\ built[p].total_activities = Cardinality(Visible)
        /\ built[p].total_activities =
              SumFunction([t \in Topic |->
                               built[p].topics[t].solved + built[p].topics[t].attempted])

\* The two numbers that make an average of minutes meaningful belong together: no
\* row without minutes is in the denominator, in any topic.
MinutesAreHonest ==
    \A p \in {"records", "groups"} : IsSnapshot(p) =>
        \A t \in Topic :
            LET timed == {i \in Visible : stored[i].topic = t /\ stored[i].minutes_spent # None}
            IN  /\ built[p].topics[t].activities_with_minutes = Cardinality(timed)
                /\ built[p].topics[t].minutes_recorded =
                      SumFunction([i \in timed |-> stored[i].minutes_spent])

\* The extrema are dates of visible activities, and no topic was practised after
\* the last one or in a snapshot that has none.
DatesAreExtrema ==
    \A p \in {"records", "groups"} : IsSnapshot(p) =>
        LET dates == {stored[i].occurred_at : i \in Visible}
            practised == {built[p].topics[t].last_practised_at : t \in Topic} \ {None}
        IN  IF dates = {}
            THEN built[p].first_activity_at = None /\ practised = {}
            ELSE /\ built[p].first_activity_at = Min(dates)
                 /\ built[p].last_activity_at = Max(dates)
                 /\ Max(practised) = Max(dates)

-----------------------------------------------------------------------------
(* The inductive invariant *)

\* What the running loop has accumulated.
Seen == {i \in Visible : (IF phase = "records" THEN i ELSE KeyOf(i)) \notin todo}
About(t, ids) == {i \in ids : stored[i].topic = t}

\* The bucket of some rows, computed at once.
Summary(ids) ==
    LET dates == {stored[i].occurred_at : i \in ids}
        level(k) == {i \in ids : <<stored[i].difficulty, stored[i].outcome>> = k}
    IN  [counts |-> [k \in Difficulty \X OUTCOMES |-> Cardinality(level(k))],
         minutes_recorded |-> MinutesOf(ids).sum,
         activities_with_minutes |-> MinutesOf(ids).number,
         first_at |-> IF ids = {} THEN None ELSE Min(dates),
         last_at |-> IF ids = {} THEN None ELSE Max(dates)]
Summaries(ids) == [t \in Topic |-> Summary(About(t, ids))]

\* What both loops come to, whatever the order of the rows.
Outcome ==
    IF \E i \in Visible : stored[i].topic \notin Topic THEN UnknownTopic
    ELSE Assembled(Summaries(Visible))

SnapshotInv ==
    /\ stored \in [Record -> Activity]
    /\ phase \in {"records", "groups", "done"}
    /\ phase = "records" => todo \subseteq Record
    /\ phase = "groups" => todo \subseteq {KeyOf(i) : i \in Visible}
    /\ phase = "done" => todo = {}
    /\ phase # "done" =>
           buckets = Summaries(Seen) /\ \A i \in Seen : stored[i].topic \in Topic
    /\ built = [p \in {"records", "groups"} |->
                   IF phase = "done" \/ (phase = "groups" /\ p = "records") THEN Outcome
                   ELSE None]
=============================================================================
