---------------------------- MODULE StudentStore ----------------------------
(***************************************************************************)
(* What the product does to the database: the preparation goal (PUT, GET), *)
(* the DSA activities (POST, GET) and the readiness snapshot, as           *)
(* concurrent transactions of several requests over the two tables of      *)
(* supabase/migrations, under READ COMMITTED.                              *)
(*                                                                         *)
(* DbSession shows that a statement runs as its caller; here a statement   *)
(* simply sees the caller's rows.  Each request executes one statement in  *)
(* its transaction.  PostgreSQL's now() is the start of the transaction,   *)
(* so a row's timestamp is older than the moment it becomes visible.  An   *)
(* uncommitted write holds its row (a second PUT of the same student       *)
(* waits) and, through the foreign key, the student's account.             *)
(***************************************************************************)
EXTENDS Integers, FiniteSets

CONSTANTS
    Request,     \* the request threads
    User,        \* verified subjects; each has an account at the start
    Id,          \* bound: the random ids of activities, ordered like uuids
    Deadline,    \* bound: the deadlines that payloads name, as days
    None,        \* NULL
    Operation,   \* the calls in use: a subset of Endpoint
    Limit,       \* DEFAULT_LIMIT of the activity list
    MaxHorizon,  \* MAX_HORIZON_DAYS
    DayLength,   \* instants per day
    MaxTime      \* bound: the clock stops here

Endpoint == {"put_goal", "get_goal", "post_activity", "list_activities", "snapshot"}

ASSUME NumberAssumption ==
    /\ Id \subseteq Nat
    /\ Deadline \subseteq Int
    /\ Limit \in Nat \ {0}
    /\ MaxHorizon \in Nat
    /\ DayLength \in Nat \ {0}
    /\ MaxTime \in Nat
ASSUME OperationAssumption == Operation \subseteq Endpoint

VARIABLES
    now,         \* the clock of the database and of the application
    \* committed state
    accounts,    \* auth.users
    goals,       \* preparation_goals: user -> row or None
    activities,  \* dsa_activities
    \* each request
    pc,          \* "idle", "begin", "statement" or "commit"
    call,        \* endpoint, caller and payload of its last call
    today,       \* the handler's `today`
    begun,       \* now() of its transaction
    write,       \* the row its transaction has written, or None
    found,       \* the goal its statement returned, or None
    listed,      \* the activities its statement returned
    answer,      \* the HTTP status and the days_remaining in the body
    \* history, read by no action
    known,       \* what had been acknowledged to the caller when the call began
    acked,       \* the acknowledged activities and the users of acknowledged goals
    decision     \* the first snapshot taken, to be replayed

request == <<pc, call, today, begun, write, found, listed, answer>>
history == <<known, acked, decision>>
tables == <<accounts, goals, activities>>
vars == <<now, tables, request, history>>

Time == 0..MaxTime
\* A stored deadline was in the future on some day, so day 0 is not one.
Goal == [deadline : {d \in Deadline : d > 0}, created_at : Time, updated_at : Time]
Activity == [id : Id, owner : User, occurred_at : Time]
Call ==
    [endpoint : {"put_goal"}, caller : User, deadline : Deadline] \cup
    [endpoint : {"get_goal", "post_activity", "list_activities"}, caller : User] \cup
    [endpoint : {"snapshot"}, caller : User, as_of : Time]
Status == {"none", "ok", "not_found", "unprocessable", "error"}
Answer == [status : Status, days_remaining : Int]
Acknowledged == [posts : SUBSET Activity, puts : SUBSET User]
Decision == [caller : User, as_of : Time, rows : SUBSET Activity, past : BOOLEAN,
             settled : BOOLEAN]

ASSUME NoneAssumption == None \notin Goal \cup Activity \cup Decision \cup Call

TypeOK ==
    /\ now \in Time
    /\ accounts \in SUBSET User
    /\ goals \in [User -> Goal \cup {None}]
    /\ activities \in SUBSET Activity
    /\ pc \in [Request -> {"idle", "begin", "statement", "commit"}]
    /\ call \in [Request -> Call \cup {None}]
    /\ today \in [Request -> Time]
    /\ begun \in [Request -> Time]
    /\ write \in [Request -> Goal \cup Activity \cup {None}]
    /\ found \in [Request -> Goal \cup {None}]
    /\ listed \in [Request -> SUBSET Activity]
    /\ answer \in [Request -> Answer]
    /\ known \in [Request -> Acknowledged]
    /\ acked \in Acknowledged
    /\ decision \in Decision \cup {None}

NoAnswer == [status |-> "none", days_remaining |-> 0]
Nothing == [posts |-> {}, puts |-> {}]

Init ==
    /\ now = 0
    /\ accounts = User
    /\ goals = [u \in User |-> None]
    /\ activities = {}
    /\ pc = [r \in Request |-> "idle"]
    /\ call = [r \in Request |-> None]
    /\ today = [r \in Request |-> 0]
    /\ begun = [r \in Request |-> 0]
    /\ write = [r \in Request |-> None]
    /\ found = [r \in Request |-> None]
    /\ listed = [r \in Request |-> {}]
    /\ answer = [r \in Request |-> NoAnswer]
    /\ known = [r \in Request |-> Nothing]
    /\ acked = Nothing
    /\ decision = None

-----------------------------------------------------------------------------
(* Terms of the code *)

Today == now \div DayLength

\* validate_goal: strictly in the future, and within the horizon.
Valid_Today(deadline, day) == day <= deadline /\ deadline - day <= MaxHorizon
Valid(deadline, day) == day < deadline /\ deadline - day <= MaxHorizon

Caller(r) == call[r].caller
At(r, endpoint) == pc[r] = "statement" /\ call[r].endpoint = endpoint
Writing(s, u) == write[s] # None /\ Caller(s) = u
Own(r) == {a \in activities : a.owner = Caller(r)}

\* ORDER BY occurred_at DESC, id DESC
Newer(a, b) ==
    a.occurred_at > b.occurred_at \/ (a.occurred_at = b.occurred_at /\ a.id > b.id)

Newest_Ascending(rows) ==
    {a \in rows : Cardinality({b \in rows : Newer(a, b)}) < Limit}

\* ... LIMIT
Newest(rows) == {a \in rows : Cardinality({b \in rows : Newer(b, a)}) < Limit}

\* The snapshot's WHERE clause; what it counts and sums is a function of these rows.
AsOf_Unbounded(rows, as_of) == rows
AsOf(rows, as_of) == {a \in rows : a.occurred_at <= as_of}

Goto(r, stage) == pc' = [pc EXCEPT ![r] = stage]

Respond(r, status, days) ==
    answer' = [answer EXCEPT ![r] = [status |-> status, days_remaining |-> days]]

\* The request is answered; its transaction and its locals are gone.
Finish(r, status, days) ==
    /\ Respond(r, status, days)
    /\ Goto(r, "idle")
    /\ today' = [today EXCEPT ![r] = 0]
    /\ begun' = [begun EXCEPT ![r] = 0]
    /\ found' = [found EXCEPT ![r] = None]
    /\ write' = [write EXCEPT ![r] = None]

-----------------------------------------------------------------------------
(* The environment *)

Tick ==
    /\ now < MaxTime
    /\ now' = now + 1
    /\ UNCHANGED <<tables, request, history>>

\* Mutant: the tables' user_id does not reference auth.users.
DeleteAccount_NoReference(u) ==
    /\ u \in accounts
    /\ accounts' = accounts \ {u}
    /\ UNCHANGED <<now, goals, activities, request, history>>

\* An account is deleted; its rows go with it.  The foreign key makes the delete
\* wait for transactions that have written rows of the account.
DeleteAccount(u) ==
    /\ u \in accounts
    /\ \A s \in Request : ~Writing(s, u)
    /\ accounts' = accounts \ {u}
    /\ goals' = [goals EXCEPT ![u] = None]
    /\ activities' = {a \in activities : a.owner # u}
    /\ UNCHANGED <<now, request, history>>

-----------------------------------------------------------------------------
(* A request *)

\* A verified caller's request reaches its handler, which reads the date and
\* refuses an invalid payload before it opens a transaction.  The caller may
\* have no account left: its token is valid until it expires.
Start(r, c) ==
    /\ pc[r] = "idle"
    /\ c.endpoint \in Operation
    /\ call' = [call EXCEPT ![r] = c]
    /\ IF c.endpoint = "put_goal" => Valid(c.deadline, Today)
       THEN /\ Respond(r, "none", 0) /\ Goto(r, "begin")
            /\ today' = [today EXCEPT ![r] = Today]
       ELSE Respond(r, "unprocessable", 0) /\ UNCHANGED <<pc, today>>
    /\ known' = [known EXCEPT ![r] =
                    [posts |-> {a \in acked.posts : a.owner = c.caller},
                     puts |-> acked.puts \cap {c.caller}]]
    /\ listed' = [listed EXCEPT ![r] = {}]
    /\ UNCHANGED <<now, tables, begun, write, found, acked, decision>>

Begin(r) ==
    /\ pc[r] = "begin"
    /\ begun' = [begun EXCEPT ![r] = now]
    /\ Goto(r, "statement")
    /\ UNCHANGED <<now, tables, call, today, write, found, listed, answer, history>>

\* Mutant: the existing row is read without waiting for its lock.
UpsertGoal_NoLock(r) ==
    /\ At(r, "put_goal")
    /\ Caller(r) \in accounts
    /\ LET old == goals[Caller(r)]
           row == [deadline |-> call[r].deadline,
                   created_at |-> IF old = None THEN begun[r] ELSE old.created_at,
                   updated_at |-> begun[r]]
       IN  /\ write' = [write EXCEPT ![r] = row]
           /\ found' = [found EXCEPT ![r] = row]
    /\ Goto(r, "commit")
    /\ UNCHANGED <<now, tables, call, today, begun, listed, answer, history>>

\* INSERT ... ON CONFLICT (user_id) DO UPDATE.  It waits while another
\* transaction has written the row, then works on what that one committed.
\* created_at is not in the SET list; updated_at is.
UpsertGoal(r) ==
    /\ At(r, "put_goal")
    /\ Caller(r) \in accounts
    /\ \A s \in Request : Writing(s, Caller(r)) => call[s].endpoint # "put_goal"
    /\ LET old == goals[Caller(r)]
           row == [deadline |-> call[r].deadline,
                   created_at |-> IF old = None THEN begun[r] ELSE old.created_at,
                   updated_at |-> begun[r]]
       IN  /\ write' = [write EXCEPT ![r] = row]
           /\ found' = [found EXCEPT ![r] = row]
    /\ Goto(r, "commit")
    /\ UNCHANGED <<now, tables, call, today, begun, listed, answer, history>>

\* Mutant: the created row is sent before the transaction has ended.
RecordActivity_AnswersEarly(r) ==
    /\ At(r, "post_activity")
    /\ Caller(r) \in accounts
    /\ \E id \in Id \ {a.id : a \in activities} :
          LET row == [id |-> id, owner |-> Caller(r), occurred_at |-> begun[r]]
          IN  /\ \A s \in Request :
                    write[s] # None /\ call[s].endpoint = "post_activity" => write[s].id # id
              /\ write' = [write EXCEPT ![r] = row]
              /\ listed' = [listed EXCEPT ![r] = {row}]
              /\ acked' = [acked EXCEPT !.posts = @ \cup {row}]
    /\ Goto(r, "commit")
    /\ UNCHANGED <<now, tables, call, today, begun, found, answer, known, decision>>

\* INSERT with no ON CONFLICT; id, user_id and occurred_at are defaults.
RecordActivity(r) ==
    /\ At(r, "post_activity")
    /\ Caller(r) \in accounts
    /\ \E id \in Id \ {a.id : a \in activities} :
          LET row == [id |-> id, owner |-> Caller(r), occurred_at |-> begun[r]]
          IN  /\ \A s \in Request :
                    write[s] # None /\ call[s].endpoint = "post_activity" => write[s].id # id
              /\ write' = [write EXCEPT ![r] = row]
              /\ listed' = [listed EXCEPT ![r] = {row}]
    /\ Goto(r, "commit")
    /\ UNCHANGED <<now, tables, call, today, begun, found, answer, history>>

FetchGoal(r) ==
    /\ At(r, "get_goal")
    /\ found' = [found EXCEPT ![r] = goals[Caller(r)]]
    /\ Goto(r, "commit")
    /\ UNCHANGED <<now, tables, call, today, begun, write, listed, answer, history>>

ListActivities(r) ==
    /\ At(r, "list_activities")
    /\ listed' = [listed EXCEPT ![r] = Newest(Own(r))]
    /\ Goto(r, "commit")
    /\ UNCHANGED <<now, tables, call, today, begun, write, found, answer, history>>

\* No transaction that could still add a row dated as_of or earlier is running
\* or yet to begin.
Settled(u, as_of) ==
    /\ as_of < now
    /\ \A s \in Request :
          pc[s] \in {"statement", "commit"} /\ Caller(s) = u => begun[s] > as_of
             \/ call[s].endpoint # "post_activity"

\* aggregate_dsa: one statement, so one state of the table.
Snapshot(r) ==
    /\ At(r, "snapshot")
    /\ LET as_of == call[r].as_of
           rows == AsOf(Own(r), as_of)
       IN  /\ listed' = [listed EXCEPT ![r] = rows]
           /\ decision' = IF decision # None THEN decision
                          ELSE [caller |-> Caller(r), as_of |-> as_of, rows |-> rows,
                                past |-> as_of < now, settled |-> Settled(Caller(r), as_of)]
    /\ Goto(r, "commit")
    /\ UNCHANGED <<now, tables, call, today, begun, write, found, answer, known, acked>>

\* The transaction's writes become visible and its locks are released.
Apply(r) ==
    /\ goals' = IF call[r].endpoint = "put_goal"
                THEN [goals EXCEPT ![Caller(r)] = write[r]] ELSE goals
    /\ activities' = IF call[r].endpoint = "post_activity"
                     THEN activities \cup {write[r]} ELSE activities
    /\ UNCHANGED accounts

\* Mutant: the date is read again for the response.
Commit_ReadsDateAgain(r) ==
    /\ pc[r] = "commit"
    /\ Apply(r)
    /\ IF call[r].endpoint = "get_goal" /\ found[r] = None
       THEN Finish(r, "not_found", 0)
       ELSE Finish(r, "ok", IF found[r] = None THEN 0 ELSE found[r].deadline - Today)
    /\ acked' = [posts |-> acked.posts \cup
                     IF call[r].endpoint = "post_activity" THEN listed[r] ELSE {},
                 puts |-> acked.puts \cup
                     IF call[r].endpoint = "put_goal" THEN {Caller(r)} ELSE {}]
    /\ UNCHANGED <<now, call, listed, known, decision>>

\* The transaction ends well, and the handler builds its response from the row
\* and from the date it read at the beginning.
Commit(r) ==
    /\ pc[r] = "commit"
    /\ Apply(r)
    /\ IF call[r].endpoint = "get_goal" /\ found[r] = None
       THEN Finish(r, "not_found", 0)
       ELSE Finish(r, "ok", IF found[r] = None THEN 0 ELSE found[r].deadline - today[r])
    /\ acked' = [posts |-> acked.posts \cup
                     IF call[r].endpoint = "post_activity" THEN listed[r] ELSE {},
                 puts |-> acked.puts \cup
                     IF call[r].endpoint = "put_goal" THEN {Caller(r)} ELSE {}]
    /\ UNCHANGED <<now, call, listed, known, decision>>

\* Mutant: a failed transaction is left open, holding its row.
Fail_LeavesOpen(r) ==
    /\ pc[r] # "idle"
    /\ Respond(r, "error", 0)
    /\ Goto(r, "idle")
    /\ UNCHANGED <<now, tables, call, today, begun, write, found, listed, history>>

\* A statement or COMMIT fails: the transaction is rolled back, releases what it
\* holds, and the caller is told of an error.
Fail(r) ==
    /\ pc[r] # "idle"
    /\ Finish(r, "error", 0)
    /\ UNCHANGED <<now, tables, call, listed, history>>

\* The foreign key refuses the row of a caller whose account is gone.
RefusedByReference(r) ==
    /\ At(r, "put_goal") \/ At(r, "post_activity")
    /\ Caller(r) \notin accounts
    /\ Finish(r, "error", 0)
    /\ UNCHANGED <<now, tables, call, listed, history>>

\* The connection is lost after COMMIT was sent: the writes are there, and the
\* caller is told of an error.
FailAfterCommit(r) ==
    /\ pc[r] = "commit"
    /\ Apply(r)
    /\ Finish(r, "error", 0)
    /\ UNCHANGED <<now, call, listed, history>>

\* What a request does by itself when nothing fails.
Step(r) ==
    \/ Begin(r)
    \/ UpsertGoal(r)
    \/ RecordActivity(r)
    \/ RefusedByReference(r)
    \/ FetchGoal(r)
    \/ ListActivities(r)
    \/ Snapshot(r)
    \/ Commit(r)

Next ==
    \/ Tick
    \/ \E u \in User : DeleteAccount(u)
    \/ \E r \in Request :
          \/ \E c \in Call : Start(r, c)
          \/ Step(r)
          \/ Fail(r)
          \/ FailAfterCommit(r)

Spec == Init /\ [][Next]_vars

\* Running requests are scheduled and their statements end.  PostgreSQL queues
\* the writers of a row, so one that waits again and again gets its turn.
LiveSpec == Spec /\ \A r \in Request : WF_vars(Step(r)) /\ SF_vars(UpsertGoal(r))

-----------------------------------------------------------------------------
(* Properties *)

Answered(r, endpoint, status) ==
    pc[r] = "idle" /\ call[r] # None /\ call[r].endpoint = endpoint /\ answer[r].status = status

\* The foreign keys and their cascade: no goal and no activity outlives its
\* account, although a token of a deleted account still passes verification and
\* its requests may be writing while the account goes.
NoOrphans ==
    /\ \A u \in User : goals[u] # None => u \in accounts
    /\ \A a \in activities : a.owner \in accounts

\* What was answered with success is in the database for as long as its account
\* is, whatever fails later: a response is built after the transaction has ended.
AcknowledgedIsDurable ==
    /\ \A a \in acked.posts : a.owner \in accounts => a \in activities
    /\ \A u \in acked.puts \cap accounts : goals[u] # None

\* A caller sees what had been acknowledged to it before it asked: the goal is
\* found, and an activity is missing from the list only because Limit newer ones
\* are there.
ReadYourWrites ==
    \A r \in Request :
        pc[r] = "idle" /\ call[r] # None /\ Caller(r) \in accounts =>
            /\ Answered(r, "get_goal", "not_found") => Caller(r) \notin known[r].puts
            /\ Answered(r, "list_activities", "ok") =>
                  \A a \in known[r].posts \ listed[r] :
                      Cardinality({b \in listed[r] : Newer(b, a)}) >= Limit

\* A deadline that was accepted is ahead of the student in the answer too, even
\* when midnight passes while the transaction runs.
PutAnswersAFutureDeadline ==
    \A r \in Request :
        Answered(r, "put_goal", "ok") => answer[r].days_remaining \in 1..MaxHorizon

Replays(r) ==
    /\ Answered(r, "snapshot", "ok")
    /\ decision # None
    /\ call[r].caller = decision.caller /\ call[r].as_of = decision.as_of
    /\ decision.caller \in accounts

\* db/snapshot.py:73: "replaying a stored decision trace after further practice
\* reproduces the original snapshot rather than a newer one."
ReplayReproduces ==
    \A r \in Request : Replays(r) /\ decision.past => listed[r] = decision.rows

\* What the code does guarantee: a snapshot that was taken after its as_of, when
\* no recording that began until as_of was still in flight, is reproduced by
\* every later replay, however much practice is recorded meanwhile.
SettledReplayReproduces ==
    \A r \in Request : Replays(r) /\ decision.settled => listed[r] = decision.rows

\* The inductive invariant (see StudentStoreProofs).  A call that is on its way
\* has a deadline that was valid on the day the handler read; at commit the row
\* that was written is what will be answered, and as long as it is held the
\* account is there.
InFlight(r) ==
    /\ pc[r] # "idle" => call[r] \in Call
    /\ pc[r] # "idle" /\ call[r].endpoint = "put_goal" => Valid(call[r].deadline, today[r])
    /\ pc[r] = "commit" /\ call[r].endpoint = "put_goal" =>
           write[r] \in Goal /\ found[r] = write[r] /\ write[r].deadline = call[r].deadline
    /\ pc[r] = "commit" /\ call[r].endpoint = "post_activity" =>
           write[r] \in Activity /\ write[r].owner = Caller(r) /\ listed[r] = {write[r]}
    /\ write[r] # None => pc[r] = "commit" /\ Caller(r) \in accounts
StoreInv == TypeOK /\ \A r \in Request : InFlight(r)

\* The refinement mapping: what a request has written and not committed is not
\* there yet, and what it has read is.
Reads == {"get_goal", "list_activities", "snapshot"}
Reading(r) == pc[r] = "commit" /\ call[r].endpoint \in Reads
Lists(r) ==
    IF call[r] = None THEN FALSE ELSE call[r].endpoint \in {"list_activities", "snapshot"}
StageOf(r) ==
    IF pc[r] = "idle" THEN "idle"
    ELSE IF pc[r] = "begin" THEN "asked"
    ELSE IF Reading(r) THEN "read" ELSE "dated"

Stage == [r \in Request |-> StageOf(r)]
FoundByRead == [r \in Request |-> IF Reading(r) THEN found[r] ELSE None]
ListedByRead == [r \in Request |-> IF Lists(r) THEN listed[r] ELSE {}]

Atomic == INSTANCE AtomicStore WITH
    Call <- {c \in Call : c.endpoint \in Operation},
    stage <- Stage, instant <- begun, found <- FoundByRead, listed <- ListedByRead

\* The store implements AtomicStore: whatever is locked, written and not yet
\* committed, failed or cut off in between, each call has its effect at once and
\* entirely, at one moment between its arrival and its answer, or, if it is
\* answered with an error, perhaps never; two writers of one goal do not lose what
\* the first has stored; a list and a snapshot show one state of the table.
ImplementsAtomicStore == Atomic!Spec

\* Every call is answered although two writers of one goal wait for each other's
\* row: a transaction that fails releases what it holds.
CallsAreAnswered == \A r \in Request : pc[r] # "idle" ~> pc[r] = "idle"
=============================================================================
