-------------------------- MODULE StudentStoreProofs --------------------------
(***************************************************************************)
(* Proofs about StudentStore, for any number of requests, students,        *)
(* activities and days.  StoreInv is inductive; that no row is orphaned,   *)
(* that what was acknowledged is durable and that an accepted deadline is  *)
(* ahead in its answer follow from it, each by one more induction.  Then   *)
(* that StudentStore implements AtomicStore, and that callers read their   *)
(* writes.  Both rest on two facts: a row that is written and not          *)
(* committed is still what the abstract store would write now, since       *)
(* nobody else may touch it (WriteInv); and a list leaves out only what is *)
(* older than Limit others (NewestIsComplete).                             *)
(***************************************************************************)
EXTENDS StudentStore, FiniteSums

\* Today is a day that the clock can reach.
LEMMA TodayIsTime == now \in Time => Today \in Time
<1>1. ASSUME NEW n \in Nat, NEW d \in Nat \ {0} PROVE n \div d \in Nat /\ n \div d <= n
    BY <1>1
<1>2. QED
    BY <1>1, NumberAssumption DEF Time, Today

\* A row that was written is not NULL.
LEMMA RowIsNotNull ==
    ASSUME NEW row \in Goal \cup Activity
    PROVE  row # None
    BY NoneAssumption

\* What a finished request leaves behind.
LEMMA FinishTypes ==
    ASSUME TypeOK, NEW r \in Request, NEW status \in Status, NEW days \in Int,
           Finish(r, status, days)
    PROVE  /\ pc' = [pc EXCEPT ![r] = "idle"]
           /\ pc' \in [Request -> {"idle", "begin", "statement", "commit"}]
           /\ today' \in [Request -> Time] /\ begun' \in [Request -> Time]
           /\ found' \in [Request -> Goal \cup {None}]
           /\ write' \in [Request -> Goal \cup Activity \cup {None}]
           /\ answer' \in [Request -> Answer]
           /\ write'[r] = None
           /\ \A s \in Request \ {r} : /\ today'[s] = today[s] /\ found'[s] = found[s]
                                       /\ write'[s] = write[s]
<1>1. 0 \in Time
    BY NumberAssumption DEF Time
<1>2. [status |-> status, days_remaining |-> days] \in Answer
    BY DEF Answer
<1>3. QED
    BY <1>1, <1>2 DEF TypeOK, Finish, Respond, Goto

\* Whoever does not move stays in flight, as long as its account is there.
LEMMA Bystander ==
    ASSUME NEW s, InFlight(s),
           pc'[s] = pc[s], call'[s] = call[s], today'[s] = today[s], write'[s] = write[s],
           found'[s] = found[s], listed'[s] = listed[s],
           write[s] # None => call[s].caller \in accounts'
    PROVE  InFlight(s)'
    BY DEF InFlight, Caller, Valid

\* A call that has been made has a caller and an endpoint.
LEMMA CallParts ==
    ASSUME NEW c \in Call
    PROVE  /\ c.caller \in User
           /\ c.endpoint \in Endpoint
           /\ c.endpoint = "put_goal" => c.deadline \in Deadline
           /\ c.endpoint = "snapshot" => c.as_of \in Time
    BY DEF Call, Endpoint

-----------------------------------------------------------------------------
(* The inductive invariant *)

\* At first nobody has called.
LEMMA StoreInit == Init => StoreInv
<1> SUFFICES ASSUME Init PROVE StoreInv
    OBVIOUS
<1>1. 0 \in Time
    BY NumberAssumption DEF Time
<1>2. NoAnswer \in Answer /\ Nothing \in Acknowledged
    BY DEF NoAnswer, Answer, Status, Nothing, Acknowledged
<1>3. TypeOK
    BY <1>1, <1>2 DEF Init, TypeOK
<1>4. \A r \in Request : InFlight(r)
    BY DEF Init, InFlight
<1>5. QED
    BY <1>3, <1>4 DEF StoreInv

\* The environment moves no request; it leaves the accounts of those that hold
\* a row.
LEMMA EnvironmentStep ==
    ASSUME StoreInv, Tick \/ (\E u \in User : DeleteAccount(u)) \/ UNCHANGED vars
    PROVE  StoreInv'
<1> USE DEF StoreInv
<1>1. UNCHANGED request
    BY DEF Tick, DeleteAccount, vars
<1>2. TypeOK'
    <2>1. CASE Tick
        BY <2>1, NumberAssumption DEF Tick, TypeOK, tables, request, history, Time
    <2>2. CASE \E u \in User : DeleteAccount(u)
        BY <2>2 DEF DeleteAccount, TypeOK, request, history
    <2>3. CASE UNCHANGED vars
        BY <2>3 DEF vars, TypeOK, tables, request, history
    <2>4. QED
        BY <2>1, <2>2, <2>3
<1>3. ASSUME NEW s \in Request, write[s] # None PROVE call[s].caller \in accounts'
    <2>1. call[s].caller \in accounts
        BY <1>3 DEF InFlight, Caller
    <2>2. QED
        BY <1>3, <2>1 DEF Tick, DeleteAccount, Writing, Caller, vars, tables
<1>4. \A s \in Request : InFlight(s)'
    BY <1>1, <1>3, Bystander DEF request
<1>5. QED
    BY <1>2, <1>4

\* A call starts with a payload that is valid on its day.
LEMMA StartStep ==
    ASSUME StoreInv, NEW r \in Request, NEW c \in Call, Start(r, c)
    PROVE  StoreInv'
<1> USE DEF StoreInv
<1>1. Today \in Time
    BY TodayIsTime DEF TypeOK
<1>2. /\ pc' \in [Request -> {"idle", "begin", "statement", "commit"}]
      /\ today' \in [Request -> Time] /\ answer' \in [Request -> Answer]
      /\ call' \in [Request -> Call \cup {None}] /\ call'[r] = c
      /\ pc'[r] \in {"idle", "begin"}
      /\ pc'[r] = "begin" => today'[r] = Today
                             /\ (c.endpoint = "put_goal" => Valid(c.deadline, Today))
    <2>1. call' = [call EXCEPT ![r] = c] /\ pc[r] = "idle"
        BY DEF Start
    <2>2. CASE c.endpoint = "put_goal" => Valid(c.deadline, Today)
        <3>1. /\ answer' = [answer EXCEPT ![r] = [status |-> "none", days_remaining |-> 0]]
              /\ pc' = [pc EXCEPT ![r] = "begin"] /\ today' = [today EXCEPT ![r] = Today]
            BY <2>2 DEF Start, Respond, Goto
        <3>2. QED
            BY <1>1, <2>1, <2>2, <3>1 DEF TypeOK, Answer, Status
    <2>3. CASE ~ (c.endpoint = "put_goal" => Valid(c.deadline, Today))
        <3>1. /\ answer' = [answer EXCEPT ![r] =
                                [status |-> "unprocessable", days_remaining |-> 0]]
              /\ pc' = pc /\ today' = today
            BY <2>3 DEF Start, Respond
        <3>2. QED
            BY <2>1, <3>1 DEF TypeOK, Answer, Status
    <2>4. QED
        BY <2>2, <2>3
<1>3. known' \in [Request -> Acknowledged]
    <2>1. [posts |-> {a \in acked.posts : a.owner = c.caller}, puts |-> acked.puts \cap {c.caller}]
              \in Acknowledged
        BY DEF TypeOK, Acknowledged
    <2>2. QED
        BY <2>1 DEF Start, TypeOK
<1>4. TypeOK'
    BY <1>2, <1>3 DEF Start, TypeOK, tables
<1>5. write[r] = None
    BY DEF Start, InFlight
<1>6. InFlight(r)'
    BY <1>2, <1>5 DEF InFlight, Start
<1>7. ASSUME NEW s \in Request \ {r} PROVE InFlight(s)'
    <2>1. /\ call'[s] = call[s] /\ listed'[s] = listed[s] /\ UNCHANGED <<write, found, accounts>>
          /\ pc'[s] = pc[s] /\ today'[s] = today[s]
        BY DEF Start, Goto, Respond, TypeOK, tables
    <2>2. QED
        BY <2>1, Bystander DEF InFlight, Caller
<1>8. QED
    BY <1>4, <1>6, <1>7

\* The transaction begins.
LEMMA BeginStep ==
    ASSUME StoreInv, NEW r \in Request, Begin(r)
    PROVE  StoreInv'
<1> USE DEF StoreInv
<1>1. TypeOK'
    BY DEF Begin, Goto, TypeOK, tables, history
<1>2. InFlight(r)'
    BY DEF Begin, Goto, TypeOK, InFlight, tables, Caller, Valid
<1>3. ASSUME NEW s \in Request \ {r} PROVE InFlight(s)'
    <2>1. pc'[s] = pc[s] /\ UNCHANGED <<call, today, write, found, listed, accounts>>
        BY DEF Begin, Goto, TypeOK, tables
    <2>2. QED
        BY <2>1, Bystander DEF InFlight, Caller
<1>4. QED
    BY <1>1, <1>2, <1>3

\* A step of a request that only moves its own program counter and locals.
LEMMA OthersStay ==
    ASSUME StoreInv, NEW r \in Request, NEW s \in Request \ {r},
           UNCHANGED <<call, accounts>>, pc'[s] = pc[s], today'[s] = today[s],
           write'[s] = write[s], found'[s] = found[s], listed'[s] = listed[s]
    PROVE  InFlight(s)'
    BY Bystander DEF StoreInv, InFlight, Caller

\* The goal that a transaction writes carries the deadline of its call.
LEMMA UpsertStep ==
    ASSUME StoreInv, NEW r \in Request, UpsertGoal(r)
    PROVE  StoreInv'
<1> USE DEF StoreInv
<1> DEFINE old == goals[Caller(r)]
           row == [deadline |-> call[r].deadline,
                   created_at |-> IF old = None THEN begun[r] ELSE old.created_at,
                   updated_at |-> begun[r]]
<1>1. /\ pc[r] = "statement" /\ call[r].endpoint = "put_goal" /\ call[r] \in Call
      /\ Valid(call[r].deadline, today[r]) /\ Caller(r) \in accounts
    BY DEF UpsertGoal, At, InFlight
<1>2. row \in Goal
    <2>1. call[r].deadline \in Deadline /\ Caller(r) \in User
        BY <1>1, CallParts DEF Caller
    <2>2. today[r] \in Time /\ begun[r] \in Time
        BY DEF TypeOK
    <2>3. call[r].deadline > 0
        <3>1. call[r].deadline \in Int
            BY <2>1, NumberAssumption
        <3>2. today[r] \in Int /\ 0 <= today[r]
            BY <2>2, NumberAssumption DEF Time
        <3>3. today[r] < call[r].deadline
            BY <1>1 DEF Valid
        <3>4. QED
            BY <3>1, <3>2, <3>3
    <2>4. old \in Goal \cup {None}
        BY <2>1 DEF TypeOK
    <2>5. old # None => old.created_at \in Time
        BY <2>4 DEF Goal
    <2>6. (IF old = None THEN begun[r] ELSE old.created_at) \in Time
        BY <2>2, <2>5
    <2>7. call[r].deadline \in {d \in Deadline : d > 0}
        BY <2>1, <2>3
    <2> HIDE DEF old
    <2>8. QED
        BY <2>2, <2>6, <2>7 DEF Goal
<1>3. row.deadline = call[r].deadline
    OBVIOUS
<1>4. write' = [write EXCEPT ![r] = row] /\ found' = [found EXCEPT ![r] = row]
    BY DEF UpsertGoal
<1> HIDE DEF row
<1>5. pc' = [pc EXCEPT ![r] = "commit"]
      /\ UNCHANGED <<now, tables, call, today, begun, listed, answer, history>>
    BY DEF UpsertGoal, Goto
<1>6. TypeOK'
    BY <1>2, <1>4, <1>5 DEF TypeOK, tables, history
<1>7. InFlight(r)'
    <2>1. write'[r] = row /\ found'[r] = row /\ pc'[r] = "commit"
        BY <1>4, <1>5 DEF TypeOK
    <2>2. QED
        BY <1>1, <1>2, <1>3, <1>5, <2>1 DEF InFlight, Caller, Valid, tables
<1>8. \A s \in Request \ {r} : InFlight(s)'
    BY <1>4, <1>5, OthersStay DEF TypeOK, tables
<1>9. QED
    BY <1>6, <1>7, <1>8

\* The activity that a transaction writes is its caller's, and what it will
\* answer.
LEMMA RecordStep ==
    ASSUME StoreInv, NEW r \in Request, RecordActivity(r)
    PROVE  StoreInv'
<1> USE DEF StoreInv
<1>1. /\ pc[r] = "statement" /\ call[r].endpoint = "post_activity" /\ call[r] \in Call
      /\ Caller(r) \in accounts
    BY DEF RecordActivity, At, InFlight
<1>2. PICK id \in Id :
          /\ write' = [write EXCEPT ![r] =
                          [id |-> id, owner |-> Caller(r), occurred_at |-> begun[r]]]
          /\ listed' = [listed EXCEPT ![r] =
                          {[id |-> id, owner |-> Caller(r), occurred_at |-> begun[r]]}]
    BY DEF RecordActivity
<1> DEFINE row == [id |-> id, owner |-> Caller(r), occurred_at |-> begun[r]]
<1>3. row \in Activity /\ row.owner = Caller(r)
    <2>1. Caller(r) \in User /\ begun[r] \in Time
        BY <1>1, CallParts DEF Caller, TypeOK
    <2>2. QED
        BY <2>1 DEF Activity
<1>4. write' = [write EXCEPT ![r] = row] /\ listed' = [listed EXCEPT ![r] = {row}]
    BY <1>2
<1> HIDE DEF row
<1>5. pc' = [pc EXCEPT ![r] = "commit"]
      /\ UNCHANGED <<now, tables, call, today, begun, found, answer, history>>
    BY DEF RecordActivity, Goto
<1>6. TypeOK'
    BY <1>3, <1>4, <1>5 DEF TypeOK, tables, history
<1>7. InFlight(r)'
    <2>1. write'[r] = row /\ listed'[r] = {row} /\ pc'[r] = "commit"
        BY <1>4, <1>5 DEF TypeOK
    <2>2. QED
        BY <1>1, <1>3, <1>5, <2>1 DEF InFlight, Caller, tables
<1>8. \A s \in Request \ {r} : InFlight(s)'
    BY <1>4, <1>5, OthersStay DEF TypeOK, tables
<1>9. QED
    BY <1>6, <1>7, <1>8

\* A statement that reads writes no row.
LEMMA ReadStep ==
    ASSUME StoreInv, NEW r \in Request, FetchGoal(r) \/ ListActivities(r) \/ Snapshot(r)
    PROVE  StoreInv'
<1> USE DEF StoreInv
<1>1. /\ pc[r] = "statement" /\ call[r] \in Call
      /\ call[r].endpoint \in {"get_goal", "list_activities", "snapshot"}
    BY DEF FetchGoal, ListActivities, Snapshot, At, InFlight
<1>2. write[r] = None
    BY <1>1 DEF InFlight
<1>3. /\ pc' = [pc EXCEPT ![r] = "commit"]
      /\ UNCHANGED <<now, tables, call, today, begun, write, answer, known, acked>>
    BY DEF FetchGoal, ListActivities, Snapshot, Goto, history
<1>4. found' \in [Request -> Goal \cup {None}] /\ listed' \in [Request -> SUBSET Activity]
      /\ \A s \in Request \ {r} : found'[s] = found[s] /\ listed'[s] = listed[s]
    <2>1. CASE FetchGoal(r)
        <3>1. goals[Caller(r)] \in Goal \cup {None}
            BY <1>1, CallParts DEF Caller, TypeOK
        <3>2. QED
            BY <2>1, <3>1 DEF FetchGoal, TypeOK
    <2>2. CASE ListActivities(r)
        <3>1. Newest(Own(r)) \in SUBSET Activity
            BY DEF Newest, Own, TypeOK
        <3>2. QED
            BY <2>2, <3>1 DEF ListActivities, TypeOK
    <2>3. CASE Snapshot(r)
        <3>1. AsOf(Own(r), call[r].as_of) \in SUBSET Activity
            BY DEF AsOf, Own, TypeOK
        <3>2. listed' = [listed EXCEPT ![r] = AsOf(Own(r), call[r].as_of)] /\ found' = found
            BY <2>3 DEF Snapshot
        <3>3. QED
            BY <3>1, <3>2 DEF TypeOK
    <2>4. QED
        BY <2>1, <2>2, <2>3
<1>5. decision' \in Decision \cup {None}
    <2>1. CASE FetchGoal(r) \/ ListActivities(r)
        BY <2>1 DEF FetchGoal, ListActivities, history, TypeOK
    <2>2. CASE Snapshot(r)
        <3> DEFINE as_of == call[r].as_of
                   rows == AsOf(Own(r), as_of)
                   past == as_of < now
                   settled == Settled(Caller(r), as_of)
        <3>1. past \in BOOLEAN /\ settled \in BOOLEAN
            BY DEF Settled
        <3>2. decision' = decision
              \/ decision' = [caller |-> Caller(r), as_of |-> as_of, rows |-> rows,
                              past |-> past, settled |-> settled]
            BY <2>2, Zenon DEF Snapshot
        <3>3. rows \in SUBSET Activity
            BY DEF AsOf, Own, TypeOK
        <3>4. Caller(r) \in User /\ as_of \in Time
            <4>1. call[r].endpoint = "snapshot"
                BY <2>2 DEF Snapshot, At
            <4>2. QED
                BY <1>1, <4>1, CallParts DEF Caller
        <3> HIDE DEF as_of, rows, past, settled
        <3>5. [caller |-> Caller(r), as_of |-> as_of, rows |-> rows, past |-> past,
               settled |-> settled] \in Decision
            BY <3>1, <3>3, <3>4 DEF Decision
        <3>6. QED
            BY <3>2, <3>5 DEF TypeOK
    <2>3. QED
        BY <2>1, <2>2
<1>6. TypeOK'
    BY <1>3, <1>4, <1>5 DEF TypeOK, tables
<1>7. InFlight(r)'
    <2>1. pc'[r] = "commit" /\ write'[r] = None /\ call'[r] = call[r]
        BY <1>2, <1>3 DEF TypeOK
    <2>2. QED
        BY <1>1, <2>1 DEF InFlight
<1>8. \A s \in Request \ {r} : InFlight(s)'
    BY <1>3, <1>4, OthersStay DEF TypeOK, tables
<1>9. QED
    BY <1>6, <1>7, <1>8

\* The row of a transaction that commits joins its table.
LEMMA ApplyTypes ==
    ASSUME StoreInv, NEW r \in Request, pc[r] = "commit", Apply(r)
    PROVE  /\ goals' \in [User -> Goal \cup {None}] /\ activities' \in SUBSET Activity
           /\ accounts' = accounts
           /\ call[r].endpoint = "post_activity" => activities' = activities \cup {write[r]}
           /\ call[r].endpoint # "post_activity" => activities' = activities
           /\ call[r].endpoint = "put_goal" => goals' = [goals EXCEPT ![Caller(r)] = write[r]]
           /\ call[r].endpoint # "put_goal" => goals' = goals
<1>1. call[r] \in Call /\ InFlight(r)
    BY DEF StoreInv, InFlight
<1>2. CASE call[r].endpoint = "put_goal"
    BY <1>1, <1>2 DEF Apply, StoreInv, TypeOK, InFlight
<1>3. CASE call[r].endpoint = "post_activity"
    BY <1>1, <1>3 DEF Apply, StoreInv, TypeOK, InFlight
<1>4. CASE call[r].endpoint \notin {"put_goal", "post_activity"}
    BY <1>4 DEF Apply, StoreInv, TypeOK
<1>5. QED
    BY <1>2, <1>3, <1>4

\* What is answered at commit: the number of days is that of the row read or
\* written, and what is acknowledged is what has been applied.
LEMMA CommitAnswers ==
    ASSUME StoreInv, NEW r \in Request, Commit(r)
    PROVE  /\ \E status \in Status, days \in Int :
                  /\ Finish(r, status, days)
                  /\ call[r].endpoint = "put_goal" => days = write[r].deadline - today[r]
           /\ call[r].endpoint = "put_goal" => acked'.puts = acked.puts \cup {Caller(r)}
           /\ call[r].endpoint # "put_goal" => acked'.puts = acked.puts
           /\ call[r].endpoint = "post_activity" => acked'.posts = acked.posts \cup {write[r]}
           /\ call[r].endpoint # "post_activity" => acked'.posts = acked.posts
           /\ acked' \in Acknowledged
<1>1. pc[r] = "commit" /\ call[r] \in Call /\ InFlight(r)
    BY DEF Commit, StoreInv, InFlight
<1>2. found[r] \in Goal \cup {None} /\ today[r] \in Time
    BY DEF StoreInv, TypeOK
<1>3. \A d \in Int : d - today[r] \in Int
    BY <1>2, NumberAssumption DEF Time
<1>4. \A row \in Goal : row.deadline \in Int
    BY NumberAssumption DEF Goal
<1>5. \E status \in Status, days \in Int :
          /\ Finish(r, status, days)
          /\ call[r].endpoint = "put_goal" => days = write[r].deadline - today[r]
    <2>1. CASE call[r].endpoint = "get_goal" /\ found[r] = None
        BY <2>1 DEF Commit, Status
    <2>2. CASE call[r].endpoint = "put_goal"
        <3>1. found[r] = write[r] /\ write[r] \in Goal
            BY <1>1, <2>2 DEF InFlight
        <3>2. found[r] # None
            BY <3>1, RowIsNotNull
        <3>3. Finish(r, "ok", write[r].deadline - today[r])
            BY <2>2, <3>1, <3>2 DEF Commit
        <3>4. write[r].deadline - today[r] \in Int
            BY <1>3, <1>4, <3>1
        <3>5. QED
            BY <3>3, <3>4 DEF Status
    <2>3. CASE call[r].endpoint # "put_goal" /\ ~ (call[r].endpoint = "get_goal" /\ found[r] = None)
        <3> DEFINE days == IF found[r] = None THEN 0 ELSE found[r].deadline - today[r]
        <3>1. Finish(r, "ok", days)
            BY <2>3 DEF Commit
        <3>2. days \in Int
            BY <1>2, <1>3, <1>4
        <3>3. QED
            BY <2>3, <3>1, <3>2 DEF Status
    <2>4. QED
        BY <2>1, <2>2, <2>3
<1>6. acked' = [posts |-> acked.posts \cup
                    IF call[r].endpoint = "post_activity" THEN listed[r] ELSE {},
                puts |-> acked.puts \cup
                    IF call[r].endpoint = "put_goal" THEN {Caller(r)} ELSE {}]
    BY DEF Commit
<1>7. call[r].endpoint = "post_activity" => listed[r] = {write[r]} /\ write[r] \in Activity
    BY <1>1 DEF InFlight
<1>8. Caller(r) \in User
    BY <1>1, CallParts DEF Caller
<1>9. acked' \in Acknowledged
    BY <1>6, <1>7, <1>8 DEF StoreInv, TypeOK, Acknowledged
<1>10. QED
    BY <1>5, <1>6, <1>7, <1>9

\* A request that ends, well or not, gives back all it holds.
LEMMA EndStep ==
    ASSUME StoreInv, NEW r \in Request,
           Commit(r) \/ Fail(r) \/ RefusedByReference(r) \/ FailAfterCommit(r)
    PROVE  StoreInv'
<1>1. PICK status \in Status, days \in Int : Finish(r, status, days)
    <2>1. Commit(r) => \E status \in Status, days \in Int : Finish(r, status, days)
        BY CommitAnswers
    <2>2. "error" \in Status /\ 0 \in Int
        BY DEF Status
    <2>3. QED
        BY <2>1, <2>2 DEF Fail, RefusedByReference, FailAfterCommit
<1>2. UNCHANGED <<now, accounts, call, listed, known, decision>>
    BY DEF Commit, Fail, RefusedByReference, FailAfterCommit, Apply, tables, history
<1>3. /\ goals' \in [User -> Goal \cup {None}] /\ activities' \in SUBSET Activity
    <2>1. Commit(r) \/ FailAfterCommit(r) => pc[r] = "commit" /\ Apply(r)
        BY DEF Commit, FailAfterCommit
    <2>2. Fail(r) \/ RefusedByReference(r) => UNCHANGED <<goals, activities>>
        BY DEF Fail, RefusedByReference, tables
    <2>3. QED
        BY <2>1, <2>2, ApplyTypes DEF StoreInv, TypeOK
<1>4. acked' \in Acknowledged
    BY CommitAnswers DEF Fail, RefusedByReference, FailAfterCommit, history, StoreInv, TypeOK
<1>5. TypeOK
    BY DEF StoreInv
<1>6. /\ pc' = [pc EXCEPT ![r] = "idle"]
      /\ pc' \in [Request -> {"idle", "begin", "statement", "commit"}]
      /\ today' \in [Request -> Time] /\ begun' \in [Request -> Time]
      /\ found' \in [Request -> Goal \cup {None}]
      /\ write' \in [Request -> Goal \cup Activity \cup {None}]
      /\ answer' \in [Request -> Answer]
      /\ write'[r] = None
      /\ \A s \in Request \ {r} : /\ today'[s] = today[s] /\ found'[s] = found[s]
                                  /\ write'[s] = write[s]
    BY <1>1, <1>5, FinishTypes
<1>7. TypeOK'
    BY <1>2, <1>3, <1>4, <1>5, <1>6 DEF TypeOK
<1>8. InFlight(r)'
    BY <1>5, <1>6 DEF InFlight, TypeOK
<1>9. \A s \in Request \ {r} : InFlight(s)'
    BY <1>2, <1>5, <1>6, OthersStay DEF TypeOK
<1>10. QED
    BY <1>7, <1>8, <1>9 DEF StoreInv

\* Every step keeps StoreInv.
LEMMA StoreStep ==
    ASSUME StoreInv, [Next]_vars
    PROVE  StoreInv'
<1>1. ASSUME NEW r \in Request, Step(r) PROVE StoreInv'
    BY <1>1, BeginStep, UpsertStep, RecordStep, ReadStep, EndStep DEF Step
<1>2. ASSUME NEW r \in Request, Fail(r) \/ FailAfterCommit(r) PROVE StoreInv'
    BY <1>2, EndStep
<1>3. QED
    BY <1>1, <1>2, EnvironmentStep, StartStep DEF Next

\* In every reachable state the store is well typed and every call in flight is
\* what its stage says.
THEOREM StoreInvariant == Spec => []StoreInv
    BY StoreInit, StoreStep, PTL DEF Spec

-----------------------------------------------------------------------------
(* The rows and their accounts *)

\* How a step changes the tables and what has been acknowledged.
LEMMA TableSteps ==
    ASSUME StoreInv, [Next]_vars
    PROVE  \/ UNCHANGED <<tables, acked>>
           \/ (\E u \in User : DeleteAccount(u)) /\ UNCHANGED acked
           \/ \E r \in Request : pc[r] = "commit" /\ Apply(r) /\ UNCHANGED acked
           \/ \E r \in Request : Commit(r) /\ pc[r] = "commit" /\ Apply(r)
<1>1. Tick \/ UNCHANGED vars => UNCHANGED <<tables, acked>>
    BY DEF Tick, vars, history
<1>2. \A u \in User : DeleteAccount(u) => UNCHANGED acked
    BY DEF DeleteAccount, history
<1>3. ASSUME NEW r \in Request
      PROVE  /\ (\E c \in Call : Start(r, c)) => UNCHANGED <<tables, acked>>
             /\ Begin(r) \/ UpsertGoal(r) \/ RecordActivity(r) \/ RefusedByReference(r)
                \/ FetchGoal(r) \/ ListActivities(r) \/ Snapshot(r) \/ Fail(r)
                    => UNCHANGED <<tables, acked>>
             /\ FailAfterCommit(r) => pc[r] = "commit" /\ Apply(r) /\ UNCHANGED acked
             /\ Commit(r) => pc[r] = "commit" /\ Apply(r)
    BY DEF Start, Begin, UpsertGoal, RecordActivity, RefusedByReference, FetchGoal,
           ListActivities, Snapshot, Fail, FailAfterCommit, Commit, tables, history
<1>4. QED
    BY <1>1, <1>2, <1>3 DEF Next, Step

\* A row that joins a table belongs to an account that is still there.
LEMMA NoOrphansStep ==
    ASSUME StoreInv, NoOrphans, [Next]_vars
    PROVE  NoOrphans'
<1>1. CASE UNCHANGED tables
    BY <1>1 DEF NoOrphans, tables
<1>2. CASE \E u \in User : DeleteAccount(u)
    <2>1. PICK u \in User : DeleteAccount(u)
        BY <1>2
    <2>2. /\ accounts' = accounts \ {u} /\ goals' = [goals EXCEPT ![u] = None]
          /\ activities' = {a \in activities : a.owner # u}
        BY <2>1 DEF DeleteAccount
    <2>3. goals \in [User -> Goal \cup {None}]
        BY DEF StoreInv, TypeOK
    <2>4. QED
        BY <2>2, <2>3 DEF NoOrphans
<1>3. CASE \E r \in Request : pc[r] = "commit" /\ Apply(r)
    <2>1. PICK r \in Request : pc[r] = "commit" /\ Apply(r)
        BY <1>3
    <2>2. InFlight(r) /\ call[r] \in Call
        BY <2>1 DEF StoreInv, InFlight
    <2>3. call[r].endpoint \in {"put_goal", "post_activity"} => Caller(r) \in accounts
        BY <2>1, <2>2, RowIsNotNull DEF InFlight
    <2>4. goals \in [User -> Goal \cup {None}]
        BY DEF StoreInv, TypeOK
    <2>5. \A u \in User : goals'[u] # None => goals[u] # None \/ (u = Caller(r)
                                                 /\ call[r].endpoint = "put_goal")
        BY <2>1, <2>4, ApplyTypes
    <2>6. \A a \in activities' : a \in activities \/ (a.owner = Caller(r)
                                                 /\ call[r].endpoint = "post_activity")
        BY <2>1, <2>2, ApplyTypes DEF InFlight
    <2>7. accounts' = accounts
        BY <2>1, ApplyTypes
    <2>8. QED
        BY <2>3, <2>5, <2>6, <2>7 DEF NoOrphans
<1>4. QED
    BY <1>1, <1>2, <1>3, TableSteps

\* No goal and no activity outlives its account.
THEOREM NothingIsOrphaned == Spec => []NoOrphans
<1>1. Init => NoOrphans
    BY DEF Init, NoOrphans
<1>2. QED
    BY <1>1, NoOrphansStep, StoreInit, StoreStep, PTL DEF Spec

\* A row is acknowledged when it has been applied, and goes with its account
\* only.
LEMMA DurableStep ==
    ASSUME StoreInv, AcknowledgedIsDurable, [Next]_vars
    PROVE  AcknowledgedIsDurable'
<1>1. CASE UNCHANGED <<tables, acked>>
    BY <1>1 DEF AcknowledgedIsDurable, tables
<1>2. CASE (\E u \in User : DeleteAccount(u)) /\ UNCHANGED acked
    <2>1. PICK u \in User : DeleteAccount(u)
        BY <1>2
    <2>2. /\ accounts' = accounts \ {u} /\ goals' = [goals EXCEPT ![u] = None]
          /\ activities' = {a \in activities : a.owner # u} /\ acked' = acked
        BY <1>2, <2>1 DEF DeleteAccount
    <2>3. goals \in [User -> Goal \cup {None}] /\ accounts \in SUBSET User
        BY DEF StoreInv, TypeOK
    <2>4. QED
        BY <2>2, <2>3 DEF AcknowledgedIsDurable
<1>3. ASSUME NEW r \in Request, pc[r] = "commit", Apply(r)
      PROVE  /\ activities \subseteq activities' /\ accounts' = accounts /\ accounts \subseteq User
             /\ \A u \in User : goals[u] # None => goals'[u] # None
             /\ call[r].endpoint = "put_goal" => Caller(r) \in User /\ goals'[Caller(r)] # None
             /\ call[r].endpoint = "post_activity" => write[r] \in activities'
    <2>1. InFlight(r) /\ call[r] \in Call
        BY <1>3 DEF StoreInv, InFlight
    <2>2. goals \in [User -> Goal \cup {None}] /\ accounts \in SUBSET User
        BY DEF StoreInv, TypeOK
    <2>3. call[r].endpoint = "put_goal" => write[r] # None
        BY <1>3, <2>1, RowIsNotNull DEF InFlight
    <2>4. Caller(r) \in User
        BY <2>1, CallParts DEF Caller
    <2>5. QED
        BY <1>3, <2>2, <2>3, <2>4, ApplyTypes
<1>4. CASE \E r \in Request : pc[r] = "commit" /\ Apply(r) /\ UNCHANGED acked
    <2>1. acked' = acked
        BY <1>4
    <2>2. acked.puts \subseteq User
        BY DEF StoreInv, TypeOK, Acknowledged
    <2>3. QED
        BY <1>3, <1>4, <2>1, <2>2 DEF AcknowledgedIsDurable
<1>5. CASE \E r \in Request : Commit(r) /\ pc[r] = "commit" /\ Apply(r)
    <2>1. PICK r \in Request : Commit(r) /\ pc[r] = "commit" /\ Apply(r)
        BY <1>5
    <2>2. acked.puts \subseteq User
        BY DEF StoreInv, TypeOK, Acknowledged
    <2>3. /\ \A u \in acked'.puts : u \in acked.puts
                                    \/ (u = Caller(r) /\ call[r].endpoint = "put_goal")
          /\ \A a \in acked'.posts : a \in acked.posts
                                     \/ (a = write[r] /\ call[r].endpoint = "post_activity")
        BY <2>1, CommitAnswers
    <2>4. QED
        BY <1>3, <2>1, <2>2, <2>3 DEF AcknowledgedIsDurable
<1>6. QED
    BY <1>1, <1>2, <1>4, <1>5, TableSteps

\* What a caller was told is recorded is there for as long as its account is.
THEOREM AcknowledgementsAreDurable == Spec => []AcknowledgedIsDurable
<1>1. Init => AcknowledgedIsDurable
    BY DEF Init, AcknowledgedIsDurable, Nothing
<1>2. QED
    BY <1>1, DurableStep, StoreInit, StoreStep, PTL DEF Spec

-----------------------------------------------------------------------------
(* The answer to a PUT *)

PutAnswer(r) == Answered(r, "put_goal", "ok") => answer[r].days_remaining \in 1..MaxHorizon

\* A request answers for itself.
LEMMA AnswersStay ==
    ASSUME StoreInv, NEW r \in Request, NEW s \in Request \ {r}, PutAnswer(s),
           (\E c \in Call : Start(r, c)) \/ Step(r) \/ Fail(r) \/ FailAfterCommit(r)
    PROVE  PutAnswer(s)'
<1>1. pc'[s] = pc[s] /\ call'[s] = call[s] /\ answer'[s] = answer[s]
    BY DEF StoreInv, TypeOK, Start, Step, Begin, UpsertGoal, RecordActivity, RefusedByReference,
           FetchGoal, ListActivities, Snapshot, Commit, Fail, FailAfterCommit, Finish, Respond,
           Goto
<1>2. QED
    BY <1>1 DEF PutAnswer, Answered

\* The deadline was valid on the day from which the answer counts.
LEMMA PutAnswerStep ==
    ASSUME StoreInv, NEW r \in Request, PutAnswer(r),
           (\E c \in Call : Start(r, c)) \/ Step(r) \/ Fail(r) \/ FailAfterCommit(r)
    PROVE  PutAnswer(r)'
<1>1. /\ answer \in [Request -> Answer]
      /\ pc \in [Request -> {"idle", "begin", "statement", "commit"}]
    BY DEF StoreInv, TypeOK
<1>2. CASE \E c \in Call : Start(r, c)
    <2>1. \/ answer' = [answer EXCEPT ![r] = [status |-> "none", days_remaining |-> 0]]
          \/ answer' = [answer EXCEPT ![r] = [status |-> "unprocessable", days_remaining |-> 0]]
        BY <1>2 DEF Start, Respond
    <2>2. answer'[r].status # "ok"
        BY <1>1, <2>1
    <2>3. QED
        BY <2>2 DEF PutAnswer, Answered
<1>3. CASE Begin(r) \/ UpsertGoal(r) \/ RecordActivity(r) \/ FetchGoal(r) \/ ListActivities(r)
           \/ Snapshot(r)
    <2>1. pc' = [pc EXCEPT ![r] = "statement"] \/ pc' = [pc EXCEPT ![r] = "commit"]
        BY <1>3 DEF Begin, UpsertGoal, RecordActivity, FetchGoal, ListActivities, Snapshot, Goto
    <2>2. pc'[r] # "idle"
        BY <1>1, <2>1
    <2>3. QED
        BY <2>2 DEF PutAnswer, Answered
<1>4. CASE RefusedByReference(r) \/ Fail(r) \/ FailAfterCommit(r)
    <2>1. answer' = [answer EXCEPT ![r] = [status |-> "error", days_remaining |-> 0]]
        BY <1>4 DEF RefusedByReference, Fail, FailAfterCommit, Finish, Respond
    <2>2. answer'[r].status # "ok"
        BY <1>1, <2>1
    <2>3. QED
        BY <2>2 DEF PutAnswer, Answered
<1>5. CASE Commit(r)
    <2>1. pc[r] = "commit" /\ call[r] \in Call /\ InFlight(r) /\ call' = call
        BY <1>5 DEF Commit, StoreInv, InFlight
    <2>2. PICK status \in Status, days \in Int :
              /\ Finish(r, status, days)
              /\ call[r].endpoint = "put_goal" => days = write[r].deadline - today[r]
        BY <1>5, CommitAnswers
    <2>3. answer'[r].days_remaining = days
        BY <1>1, <2>2 DEF Finish, Respond
    <2>4. ASSUME call[r].endpoint = "put_goal" PROVE days \in 1..MaxHorizon
        <3>1. /\ write[r].deadline = call[r].deadline
              /\ today[r] < call[r].deadline /\ call[r].deadline - today[r] <= MaxHorizon
            BY <2>1, <2>4 DEF InFlight, Valid
        <3>2. call[r].deadline \in Int
            BY <2>1, <2>4, CallParts, NumberAssumption
        <3>3. today[r] \in Int
            BY NumberAssumption DEF StoreInv, TypeOK, Time
        <3>4. MaxHorizon \in Int
            BY NumberAssumption
        <3>5. QED
            BY <2>2, <2>4, <3>1, <3>2, <3>3, <3>4
    <2>5. QED
        BY <2>1, <2>3, <2>4 DEF PutAnswer, Answered
<1>6. QED
    BY <1>2, <1>3, <1>4, <1>5 DEF Step

\* An accepted deadline is ahead of the student in the answer, whenever midnight
\* passes.
THEOREM AcceptedDeadlinesAreAhead == Spec => []PutAnswersAFutureDeadline
<1> DEFINE Inv == \A r \in Request : PutAnswer(r)
<1>1. Init => Inv
    BY DEF Init, PutAnswer, Answered
<1>2. StoreInv /\ Inv /\ [Next]_vars => Inv'
    <2> SUFFICES ASSUME StoreInv, Inv, [Next]_vars PROVE Inv'
        OBVIOUS
    <2>1. CASE Tick \/ (\E u \in User : DeleteAccount(u)) \/ UNCHANGED vars
        <3>1. UNCHANGED <<pc, call, answer>>
            BY <2>1 DEF Tick, DeleteAccount, vars, request
        <3>2. QED
            BY <3>1 DEF PutAnswer, Answered
    <2>2. ASSUME NEW r \in Request,
                 (\E c \in Call : Start(r, c)) \/ Step(r) \/ Fail(r) \/ FailAfterCommit(r)
          PROVE  Inv'
        BY <2>2, AnswersStay, PutAnswerStep
    <2>3. QED
        BY <2>1, <2>2 DEF Next
<1>3. Inv => PutAnswersAFutureDeadline
    BY DEF PutAnswer, PutAnswersAFutureDeadline
<1>4. QED
    BY <1>1, <1>2, <1>3, StoreInit, StoreStep, PTL DEF Spec

-----------------------------------------------------------------------------
(* Replays *)

\* A request whose snapshot has been read, answered or about to be.
Seen(r) ==
    /\ call[r] # None /\ call[r].endpoint = "snapshot"
    /\ pc[r] = "commit" \/ (pc[r] = "idle" /\ answer[r].status = "ok")

\* A row is dated by the start of its transaction.  The first snapshot is the
\* decision; once it has settled no transaction that could date a row within it
\* is left, so that its rows stay what they are and every later snapshot of the
\* same caller and date reads them.
ReplayInv ==
    /\ \A r \in Request : pc[r] = "commit" /\ call[r].endpoint = "post_activity" =>
           write[r].occurred_at = begun[r]
    /\ \A r \in Request : Seen(r) => decision # None
    /\ decision # None /\ decision.settled =>
           /\ decision.as_of < now
           /\ \A s \in Request :
                  pc[s] \in {"statement", "commit"} /\ call[s].endpoint = "post_activity"
                      /\ Caller(s) = decision.caller => begun[s] > decision.as_of
           /\ decision.caller \in accounts =>
                  /\ {a \in activities : a.owner = decision.caller /\ a.occurred_at <= decision.as_of}
                         = decision.rows
                  /\ \A r \in Request :
                         Seen(r) /\ Caller(r) = decision.caller /\ call[r].as_of = decision.as_of =>
                             listed[r] = decision.rows

\* The steps of one request.
Moves(r) == (\E c \in Call : Start(r, c)) \/ Step(r) \/ Fail(r) \/ FailAfterCommit(r)

\* A request's step leaves the others where they are.
LEMMA OthersUnmoved ==
    ASSUME StoreInv, NEW r \in Request, Moves(r), NEW s \in Request \ {r}
    PROVE  /\ pc'[s] = pc[s] /\ call'[s] = call[s] /\ begun'[s] = begun[s]
           /\ write'[s] = write[s] /\ listed'[s] = listed[s] /\ answer'[s] = answer[s]
    BY DEF Moves, StoreInv, TypeOK, Start, Step, Begin, UpsertGoal, RecordActivity,
           RefusedByReference, FetchGoal, ListActivities, Snapshot, Commit, Fail, FailAfterCommit,
           Finish, Respond, Goto

\* A step that takes no decision keeps ReplayInv if its own request does and no
\* row appears within the decision.
LEMMA QuietStep ==
    ASSUME StoreInv, ReplayInv, NEW r \in Request, Moves(r),
           UNCHANGED <<decision, now, accounts>>,
           decision # None /\ decision.settled =>
               \A a : a.owner = decision.caller /\ a.occurred_at <= decision.as_of =>
                          (a \in activities' <=> a \in activities),
           Seen(r)' => Seen(r) /\ listed'[r] = listed[r] /\ call'[r] = call[r],
           pc'[r] = "commit" /\ call'[r].endpoint = "post_activity" =>
               write'[r].occurred_at = begun'[r],
           decision # None /\ decision.settled /\ pc'[r] \in {"statement", "commit"}
             /\ call'[r].endpoint = "post_activity" /\ call'[r].caller = decision.caller =>
               begun'[r] > decision.as_of
    PROVE  ReplayInv'
<1>1. \A s \in Request \ {r} : /\ pc'[s] = pc[s] /\ call'[s] = call[s] /\ begun'[s] = begun[s]
                               /\ write'[s] = write[s] /\ listed'[s] = listed[s]
                               /\ answer'[s] = answer[s]
    BY OthersUnmoved
<1>2. \A s \in Request : Seen(s)' => Seen(s) /\ listed'[s] = listed[s] /\ call'[s] = call[s]
    BY <1>1 DEF Seen
<1>3. \A s \in Request : pc'[s] = "commit" /\ call'[s].endpoint = "post_activity" =>
          write'[s].occurred_at = begun'[s]
    BY <1>1 DEF ReplayInv
<1>4. \A s \in Request : Seen(s)' => decision' # None
    BY <1>2 DEF ReplayInv
<1>5. ASSUME decision' # None, decision'.settled
      PROVE  /\ decision'.as_of < now'
             /\ \A s \in Request :
                    pc'[s] \in {"statement", "commit"} /\ call'[s].endpoint = "post_activity"
                        /\ call'[s].caller = decision'.caller => begun'[s] > decision'.as_of
    BY <1>1, <1>5 DEF ReplayInv, Caller
<1>6. ASSUME decision' # None, decision'.settled, decision'.caller \in accounts'
      PROVE  /\ {a \in activities' : a.owner = decision'.caller
                                     /\ a.occurred_at <= decision'.as_of} = decision'.rows
             /\ \A s \in Request :
                    Seen(s)' /\ call'[s].caller = decision'.caller
                        /\ call'[s].as_of = decision'.as_of => listed'[s] = decision'.rows
    BY <1>2, <1>6 DEF ReplayInv, Caller
<1>7. QED
    BY <1>3, <1>4, <1>5, <1>6 DEF ReplayInv, Caller

\* The first snapshot decides; a later one of the same caller and date reads the
\* same rows.
LEMMA SnapshotReplays ==
    ASSUME StoreInv, ReplayInv, NEW r \in Request, Snapshot(r)
    PROVE  ReplayInv'
<1>1. \A s \in Request \ {r} : /\ pc'[s] = pc[s] /\ call'[s] = call[s] /\ begun'[s] = begun[s]
                               /\ write'[s] = write[s] /\ listed'[s] = listed[s]
                               /\ answer'[s] = answer[s]
    BY OthersUnmoved DEF Moves, Step
<1> DEFINE as_of == call[r].as_of
           rows == {a \in activities : a.owner = Caller(r) /\ a.occurred_at <= as_of}
           past == as_of < now
           settled == Settled(Caller(r), as_of)
<1>2. /\ pc[r] = "statement" /\ call[r] \in Call /\ call[r].endpoint = "snapshot"
      /\ UNCHANGED <<now, accounts, activities, call, begun, write>>
    BY DEF Snapshot, At, StoreInv, InFlight, tables
<1>3. pc' = [pc EXCEPT ![r] = "commit"] /\ pc'[r] = "commit"
    BY DEF Snapshot, Goto, StoreInv, TypeOK
<1>4. AsOf(Own(r), as_of) = rows
    BY DEF AsOf, Own
<1>5. listed'[r] = rows
    BY <1>4 DEF Snapshot, StoreInv, TypeOK
<1>6. \A s \in Request : pc'[s] = "commit" /\ call'[s].endpoint = "post_activity" =>
          write'[s].occurred_at = begun'[s]
    BY <1>1, <1>2 DEF ReplayInv
<1>7. CASE decision # None
    <2>1. decision' = decision
        BY <1>7 DEF Snapshot
    <2>2. \A s \in Request : Seen(s)' => decision' # None
        BY <1>7, <2>1
    <2>3. ASSUME decision.settled
          PROVE  /\ decision'.as_of < now'
                 /\ \A s \in Request :
                        pc'[s] \in {"statement", "commit"} /\ call'[s].endpoint = "post_activity"
                            /\ call'[s].caller = decision'.caller => begun'[s] > decision'.as_of
        BY <1>1, <1>2, <1>7, <2>1, <2>3 DEF ReplayInv, Caller
    <2>4. ASSUME decision.settled, decision.caller \in accounts
          PROVE  /\ {a \in activities' : a.owner = decision'.caller
                                         /\ a.occurred_at <= decision'.as_of} = decision'.rows
                 /\ \A s \in Request :
                        Seen(s)' /\ call'[s].caller = decision'.caller
                            /\ call'[s].as_of = decision'.as_of => listed'[s] = decision'.rows
        <3>1. {a \in activities : a.owner = decision.caller /\ a.occurred_at <= decision.as_of}
                  = decision.rows
            BY <1>7, <2>4 DEF ReplayInv
        <3>2. call[r].caller = decision.caller /\ as_of = decision.as_of => rows = decision.rows
            BY <3>1 DEF Caller
        <3>3. ASSUME NEW s \in Request \ {r}, Seen(s)', call'[s].caller = decision'.caller,
                     call'[s].as_of = decision'.as_of
              PROVE  listed'[s] = decision'.rows
            BY <1>1, <1>7, <2>1, <2>4, <3>3 DEF Seen, ReplayInv, Caller
        <3>4. QED
            BY <1>2, <1>5, <2>1, <3>1, <3>2, <3>3
    <2>5. QED
        BY <1>2, <1>6, <2>1, <2>2, <2>3, <2>4 DEF ReplayInv, Caller
<1>8. CASE decision = None
    <2>1. decision' = [caller |-> Caller(r), as_of |-> as_of, rows |-> rows, past |-> past,
                       settled |-> settled]
        BY <1>4, <1>8, Zenon DEF Snapshot
    <2>2. \A s \in Request \ {r} : ~ Seen(s)'
        <3>1. \A s \in Request : ~ Seen(s)
            BY <1>8 DEF ReplayInv
        <3>2. QED
            BY <1>1, <3>1 DEF Seen
    <2>3. settled \in BOOLEAN
        BY DEF Settled
    <2>4. decision'.as_of = as_of /\ decision'.caller = Caller(r) /\ decision'.rows = rows
        BY <2>1
    <2>5. decision'.settled = settled
        BY <2>1, Zenon
    <2>6. decision' # None
        <3>1. StoreInv'
            BY ReadStep
        <3>2. rows \in SUBSET Activity /\ Caller(r) \in User /\ as_of \in Time
            BY <1>2, CallParts DEF StoreInv, TypeOK, Caller
        <3>3. past \in BOOLEAN
            OBVIOUS
        <3> HIDE DEF as_of, rows, past, settled
        <3>4. decision' \in Decision
            BY <2>1, <2>3, <3>2, <3>3 DEF Decision
        <3>5. QED
            BY <3>4, NoneAssumption
    <2>7. settled => /\ as_of < now
                     /\ \A s \in Request :
                            pc[s] \in {"statement", "commit"} /\ Caller(s) = Caller(r)
                              /\ call[s].endpoint = "post_activity" => begun[s] > as_of
        BY DEF Settled
    <2>8. ASSUME decision'.settled
          PROVE  /\ decision'.as_of < now'
                 /\ \A s \in Request :
                        pc'[s] \in {"statement", "commit"} /\ call'[s].endpoint = "post_activity"
                            /\ call'[s].caller = decision'.caller => begun'[s] > decision'.as_of
        <3>1. settled
            BY <2>5, <2>8
        <3>2. QED
            BY <1>1, <1>2, <2>4, <2>7, <3>1 DEF Caller
    <2>9. /\ {a \in activities' : a.owner = decision'.caller
                                  /\ a.occurred_at <= decision'.as_of} = decision'.rows
          /\ \A s \in Request : Seen(s)' => listed'[s] = decision'.rows
        BY <1>2, <1>5, <2>2, <2>4
    <2>10. QED
        BY <1>6, <2>6, <2>8, <2>9 DEF ReplayInv, Caller
<1>9. QED
    BY <1>7, <1>8

\* Every other step of a request takes no decision, and what it commits is dated
\* after the decision.
LEMMA RequestReplays ==
    ASSUME StoreInv, ReplayInv, NEW r \in Request, Moves(r), ~ Snapshot(r)
    PROVE  ReplayInv'
<1>1. /\ pc \in [Request -> {"idle", "begin", "statement", "commit"}]
      /\ answer \in [Request -> Answer]
      /\ call \in [Request -> Call \cup {None}] /\ begun \in [Request -> Time] /\ now \in Time
      /\ write \in [Request -> Goal \cup Activity \cup {None}]
    BY DEF StoreInv, TypeOK
<1>2. UNCHANGED <<decision, now, accounts>>
    <2>1. Commit(r) \/ FailAfterCommit(r) => UNCHANGED <<decision, now, accounts>>
        BY DEF Commit, FailAfterCommit, Apply, history
    <2>2. QED
        BY <2>1 DEF Moves, Step, Start, Begin, UpsertGoal, RecordActivity, RefusedByReference,
                    FetchGoal, ListActivities, Fail, history, tables
<1>3. CASE \E c \in Call : Start(r, c)
    <2>1. activities' = activities /\ pc'[r] \in {"idle", "begin"}
        BY <1>1, <1>3 DEF Start, Goto, Respond, tables
    <2>2. pc'[r] = "idle" => answer'[r].status = "unprocessable"
        BY <1>1, <1>3 DEF Start, Goto, Respond
    <2>3. ~ Seen(r)'
        BY <2>1, <2>2 DEF Seen
    <2>4. QED
        BY <1>2, <2>1, <2>3, QuietStep
<1>4. CASE Begin(r)
    <2>1. activities' = activities /\ pc'[r] = "statement" /\ begun'[r] = now
        BY <1>1, <1>4 DEF Begin, Goto, tables
    <2>2. ~ Seen(r)'
        BY <2>1 DEF Seen
    <2>3. decision # None /\ decision.settled => decision.as_of \in Time /\ now > decision.as_of
        BY NumberAssumption DEF ReplayInv, StoreInv, TypeOK, Decision, Time
    <2>4. QED
        BY <1>2, <2>1, <2>2, <2>3, QuietStep
<1>5. CASE UpsertGoal(r) \/ FetchGoal(r) \/ ListActivities(r)
    <2>1. /\ UNCHANGED <<activities, call>> /\ pc'[r] = "commit"
          /\ call[r].endpoint \in {"put_goal", "get_goal", "list_activities"}
        BY <1>1, <1>5 DEF UpsertGoal, FetchGoal, ListActivities, Goto, At, tables
    <2>2. ~ Seen(r)'
        BY <2>1 DEF Seen
    <2>3. QED
        BY <1>2, <2>1, <2>2, QuietStep
<1>6. CASE RecordActivity(r)
    <2>1. /\ UNCHANGED <<activities, call, begun>> /\ pc'[r] = "commit" /\ pc[r] = "statement"
          /\ call[r].endpoint = "post_activity"
        BY <1>1, <1>6 DEF RecordActivity, Goto, At, tables
    <2>2. write'[r].occurred_at = begun[r]
        BY <1>1, <1>6 DEF RecordActivity
    <2>3. ~ Seen(r)'
        BY <2>1 DEF Seen
    <2>4. QED
        BY <1>2, <2>1, <2>2, <2>3, QuietStep DEF ReplayInv, Caller
<1>7. CASE Commit(r) \/ RefusedByReference(r) \/ Fail(r) \/ FailAfterCommit(r)
    <2>1. pc'[r] = "idle" /\ UNCHANGED <<call, listed>>
        BY <1>1, <1>7 DEF Commit, RefusedByReference, Fail, FailAfterCommit, Finish, Goto
    <2>2. Seen(r)' => Seen(r)
        <3>1. CASE Commit(r)
            BY <2>1, <3>1 DEF Commit, Seen
        <3>2. CASE RefusedByReference(r) \/ Fail(r) \/ FailAfterCommit(r)
            <4>1. answer'[r].status = "error"
                BY <1>1, <3>2 DEF RefusedByReference, Fail, FailAfterCommit, Finish, Respond
            <4>2. QED
                BY <4>1, <2>1 DEF Seen
        <3>3. QED
            BY <1>7, <3>1, <3>2
    <2>3. \/ activities' = activities
          \/ /\ pc[r] = "commit" /\ call[r].endpoint = "post_activity"
             /\ activities' = activities \cup {write[r]}
        <3>1. CASE Commit(r) \/ FailAfterCommit(r)
            BY <3>1, ApplyTypes DEF Commit, FailAfterCommit
        <3>2. CASE RefusedByReference(r) \/ Fail(r)
            BY <3>2 DEF RefusedByReference, Fail, tables
        <3>3. QED
            BY <1>7, <3>1, <3>2
    <2>4. ASSUME decision # None, decision.settled, pc[r] = "commit",
                 call[r].endpoint = "post_activity"
          PROVE  ~ (write[r].owner = decision.caller /\ write[r].occurred_at <= decision.as_of)
        <3>1. write[r].owner = Caller(r) /\ write[r].occurred_at = begun[r]
            BY <2>4 DEF StoreInv, InFlight, ReplayInv
        <3>2. Caller(r) = decision.caller => begun[r] > decision.as_of
            BY <2>4 DEF ReplayInv
        <3>3. begun[r] \in Int /\ decision.as_of \in Int
            BY <1>1, <2>4, NumberAssumption DEF StoreInv, TypeOK, Decision, Time
        <3>4. QED
            BY <3>1, <3>2, <3>3
    <2>5. decision # None /\ decision.settled =>
              \A a : a.owner = decision.caller /\ a.occurred_at <= decision.as_of =>
                         (a \in activities' <=> a \in activities)
        BY <2>3, <2>4
    <2>6. QED
        BY <1>2, <2>1, <2>2, <2>5, QuietStep
<1>8. QED
    BY <1>3, <1>4, <1>5, <1>6, <1>7 DEF Moves, Step

\* Time passes, and a deleted account takes its rows with it for good.
LEMMA EnvironmentReplays ==
    ASSUME StoreInv, ReplayInv, Tick \/ (\E u \in User : DeleteAccount(u)) \/ UNCHANGED vars
    PROVE  ReplayInv'
<1>1. UNCHANGED <<request, decision>>
    BY DEF Tick, DeleteAccount, vars, history
<1>2. \A s \in Request : Seen(s)' = Seen(s)
    BY <1>1 DEF Seen, request
<1>3. CASE Tick
    <2>1. now' > now /\ now \in Int /\ now' \in Int /\ UNCHANGED tables
        BY <1>3, NumberAssumption DEF Tick, StoreInv, TypeOK, Time
    <2>2. decision # None => decision.as_of \in Int
        BY NumberAssumption DEF StoreInv, TypeOK, Decision, Time
    <2>3. decision # None /\ decision.settled => decision.as_of < now'
        BY <2>1, <2>2 DEF ReplayInv
    <2>4. QED
        BY <1>1, <1>2, <2>1, <2>3 DEF ReplayInv, request, tables, Caller
<1>4. CASE \E u \in User : DeleteAccount(u)
    <2>1. PICK u \in User : DeleteAccount(u)
        BY <1>4
    <2>2. /\ accounts' = accounts \ {u} /\ activities' = {a \in activities : a.owner # u}
          /\ now' = now
        BY <2>1 DEF DeleteAccount
    <2>3. decision.caller \in accounts' =>
              /\ decision.caller \in accounts
              /\ {a \in activities' : a.owner = decision.caller /\ a.occurred_at <= decision.as_of}
                 = {a \in activities : a.owner = decision.caller /\ a.occurred_at <= decision.as_of}
        BY <2>2
    <2>4. QED
        BY <1>1, <1>2, <2>2, <2>3 DEF ReplayInv, request, Caller
<1>5. CASE UNCHANGED vars
    BY <1>1, <1>2, <1>5 DEF ReplayInv, vars, request, tables, Caller
<1>6. QED
    BY <1>3, <1>4, <1>5

\* A decision that was settled when it was taken is reproduced by every later
\* replay, whatever is recorded, deleted or fails meanwhile.
THEOREM SettledDecisionsReplay == Spec => []SettledReplayReproduces
<1>1. Init => ReplayInv
    BY DEF Init, ReplayInv, Seen
<1>2. StoreInv /\ ReplayInv /\ [Next]_vars => ReplayInv'
    BY SnapshotReplays, RequestReplays, EnvironmentReplays DEF Next, Moves
<1>3. StoreInv /\ ReplayInv => SettledReplayReproduces
    <2> SUFFICES ASSUME StoreInv, ReplayInv, NEW r \in Request, Replays(r), decision.settled
                 PROVE  listed[r] = decision.rows
        BY DEF SettledReplayReproduces
    <2>1. Seen(r)
        BY DEF Replays, Answered, Seen
    <2>2. QED
        BY <2>1 DEF ReplayInv, Replays, Caller
<1>4. QED
    BY <1>1, <1>2, <1>3, StoreInit, StoreStep, PTL DEF Spec

-----------------------------------------------------------------------------
(* The list *)

\* ORDER BY occurred_at DESC, id DESC is an order.
LEMMA NewerOrders ==
    ASSUME NEW a \in Activity
    PROVE  /\ ~ Newer(a, a)
           /\ \A b \in Activity, c \in Activity : Newer(c, b) /\ Newer(b, a) => Newer(c, a)
<1>1. \A b \in Activity : b.id \in Int /\ b.occurred_at \in Int
    <2>1. \A b \in Activity : b.id \in Id /\ b.occurred_at \in Time
        BY DEF Activity
    <2>2. Id \subseteq Int /\ Time \subseteq Int
        BY NumberAssumption DEF Time
    <2>3. QED
        BY <2>1, <2>2
<1>2. ASSUME NEW b \in Activity, NEW c \in Activity, Newer(c, b), Newer(b, a)
      PROVE  Newer(c, a)
    <2>1. /\ a.id \in Int /\ b.id \in Int /\ c.id \in Int
          /\ a.occurred_at \in Int /\ b.occurred_at \in Int /\ c.occurred_at \in Int
        BY <1>1
    <2>2. QED
        BY <1>2, <2>1 DEF Newer
<1>3. ~ Newer(a, a)
    <2>1. a.id \in Int /\ a.occurred_at \in Int
        BY <1>1
    <2>2. QED
        BY <2>1 DEF Newer
<1>4. QED
    BY <1>2, <1>3

\* What LIMIT cuts off is older than Limit of the rows that are left: it is older
\* than Limit rows, and if one of these is cut off too, the newest such is older
\* than Limit that are not.
LEMMA NewestIsComplete ==
    ASSUME NEW rows, rows \subseteq Activity, IsFiniteSet(rows), NEW a \in rows \ Newest(rows)
    PROVE  Cardinality({b \in Newest(rows) : Newer(b, a)}) >= Limit
<1> DEFINE Above(x) == {b \in rows : Newer(b, x)}
           Kept == {b \in Newest(rows) : Newer(b, a)}
           Cut == Above(a) \ Newest(rows)
<1>1. \A x : IsFiniteSet(Above(x)) /\ Cardinality(Above(x)) \in Nat
    BY FS_Subset, FS_CardinalityType
<1>2. Newest(rows) = {x \in rows : Cardinality(Above(x)) < Limit}
    BY DEF Newest
<1>3. IsFiniteSet(Kept)
    BY <1>2, FS_Subset
<1>4. \A S \in SUBSET Kept : IsFiniteSet(S) /\ Cardinality(S) <= Cardinality(Kept)
    BY <1>3, FS_Subset
<1>5. Cardinality(Kept) \in Nat
    BY <1>3, FS_CardinalityType
<1>6. Limit \in Nat
    BY NumberAssumption
<1>7. SUFFICES \E x \in rows \ Newest(rows) : Above(x) \subseteq Kept
    <2>1. PICK x \in rows \ Newest(rows) : Above(x) \subseteq Kept
        BY <1>7
    <2>2. Cardinality(Above(x)) <= Cardinality(Kept)
        BY <2>1, <1>4
    <2>3. ~ (Cardinality(Above(x)) < Limit)
        BY <1>2
    <2>4. QED
        BY <1>1, <1>5, <1>6, <2>2, <2>3
<1>8. CASE Cut = {}
    BY <1>2, <1>8
<1>9. CASE Cut # {}
    <2> DEFINE Sets == {Above(x) : x \in Cut}
    <2>1. Sets \subseteq SUBSET rows /\ Sets # {}
        BY <1>9
    <2>2. PICK b \in Cut : \A x \in Cut : Above(x) \subseteq Above(b) => Above(x) = Above(b)
        <3>1. \E X \in Sets : \A Y \in Sets : Y \subseteq X => Y = X
            <4> HIDE DEF Sets
            <4> QED
                BY <2>1, SmallestSubset
        <3>2. PICK b \in Cut : \A Y \in Sets : Y \subseteq Above(b) => Y = Above(b)
            <4> HIDE DEF Above, Cut
            <4> QED
                BY <3>1
        <3>3. \A x \in Cut : Above(x) \in Sets
            OBVIOUS
        <3>4. QED
            <4> HIDE DEF Above, Cut, Sets
            <4> QED
                BY <3>2, <3>3
    <2>3. ASSUME NEW c \in Above(b) PROVE c \in Kept
        <3>1. /\ a \in Activity /\ b \in Activity /\ c \in Activity
              /\ c \in rows /\ Newer(c, b) /\ Newer(b, a)
            BY <2>2
        <3>2. Newer(c, a)
            BY <3>1, NewerOrders
        <3>3. ASSUME c \notin Newest(rows) PROVE FALSE
            <4>1. c \in Cut
                BY <3>1, <3>2, <3>3
            <4>2. Above(c) \subseteq Above(b)
                <5>1. \A x \in Activity : Newer(x, c) => Newer(x, b)
                    BY <3>1, NewerOrders
                <5>2. QED
                    BY <5>1
            <4>3. c \notin Above(c)
                <5>1. ~ Newer(c, c)
                    BY <3>1, NewerOrders
                <5>2. QED
                    BY <5>1
            <4>4. QED
                BY <2>2, <2>3, <4>1, <4>2, <4>3
        <3>4. QED
            <4> HIDE DEF Above, Cut, Sets
            <4> QED
                BY <3>2, <3>3
    <2>4. QED
        BY <2>2, <2>3
<1>10. QED
    BY <1>8, <1>9

-----------------------------------------------------------------------------
(* Reading one's writes *)

\* What a caller knew when it asked stays acknowledged; as long as it has an
\* account, what it is about to be told, and what it has been told, agrees.
Complete(r) ==
    \A a \in known[r].posts \ listed[r] : Cardinality({b \in listed[r] : Newer(b, a)}) >= Limit
Told(r) ==
    call[r] # None =>
        /\ known[r].posts \subseteq {a \in acked.posts : a.owner = Caller(r)}
        /\ known[r].puts \subseteq acked.puts \cap {Caller(r)}
        /\ Caller(r) \in accounts =>
               /\ call[r].endpoint = "get_goal" =>
                      \/ pc[r] \in {"begin", "statement"}
                      \/ pc[r] = "commit" /\ found[r] # None
                      \/ pc[r] = "idle" /\ answer[r].status # "not_found"
                      \/ known[r].puts = {}
               /\ call[r].endpoint = "list_activities" =>
                      \/ pc[r] \in {"begin", "statement"}
                      \/ pc[r] = "idle" /\ answer[r].status # "ok"
                      \/ Complete(r)
ToldInv == IsFiniteSet(activities) /\ \A r \in Request : Told(r)

\* A request that does not move has been told the same.
LEMMA ToldStays ==
    ASSUME NEW s, Told(s), UNCHANGED <<accounts, acked>> \/ accounts' \subseteq accounts,
           pc'[s] = pc[s], call'[s] = call[s], found'[s] = found[s], listed'[s] = listed[s],
           answer'[s] = answer[s], known'[s] = known[s],
           acked.posts \subseteq acked'.posts, acked.puts \subseteq acked'.puts
    PROVE  Told(s)'
    BY DEF Told, Complete, Caller

\* A step of a request leaves what the others know and what they were told, and
\* acknowledges more or nothing.
LEMMA ToldOthers ==
    ASSUME StoreInv, NEW r \in Request, Moves(r)
    PROVE  /\ accounts' = accounts
           /\ acked.posts \subseteq acked'.posts /\ acked.puts \subseteq acked'.puts
           /\ \A s \in Request \ {r} :
                  /\ pc'[s] = pc[s] /\ call'[s] = call[s] /\ found'[s] = found[s]
                  /\ listed'[s] = listed[s] /\ answer'[s] = answer[s] /\ known'[s] = known[s]
<1>1. accounts' = accounts
    BY DEF Moves, Start, Step, Begin, UpsertGoal, RecordActivity, RefusedByReference, FetchGoal,
           ListActivities, Snapshot, Commit, Fail, FailAfterCommit, Apply, tables
<1>2. acked.posts \subseteq acked'.posts /\ acked.puts \subseteq acked'.puts
    <2>1. CASE Commit(r)
        BY <2>1 DEF Commit
    <2>2. CASE acked' = acked
        BY <2>2
    <2>3. QED
        BY <2>1, <2>2 DEF Moves, Start, Step, Begin, UpsertGoal, RecordActivity,
               RefusedByReference, FetchGoal, ListActivities, Snapshot, Fail, FailAfterCommit,
               history
<1>3. \A s \in Request \ {r} : found'[s] = found[s] /\ known'[s] = known[s]
    BY DEF Moves, StoreInv, TypeOK, Start, Step, Begin, UpsertGoal, RecordActivity,
           RefusedByReference, FetchGoal, ListActivities, Snapshot, Commit, Fail, FailAfterCommit,
           Finish, history
<1>4. QED
    BY <1>1, <1>2, <1>3, OthersUnmoved

\* The one who asks knows what had been acknowledged to it; what it reads has all
\* of it; how it is answered follows from what it read.
LEMMA ToldStep ==
    ASSUME StoreInv, AcknowledgedIsDurable, ToldInv, NEW r \in Request, Moves(r)
    PROVE  Told(r)'
<1>1. TypeOK /\ Told(r) /\ InFlight(r)
    BY DEF StoreInv, ToldInv
<1>2. pc[r] # "idle" => call[r] \in Call
    BY <1>1 DEF InFlight
<1>3. pc[r] # "idle" => call[r] # None
    BY <1>2, NoneAssumption
<1>4. ASSUME NEW c \in Call, Start(r, c)
      PROVE  Told(r)'
    <2>1. call'[r] = c /\ acked' = acked
          /\ known'[r] = [posts |-> {a \in acked.posts : a.owner = c.caller},
                          puts |-> acked.puts \cap {c.caller}]
        BY <1>1, <1>4 DEF Start, TypeOK
    <2>2. pc'[r] = "begin" \/ (pc'[r] = "idle" /\ answer'[r].status = "unprocessable")
        BY <1>1, <1>4 DEF Start, TypeOK, Goto, Respond
    <2>3. QED
        BY <2>1, <2>2 DEF Told, Caller
<1>5. CASE Begin(r)
    <2>1. pc'[r] = "statement" /\ UNCHANGED <<call, known, acked, accounts>>
        BY <1>1, <1>5 DEF Begin, Goto, TypeOK, history, tables
    <2>2. QED
        BY <1>1, <2>1 DEF Told, Caller
<1>6. CASE UpsertGoal(r) \/ RecordActivity(r) \/ Snapshot(r)
    <2>1. /\ call[r].endpoint \notin {"get_goal", "list_activities"}
          /\ UNCHANGED <<call, known, acked, accounts>>
        BY <1>6 DEF UpsertGoal, RecordActivity, Snapshot, At, history, tables
    <2>2. QED
        BY <1>1, <2>1 DEF Told, Caller
<1>7. CASE RefusedByReference(r) \/ Fail(r) \/ FailAfterCommit(r)
    <2>1. /\ pc'[r] = "idle" /\ answer'[r].status = "error"
          /\ UNCHANGED <<call, known, acked, accounts>>
        BY <1>1, <1>7 DEF RefusedByReference, Fail, FailAfterCommit, Finish, Goto, Respond, TypeOK,
               Apply, history, tables
    <2>2. QED
        BY <1>1, <2>1 DEF Told, Caller
<1>8. CASE FetchGoal(r)
    <2>1. /\ pc[r] = "statement" /\ call[r].endpoint = "get_goal" /\ pc'[r] = "commit"
          /\ found'[r] = goals[Caller(r)] /\ UNCHANGED <<call, known, acked, accounts>>
        BY <1>1, <1>8 DEF FetchGoal, At, Goto, TypeOK, history, tables
    <2>2. Caller(r) \in accounts /\ goals[Caller(r)] = None => known[r].puts = {}
        <3>1. Caller(r) \in acked.puts \cap accounts => goals[Caller(r)] # None
            BY DEF AcknowledgedIsDurable
        <3>2. call[r] # None
            BY <1>3, <2>1
        <3>3. QED
            BY <1>1, <3>1, <3>2 DEF Told
    <2>3. QED
        BY <1>1, <2>1, <2>2 DEF Told, Caller
<1>9. CASE ListActivities(r)
    <2>1. /\ pc[r] = "statement" /\ call[r].endpoint = "list_activities"
          /\ listed'[r] = Newest(Own(r)) /\ UNCHANGED <<call, known, acked, accounts>>
        BY <1>1, <1>9 DEF ListActivities, At, TypeOK, history, tables
    <2>2. Own(r) \subseteq Activity /\ IsFiniteSet(Own(r))
        <3>1. Own(r) \in SUBSET activities
            BY DEF Own
        <3>2. QED
            BY <1>1, <3>1, FS_Subset DEF TypeOK, ToldInv
    <2>3. call[r] # None /\ Caller(r) \in accounts => known[r].posts \subseteq Own(r)
        BY <1>1 DEF Told, AcknowledgedIsDurable, Own
    <2>4. call[r] # None /\ Caller(r) \in accounts =>
              \A a \in known[r].posts \ Newest(Own(r)) :
                  Cardinality({b \in Newest(Own(r)) : Newer(b, a)}) >= Limit
        BY <2>2, <2>3, NewestIsComplete
    <2>5. QED
        BY <1>1, <2>1, <2>4 DEF Told, Complete, Caller
<1>10. CASE Commit(r)
    <2>1. /\ pc[r] = "commit" /\ pc'[r] = "idle"
          /\ UNCHANGED <<call, known, accounts, listed>>
          /\ acked.posts \subseteq acked'.posts /\ acked.puts \subseteq acked'.puts
        BY <1>1, <1>10, ToldOthers DEF Commit, Finish, Goto, TypeOK, Moves, Step
    <2>2. call[r].endpoint = "get_goal" /\ found[r] # None => answer'[r].status = "ok"
        BY <1>1, <1>10 DEF Commit, Finish, Respond, TypeOK
    <2>3. QED
        BY <1>1, <2>1, <2>2 DEF Told, Complete, Caller
<1>11. QED
    BY <1>4, <1>5, <1>6, <1>7, <1>8, <1>9, <1>10 DEF Moves, Step

\* The rows of a table are finitely many: each commit adds one at most.
LEMMA RowsStayFinite ==
    ASSUME StoreInv, IsFiniteSet(activities), [Next]_vars
    PROVE  IsFiniteSet(activities')
<1>1. CASE activities' = activities
    BY <1>1
<1>2. CASE \E u \in User : DeleteAccount(u)
    BY <1>2, FS_Subset DEF DeleteAccount
<1>3. CASE \E r \in Request : pc[r] = "commit" /\ Apply(r)
    <2>1. PICK r \in Request : pc[r] = "commit" /\ Apply(r)
        BY <1>3
    <2>2. activities' = activities \cup {write[r]} \/ activities' = activities
        BY <2>1, ApplyTypes
    <2>3. QED
        BY <2>2, FS_AddElement
<1>4. QED
    BY <1>1, <1>2, <1>3, TableSteps DEF tables

\* A caller finds the goal it was told is stored, and misses from its list only
\* what Limit newer activities have pushed out.
THEOREM CallersReadTheirWrites == Spec => []ReadYourWrites
<1>1. Init => ToldInv
    BY FS_EmptySet DEF Init, ToldInv, Told
<1>2. StoreInv /\ AcknowledgedIsDurable /\ ToldInv /\ [Next]_vars => ToldInv'
    <2> SUFFICES ASSUME StoreInv, AcknowledgedIsDurable, ToldInv, [Next]_vars PROVE ToldInv'
        OBVIOUS
    <2>1. IsFiniteSet(activities')
        BY RowsStayFinite DEF ToldInv
    <2>2. CASE Tick \/ (\E u \in User : DeleteAccount(u)) \/ UNCHANGED vars
        <3>1. /\ UNCHANGED <<pc, call, found, listed, answer, known, acked>>
              /\ accounts' \subseteq accounts
            BY <2>2 DEF Tick, DeleteAccount, vars, request, history, tables
        <3>2. \A s \in Request : Told(s)'
            BY <3>1, ToldStays DEF ToldInv
        <3>3. QED
            BY <2>1, <3>2 DEF ToldInv
    <2>3. ASSUME NEW r \in Request, Moves(r) PROVE ToldInv'
        <3>1. \A s \in Request \ {r} : Told(s)'
            BY <2>3, ToldOthers, ToldStays DEF ToldInv
        <3>2. QED
            BY <2>1, <2>3, <3>1, ToldStep DEF ToldInv
    <2>4. QED
        BY <2>2, <2>3 DEF Next, Moves
<1>3. ToldInv => ReadYourWrites
    BY DEF ToldInv, Told, Complete, ReadYourWrites, Answered
<1>4. Init => AcknowledgedIsDurable
    BY DEF Init, AcknowledgedIsDurable, Nothing
<1>5. QED
    BY <1>1, <1>2, <1>3, <1>4, DurableStep, StoreInit, StoreStep, PTL DEF Spec

-----------------------------------------------------------------------------
(* What is held *)

\* A row that is written and not committed is what an atomic call would write now.
Held(r) ==
    /\ pc[r] = "commit" /\ call[r].endpoint = "put_goal" =>
           write[r] = [deadline |-> call[r].deadline,
                       created_at |-> IF goals[Caller(r)] = None THEN begun[r]
                                      ELSE goals[Caller(r)].created_at,
                       updated_at |-> begun[r]]
    /\ pc[r] = "commit" /\ call[r].endpoint = "post_activity" =>
           /\ write[r] = [id |-> write[r].id, owner |-> Caller(r), occurred_at |-> begun[r]]
           /\ write[r].id \in Id /\ \A a \in activities : a.id # write[r].id
    /\ found[r] # None => pc[r] = "commit" /\ call[r].endpoint \in {"put_goal", "get_goal"}

\* No two requests hold the same row.
Apart(r, s) ==
    pc[r] = "commit" /\ pc[s] = "commit" /\ call[r].endpoint = call[s].endpoint =>
        /\ call[r].endpoint = "put_goal" => Caller(r) # Caller(s)
        /\ call[r].endpoint = "post_activity" => write[r].id # write[s].id

WriteInv ==
    /\ \A r \in Request : Held(r)
    /\ \A r \in Request, s \in Request : r # s => Apart(r, s)

\* It stays so if the one that moves holds its row apart from the others', and
\* what others hold is not touched.
LEMMA HeldApart ==
    ASSUME StoreInv, WriteInv, NEW r \in Request, Moves(r), Held(r)',
           \A s \in Request \ {r} : Apart(r, s)' /\ Apart(s, r)',
           \A s \in Request \ {r} : pc[s] = "commit" =>
               /\ call[s].endpoint = "put_goal" => goals'[Caller(s)] = goals[Caller(s)]
               /\ call[s].endpoint = "post_activity" => \A a \in activities' : a.id # write[s].id
    PROVE  WriteInv'
<1>1. \A s \in Request \ {r} :
          /\ pc'[s] = pc[s] /\ call'[s] = call[s] /\ begun'[s] = begun[s]
          /\ write'[s] = write[s] /\ found'[s] = found[s]
    BY OthersUnmoved, ToldOthers
<1>2. ASSUME NEW s \in Request \ {r}
      PROVE  Held(s)'
    <2>1. Held(s)
        BY DEF WriteInv
    <2>2. pc[s] = "commit" /\ call[s].endpoint = "put_goal" => goals'[Caller(s)] = goals[Caller(s)]
        OBVIOUS
    <2>3. pc[s] = "commit" /\ call[s].endpoint = "post_activity" =>
              \A a \in activities' : a.id # write[s].id
        OBVIOUS
    <2>4. QED
        BY <1>1, <2>1, <2>2, <2>3 DEF Held, Caller
<1>3. ASSUME NEW s \in Request \ {r}, NEW t \in Request \ {r}, s # t
      PROVE  Apart(s, t)'
    <2>1. Apart(s, t)
        BY <1>3 DEF WriteInv
    <2>2. QED
        BY <1>1, <2>1 DEF Apart, Caller
<1>4. QED
    BY <1>2, <1>3 DEF WriteInv

\* A goal is written under its lock.
LEMMA UpsertHolds ==
    ASSUME StoreInv, WriteInv, NEW r \in Request, UpsertGoal(r)
    PROVE  WriteInv'
<1> DEFINE row == [deadline |-> call[r].deadline,
                   created_at |-> IF goals[Caller(r)] = None THEN begun[r]
                                  ELSE goals[Caller(r)].created_at,
                   updated_at |-> begun[r]]
<1>1. /\ call[r].endpoint = "put_goal" /\ UNCHANGED <<goals, activities, call, begun>>
      /\ pc'[r] = "commit" /\ write'[r] = row /\ found'[r] = row
    BY DEF UpsertGoal, At, Goto, StoreInv, TypeOK, tables
<1>2. Held(r)'
    BY <1>1 DEF Held, Caller
<1>3. ASSUME NEW s \in Request \ {r}, pc[s] = "commit", call[s].endpoint = "put_goal"
      PROVE  Caller(s) # Caller(r)
    <2>1. write[s] # None
        BY <1>3, RowIsNotNull DEF StoreInv, InFlight
    <2>2. QED
        BY <1>3, <2>1 DEF UpsertGoal, Writing
<1>4. \A s \in Request \ {r} : Apart(r, s)' /\ Apart(s, r)'
    <2>1. \A s \in Request \ {r} : pc'[s] = pc[s]
        BY OthersUnmoved DEF Moves, Step
    <2>2. QED
        BY <1>1, <1>3, <2>1 DEF Apart, Caller
<1>5. \A s \in Request \ {r} : pc[s] = "commit" /\ call[s].endpoint = "post_activity" =>
          \A a \in activities' : a.id # write[s].id
    BY <1>1 DEF WriteInv, Held
<1>6. QED
    BY <1>1, <1>2, <1>4, <1>5, HeldApart DEF Moves, Step

\* An activity is given an id that nobody has.
LEMMA RecordHolds ==
    ASSUME StoreInv, WriteInv, NEW r \in Request, RecordActivity(r)
    PROVE  WriteInv'
<1>1. /\ call[r].endpoint = "post_activity"
      /\ UNCHANGED <<goals, activities, call, begun, found>>
      /\ pc[r] = "statement" /\ pc'[r] = "commit"
    BY DEF RecordActivity, At, Goto, StoreInv, TypeOK, tables
<1>2. PICK id \in Id \ {a.id : a \in activities} :
          /\ \A s \in Request :
                 write[s] # None /\ call[s].endpoint = "post_activity" => write[s].id # id
          /\ write'[r] = [id |-> id, owner |-> Caller(r), occurred_at |-> begun[r]]
    BY DEF RecordActivity, StoreInv, TypeOK
<1>3. Held(r)'
    <2>1. found'[r] = None
        BY <1>1 DEF WriteInv, Held
    <2>2. write'[r] = [id |-> write'[r].id, owner |-> Caller(r)', occurred_at |-> begun'[r]]
        BY <1>1, <1>2 DEF Caller
    <2>3. write'[r].id \in Id /\ \A a \in activities' : a.id # write'[r].id
        BY <1>1, <1>2
    <2>4. QED
        BY <1>1, <2>1, <2>2, <2>3 DEF Held
<1>4. ASSUME NEW s \in Request \ {r}, pc[s] = "commit", call[s].endpoint = "post_activity"
      PROVE  write[s].id # write'[r].id
    <2>1. write[s] # None
        BY <1>4, RowIsNotNull DEF StoreInv, InFlight
    <2>2. QED
        BY <1>2, <1>4, <2>1
<1>5. \A s \in Request \ {r} : Apart(r, s)' /\ Apart(s, r)'
    <2>1. \A s \in Request \ {r} : pc'[s] = pc[s] /\ write'[s] = write[s]
        BY OthersUnmoved DEF Moves, Step
    <2>2. QED
        BY <1>1, <1>4, <2>1 DEF Apart, Caller
<1>6. \A s \in Request \ {r} : pc[s] = "commit" /\ call[s].endpoint = "post_activity" =>
          \A a \in activities' : a.id # write[s].id
    BY <1>1 DEF WriteInv, Held
<1>7. QED
    BY <1>1, <1>3, <1>5, <1>6, HeldApart DEF Moves, Step

\* What is committed is apart from what others hold.
LEMMA ApplyHolds ==
    ASSUME StoreInv, WriteInv, NEW r \in Request, Commit(r) \/ FailAfterCommit(r)
    PROVE  WriteInv'
<1>1. /\ pc[r] = "commit" /\ Apply(r) /\ pc'[r] = "idle" /\ found'[r] = None
      /\ call' = call
    BY DEF Commit, FailAfterCommit, Finish, Goto, StoreInv, TypeOK
<1>2. Held(r)' /\ \A s \in Request \ {r} : Apart(r, s)' /\ Apart(s, r)'
    BY <1>1 DEF Held, Apart
<1>3. ASSUME NEW s \in Request \ {r}, pc[s] = "commit"
      PROVE  /\ call[s].endpoint = "put_goal" => goals'[Caller(s)] = goals[Caller(s)]
             /\ call[s].endpoint = "post_activity" => \A a \in activities' : a.id # write[s].id
    <2>1. Apart(r, s) /\ Held(s)
        BY DEF WriteInv
    <2>2. goals \in [User -> Goal \cup {None}] /\ call[s] \in Call
        BY <1>3 DEF StoreInv, TypeOK, InFlight
    <2>3. Caller(s) \in User
        BY <2>2, CallParts DEF Caller
    <2>4. call[s].endpoint = "put_goal" => goals'[Caller(s)] = goals[Caller(s)]
        BY <1>1, <1>3, <2>1, <2>2, <2>3, ApplyTypes DEF Apart
    <2>5. call[s].endpoint = "post_activity" => \A a \in activities' : a.id # write[s].id
        BY <1>1, <1>3, <2>1, ApplyTypes DEF Apart, Held
    <2>6. QED
        BY <2>4, <2>5
<1>4. QED
    BY <1>1, <1>2, <1>3, HeldApart DEF Moves, Step

\* Every other step of a request touches no table and holds nothing.
LEMMA OthersHold ==
    ASSUME StoreInv, WriteInv, NEW r \in Request,
           \/ \E c \in Call : Start(r, c)
           \/ Begin(r) \/ RefusedByReference(r) \/ Fail(r)
           \/ FetchGoal(r) \/ ListActivities(r) \/ Snapshot(r)
    PROVE  WriteInv'
<1>1. UNCHANGED <<goals, activities>>
    BY DEF Start, Begin, RefusedByReference, Fail, FetchGoal, ListActivities, Snapshot, tables
<1>2. /\ pc'[r] = "commit" => call'[r].endpoint \in Reads
      /\ found'[r] # None => pc'[r] = "commit" /\ call'[r].endpoint = "get_goal"
    <2>1. CASE (\E c \in Call : Start(r, c)) \/ Begin(r)
        <3>1. found' = found /\ pc[r] # "commit"
            BY <2>1 DEF Start, Begin
        <3>2. pc'[r] # "commit"
            BY <2>1 DEF Start, Begin, Goto, StoreInv, TypeOK
        <3>3. found[r] = None
            BY <3>1 DEF WriteInv, Held
        <3>4. QED
            BY <3>1, <3>2, <3>3
    <2>2. CASE RefusedByReference(r) \/ Fail(r)
        <3>1. Finish(r, "error", 0)
            BY <2>2 DEF RefusedByReference, Fail
        <3>2. pc'[r] = "idle" /\ found'[r] = None
            BY <3>1 DEF Finish, Goto, StoreInv, TypeOK
        <3>3. QED
            BY <3>2
    <2>3. CASE FetchGoal(r)
        BY <2>3 DEF FetchGoal, At, Goto, Reads, StoreInv, TypeOK
    <2>4. CASE ListActivities(r) \/ Snapshot(r)
        <3>1. /\ pc[r] = "statement" /\ pc'[r] = "commit" /\ found' = found /\ call' = call
              /\ call[r].endpoint \in Reads
            BY <2>4 DEF ListActivities, Snapshot, At, Goto, Reads, StoreInv, TypeOK
        <3>2. QED
            BY <3>1 DEF WriteInv, Held
    <2>5. QED
        BY <2>1, <2>2, <2>3, <2>4
<1>3. Held(r)' /\ \A s \in Request \ {r} : Apart(r, s)' /\ Apart(s, r)'
    BY <1>2 DEF Held, Apart, Reads
<1>4. \A s \in Request \ {r} : pc[s] = "commit" /\ call[s].endpoint = "post_activity" =>
          \A a \in activities' : a.id # write[s].id
    BY <1>1 DEF WriteInv, Held
<1>5. QED
    BY <1>1, <1>3, <1>4, HeldApart DEF Moves, Step

\* Rows are held apart from each other and from what is stored, at every step.
LEMMA WriteStep ==
    ASSUME StoreInv, WriteInv, [Next]_vars
    PROVE  WriteInv'
<1>1. CASE Tick \/ UNCHANGED vars
    <2>1. UNCHANGED <<goals, activities, pc, call, begun, write, found>>
        BY <1>1 DEF Tick, vars, request, tables
    <2>2. QED
        BY <2>1 DEF WriteInv, Held, Apart, Caller
<1>2. ASSUME NEW u \in User, DeleteAccount(u) PROVE WriteInv'
    <2>1. /\ UNCHANGED <<pc, call, begun, write, found>>
          /\ goals' = [goals EXCEPT ![u] = None] /\ activities' \subseteq activities
        BY <1>2 DEF DeleteAccount, request
    <2>2. ASSUME NEW s \in Request, pc[s] = "commit", call[s].endpoint = "put_goal"
          PROVE  goals'[Caller(s)] = goals[Caller(s)]
        <3>1. write[s] # None
            BY <2>2, RowIsNotNull DEF StoreInv, InFlight
        <3>2. Caller(s) # u
            BY <1>2, <3>1 DEF DeleteAccount, Writing
        <3>3. Caller(s) \in User
            BY <2>2, CallParts DEF StoreInv, InFlight, Caller
        <3>4. QED
            BY <2>1, <3>2, <3>3 DEF StoreInv, TypeOK
    <2>3. ASSUME NEW s \in Request
          PROVE  Held(s)'
        <3>1. Held(s)
            BY DEF WriteInv
        <3>2. pc[s] = "commit" /\ call[s].endpoint = "put_goal" =>
                  goals'[Caller(s)] = goals[Caller(s)]
            BY <2>2
        <3>3. \A a \in activities' : a \in activities
            BY <2>1
        <3>4. QED
            BY <2>1, <3>1, <3>2, <3>3 DEF Held, Caller
    <2>4. \A s \in Request, t \in Request : s # t => Apart(s, t)'
        BY <2>1 DEF WriteInv, Apart, Caller
    <2>5. QED
        BY <2>3, <2>4 DEF WriteInv
<1>3. ASSUME NEW r \in Request, Moves(r) PROVE WriteInv'
    BY <1>3, UpsertHolds, RecordHolds, ApplyHolds, OthersHold DEF Moves, Step
<1>4. QED
    BY <1>1, <1>2, <1>3 DEF Next, Moves

-----------------------------------------------------------------------------
(* Each step is a step of AtomicStore, or none *)

\* What the abstract store sees of a request changes only when it moves.
LEMMA MoveMaps ==
    ASSUME StoreInv, NEW r \in Request, Moves(r)
    PROVE  /\ \A stage : StageOf(r)' = stage => Stage' = [Stage EXCEPT ![r] = stage]
           /\ StageOf(r)' = StageOf(r) => Stage' = Stage
           /\ \A row : FoundByRead'[r] = row => FoundByRead' = [FoundByRead EXCEPT ![r] = row]
           /\ FoundByRead'[r] = FoundByRead[r] => FoundByRead' = FoundByRead
           /\ \A rows :
                  ListedByRead'[r] = rows => ListedByRead' = [ListedByRead EXCEPT ![r] = rows]
           /\ ListedByRead'[r] = ListedByRead[r] => ListedByRead' = ListedByRead
<1>1. \A s \in Request \ {r} :
          pc'[s] = pc[s] /\ call'[s] = call[s] /\ found'[s] = found[s] /\ listed'[s] = listed[s]
    BY OthersUnmoved, ToldOthers
<1>2. \A s \in Request \ {r} : Stage'[s] = Stage[s]
    BY <1>1 DEF Stage, StageOf, Reading
<1>3. \A s \in Request \ {r} : FoundByRead'[s] = FoundByRead[s]
    BY <1>1 DEF FoundByRead, Reading
<1>4. \A s \in Request \ {r} : ListedByRead'[s] = ListedByRead[s]
    BY <1>1 DEF ListedByRead, Lists
<1>5. /\ \A stage : StageOf(r)' = stage => Stage' = [Stage EXCEPT ![r] = stage]
      /\ StageOf(r)' = StageOf(r) => Stage' = Stage
    BY <1>2 DEF Stage
<1>6. /\ \A row : FoundByRead'[r] = row => FoundByRead' = [FoundByRead EXCEPT ![r] = row]
      /\ FoundByRead'[r] = FoundByRead[r] => FoundByRead' = FoundByRead
    BY <1>3 DEF FoundByRead
<1>7. /\ \A rows :
             ListedByRead'[r] = rows => ListedByRead' = [ListedByRead EXCEPT ![r] = rows]
      /\ ListedByRead'[r] = ListedByRead[r] => ListedByRead' = ListedByRead
    BY <1>4 DEF ListedByRead
<1>8. QED
    BY <1>5, <1>6, <1>7

\* A request that finishes ends its call.
LEMMA FinishEnds ==
    ASSUME StoreInv, NEW r \in Request, Moves(r), NEW status, NEW days,
           Finish(r, status, days), UNCHANGED <<now, call, listed>>
    PROVE  Atomic!End(r, status, days)
<1>1. pc'[r] = "idle" /\ Lists(r)' = Lists(r)
    BY DEF Finish, Goto, StoreInv, TypeOK, Lists
<1>2. StageOf(r)' = "idle" /\ FoundByRead'[r] = None /\ ListedByRead'[r] = ListedByRead[r]
    BY <1>1 DEF StageOf, FoundByRead, ListedByRead, Reading
<1>3. /\ Stage' = [Stage EXCEPT ![r] = "idle"]
      /\ FoundByRead' = [FoundByRead EXCEPT ![r] = None]
      /\ ListedByRead' = ListedByRead
    BY <1>2, MoveMaps
<1>4. accounts' = accounts
    BY ToldOthers
<1>5. QED
    BY <1>3, <1>4 DEF Finish, Respond, Atomic!End, Atomic!Answer

\* A call comes in as it does there: the same deadlines are accepted.
LEMMA StartAsks ==
    ASSUME StoreInv, NEW r \in Request, NEW c \in Call, Start(r, c)
    PROVE  Atomic!Next
<1>1. c \in {x \in Call : x.endpoint \in Operation}
    BY DEF Start
<1>2. Moves(r)
    BY DEF Moves
<1>3. pc[r] = "idle" /\ call'[r] = c /\ listed'[r] = {} /\ Stage[r] = "idle"
    BY DEF Start, StoreInv, TypeOK, Stage, StageOf
<1>4. ListedByRead' = [ListedByRead EXCEPT ![r] = {}]
    <2>1. ListedByRead'[r] = {}
        BY <1>3 DEF ListedByRead
    <2>2. QED
        BY <1>2, <2>1, MoveMaps
<1>5. FoundByRead' = FoundByRead
    <2>1. pc'[r] # "commit"
        BY <1>3 DEF Start, Goto, StoreInv, TypeOK
    <2>2. FoundByRead'[r] = FoundByRead[r]
        BY <1>3, <2>1 DEF FoundByRead, Reading
    <2>3. QED
        BY <1>2, <2>2, MoveMaps
<1>6. c.endpoint = "put_goal" =>
          (Valid(c.deadline, Today) <=> c.deadline - Today \in 1..MaxHorizon)
    <2>1. Today \in Int
        BY TodayIsTime, NumberAssumption DEF StoreInv, TypeOK, Time
    <2>2. c.endpoint = "put_goal" => c.deadline \in Int
        BY CallParts, NumberAssumption
    <2>3. MaxHorizon \in Int
        BY NumberAssumption
    <2>4. \A d \in Int, t \in Int, m \in Int : t < d /\ d - t <= m <=> d - t \in 1..m
        OBVIOUS
    <2>5. QED
        BY <2>1, <2>2, <2>3, <2>4 DEF Valid
<1>7. CASE c.endpoint = "put_goal" => Valid(c.deadline, Today)
    <2>1. pc'[r] = "begin"
        BY <1>7 DEF Start, Goto, StoreInv, TypeOK
    <2>2. Stage' = [Stage EXCEPT ![r] = "asked"]
        BY <1>2, <2>1, MoveMaps DEF StageOf
    <2>3. Atomic!Ask(r, c)
        BY <1>3, <1>4, <1>5, <1>6, <1>7, <2>2
           DEF Start, Respond, tables, Atomic!Ask, Atomic!Answer, Today
    <2>4. QED
        BY <1>1, <2>3 DEF Atomic!Next
<1>8. CASE ~ (c.endpoint = "put_goal" => Valid(c.deadline, Today))
    <2>1. pc' = pc
        BY <1>8 DEF Start
    <2>2. Stage' = Stage
        BY <1>2, <1>3, <2>1, MoveMaps DEF StageOf
    <2>3. Atomic!Ask(r, c)
        BY <1>3, <1>4, <1>5, <1>6, <1>8, <2>2
           DEF Start, Respond, tables, Atomic!Ask, Atomic!Answer, Today
    <2>4. QED
        BY <1>1, <2>3 DEF Atomic!Next
<1>9. QED
    BY <1>7, <1>8

\* A transaction's begin dates the call; a statement that writes is not seen.
LEMMA BeginDates ==
    ASSUME StoreInv, NEW r \in Request, Begin(r)
    PROVE  Atomic!Next
<1>1. Moves(r)
    BY DEF Moves, Step
<1>2. pc[r] = "begin" /\ pc'[r] = "statement" /\ Lists(r)' = Lists(r)
    BY DEF Begin, Goto, StoreInv, TypeOK, Lists
<1>3. StageOf(r)' = "dated" /\ Stage[r] = "asked"
    BY <1>2 DEF Stage, StageOf, Reading
<1>4. FoundByRead'[r] = FoundByRead[r] /\ ListedByRead'[r] = ListedByRead[r]
    BY <1>2 DEF Begin, FoundByRead, ListedByRead, Reading
<1>5. /\ Stage' = [Stage EXCEPT ![r] = "dated"]
      /\ FoundByRead' = FoundByRead /\ ListedByRead' = ListedByRead
    BY <1>1, <1>3, <1>4, MoveMaps
<1>6. Atomic!Date(r)
    BY <1>3, <1>5 DEF Begin, tables, Atomic!Date, Atomic!outcome
<1>7. QED
    BY <1>6 DEF Atomic!Next

LEMMA WriteIsUnseen ==
    ASSUME StoreInv, NEW r \in Request, UpsertGoal(r) \/ RecordActivity(r)
    PROVE  UNCHANGED Atomic!vars
<1>1. Moves(r)
    BY DEF Moves, Step
<1>2. /\ pc[r] = "statement" /\ pc'[r] = "commit" /\ call' = call
      /\ call[r].endpoint \in {"put_goal", "post_activity"}
    BY DEF UpsertGoal, RecordActivity, At, Goto, StoreInv, TypeOK
<1>3. StageOf(r)' = StageOf(r) /\ FoundByRead'[r] = FoundByRead[r]
    BY <1>2 DEF StageOf, FoundByRead, Reading, Reads
<1>4. ListedByRead'[r] = ListedByRead[r]
    BY <1>2 DEF ListedByRead, Lists
<1>5. UNCHANGED <<Stage, FoundByRead, ListedByRead>>
    BY <1>1, <1>3, <1>4, MoveMaps
<1>6. QED
    BY <1>5 DEF UpsertGoal, RecordActivity, tables, Atomic!vars, Atomic!outcome

\* A statement that reads sees one state of the table, and a list of the newest is
\* complete.
LEMMA ReadReads ==
    ASSUME StoreInv, WriteInv, IsFiniteSet(activities), NEW r \in Request,
           FetchGoal(r) \/ ListActivities(r) \/ Snapshot(r)
    PROVE  Atomic!Next
<1> DEFINE own == {a \in activities : a.owner = call[r].caller}
<1>1. Moves(r)
    BY DEF Moves, Step
<1>2. /\ pc[r] = "statement" /\ pc'[r] = "commit" /\ call' = call /\ call[r].endpoint \in Reads
      /\ call[r] \in Call /\ call[r] # None
      /\ UNCHANGED <<now, accounts, goals, activities, call, today, begun, answer>>
    <2>1. call[r] \in Call => call[r] # None
        BY NoneAssumption
    <2>2. QED
        BY <2>1 DEF FetchGoal, ListActivities, Snapshot, At, Goto, Reads, StoreInv, TypeOK, tables,
               InFlight
<1>3. StageOf(r)' = "read" /\ Stage[r] = "dated"
    BY <1>2 DEF Stage, StageOf, Reading
<1>4. Stage' = [Stage EXCEPT ![r] = "read"]
    BY <1>1, <1>3, MoveMaps
<1>5. found[r] = None /\ FoundByRead[r] = None /\ FoundByRead'[r] = found'[r]
    BY <1>2 DEF WriteInv, Held, FoundByRead, Reading
<1>6. CASE FetchGoal(r)
    <2>1. call[r].endpoint = "get_goal" /\ found'[r] = goals[call[r].caller] /\ listed' = listed
        BY <1>6 DEF FetchGoal, At, StoreInv, TypeOK, Caller
    <2>2. ListedByRead'[r] = ListedByRead[r]
        BY <1>2, <2>1 DEF ListedByRead, Lists
    <2>3. /\ FoundByRead' = [FoundByRead EXCEPT ![r] = goals[call[r].caller]]
          /\ ListedByRead' = ListedByRead
        BY <1>1, <1>5, <2>1, <2>2, MoveMaps
    <2>4. Atomic!Read(r)
        BY <1>2, <1>3, <1>4, <2>1, <2>3 DEF Atomic!Read
    <2>5. QED
        BY <2>4 DEF Atomic!Next
<1>7. CASE ListActivities(r)
    <2>1. /\ call[r].endpoint = "list_activities" /\ listed'[r] = Newest(own) /\ found' = found
        BY <1>7 DEF ListActivities, At, StoreInv, TypeOK, Caller, Own
    <2>2. ListedByRead' = [ListedByRead EXCEPT ![r] = Newest(own)]
        <3>1. ListedByRead'[r] = Newest(own)
            BY <1>2, <2>1 DEF ListedByRead, Lists
        <3>2. QED
            BY <1>1, <3>1, MoveMaps
    <2>3. FoundByRead' = FoundByRead
        BY <1>1, <1>5, <2>1, MoveMaps
    <2>4. Atomic!IsListOf(Newest(own), own)
        <3>1. own \subseteq Activity /\ IsFiniteSet(own)
            <4>1. own \in SUBSET activities
                OBVIOUS
            <4>2. own \subseteq Activity
                BY <4>1 DEF StoreInv, TypeOK
            <4> HIDE DEF own
            <4>3. QED
                BY <4>1, <4>2, FS_Subset
        <3>2. Newest(own) \subseteq own
            BY DEF Newest
        <3>3. ASSUME NEW a \in own \ Newest(own)
              PROVE  Cardinality({b \in Newest(own) : Atomic!Newer(b, a)}) >= Limit
            <4>1. {b \in Newest(own) : Atomic!Newer(b, a)} = {b \in Newest(own) : Newer(b, a)}
                BY DEF Newer, Atomic!Newer
            <4> HIDE DEF own
            <4>2. QED
                BY <3>1, <4>1, NewestIsComplete
        <3>4. \A S : Atomic!Cardinality(S) = Cardinality(S)
            BY DEF Atomic!Cardinality, Cardinality
        <3>5. QED
            BY <3>2, <3>3, <3>4 DEF Atomic!IsListOf
    <2>5. Newest(own) \in SUBSET own
        BY DEF Newest
    <2>6. Atomic!Read(r)
        BY <1>2, <1>3, <1>4, <2>1, <2>2, <2>3, <2>4, <2>5 DEF Atomic!Read
    <2>7. QED
        BY <2>6 DEF Atomic!Next
<1>8. CASE Snapshot(r)
    <2> DEFINE rows == {a \in own : a.occurred_at <= call[r].as_of}
    <2>1. /\ call[r].endpoint = "snapshot" /\ listed'[r] = rows /\ found' = found
        BY <1>8 DEF Snapshot, At, StoreInv, TypeOK, Caller, Own, AsOf
    <2>2. ListedByRead' = [ListedByRead EXCEPT ![r] = rows]
        <3>1. ListedByRead'[r] = rows
            BY <1>2, <2>1 DEF ListedByRead, Lists
        <3>2. QED
            BY <1>1, <3>1, MoveMaps
    <2>3. FoundByRead' = FoundByRead
        BY <1>1, <1>5, <2>1, MoveMaps
    <2>4. Atomic!Read(r)
        BY <1>2, <1>3, <1>4, <2>1, <2>2, <2>3 DEF Atomic!Read
    <2>5. QED
        BY <2>4 DEF Atomic!Next
<1>9. QED
    BY <1>6, <1>7, <1>8

\* A transaction that ends has done, now and at once, what its call asks for:
\* nobody has touched the row that it was holding.
LEMMA ApplyWrites ==
    ASSUME StoreInv, WriteInv, NEW r \in Request, Moves(r), pc[r] = "commit", Apply(r),
           NEW status \in {"ok", "error"}, NEW days, Finish(r, status, days),
           status = "ok" /\ call[r].endpoint = "put_goal" =>
               days = call[r].deadline - today[r],
           status = "ok" /\ call[r].endpoint = "post_activity" => days = 0,
           status = "error" => days = 0,
           UNCHANGED <<now, call, listed>>, call[r].endpoint \in {"put_goal", "post_activity"}
    PROVE  Atomic!Next
<1>1. Atomic!End(r, status, days)
    BY FinishEnds
<1>2. Held(r) /\ InFlight(r) /\ Caller(r) = call[r].caller
    BY DEF WriteInv, StoreInv, Caller
<1>3. Stage[r] = "dated"
    BY DEF Stage, StageOf, Reading, Reads
<1>4. CASE call[r].endpoint = "put_goal"
    <2>1. goals' = [goals EXCEPT ![Caller(r)] = write[r]] /\ activities' = activities
        BY <1>4, ApplyTypes
    <2>2. Caller(r) \in accounts
        BY <1>2, <1>4, RowIsNotNull DEF InFlight
    <2>3. write[r] = [deadline |-> call[r].deadline,
                      created_at |-> IF goals[Caller(r)] = None THEN begun[r]
                                     ELSE goals[Caller(r)].created_at,
                      updated_at |-> begun[r]]
        BY <1>2, <1>4 DEF Held
    <2>4. Atomic!PutGoal(r, status)
        BY <1>1, <1>2, <1>3, <1>4, <2>1, <2>2, <2>3 DEF Atomic!PutGoal
    <2>5. QED
        BY <2>4 DEF Atomic!Next
<1>5. CASE call[r].endpoint = "post_activity"
    <2>1. activities' = activities \cup {write[r]} /\ goals' = goals
        BY <1>5, ApplyTypes
    <2>2. Caller(r) \in accounts
        BY <1>2, <1>5, RowIsNotNull DEF InFlight
    <2>3. /\ write[r] = [id |-> write[r].id, owner |-> Caller(r), occurred_at |-> begun[r]]
          /\ write[r].id \in Id /\ \A a \in activities : a.id # write[r].id
        BY <1>2, <1>5 DEF Held
    <2>4. days = 0
        BY <1>5
    <2>5. Atomic!PostActivity(r, status)
        BY <1>1, <1>2, <1>3, <1>5, <2>1, <2>2, <2>3, <2>4 DEF Atomic!PostActivity
    <2>6. QED
        BY <2>5 DEF Atomic!Next
<1>6. QED
    BY <1>4, <1>5

LEMMA CommitAnswersThere ==
    ASSUME StoreInv, WriteInv, NEW r \in Request, Commit(r)
    PROVE  Atomic!Next
<1>1. /\ Moves(r) /\ pc[r] = "commit" /\ Apply(r) /\ UNCHANGED <<now, call, listed>>
      /\ call[r] \in Call /\ call[r].endpoint \in Endpoint
    BY CallParts DEF Moves, Step, Commit, StoreInv, InFlight
<1>2. InFlight(r) /\ Held(r)
    BY DEF StoreInv, WriteInv
<1>3. CASE call[r].endpoint = "put_goal"
    <2>1. found[r] = write[r] /\ write[r] # None /\ write[r].deadline = call[r].deadline
        BY <1>1, <1>2, <1>3, RowIsNotNull DEF InFlight
    <2>2. Finish(r, "ok", call[r].deadline - today[r])
        BY <1>3, <2>1 DEF Commit
    <2>3. QED
        BY <1>1, <1>3, <2>2, ApplyWrites
<1>4. CASE call[r].endpoint = "post_activity"
    <2>1. found[r] = None
        BY <1>2, <1>4 DEF Held
    <2>2. Finish(r, "ok", 0)
        BY <1>4, <2>1 DEF Commit
    <2>3. QED
        BY <1>1, <1>4, <2>2, ApplyWrites
<1>5. CASE call[r].endpoint \in Reads
    <2>1. Stage[r] = "read" /\ FoundByRead[r] = found[r]
        BY <1>1, <1>5 DEF Stage, StageOf, FoundByRead, Reading
    <2>2. UNCHANGED <<goals, activities>>
        BY <1>1, <1>5, ApplyTypes DEF Reads
    <2>3. CASE call[r].endpoint = "get_goal" /\ found[r] = None
        <3>1. Finish(r, "not_found", 0)
            BY <2>3 DEF Commit
        <3>2. Atomic!End(r, "not_found", 0)
            BY <1>1, <3>1, FinishEnds
        <3>3. Atomic!Reply(r)
            BY <2>1, <2>2, <2>3, <3>2 DEF Atomic!Reply
        <3>4. QED
            BY <3>3 DEF Atomic!Next
    <2>4. CASE ~ (call[r].endpoint = "get_goal" /\ found[r] = None)
        <3> DEFINE days == IF found[r] = None THEN 0 ELSE found[r].deadline - today[r]
        <3>1. Finish(r, "ok", days)
            BY <2>4 DEF Commit
        <3>2. Atomic!End(r, "ok", days)
            BY <1>1, <3>1, FinishEnds
        <3>3. Atomic!Reply(r)
            BY <2>1, <2>2, <2>4, <3>2 DEF Atomic!Reply
        <3>4. QED
            BY <3>3 DEF Atomic!Next
    <2>5. QED
        BY <2>3, <2>4
<1>6. QED
    BY <1>1, <1>3, <1>4, <1>5 DEF Endpoint, Reads

\* A call that fails has been without effect, or has had all of it.
LEMMA FailureFails ==
    ASSUME StoreInv, WriteInv, NEW r \in Request,
           Fail(r) \/ RefusedByReference(r) \/ FailAfterCommit(r)
    PROVE  Atomic!Next
<1>1. Moves(r) /\ pc[r] # "idle" /\ Finish(r, "error", 0) /\ UNCHANGED <<now, call, listed>>
    BY DEF Moves, Step, Fail, RefusedByReference, FailAfterCommit, At
<1>2. Atomic!End(r, "error", 0)
    BY <1>1, FinishEnds
<1>3. Stage[r] # "idle"
    BY <1>1 DEF Stage, StageOf
<1>4. CASE UNCHANGED <<goals, activities>>
    BY <1>2, <1>3, <1>4 DEF Atomic!Fail, Atomic!Next
<1>5. CASE FailAfterCommit(r)
    <2>1. pc[r] = "commit" /\ Apply(r)
        BY <1>5 DEF FailAfterCommit
    <2>2. CASE call[r].endpoint \in {"put_goal", "post_activity"}
        BY <1>1, <2>1, <2>2, ApplyWrites
    <2>3. CASE call[r].endpoint \notin {"put_goal", "post_activity"}
        BY <1>4, <2>1, <2>3, ApplyTypes
    <2>4. QED
        BY <2>2, <2>3
<1>6. QED
    BY <1>4, <1>5 DEF Fail, RefusedByReference, tables

\* Whatever the locks, the uncommitted rows and the failures, every call has its
\* effect at once or, if it fails, perhaps not at all.
THEOREM StoreIsAtomic == Spec => ImplementsAtomicStore
<1>1. Init => Atomic!Init
    BY DEF Init, NoAnswer, Atomic!Init, Stage, StageOf, FoundByRead, ListedByRead, Reading, Lists
<1>2. StoreInv /\ WriteInv /\ IsFiniteSet(activities) /\ [Next]_vars
          => [Atomic!Next]_(Atomic!vars)
    <2> SUFFICES ASSUME StoreInv, WriteInv, IsFiniteSet(activities), [Next]_vars
                 PROVE  [Atomic!Next]_(Atomic!vars)
        OBVIOUS
    <2>1. UNCHANGED <<pc, call, found, listed>> => UNCHANGED <<Stage, FoundByRead, ListedByRead>>
        BY DEF Stage, StageOf, FoundByRead, ListedByRead, Reading, Lists
    <2>2. CASE Tick
        BY <2>1, <2>2 DEF Tick, tables, request, Atomic!Next, Atomic!Tick, Atomic!outcome
    <2>3. ASSUME NEW u \in User, DeleteAccount(u) PROVE Atomic!Next
        <3>1. Atomic!DeleteAccount(u)
            BY <2>1, <2>3 DEF DeleteAccount, request, Atomic!DeleteAccount, Atomic!outcome
        <3>2. QED
            BY <3>1 DEF Atomic!Next
    <2>4. ASSUME NEW r \in Request, Moves(r) PROVE [Atomic!Next]_(Atomic!vars)
        BY <2>4, StartAsks, BeginDates, WriteIsUnseen, ReadReads, CommitAnswersThere, FailureFails
           DEF Moves, Step
    <2>5. CASE UNCHANGED vars
        BY <2>1, <2>5 DEF vars, tables, request, Atomic!vars, Atomic!outcome
    <2>6. QED
        BY <2>2, <2>3, <2>4, <2>5 DEF Next, Moves
<1>3. Init => WriteInv /\ IsFiniteSet(activities)
    BY FS_EmptySet DEF Init, WriteInv, Held, Apart
<1>4. StoreInv /\ IsFiniteSet(activities) /\ [Next]_vars => IsFiniteSet(activities)'
    BY RowsStayFinite
<1>5. QED
    BY <1>1, <1>2, <1>3, <1>4, WriteStep, StoreInit, StoreStep, PTL
       DEF Spec, Atomic!Spec, ImplementsAtomicStore
=============================================================================
