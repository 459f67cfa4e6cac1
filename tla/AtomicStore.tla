----------------------------- MODULE AtomicStore -----------------------------
(***************************************************************************)
(* What the store promises to its callers, with nothing of how it keeps    *)
(* the promise: no row locks, no uncommitted writes, no foreign keys that  *)
(* wait.  A call comes in on a day, is given an instant, and has its whole *)
(* effect at once at some moment before it is answered; a call that is     *)
(* answered with an error has had all of its effect or none.  A read sees  *)
(* one state of the tables.                                                *)
(*                                                                         *)
(* StudentStore implements this module (StudentStore!Atomic).              *)
(***************************************************************************)
EXTENDS Integers, FiniteSets

CONSTANTS
    Request, User, Id, None,   \* as in StudentStore
    Call,        \* the calls that can be made
    Limit,       \* how many activities a list must be able to hold
    MaxHorizon,  \* how far ahead a deadline may be, in days
    DayLength,   \* instants per day
    MaxTime      \* bound: the clock stops here

VARIABLES
    now,         \* the clock
    accounts, goals, activities,   \* the tables
    stage,       \* of each request: "idle", "asked", "dated" or "read"
    call,        \* its last call
    today,       \* the day on which it came in
    instant,     \* the instant that its rows carry
    found,       \* the goal it has read, or None
    listed,      \* the activities it has read
    answer       \* the status of its last call and the days remaining

outcome == <<found, listed, answer>>
vars == <<now, accounts, goals, activities, stage, call, today, instant, outcome>>

Writes == {"put_goal", "post_activity"}

Init ==
    /\ now = 0
    /\ accounts = User
    /\ goals = [u \in User |-> None]
    /\ activities = {}
    /\ stage = [r \in Request |-> "idle"]
    /\ call = [r \in Request |-> None]
    /\ today = [r \in Request |-> 0]
    /\ instant = [r \in Request |-> 0]
    /\ found = [r \in Request |-> None]
    /\ listed = [r \in Request |-> {}]
    /\ answer = [r \in Request |-> [status |-> "none", days_remaining |-> 0]]

Answer(r, status, days) ==
    answer' = [answer EXCEPT ![r] = [status |-> status, days_remaining |-> days]]

\* The call is answered and forgotten but for what was listed.
End(r, status, days) ==
    /\ Answer(r, status, days)
    /\ stage' = [stage EXCEPT ![r] = "idle"]
    /\ today' = [today EXCEPT ![r] = 0]
    /\ instant' = [instant EXCEPT ![r] = 0]
    /\ found' = [found EXCEPT ![r] = None]
    /\ UNCHANGED <<now, accounts, call, listed>>

-----------------------------------------------------------------------------

Tick ==
    /\ now < MaxTime
    /\ now' = now + 1
    /\ UNCHANGED <<accounts, goals, activities, stage, call, today, instant, outcome>>

\* An account goes at any moment, and all that is its own with it.
DeleteAccount(u) ==
    /\ accounts' = accounts \ {u}
    /\ goals' = [goals EXCEPT ![u] = None]
    /\ activities' = {a \in activities : a.owner # u}
    /\ UNCHANGED <<now, stage, call, today, instant, outcome>>

\* A deadline that is not ahead, or too far ahead, is refused at once.
Ask(r, c) ==
    /\ stage[r] = "idle"
    /\ call' = [call EXCEPT ![r] = c]
    /\ listed' = [listed EXCEPT ![r] = {}]
    /\ LET day == now \div DayLength
       IN  IF c.endpoint = "put_goal" => c.deadline - day \in 1..MaxHorizon
           THEN /\ stage' = [stage EXCEPT ![r] = "asked"]
                /\ today' = [today EXCEPT ![r] = day]
                /\ Answer(r, "none", 0)
           ELSE Answer(r, "unprocessable", 0) /\ UNCHANGED <<stage, today>>
    /\ UNCHANGED <<now, accounts, goals, activities, instant, found>>

Date(r) ==
    /\ stage[r] = "asked"
    /\ stage' = [stage EXCEPT ![r] = "dated"]
    /\ instant' = [instant EXCEPT ![r] = now]
    /\ UNCHANGED <<now, accounts, goals, activities, call, today, outcome>>

\* The goal is replaced, the date of its creation is not.
PutGoal(r, status) ==
    LET u == call[r].caller
    IN  /\ stage[r] = "dated" /\ call[r].endpoint = "put_goal"
        /\ u \in accounts
        /\ goals' = [goals EXCEPT ![u] =
               [deadline |-> call[r].deadline,
                created_at |-> IF goals[u] = None THEN instant[r] ELSE goals[u].created_at,
                updated_at |-> instant[r]]]
        /\ End(r, status, IF status = "ok" THEN call[r].deadline - today[r] ELSE 0)
        /\ UNCHANGED activities

\* An activity is added under an id of its own.
PostActivity(r, status) ==
    LET u == call[r].caller
    IN  /\ stage[r] = "dated" /\ call[r].endpoint = "post_activity"
        /\ u \in accounts
        /\ \E id \in Id :
               /\ \A a \in activities : a.id # id
               /\ activities' = activities \cup
                      {[id |-> id, owner |-> u, occurred_at |-> instant[r]]}
        /\ End(r, status, 0)
        /\ UNCHANGED goals

\* What a list of all these activities may be: it leaves out only those that are
\* older than Limit others in it.
Newer(a, b) ==
    a.occurred_at > b.occurred_at \/ (a.occurred_at = b.occurred_at /\ a.id > b.id)
IsListOf(rows, all) ==
    /\ rows \subseteq all
    /\ \A a \in all \ rows : Cardinality({b \in rows : Newer(b, a)}) >= Limit

Read(r) ==
    LET own == {a \in activities : a.owner = call[r].caller}
    IN  /\ stage[r] = "dated"
        /\ \/ /\ call[r].endpoint = "get_goal"
              /\ found' = [found EXCEPT ![r] = goals[call[r].caller]]
              /\ UNCHANGED listed
           \/ /\ call[r].endpoint = "list_activities"
              /\ \E rows \in SUBSET own :
                     IsListOf(rows, own) /\ listed' = [listed EXCEPT ![r] = rows]
              /\ UNCHANGED found
           \/ /\ call[r].endpoint = "snapshot"
              /\ listed' = [listed EXCEPT ![r] =
                     {a \in own : a.occurred_at <= call[r].as_of}]
              /\ UNCHANGED found
        /\ stage' = [stage EXCEPT ![r] = "read"]
        /\ UNCHANGED <<now, accounts, goals, activities, call, today, instant, answer>>

Reply(r) ==
    /\ stage[r] = "read"
    /\ IF call[r].endpoint = "get_goal" /\ found[r] = None THEN End(r, "not_found", 0)
       ELSE End(r, "ok", IF found[r] = None THEN 0 ELSE found[r].deadline - today[r])
    /\ UNCHANGED <<goals, activities>>

Fail(r) ==
    /\ stage[r] # "idle"
    /\ End(r, "error", 0)
    /\ UNCHANGED <<goals, activities>>

Next ==
    \/ Tick
    \/ \E u \in User : DeleteAccount(u)
    \/ \E r \in Request :
          \/ \E c \in Call : Ask(r, c)
          \/ Date(r)
          \/ \E status \in {"ok", "error"} : PutGoal(r, status) \/ PostActivity(r, status)
          \/ Read(r)
          \/ Reply(r)
          \/ Fail(r)

Spec == Init /\ [][Next]_vars
=============================================================================
