-------------------------------- MODULE Intake --------------------------------
(***************************************************************************)
(* What a student sends and what the tables take: the validation of a      *)
(* practice event (domain/dsa.py) and of a goal (domain/goals.py), and the *)
(* CHECK constraints their rows meet in the database.  A text is the       *)
(* number of characters that are left once it is stripped and its inner    *)
(* whitespace collapsed, and how many it gains in lower case: Python's     *)
(* lower() makes two of some characters (U+0130).  All its characters are  *)
(* ones that PostgreSQL stores.  The deadline of a goal is in StudentStore *)
(* and left out here.                                                      *)
(***************************************************************************)
EXTENDS Integers, TLAPS

CONSTANTS
    Text,             \* the texts that are sent
    Number,           \* the numbers that are sent
    None,             \* null
    MaxTitle, MaxPlatform, MaxMinutes, MaxText, MaxHours,   \* of the domain
    HoursInWeek       \* of the table

IntakeAssumption ==
    /\ Text \subseteq [length : Nat, gains : Nat]
    /\ Number \subseteq Int
    /\ None \notin Text /\ None \notin Number
    /\ MaxTitle \in Nat /\ MaxPlatform \in Nat /\ MaxMinutes \in Nat
    /\ MaxText \in Nat /\ MaxHours \in Nat
    /\ HoursInWeek \in Nat /\ MaxHours <= HoursInWeek

VARIABLES
    pending,    \* what was validated and is about to be inserted
    response    \* the answer to the last request

vars == <<pending, response>>

\* What matters of a topic, a difficulty or an outcome is whether it is listed.
ActivityPayload ==
    [problem_title : Text, topic : BOOLEAN, difficulty : BOOLEAN, outcome : BOOLEAN,
     minutes_spent : Number \cup {None}, platform : Text \cup {None}]
GoalPayload ==
    [target_role : Text, target_company : Text \cup {None}, weekly_hours : Number]

-----------------------------------------------------------------------------

\* _require_text and _clean_text: something is left, and not too much.
Fits(text, max) == text.length \in 1..max

\* An optional text that is blank counts as none.
Given(text) == IF text = None THEN FALSE ELSE text.length > 0
Optional(text) == IF Given(text) THEN text ELSE None

ValidActivity(p) ==
    /\ Fits(p.problem_title, MaxTitle)
    /\ p.topic /\ p.difficulty /\ p.outcome
    /\ p.minutes_spent # None => p.minutes_spent \in 1..MaxMinutes
    /\ Given(p.platform) => Fits(p.platform, MaxPlatform)

\* normalise_problem_ref: the title, which has been stripped and collapsed, in
\* lower case.
ProblemRef(title) == [length |-> title.length + title.gains, gains |-> 0]

Activity(p) ==
    [problem_title |-> p.problem_title, problem_ref |-> ProblemRef(p.problem_title),
     minutes_spent |-> p.minutes_spent, platform |-> Optional(p.platform)]

ValidGoal(p) ==
    /\ Fits(p.target_role, MaxText)
    /\ Given(p.target_company) => Fits(p.target_company, MaxText)
    /\ p.weekly_hours \in 1..MaxHours

Goal(p) ==
    [target_role |-> p.target_role, target_company |-> Optional(p.target_company),
     weekly_hours |-> p.weekly_hours]

\* The constraints of dsa_activities (the vocabularies' are the domain's own)
\* and of preparation_goals.
ActivityChecks(row) ==
    /\ Fits(row.problem_title, MaxTitle) /\ Fits(row.problem_ref, MaxTitle)
    /\ row.minutes_spent # None => row.minutes_spent \in 1..MaxMinutes
    /\ row.platform # None => Fits(row.platform, MaxPlatform)

GoalChecks(row) ==
    /\ Fits(row.target_role, MaxText)
    /\ row.target_company # None => Fits(row.target_company, MaxText)
    /\ row.weekly_hours \in 1..HoursInWeek

-----------------------------------------------------------------------------

Nothing == [kind |-> "none"]

Init == pending = Nothing /\ response = "none"

Validate(kind, valid, row) ==
    /\ pending = Nothing
    /\ IF valid THEN pending' = [kind |-> kind, row |-> row] /\ response' = "none"
       ELSE pending' = Nothing /\ response' = "unprocessable"

PostActivity(p) == Validate("activity", ValidActivity(p), Activity(p))
PutGoal(p) == Validate("goal", ValidGoal(p), Goal(p))

\* The INSERT, or the upsert; a violated constraint is an exception that no
\* handler expects.
Insert ==
    /\ pending # Nothing
    /\ LET taken == IF pending.kind = "activity" THEN ActivityChecks(pending.row)
                    ELSE GoalChecks(pending.row)
       IN  response' = IF taken THEN "stored" ELSE "server error"
    /\ pending' = Nothing

Next ==
    \/ \E p \in ActivityPayload : PostActivity(p)
    \/ \E p \in GoalPayload : PutGoal(p)
    \/ Insert

Spec == Init /\ [][Next]_vars

\* Whatever the domain has validated, the table takes ("Constructing one is the
\* proof it is usable", domain/dsa.py).
ValidatedIsStorable == response # "server error"

\* It does unless a title gains characters in lower case: every goal that was
\* validated, and every practice event whose title gains none, meets the
\* constraints of its table.
PlainIsStorable ==
    /\ pending.kind = "goal" => GoalChecks(pending.row)
    /\ pending.kind = "activity" /\ pending.row.problem_title.gains = 0 =>
           ActivityChecks(pending.row)

\* A blank optional text is stored as none, and what is stored fits.
LEMMA OptionalFits ==
    ASSUME None \notin Text, NEW text \in Text \cup {None}, NEW max,
           Given(text) => Fits(text, max)
    PROVE  Optional(text) # None => Fits(Optional(text), max)
    BY DEF Optional

\* The constraints of the goal table are no narrower than the domain's.
LEMMA ValidGoalIsStorable ==
    ASSUME IntakeAssumption, NEW p \in GoalPayload, ValidGoal(p)
    PROVE  GoalChecks(Goal(p))
<1>1. Fits(Goal(p).target_role, MaxText)
    BY DEF ValidGoal, Goal
<1>2. Goal(p).target_company # None => Fits(Goal(p).target_company, MaxText)
    BY OptionalFits DEF ValidGoal, Goal, GoalPayload, IntakeAssumption
<1>3. Goal(p).weekly_hours \in 1..HoursInWeek
    BY DEF ValidGoal, Goal, IntakeAssumption
<1>4. QED BY <1>1, <1>2, <1>3 DEF GoalChecks

\* Nor those of the activity table, for a title that lower case does not lengthen.
LEMMA PlainActivityIsStorable ==
    ASSUME IntakeAssumption, NEW p \in ActivityPayload, ValidActivity(p),
           p.problem_title.gains = 0
    PROVE  ActivityChecks(Activity(p))
<1>1. Fits(Activity(p).problem_title, MaxTitle)
    BY DEF ValidActivity, Activity
<1>2. Fits(Activity(p).problem_ref, MaxTitle)
    BY <1>1 DEF Activity, ActivityPayload, ProblemRef, Fits, IntakeAssumption
<1>3. Activity(p).minutes_spent # None => Activity(p).minutes_spent \in 1..MaxMinutes
    BY DEF ValidActivity, Activity
<1>4. Activity(p).platform # None => Fits(Activity(p).platform, MaxPlatform)
    BY OptionalFits DEF ValidActivity, Activity, ActivityPayload, IntakeAssumption
<1>5. QED BY <1>1, <1>2, <1>3, <1>4 DEF ActivityChecks

\* What validate_goal and validate_activity let through is storable, the texts
\* that grow apart, whatever the limits are.
THEOREM PlainStorability ==
    ASSUME IntakeAssumption
    PROVE  Spec => []PlainIsStorable
<1>1. Init => PlainIsStorable
    BY DEF Init, Nothing, PlainIsStorable
<1>2. PlainIsStorable /\ [Next]_vars => PlainIsStorable'
    <2> SUFFICES ASSUME PlainIsStorable, [Next]_vars
                 PROVE  PlainIsStorable'
        OBVIOUS
    <2>1. CASE \E p \in ActivityPayload : PostActivity(p)
        <3>1. PICK p \in ActivityPayload : PostActivity(p)
            BY <2>1
        <3>2. CASE ValidActivity(p)
            <4>1. pending' = [kind |-> "activity", row |-> Activity(p)]
                BY <3>1, <3>2 DEF PostActivity, Validate
            <4>2. Activity(p).problem_title = p.problem_title
                BY DEF Activity
            <4>3. QED BY <3>2, <4>1, <4>2, PlainActivityIsStorable DEF PlainIsStorable
        <3>3. CASE ~ ValidActivity(p)
            BY <3>1, <3>3 DEF PostActivity, Validate, Nothing, PlainIsStorable
        <3>4. QED BY <3>2, <3>3
    <2>2. CASE \E p \in GoalPayload : PutGoal(p)
        <3>1. PICK p \in GoalPayload : PutGoal(p)
            BY <2>2
        <3>2. CASE ValidGoal(p)
            <4>1. pending' = [kind |-> "goal", row |-> Goal(p)]
                BY <3>1, <3>2 DEF PutGoal, Validate
            <4>2. QED BY <3>2, <4>1, ValidGoalIsStorable DEF PlainIsStorable
        <3>3. CASE ~ ValidGoal(p)
            BY <3>1, <3>3 DEF PutGoal, Validate, Nothing, PlainIsStorable
        <3>4. QED BY <3>2, <3>3
    <2>3. CASE Insert
        BY <2>3 DEF Insert, Nothing, PlainIsStorable
    <2>4. CASE UNCHANGED vars
        BY <2>4 DEF vars, PlainIsStorable
    <2>5. QED BY <2>1, <2>2, <2>3, <2>4 DEF Next
<1>3. QED BY <1>1, <1>2, PTL DEF Spec
=============================================================================
