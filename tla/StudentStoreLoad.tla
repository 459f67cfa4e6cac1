--------------------------- MODULE StudentStoreLoad ---------------------------
(***************************************************************************)
(* An instance of StudentStore for TLC, under one kind of load at a time:  *)
(* the calls on the goals of two students; posts beside lists; posts       *)
(* beside snapshots and their replays.  A call that only reads is seen by  *)
(* no other, and no statement touches both tables, which meet only in the  *)
(* account they refer to: a mix of these loads has more states and no      *)
(* other way for two calls to disturb each other.                          *)
(***************************************************************************)
EXTENDS StudentStoreMC

CONSTANTS u1, u2

VARIABLE load

\* The calls sent, their callers, and the accounts that may be deleted meanwhile.
Load ==
    {[calls |-> GoalCalls, callers |-> {u1, u2}, leaving |-> {u1, u2}],
     [calls |-> {"post_activity", "list_activities"}, callers |-> {u1}, leaving |-> {u1}],
     [calls |-> Replay, callers |-> {u1}, leaving |-> {}]}

\* Bound: a post is only sent while there is an id for its row.
Posting == {r \in Request : pc[r] # "idle" /\ call[r].endpoint = "post_activity"}
IdsSuffice == Cardinality(Posting) + Cardinality(activities) <= Cardinality(Id)

\* Bound: no snapshot is asked for a moment to come.
Dated(c) == c.endpoint = "snapshot" => c.as_of <= now

LoadInit == Init /\ load \in Load
LoadNext ==
    /\ Next
    /\ load' = load
    /\ \A r \in Request :
           call'[r] # call[r] =>
               /\ call'[r].endpoint \in load.calls /\ call'[r].caller \in load.callers
               /\ Dated(call'[r])
    /\ User \ accounts' \subseteq load.leaving
    /\ IdsSuffice'

LoadSpec ==
    /\ LoadInit /\ [][LoadNext]_<<vars, load>>
    /\ \A r \in Request : WF_vars(Step(r)) /\ SF_vars(UpsertGoal(r))
=============================================================================
