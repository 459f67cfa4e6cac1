--------------------------- MODULE StudentStoreMC ---------------------------
(* Instances of StudentStore for TLC. *)
EXTENDS StudentStore, TLC

RequestSymmetry == Permutations(Request)
Replay == {"post_activity", "snapshot"}
GoalCalls == {"put_goal", "get_goal"}
=============================================================================
