------------------------------ MODULE AgentLoop ------------------------------
(***************************************************************************)
(* The refinement loop (runtime/loop).  An iteration is one step: it is    *)
(* counted, scored and logged, then the limits and the scores decide       *)
(* whether it was the last.  The clock enters as the choice whether the    *)
(* time limit has passed when an iteration is judged.  The strategy an     *)
(* iteration ends with is printed and changes nothing.                     *)
(***************************************************************************)
EXTENDS Integers, Sequences

VARIABLE loop   \* the LoopRuntime at hand and its running call

\* runtime/policies/termination.yaml; a mode it does not list gets the defaults.
LoopModes ==
    [Fast |-> [max_loops |-> 2, target_score |-> 80],
     Balanced |-> [max_loops |-> 3, target_score |-> 85],
     Exhaustive |-> [max_loops |-> 5, target_score |-> 95],
     Research |-> [max_loops |-> 8, target_score |-> 90],
     Production |-> [max_loops |-> 10, target_score |-> 100]]
Mode == DOMAIN LoopModes \cup {"Custom"}
Rules(mode) ==
    IF mode \in DOMAIN LoopModes THEN LoopModes[mode] ELSE [max_loops |-> 3, target_score |-> 85]

Reason ==
    {"MAX_LOOPS_EXCEEDED", "TIMEOUT_TRIGGERED", "TARGET_QUALITY_ACHIEVED",
     "NEGLIGIBLE_IMPROVEMENT", "CONTINUE"}

LoopTypeOK ==
    loop \in [running : BOOLEAN, mode : Mode, auth : BOOLEAN, loop_count : Nat,
              scores : Seq(0..100), reason : Reason]

\* LoopRuntime.__init__, then execute_loop with a plan that mentions auth or not.
FreshLoop(mode, auth) ==
    [running |-> TRUE, mode |-> mode, auth |-> auth, loop_count |-> 0, scores |-> <<>>,
     reason |-> "CONTINUE"]

LoopInit == loop = [FreshLoop("Balanced", FALSE) EXCEPT !.running = FALSE]

\* QualityEvaluator.evaluate
ScoreOf(errors) ==
    100 - (IF errors > 0 THEN 30 ELSE 0) - (IF 15 * errors > 50 THEN 50 ELSE 15 * errors)

\* IterationController.log_iteration; the deltas it records follow from the scores.
Logged(scores, score) == Append(scores, score)

\* ExecutionMonitor.evaluate_limits: the count is looked at before the clock.
LimitStatus(count, mode, late) ==
    IF count >= Rules(mode).max_loops THEN "max_loops_exceeded"
    ELSE IF late THEN "timeout_triggered" ELSE "OK"

\* Mutant: quality is judged by the score before the last.
Termination_Lagging(status, scores, mode) ==
    LET n == Len(scores)
    IN  IF status = "max_loops_exceeded" THEN "MAX_LOOPS_EXCEEDED"
        ELSE IF status = "timeout_triggered" THEN "TIMEOUT_TRIGGERED"
        ELSE IF n >= 2 /\ scores[IF n >= 2 THEN n - 1 ELSE n] >= Rules(mode).target_score
        THEN "TARGET_QUALITY_ACHIEVED"
        ELSE "CONTINUE"

\* LoopTermination.check_termination
Termination(status, scores, mode) ==
    LET n == Len(scores)
    IN  IF status = "max_loops_exceeded" THEN "MAX_LOOPS_EXCEEDED"
        ELSE IF status = "timeout_triggered" THEN "TIMEOUT_TRIGGERED"
        ELSE IF scores[n] >= Rules(mode).target_score THEN "TARGET_QUALITY_ACHIEVED"
        ELSE IF n >= 2 /\ scores[n] - scores[IF n >= 2 THEN n - 1 ELSE n] <= 0 /\ scores[n] > 60
        THEN "NEGLIGIBLE_IMPROVEMENT"
        ELSE "CONTINUE"

\* One turn of execute_loop's while.  The first one fails if the plan is about
\* authentication.
Iterate(late) ==
    /\ loop.running
    /\ LET count == loop.loop_count + 1
           errors == IF count = 1 /\ loop.auth THEN 1 ELSE 0
           scores == Logged(loop.scores, ScoreOf(errors))
           reason == Termination(LimitStatus(count, loop.mode, late), scores, loop.mode)
       IN  loop' = [loop EXCEPT !.loop_count = count, !.scores = scores, !.reason = reason,
                                !.running = (reason = "CONTINUE")]

\* A loop ends with the first iteration that meets its mode's target and never
\* runs more iterations than its mode allows, whatever the clock does
\* (ADR-0047: "halt loop immediately when quality target matches").
LoopStopsInTime ==
    /\ loop.loop_count = Len(loop.scores) /\ loop.loop_count <= Rules(loop.mode).max_loops
    /\ \A i \in 1..Len(loop.scores) - 1 : loop.scores[i] < Rules(loop.mode).target_score
=============================================================================
