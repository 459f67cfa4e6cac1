------------------------------- MODULE AgentOS -------------------------------
(***************************************************************************)
(* The tools of the repository at work on one working tree: bootstrap and  *)
(* its self-test, the suite, the harness command line, and the CI baseline *)
(* check (.github/scripts/check_agentos_baseline.py), which runs three of  *)
(* them as processes and reads what they print.  One tool runs at a time,  *)
(* a step of it at a time, and may be killed after any step; between two   *)
(* tools the operator edits files or checks out another tree.  What the    *)
(* validator says follows from the tree, so that a run of it is one step.  *)
(***************************************************************************)
EXTENDS Bootstrap, ValidationSuite, Validator

CONSTANTS
    Trees,       \* [defects, declared]: what else is wrong with the tree, and
                 \* whom its agents' contracts say they escalate to
    MaxActs      \* bound: how often the operator acts

\* A scan counts, and there are finitely many contracts.
ASSUME TreeAssumption ==
    \A t \in Trees : t.defects \in [Defect -> Nat] /\ IsFiniteSet(DOMAIN t.declared)

VARIABLES
    tree,     \* the tree that is checked out
    tool,     \* the tool that runs
    check,    \* the baseline check: where it is, and has anything failed yet?
    answer,   \* the last tool's exit status, until the operator acts again
    acts      \* how often the operator has acted

vars == <<bootstrapVars, suiteVars, plans, loop, tree, tool, check, answer, acts>>

\* The last setup is remembered with its exit status.
AnswerOf(t, ok, of) == [tool |-> t, exit |-> IF ok THEN 0 ELSE 1, of |-> of]
Answer(t, ok) == AnswerOf(t, ok, IdleSetup)
NoAnswer == Answer("none", FALSE)
IdleCheck == [at |-> "idle", failed |-> FALSE]

TypeOK ==
    /\ BootstrapTypeOK
    /\ SuiteTypeOK
    /\ LoopTypeOK
    /\ tool \in {"none", "setup", "self-test", "suite", "engine", "check"}
    /\ check \in [at : {"idle", "self-test", "suite", "validator"}, failed : BOOLEAN]
    /\ answer.tool \in {"none", "setup", "self-test", "suite", "engine", "check"}
    /\ answer.exit \in {0, 1}

Init ==
    /\ BootstrapInit /\ SuiteInit /\ LoopInit
    /\ plans = NoPlans
    /\ tree \in Trees
    /\ tool = "none" /\ check = IdleCheck /\ answer = NoAnswer /\ acts = 0

\* All that the validator meets: what the tools and the operator made of the
\* files they write, and the rest of the tree.
Defects ==
    LET unready == {s \in Scenario : scenario[s] \in {"missing", "incomplete", "undocumented"}}
    IN  [k \in Defect |->
            IF k \in DOMAIN SetupDefects THEN SetupDefects[k]
            ELSE IF k = "escalation_cycle" THEN CyclesFound(EscalationMap(tree.declared))
            ELSE IF k = "incomplete_scenario" THEN Cardinality(unready)
            ELSE tree.defects[k]]

ProfilesVerified == tree.defects.missing_profile = 0
ManifestPresent == tree.defects.missing_manifest = 0
ContextPresent == {f \in File : file[f] # Absent}

-----------------------------------------------------------------------------
(* The operator *)

Act == tool = "none" /\ acts < MaxActs /\ acts' = acts + 1 /\ answer' = NoAnswer

EditFile ==
    /\ Act
    /\ \E f \in File, text \in {Edited, Absent} :
           file[f] # text /\ file' = [file EXCEPT ![f] = text]
    /\ UNCHANGED <<setup, sandbox, suiteVars, plans, loop, tree, tool, check>>

EditScenario ==
    /\ Act
    /\ \E s \in Scenario, c \in Condition :
           scenario[s] # c /\ scenario' = [scenario EXCEPT ![s] = c]
    /\ UNCHANGED <<bootstrapVars, suite, reports, dashboard, plans, loop, tree, tool, check>>

Checkout ==
    /\ Act
    /\ \E t \in Trees \ {tree} : tree' = t
    /\ UNCHANGED <<bootstrapVars, suiteVars, plans, loop, tool, check>>

RunSetup ==
    /\ Act
    /\ \E p \in Project, resume \in BOOLEAN : StartSetup(p, resume)
    /\ tool' = "setup"
    /\ UNCHANGED <<suiteVars, plans, loop, tree, check>>

\* An unknown --profile, a --config that is not there or does not parse, an
\* interrupt at a prompt: exit 1 with nothing written.
RefuseSetup ==
    /\ tool = "none" /\ acts < MaxActs
    /\ acts' = acts + 1 /\ answer' = Answer("setup", FALSE)
    /\ UNCHANGED <<bootstrapVars, suiteVars, plans, loop, tree, tool, check>>

RunSelfTest ==
    /\ Act
    /\ StartSelfTest
    /\ tool' = "self-test"
    /\ UNCHANGED <<suiteVars, plans, loop, tree, check>>

RunSuite ==
    /\ Act /\ ManifestPresent
    /\ StartSuite
    /\ tool' = "suite"
    /\ UNCHANGED <<bootstrapVars, plans, loop, tree, check>>

\* harness_engine: one request in any mode, one the policy lacks included.
RunEngine ==
    /\ Act
    /\ \E s \in Scenario, mode \in Mode :
           Dispatch(NoPlans, NoIterations, Request[s], mode, ContextPresent)
    /\ tool' = "engine"
    /\ UNCHANGED <<bootstrapVars, suiteVars, tree, check>>

RunCheck ==
    /\ Act
    /\ StartSelfTest
    /\ tool' = "check" /\ check' = [at |-> "self-test", failed |-> FALSE]
    /\ UNCHANGED <<suiteVars, plans, loop, tree>>

-----------------------------------------------------------------------------
(* The tools *)

SetupStep ==
    /\ \E f \in File : Preserve(f) \/ OpenForWriting(f) \/ CloseFile(f)
    /\ UNCHANGED <<suiteVars, plans, loop, tree, tool, check, answer, acts>>

FinishSetup ==
    /\ EndSetup
    /\ tool' = "none" /\ answer' = AnswerOf("setup", Passes(Defects), setup)
    /\ UNCHANGED <<suiteVars, plans, loop, tree, check, acts>>

FinishSelfTest ==
    /\ tool = "self-test"
    /\ EndSelfTest
    /\ tool' = "none" /\ answer' = Answer("self-test", ProfilesVerified)
    /\ UNCHANGED <<suiteVars, plans, loop, tree, check, acts>>

SuiteStep ==
    /\ \/ MissScenario \/ FailScenario \/ StartScenario(ContextPresent)
       \/ IterateScenario \/ OpenReport \/ CloseReport \/ OpenDashboard
    /\ UNCHANGED <<bootstrapVars, tree, tool, check, answer, acts>>

\* The process ends, and its harness and loop with it.
DropRuntimes == plans' = NoPlans /\ loop' = [NoIterations EXCEPT !.running = FALSE]

EndSuite ==
    /\ tool = "suite"
    /\ \/ CrashSuite /\ answer' = Answer("suite", FALSE)
       \/ FinishSuite /\ answer' = Answer("suite", AllPassed)
    /\ tool' = "none"
    /\ DropRuntimes
    /\ UNCHANGED <<bootstrapVars, tree, check, acts>>

EngineStep ==
    /\ tool = "engine"
    /\ \E late \in BOOLEAN : Iterate(late)
    /\ UNCHANGED <<bootstrapVars, suiteVars, plans, tree, tool, check, answer, acts>>

\* It prints "PASS" and exits with 0 whatever the score.
EndEngine ==
    /\ tool = "engine" /\ ~ loop.running
    /\ tool' = "none" /\ answer' = Answer("engine", TRUE)
    /\ DropRuntimes
    /\ UNCHANGED <<bootstrapVars, suiteVars, tree, check, acts>>

-----------------------------------------------------------------------------
(* The baseline check *)

MinGrade == 83
ExpectedScenarios == Len(Manifest)   \* 21 in the code, as many as its manifest has

\* The first process ends; the second starts, or finds no manifest and exits
\* with nothing that says PASS.
CheckSelfTest ==
    /\ tool = "check" /\ check.at = "self-test"
    /\ EndSelfTest
    /\ IF ManifestPresent
       THEN /\ StartSuite
            /\ check' = [at |-> "suite", failed |-> ~ ProfilesVerified]
       ELSE /\ check' = [at |-> "validator", failed |-> TRUE]
            /\ UNCHANGED suiteVars
    /\ UNCHANGED <<plans, loop, tree, tool, answer, acts>>

\* Mutants: the outcome of the suite replaces what is known so far; a suite
\* that failed is run again.
CheckSuite_Forgets ==
    /\ tool = "check" /\ check.at = "suite"
    /\ \/ CrashSuite /\ check' = [at |-> "validator", failed |-> TRUE]
       \/ /\ FinishSuite
          /\ check' = [at |-> "validator",
                       failed |-> Cardinality(Passed(suite.results)) # ExpectedScenarios]
    /\ DropRuntimes
    /\ UNCHANGED <<bootstrapVars, tree, tool, answer, acts>>

CheckSuite_Retries ==
    /\ tool = "check" /\ check.at = "suite"
    /\ suite.at = "dashboard" \/ suite.at = "writing"
    /\ IF RowsComplete /\ AllPassed
       THEN FinishSuite /\ check' = [check EXCEPT !.at = "validator"]
       ELSE /\ suite' = [IdleSuite EXCEPT !.at = "scenarios", !.todo = Manifest]
            /\ UNCHANGED <<scenario, reports, dashboard, check>>
    /\ DropRuntimes
    /\ UNCHANGED <<bootstrapVars, tree, tool, answer, acts>>

\* The rows that say PASS are counted in what was printed.
CheckSuite ==
    /\ tool = "check" /\ check.at = "suite"
    /\ \/ CrashSuite /\ check' = [at |-> "validator", failed |-> TRUE]
       \/ /\ FinishSuite
          /\ check' = [at |-> "validator",
                       failed |-> check.failed \/
                           Cardinality(Passed(suite.results)) # ExpectedScenarios]
    /\ DropRuntimes
    /\ UNCHANGED <<bootstrapVars, tree, tool, answer, acts>>

\* The grade and the broken references are read; the validator's own verdict is
\* not, nor any exit status.
CheckGrade ==
    /\ tool = "check" /\ check.at = "validator"
    /\ LET sound == OverallGrade(Defects) >= MinGrade /\ Defects.broken_link = 0
       IN  answer' = Answer("check", sound /\ ~ check.failed)
    /\ tool' = "none" /\ check' = IdleCheck
    /\ UNCHANGED <<bootstrapVars, suiteVars, plans, loop, tree, acts>>

-----------------------------------------------------------------------------

Operate ==
    \/ EditFile \/ EditScenario \/ Checkout \/ RunSetup \/ RefuseSetup
    \/ RunSelfTest \/ RunSuite \/ RunEngine \/ RunCheck

ToolStep ==
    \/ SetupStep \/ FinishSetup \/ FinishSelfTest \/ SuiteStep \/ EndSuite
    \/ EngineStep \/ EndEngine \/ CheckSelfTest \/ CheckSuite \/ CheckGrade

\* Whatever runs dies where it stands; the files stay as they are.
Kill ==
    /\ tool # "none"
    /\ IF setup.at # "idle" THEN KillSetup ELSE UNCHANGED bootstrapVars
    /\ KillSuite
    /\ DropRuntimes
    /\ tool' = "none" /\ check' = IdleCheck
    /\ UNCHANGED <<tree, answer, acts>>

Next == Operate \/ ToolStep \/ Kill

Spec == Init /\ [][Next]_vars

\* A process that runs is scheduled; nobody has to start one, or kill it.
LiveSpec == Spec /\ WF_vars(ToolStep)

-----------------------------------------------------------------------------

\* An agent is reported only if its escalations never end, cycles it leads into
\* but is no part of included; and the only agents whose escalations never end
\* and that are not reported are those whose way goes through the orchestrator or
\* the chief architect, where the walk stops (validate_dependency).
EscalationCyclesAreFound ==
    LET map == EscalationMap(tree.declared)
    IN  \A a \in DOMAIN map :
            /\ CycleFound(map, a) => NeverResolves(map, a)
            /\ NeverResolves(map, a) /\ ~ CycleFound(map, a) =>
                   \A ring \in SUBSET DOMAIN map :
                       a \in ring /\ IsRing(map, ring) => ring \cap FinalAuthority # {}

\* A setup that succeeds leaves the configuration of its project, complete, and
\* both context files; after a resume none of these is the empty file that a
\* killed setup left behind (main and initialize_context; without --resume such
\* a file is taken for the user's).
SuccessfulSetupIsComplete ==
    answer.tool = "setup" /\ answer.exit = 0 =>
        /\ file["config"] = answer.of.project
        /\ \A f \in Context :
               file[f] # Absent /\ (answer.of.resume => file[f] # Empty)

\* What BOOTSTRAP.md says of --resume ("Re-runs setup without overwriting existing
\* context/ files") and initialize_context of itself ("non-destructively"): no
\* setup replaces a context file that has a text.  A resume replaces both.
SetupKeepsContext ==
    [][\A f \in Context :
          tool = "setup" /\ file[f] \notin {Absent, Empty} => file'[f] = file[f]]_vars

\* When the suite reports success, every scenario of the manifest has a complete
\* report that says PASS, the dashboard on the disk lists them all, and every
\* subsystem is covered (execute_suite main).
SuccessIsOnDisk ==
    answer = Answer("suite", TRUE) =>
        /\ \A s \in Scenario : reports[s].status = "PASS"
        /\ Passed(dashboard.results) = Scenario /\ dashboard.covered = Subsystem

\* A green baseline check means: no broken reference, every profile, every
\* expected scenario passed and is in the dashboard, and at most three of the
\* eighteen categories of the validator are dead.
GreenBoundsTheDamage ==
    answer = Answer("check", TRUE) =>
        /\ tree.defects.broken_link = 0 /\ ProfilesVerified
        /\ Cardinality(Passed(dashboard.results)) = ExpectedScenarios
        /\ \A s \in Scenario : reports[s].status = "PASS"
        /\ Cardinality({c \in Category : Score(c, Defects) = 0}) <= 3

\* Every tool that is started ends.
ToolsFinish == tool # "none" ~> tool = "none"

-----------------------------------------------------------------------------
(* The inductive invariant *)

\* A bootstrap at work is the setup's or a self-test's, a suite at work is its
\* own or the check's, and no tool that runs leaves an answer of the last one.
OneTool ==
    /\ setup.at \in File \cup {"validate"} => tool = "setup"
    /\ setup.at = "sandbox" => tool = "self-test" \/ (tool = "check" /\ check.at = "self-test")
    /\ suite.at # "idle" => tool = "suite" \/ (tool = "check" /\ check.at = "suite")
    /\ tool # "none" => answer = NoAnswer

\* What the setup has come past: the configuration is its project's, and a
\* context file is there and, if it resumes, not left empty.
Ready(f) == file[f] # Absent /\ (setup.resume => file[f] # Empty)
SetupInv ==
    /\ setup.open => setup.at \in File
    /\ setup.at \in {"vision", "state", "validate"} => file["config"] = setup.project
    /\ setup.at \in {"state", "validate"} => Ready("vision")
    /\ setup.at = "validate" => Ready("state")

\* A suite that is not past its scenarios has one, and the plan at hand is that
\* of this scenario.
PlanInv ==
    /\ suite.at \in {"scenarios", "iterating", "reporting"} => suite.todo # <<>>
    /\ suite.at \in {"iterating", "reporting"} =>
           plans[Request[Current].task].agents = AgentsFor(Request[Current])

\* A loop that runs has turns left and has not met its target.
LoopInv ==
    loop.running =>
        /\ loop.loop_count < Rules(loop.mode).max_loops
        /\ \A i \in 1..Len(loop.scores) : loop.scores[i] < Rules(loop.mode).target_score

\* The loop of a scenario has met the errors of this scenario's plan and no
\* others, in its first iteration; its report is written when it has ended.
ScoresOf(auth, running) ==
    IF auth THEN IF running THEN {<<>>, <<55>>} ELSE {<<55>>, <<55, 100>>}
    ELSE IF running THEN {<<>>} ELSE {<<100>>}
ScoreInv ==
    suite.at \in {"iterating", "reporting"} =>
        /\ loop.mode \in {"Balanced", "Exhaustive"}
        /\ loop.auth = (Request[Current].id \in AuthIds)
        /\ loop.scores \in ScoresOf(loop.auth, loop.running)
        /\ suite.at = "reporting" => ~ loop.running

\* The results are those of the manifest up to here, and what is left is its
\* rest; while nothing has failed, the reports of what has been done say PASS,
\* but for the one that is being written again.
Aligned(results, todo) ==
    /\ Len(results) + Len(todo) = Len(Manifest)
    /\ \A i \in DOMAIN results : results[i].id = Manifest[i]
    /\ \A i \in DOMAIN todo : todo[i] = Manifest[Len(results) + i]
Unfailed(results) == \A i \in DOMAIN results : results[i].status = "PASS"
ResultInv ==
    suite.at # "idle" =>
        /\ Aligned(suite.results, suite.todo)
        /\ suite.at \in {"dashboard", "writing"} => suite.todo = <<>>
        /\ Unfailed(suite.results) =>
               \A i \in DOMAIN suite.results :
                   \/ reports[Manifest[i]].status = "PASS"
                   \/ suite.at = "reporting" /\ Manifest[i] = Current

\* A check that has not failed has seen the profiles, and then a suite of which
\* every scenario passed.
AllOnDisk ==
    /\ Cardinality(Passed(dashboard.results)) = ExpectedScenarios
    /\ \A s \in Scenario : reports[s].status = "PASS"
CheckInv ==
    /\ check.at # "idle" => tool = "check"
    /\ check.at \in {"suite", "validator"} /\ ~ check.failed => ProfilesVerified
    /\ check.at = "validator" /\ ~ check.failed => AllOnDisk

\* What setups, plans, loops, suites and checks are at every step; all that is
\* said above about single states follows (see AgentOSProofs).
AgentInv ==
    /\ TypeOK /\ tree \in Trees /\ OneTool
    /\ SetupInv /\ SuccessfulSetupIsComplete
    /\ PlanInv /\ RoutedByItsOwnFiles
    /\ LoopInv /\ LoopStopsInTime
    /\ ScoreInv /\ ScoredOnItsOwnErrors
    /\ ResultInv /\ SuccessIsOnDisk
    /\ CheckInv /\ GreenBoundsTheDamage
=============================================================================
