--------------------------- MODULE ValidationSuite ---------------------------
(***************************************************************************)
(* The synthetic suite (validation/runner): the scenarios of the manifest, *)
(* one after the other, each through a harness and a loop of its own, then *)
(* the dashboard.  A report is emptied when it is opened and written when  *)
(* it is closed; so is the dashboard.  What a scenario asks for is fixed,  *)
(* the state of its directory is not.                                      *)
(***************************************************************************)
EXTENDS Harness, AgentLoop

CONSTANTS
    Manifest,    \* the scenarios in the order of manifest.yaml
    Request,     \* the request of each
    Expected,    \* the expected_agents of its assertions
    Coverage,    \* the subsystems it covers
    Subsystem,   \* all_subsystems
    AuthIds      \* the request ids that contain "auth", of which plans speak

Scenario == {Manifest[i] : i \in DOMAIN Manifest}

ASSUME ManifestAssumption == Manifest \in Seq(Scenario) /\ Manifest # <<>>

\* manifest.yaml names no subsystem that report_generator does not list; coverage
\* is compared by number.
ASSUME CoverageAssumption ==
    IsFiniteSet(Subsystem) /\ \A s \in Scenario : Coverage[s] \subseteq Subsystem

\* sound; no directory; no request.json or assertions.yaml; one that does not
\* parse; no scenario.md; assertions that expect nobody.
Condition == {"ok", "missing", "incomplete", "unparsable", "undocumented", "unexpecting"}

VARIABLES
    scenario,    \* the condition of each scenario's directory
    suite,       \* the running suite
    reports,     \* reports/<id>_report.json
    dashboard    \* reports/dashboard.md

suiteVars == <<scenario, suite, reports, dashboard>>

NoReport == [agents |-> {}, iterations |-> 0, score |-> 0, status |-> "none"]
TornReport == [NoReport EXCEPT !.status = "torn"]
Dashboard(results, covered) == [results |-> results, covered |-> covered]
Nothing == Dashboard(<<>>, {})
IdleSuite == [at |-> "idle", todo |-> <<>>, results |-> <<>>]

Stages == {"idle", "scenarios", "iterating", "reporting", "dashboard", "writing"}
Results == Seq([id : Scenario, status : {"PASS", "FAIL", "ERROR"}])

SuiteTypeOK ==
    /\ scenario \in [Scenario -> Condition]
    /\ suite \in [at : Stages, todo : Seq(Scenario), results : Results]
    /\ DOMAIN reports = Scenario
    /\ \A s \in Scenario : reports[s].status \in {"none", "torn", "PASS", "FAIL"}
    /\ dashboard.results \in Results

SuiteInit ==
    /\ scenario = [s \in Scenario |-> "ok"]
    /\ suite = IdleSuite
    /\ reports = [s \in Scenario |-> NoReport]
    /\ dashboard = Nothing

Current == Head(suite.todo)

\* The result joins the list and the next scenario's turn comes.
Recorded(status) ==
    LET rest == Tail(suite.todo)
    IN  [at |-> IF rest = <<>> THEN "dashboard" ELSE "scenarios", todo |-> rest,
         results |-> Append(suite.results, [id |-> Current, status |-> status])]

StartSuite ==
    /\ suite.at = "idle"
    /\ suite' = [at |-> "scenarios", todo |-> Manifest, results |-> <<>>]
    /\ UNCHANGED <<scenario, reports, dashboard>>

\* run_single finds no directory and says so with a status and a message only.
MissScenario ==
    /\ suite.at = "scenarios" /\ scenario[Current] = "missing"
    /\ suite' = Recorded("ERROR")
    /\ UNCHANGED <<scenario, reports, dashboard, plans, loop>>

\* Mutant: the exception is reported and the scenario forgotten.
FailScenario_Dropped ==
    /\ suite.at = "scenarios" /\ scenario[Current] \in {"incomplete", "unparsable"}
    /\ suite' = [Recorded("FAIL") EXCEPT !.results = suite.results]
    /\ UNCHANGED <<scenario, reports, dashboard, plans, loop>>

\* run_single raises before anything is planned; main puts an entry together.
FailScenario ==
    /\ suite.at = "scenarios" /\ scenario[Current] \in {"incomplete", "unparsable"}
    /\ suite' = Recorded("FAIL")
    /\ UNCHANGED <<scenario, reports, dashboard, plans, loop>>

LoopModeOf(r) == IF "multiple" \in r.task THEN "Exhaustive" ELSE "Balanced"

\* A plan for the request, and a loop that is about to execute it.
Dispatch(cache, before, r, mode, present) ==
    LET plan == Executed(cache, r, present)
    IN  /\ plans' = Cached(cache, r, plan)
        /\ loop' = [FreshLoop(mode, plan.request_id \in AuthIds) EXCEPT
                        !.loop_count = before.loop_count, !.scores = before.scores]

BeginScenario(cache, before, present) ==
    /\ suite.at = "scenarios"
    /\ scenario[Current] \in {"ok", "undocumented", "unexpecting"}
    /\ Dispatch(cache, before, Request[Current], LoopModeOf(Request[Current]), present)
    /\ suite' = [suite EXCEPT !.at = "iterating"]
    /\ UNCHANGED <<scenario, reports, dashboard>>

NoIterations == FreshLoop("Balanced", FALSE)

\* Mutants: the harness, or the loop, is made once for the whole suite.
StartScenario_SharedHarness(present) == BeginScenario(plans, NoIterations, present)
StartScenario_SharedLoop(present) == BeginScenario(NoPlans, loop, present)
\* run_single makes both anew.
StartScenario(present) == BeginScenario(NoPlans, NoIterations, present)

IterateScenario ==
    /\ suite.at = "iterating"
    /\ \E late \in BOOLEAN : Iterate(late)
    /\ UNCHANGED <<suiteVars, plans>>

OpenReport ==
    /\ suite.at = "iterating" /\ ~ loop.running
    /\ reports' = [reports EXCEPT ![Current] = TornReport]
    /\ suite' = [suite EXCEPT !.at = "reporting"]
    /\ UNCHANGED <<scenario, dashboard, plans, loop>>

\* Of the assertions, one is judged: some expected agent was invoked.
CloseReport ==
    /\ suite.at = "reporting"
    /\ LET agents == plans[Request[Current].task].agents
           expected == IF scenario[Current] = "unexpecting" THEN {} ELSE Expected[Current]
           status == IF agents \cap expected # {} THEN "PASS" ELSE "FAIL"
       IN  /\ reports' = [reports EXCEPT ![Current] =
                  [agents |-> agents, iterations |-> Len(loop.scores),
                   score |-> loop.scores[Len(loop.scores)], status |-> status]]
           /\ suite' = Recorded(status)
    /\ UNCHANGED <<scenario, dashboard, plans, loop>>

Passed(results) == {results[i].id : i \in {j \in DOMAIN results : results[j].status = "PASS"}}
Covered(results) == UNION {Coverage[s] : s \in Passed(results)}

\* The rows of the dashboard are made of keys that an ERROR does not have.
RowsComplete == \A i \in DOMAIN suite.results : suite.results[i].status # "ERROR"

OpenDashboard ==
    /\ suite.at = "dashboard" /\ RowsComplete
    /\ dashboard' = Nothing
    /\ suite' = [suite EXCEPT !.at = "writing"]
    /\ UNCHANGED <<scenario, reports, plans, loop>>

\* How the suite ends: with an exception, which leaves the dashboard as it was
\* and prints none; or with the dashboard written and printed.
CrashSuite ==
    /\ suite.at = "dashboard" /\ ~ RowsComplete
    /\ suite' = IdleSuite
    /\ UNCHANGED <<scenario, reports, dashboard>>

FinishSuite ==
    /\ suite.at = "writing"
    /\ dashboard' = Dashboard(suite.results, Covered(suite.results))
    /\ suite' = IdleSuite
    /\ UNCHANGED <<scenario, reports>>

\* The exit status of a suite that finishes.
AllPassed ==
    /\ \A i \in DOMAIN suite.results : suite.results[i].status = "PASS"
    /\ Cardinality(Covered(suite.results)) >= Cardinality(Subsystem)

KillSuite ==
    /\ suite' = IdleSuite
    /\ UNCHANGED <<scenario, reports, dashboard>>

-----------------------------------------------------------------------------

\* Each scenario is routed by its own changed files, whatever ran before it,
\* however alike the tasks are (run_single makes a harness of its own, whose
\* plan cache is keyed by the task alone).
RoutedByItsOwnFiles ==
    \A s \in Scenario : reports[s].status \in {"PASS", "FAIL"} =>
        reports[s].agents = AgentsFor(Request[s])

\* Each scenario is scored on its own iterations: one that does not speak of
\* authentication succeeds at once, and one that does fails its first iteration
\* and no other (the counter and the history belong to the loop object).
ScoredOnItsOwnErrors ==
    \A s \in Scenario : reports[s].status \in {"PASS", "FAIL"} =>
        LET first == IF Request[s].id \in AuthIds THEN 55 ELSE 100
        IN  IF reports[s].iterations = 1 THEN reports[s].score = first
            ELSE reports[s].iterations = 2 /\ reports[s].score = 100 /\ first < 100
=============================================================================
