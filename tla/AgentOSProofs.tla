----------------------------- MODULE AgentOSProofs -----------------------------
(***************************************************************************)
(* Proofs about AgentOS, for every set of projects, trees, scenarios and   *)
(* requests: AgentInv is inductive.  Its parts are taken one by one, each  *)
(* after a lemma that says how a step can change the state it is about.    *)
(***************************************************************************)
EXTENDS AgentOS, FiniteSums, SequenceTheorems

-----------------------------------------------------------------------------
(* The steps of bootstrap *)

UserEdits ==
    /\ tool = "none"
    /\ \E f \in File, text \in {Edited, Absent} : file' = [file EXCEPT ![f] = text]
    /\ setup' = setup /\ sandbox' = sandbox

\* What a step can do to the files and to a bootstrap.
LEMMA BootstrapSteps ==
    ASSUME [Next]_vars
    PROVE  \/ UNCHANGED bootstrapVars
           \/ UserEdits
           \/ \E p \in Project, resume \in BOOLEAN : StartSetup(p, resume)
           \/ \E f \in File : Preserve(f) \/ OpenForWriting(f) \/ CloseFile(f)
           \/ EndSetup \/ StartSelfTest \/ EndSelfTest \/ KillSetup
<1> DEFINE P == \/ UNCHANGED bootstrapVars
                \/ UserEdits
                \/ \E p \in Project, resume \in BOOLEAN : StartSetup(p, resume)
                \/ \E f \in File : Preserve(f) \/ OpenForWriting(f) \/ CloseFile(f)
                \/ EndSetup \/ StartSelfTest \/ EndSelfTest \/ KillSetup
<1>1. EditFile => P
    BY DEF EditFile, Act, UserEdits
<1>2. RunSetup => P
    BY DEF RunSetup
<1>3. EditScenario \/ Checkout \/ RefuseSetup \/ RunSuite \/ RunEngine \/ SuiteStep
      \/ EndSuite \/ EngineStep \/ EndEngine \/ CheckSuite \/ CheckGrade \/ UNCHANGED vars
      => P
    BY DEF EditScenario, Checkout, RefuseSetup, RunSuite, RunEngine, SuiteStep, EndSuite,
           EngineStep, EndEngine, CheckSuite, CheckGrade, vars, bootstrapVars
<1>4. RunSelfTest \/ RunCheck \/ SetupStep \/ FinishSetup \/ FinishSelfTest
      \/ CheckSelfTest \/ Kill => P
    BY DEF RunSelfTest, RunCheck, SetupStep, FinishSetup, FinishSelfTest, CheckSelfTest, Kill
<1> HIDE DEF P
<1>5. P
    BY <1>1, <1>2, <1>3, <1>4 DEF Next, Operate, ToolStep
<1>6. QED
    BY <1>5 DEF P

\* The files hold texts, and the bootstrap is at a stage it knows.
LEMMA BootstrapTypes ==
    ASSUME BootstrapTypeOK, [Next]_vars
    PROVE  BootstrapTypeOK'
<1>1. IdleSetup \in [at : Stage, open : BOOLEAN, project : Project, resume : BOOLEAN]
    <2>1. setup.project \in Project
        BY DEF BootstrapTypeOK
    <2>2. (CHOOSE p \in Project : TRUE) \in Project
        BY <2>1
    <2>3. QED
        BY <2>2 DEF IdleSetup, Stage
<1> USE DEF BootstrapTypeOK, Stage, File
<1>2. CASE UNCHANGED bootstrapVars
    BY <1>2 DEF bootstrapVars
<1>3. CASE UserEdits
    BY <1>3 DEF UserEdits
<1>4. CASE \E p \in Project, resume \in BOOLEAN : StartSetup(p, resume)
    BY <1>4 DEF StartSetup
<1>5. CASE \E f \in File : Preserve(f) \/ OpenForWriting(f) \/ CloseFile(f)
    <2>1. PICK f \in File : Preserve(f) \/ OpenForWriting(f) \/ CloseFile(f)
        BY <1>5
    <2>2. NextStage[f] \in Stage
        BY <2>1 DEF NextStage
    <2>3. CASE Preserve(f)
        BY <2>2, <2>3 DEF Preserve
    <2>4. CASE OpenForWriting(f)
        BY <2>4 DEF OpenForWriting
    <2>5. CASE CloseFile(f)
        BY <2>2, <2>5 DEF CloseFile
    <2>6. QED
        BY <2>1, <2>3, <2>4, <2>5
<1>6. CASE EndSetup \/ KillSetup
    BY <1>1, <1>6 DEF EndSetup, KillSetup
<1>7. CASE StartSelfTest \/ EndSelfTest
    BY <1>7 DEF StartSelfTest, EndSelfTest
<1>8. QED
    BY <1>2, <1>3, <1>4, <1>5, <1>6, <1>7, BootstrapSteps

-----------------------------------------------------------------------------
(* The steps of the suite *)

HasWork == suite.at \in {"scenarios", "iterating", "reporting"} => suite.todo # <<>>

\* What a step can do to the suite.
LEMMA SuiteSteps ==
    ASSUME [Next]_vars
    PROVE  \/ UNCHANGED suiteVars
           \/ tool = "none" /\ EditScenario
           \/ StartSuite \/ MissScenario \/ FailScenario \/ StartScenario(ContextPresent)
           \/ OpenReport \/ CloseReport \/ OpenDashboard
           \/ CrashSuite \/ FinishSuite \/ KillSuite
<1> DEFINE P == \/ UNCHANGED suiteVars
                \/ tool = "none" /\ EditScenario
                \/ StartSuite \/ MissScenario \/ FailScenario \/ StartScenario(ContextPresent)
                \/ OpenReport \/ CloseReport \/ OpenDashboard
                \/ CrashSuite \/ FinishSuite \/ KillSuite
<1>1. EditScenario => P
    BY DEF EditScenario, Act
<1>2. SuiteStep => P
    BY DEF SuiteStep, IterateScenario
<1>3. EditFile \/ Checkout \/ RunSetup \/ RefuseSetup \/ RunSelfTest \/ RunEngine
      \/ RunCheck \/ SetupStep \/ FinishSetup \/ FinishSelfTest \/ EngineStep \/ EndEngine
      \/ CheckGrade \/ UNCHANGED vars => P
    BY DEF EditFile, Checkout, RunSetup, RefuseSetup, RunSelfTest, RunEngine, RunCheck,
           SetupStep, FinishSetup, FinishSelfTest, EngineStep, EndEngine, CheckGrade, vars,
           suiteVars
<1>4. RunSuite \/ EndSuite \/ CheckSelfTest \/ CheckSuite \/ Kill => P
    BY DEF RunSuite, EndSuite, CheckSelfTest, CheckSuite, Kill, suiteVars
<1> HIDE DEF P
<1>5. P
    BY <1>1, <1>2, <1>3, <1>4 DEF Next, Operate, ToolStep
<1>6. QED
    BY <1>5 DEF P

\* What a suite records is a result of a scenario, and what it has left to do
\* is scenarios.
LEMMA RecordedTypes ==
    ASSUME SuiteTypeOK, HasWork, suite.at \in {"scenarios", "reporting"},
           NEW status \in {"PASS", "FAIL", "ERROR"}
    PROVE  /\ Recorded(status) \in [at : Stages, todo : Seq(Scenario), results : Results]
           /\ Recorded(status).at = "scenarios" => Recorded(status).todo # <<>>
           /\ Recorded(status).at \in {"scenarios", "dashboard"}
           /\ Current \in Scenario
<1>1. suite.todo \in Seq(Scenario) /\ suite.todo # <<>> /\ suite.results \in Results
    BY DEF SuiteTypeOK, HasWork
<1>2. Current \in Scenario /\ Tail(suite.todo) \in Seq(Scenario)
    BY <1>1 DEF Current
<1>3. [id |-> Current, status |-> status] \in [id : Scenario, status : {"PASS", "FAIL", "ERROR"}]
    BY <1>2
<1>4. Append(suite.results, [id |-> Current, status |-> status]) \in Results
    BY <1>1, <1>3 DEF Results
<1>5. QED
    BY <1>2, <1>4 DEF Recorded, Stages

\* The suite is at a stage it knows, and has a scenario while it needs one.
LEMMA SuiteTypes ==
    ASSUME SuiteTypeOK, HasWork, [Next]_vars
    PROVE  SuiteTypeOK' /\ HasWork'
<1>1. <<>> \in Seq(Scenario) /\ <<>> \in Results
    BY DEF Results
<1> USE DEF SuiteTypeOK, HasWork
<1>2. CASE UNCHANGED suiteVars
    BY <1>2 DEF suiteVars
<1>3. CASE tool = "none" /\ EditScenario
    BY <1>3 DEF EditScenario
<1>4. CASE StartSuite
    BY <1>1, <1>4, ManifestAssumption DEF StartSuite, Stages
<1>5. CASE MissScenario \/ FailScenario
    <2>1. PICK status \in {"FAIL", "ERROR"} : suite' = Recorded(status) /\ suite.at = "scenarios"
        BY <1>5 DEF MissScenario, FailScenario
    <2>2. UNCHANGED <<scenario, reports, dashboard>>
        BY <1>5 DEF MissScenario, FailScenario
    <2>3. QED
        BY <2>1, <2>2, RecordedTypes
<1>6. CASE StartScenario(ContextPresent)
    BY <1>6 DEF StartScenario, BeginScenario, Stages
<1>7. CASE OpenReport
    BY <1>7 DEF OpenReport, TornReport, NoReport, Stages
<1>8. CASE CloseReport
    <2>1. PICK status \in {"PASS", "FAIL"} :
              /\ suite' = Recorded(status)
              /\ \E report : /\ report.status = status
                            /\ reports' = [reports EXCEPT ![Current] = report]
        <3>1. PICK status \in {"PASS", "FAIL"} :
                  /\ suite' = Recorded(status)
                  /\ reports' = [reports EXCEPT ![Current] =
                         [agents |-> plans[Request[Current].task].agents,
                          iterations |-> Len(loop.scores),
                          score |-> loop.scores[Len(loop.scores)], status |-> status]]
            BY <1>8 DEF CloseReport
        <3>2. QED
            BY <3>1
    <2>2. suite.at = "reporting" /\ UNCHANGED <<scenario, dashboard>>
        BY <1>8 DEF CloseReport
    <2>3. QED
        BY <2>1, <2>2, RecordedTypes
<1>9. CASE OpenDashboard
    BY <1>1, <1>9 DEF OpenDashboard, Nothing, Dashboard, Stages
<1>10. CASE CrashSuite \/ FinishSuite \/ KillSuite
    <2>1. suite' = IdleSuite /\ UNCHANGED <<scenario, reports>>
        BY <1>10 DEF CrashSuite, FinishSuite, KillSuite
    <2>2. dashboard' = dashboard \/ dashboard'.results = suite.results
        BY <1>10 DEF CrashSuite, FinishSuite, KillSuite, Dashboard
    <2>3. IdleSuite \in [at : Stages, todo : Seq(Scenario), results : Results]
        BY <1>1 DEF IdleSuite, Stages
    <2>4. suite.results \in Results
        OBVIOUS
    <2>5. dashboard'.results \in Results
        BY <2>2, <2>4
    <2>6. QED
        BY <2>1, <2>3, <2>5 DEF IdleSuite
<1>11. QED
    BY <1>2, <1>3, <1>4, <1>5, <1>6, <1>7, <1>8, <1>9, <1>10, SuiteSteps

-----------------------------------------------------------------------------
(* One tool at a time *)

ToolTypeOK ==
    /\ tool \in {"none", "setup", "self-test", "suite", "engine", "check"}
    /\ check \in [at : {"idle", "self-test", "suite", "validator"}, failed : BOOLEAN]
    /\ answer.tool \in {"none", "setup", "self-test", "suite", "engine", "check"}
    /\ answer.exit \in {0, 1}

\* What the parts of AgentInv about single tools rest on.
ToolInv ==
    /\ BootstrapTypeOK
    /\ SuiteTypeOK
    /\ HasWork
    /\ ToolTypeOK
    /\ OneTool

\* The states of the baseline check.
LEMMA CheckAt ==
    ASSUME NEW at \in {"idle", "self-test", "suite", "validator"}, NEW failed \in BOOLEAN
    PROVE  [at |-> at, failed |-> failed]
               \in [at : {"idle", "self-test", "suite", "validator"}, failed : BOOLEAN]
    OBVIOUS

\* Nothing runs at first.
LEMMA ToolInit == Init => ToolInv
<1> SUFFICES ASSUME Init PROVE ToolInv
    OBVIOUS
<1>1. BootstrapTypeOK
    <2>1. IdleSetup.project \in Project
        BY BootstrapAssumption DEF IdleSetup
    <2>2. IdleSetup \in [at : Stage, open : BOOLEAN, project : Project, resume : BOOLEAN]
        BY <2>1 DEF IdleSetup, Stage
    <2>3. QED
        BY <2>2 DEF Init, BootstrapInit, BootstrapTypeOK
<1>2. SuiteTypeOK /\ HasWork
    <2>1. <<>> \in Seq(Scenario) /\ <<>> \in Results
        BY DEF Results
    <2>2. IdleSuite \in [at : Stages, todo : Seq(Scenario), results : Results]
        BY <2>1 DEF IdleSuite, Stages
    <2>3. suite = IdleSuite /\ scenario \in [Scenario -> Condition]
        BY DEF Init, SuiteInit, Condition
    <2>4. DOMAIN reports = Scenario /\ \A s \in Scenario : reports[s].status = "none"
        BY DEF Init, SuiteInit, NoReport
    <2>5. dashboard.results = <<>>
        BY DEF Init, SuiteInit, Nothing, Dashboard
    <2>6. QED
        BY <2>1, <2>2, <2>3, <2>4, <2>5 DEF SuiteTypeOK, HasWork, IdleSuite
<1>3. ToolTypeOK /\ OneTool
    BY DEF Init, BootstrapInit, SuiteInit, IdleSetup, IdleSuite, IdleCheck, NoAnswer, Answer,
           AnswerOf, ToolTypeOK, OneTool, File
<1>4. QED
    BY <1>1, <1>2, <1>3 DEF ToolInv

\* A tool is started when none runs, and its parts end with it.
LEMMA OneToolStep ==
    ASSUME ToolInv, [Next]_vars
    PROVE  ToolTypeOK' /\ OneTool'
<1> DEFINE P == ToolTypeOK' /\ OneTool'
<1>a. /\ setup.at \in Stage
      /\ setup \in [at : Stage, open : BOOLEAN, project : Project, resume : BOOLEAN]
    BY DEF ToolInv, BootstrapTypeOK
<1>b. suite \in [at : Stages, todo : Seq(Scenario), results : Results]
    BY DEF ToolInv, SuiteTypeOK
<1>c. ToolTypeOK /\ OneTool
    BY DEF ToolInv
<1> USE <1>c DEF ToolTypeOK, OneTool, File, NoAnswer, Answer, AnswerOf
<1>1. EditFile => P
    BY DEF EditFile, Act, suiteVars
<1>2. EditScenario => P
    BY DEF EditScenario, Act, bootstrapVars
<1>3. Checkout => P
    BY DEF Checkout, Act, bootstrapVars, suiteVars
<1>4. RunSetup => P
    BY DEF RunSetup, Act, StartSetup, suiteVars
<1>5. RefuseSetup => P
    BY DEF RefuseSetup, bootstrapVars, suiteVars
<1>6. RunSelfTest => P
    BY <1>a DEF RunSelfTest, Act, StartSelfTest, suiteVars
<1>7. RunSuite => P
    BY DEF RunSuite, Act, StartSuite, bootstrapVars
<1>8. RunEngine => P
    BY DEF RunEngine, Act, bootstrapVars, suiteVars
<1>9. RunCheck => P
    BY <1>a DEF RunCheck, Act, StartSelfTest, suiteVars
<1>10. SetupStep => P
    <2> SUFFICES ASSUME SetupStep PROVE P
        OBVIOUS
    <2>1. PICK f \in File : Preserve(f) \/ OpenForWriting(f) \/ CloseFile(f)
        BY DEF SetupStep
    <2>2. setup.at \in File /\ setup'.at \in File \cup {"validate"}
        <3>1. NextStage[f] \in File \cup {"validate"} /\ setup.at = f
            BY <2>1 DEF NextStage, Preserve, OpenForWriting, CloseFile
        <3>2. setup'.at \in {NextStage[f], setup.at}
            BY <1>a, <2>1 DEF Preserve, OpenForWriting, CloseFile
        <3>3. QED
            BY <3>1, <3>2
    <2>3. UNCHANGED <<suite, tool, check, answer>>
        BY DEF SetupStep, suiteVars
    <2>4. QED
        BY <2>2, <2>3
<1>11. FinishSetup => P
    BY DEF FinishSetup, EndSetup, IdleSetup, suiteVars
<1>12. FinishSelfTest => P
    BY <1>a DEF FinishSelfTest, EndSelfTest, suiteVars
<1>13. SuiteStep => P
    <2> SUFFICES ASSUME SuiteStep PROVE P
        OBVIOUS
    <2>1. suite.at # "idle"
        BY DEF SuiteStep, MissScenario, FailScenario, StartScenario, BeginScenario,
               IterateScenario, OpenReport, CloseReport, OpenDashboard
    <2>2. UNCHANGED <<setup, tool, check, answer>>
        BY DEF SuiteStep, bootstrapVars
    <2>3. QED
        BY <2>1, <2>2
<1>14. EndSuite => P
    <2> SUFFICES ASSUME EndSuite PROVE P
        OBVIOUS
    <2>1. suite.at # "idle" /\ suite'.at = "idle" /\ tool = "suite"
        BY DEF EndSuite, CrashSuite, FinishSuite, IdleSuite
    <2>2. UNCHANGED <<setup, check>> /\ tool' = "none"
        BY DEF EndSuite, bootstrapVars
    <2>3. answer'.tool = "suite" /\ answer'.exit \in {0, 1}
        BY DEF EndSuite
    <2>4. QED
        BY <2>1, <2>2, <2>3
<1>15. EngineStep => P
    BY DEF EngineStep, bootstrapVars, suiteVars
<1>16. EndEngine => P
    BY DEF EndEngine, bootstrapVars, suiteVars
<1>17. CheckSelfTest => P
    <2> SUFFICES ASSUME CheckSelfTest PROVE P
        OBVIOUS
    <2>1. setup'.at = "idle" /\ tool = "check"
        BY <1>a DEF CheckSelfTest, EndSelfTest
    <2>2. suite' = suite \/ check'.at = "suite"
        BY DEF CheckSelfTest, suiteVars
    <2>3. UNCHANGED <<tool, answer>> /\ check.at = "self-test"
        BY DEF CheckSelfTest
    <2>4. check' \in [at : {"idle", "self-test", "suite", "validator"}, failed : BOOLEAN]
        <3> DEFINE failed == ~ ProfilesVerified
        <3>1. failed \in BOOLEAN
            OBVIOUS
        <3>2. \/ check' = [at |-> "suite", failed |-> failed]
              \/ check' = [at |-> "validator", failed |-> TRUE]
            BY Zenon DEF CheckSelfTest
        <3> HIDE DEF failed
        <3>3. QED
            BY <3>1, <3>2, CheckAt
    <2>5. QED
        BY <2>1, <2>2, <2>3, <2>4
<1>18. CheckSuite => P
    <2> SUFFICES ASSUME CheckSuite PROVE P
        OBVIOUS
    <2>1. suite'.at = "idle"
        BY DEF CheckSuite, CrashSuite, FinishSuite, IdleSuite
    <2>2. UNCHANGED <<setup, tool, answer>> /\ tool = "check" /\ check.at = "suite"
        BY DEF CheckSuite, bootstrapVars
    <2>3. check' \in [at : {"idle", "self-test", "suite", "validator"}, failed : BOOLEAN]
        <3> DEFINE failed == check.failed \/
                               Cardinality(Passed(suite.results)) # ExpectedScenarios
        <3>1. failed \in BOOLEAN
            <4>1. check.failed \in BOOLEAN
                OBVIOUS
            <4>2. QED
                BY <4>1
        <3>2. \/ check' = [at |-> "validator", failed |-> TRUE]
              \/ check' = [at |-> "validator", failed |-> failed]
            BY Zenon DEF CheckSuite
        <3> HIDE DEF failed
        <3>3. QED
            BY <3>1, <3>2, CheckAt
    <2>4. QED
        BY <2>1, <2>2, <2>3
<1>19. CheckGrade => P
    BY DEF CheckGrade, IdleCheck, bootstrapVars, suiteVars
<1>20. Kill => P
    BY DEF Kill, KillSetup, KillSuite, IdleSetup, IdleSuite, IdleCheck, bootstrapVars
<1>21. UNCHANGED vars => P
    BY DEF vars, bootstrapVars, suiteVars
<1> HIDE DEF P
<1>22. P
    BY <1>1, <1>2, <1>3, <1>4, <1>5, <1>6, <1>7, <1>8, <1>9, <1>10, <1>11, <1>12, <1>13,
       <1>14, <1>15, <1>16, <1>17, <1>18, <1>19, <1>20, <1>21 DEF Next, Operate, ToolStep
<1>23. QED
    BY <1>22 DEF P

\* The types and the one tool together.
LEMMA ToolStepInv ==
    ASSUME ToolInv, [Next]_vars
    PROVE  ToolInv'
    BY BootstrapTypes, SuiteTypes, OneToolStep DEF ToolInv

-----------------------------------------------------------------------------
(* Setup *)

\* What a setup has come past stays as it left it: nobody else writes while it
\* runs.
LEMMA SetupStepInv ==
    ASSUME ToolInv, SetupInv, [Next]_vars
    PROVE  SetupInv'
<1>1. /\ file \in [File -> Project \cup {Absent, Empty, Edited}]
      /\ setup \in [at : Stage, open : BOOLEAN, project : Project, resume : BOOLEAN]
    BY DEF ToolInv, BootstrapTypeOK
<1>2. Absent \notin Project /\ Empty \notin Project
    BY BootstrapAssumption
<1> USE DEF SetupInv, Ready, File
<1>3. CASE UNCHANGED bootstrapVars
    BY <1>3 DEF bootstrapVars
<1>4. CASE UserEdits
    <2>1. setup' = setup /\ setup.at \notin File \cup {"validate"}
        BY <1>4 DEF UserEdits, ToolInv, OneTool
    <2>2. QED
        BY <2>1
<1>5. CASE \E p \in Project, resume \in BOOLEAN : StartSetup(p, resume)
    BY <1>5 DEF StartSetup
<1>6. CASE \E f \in File : Preserve(f) \/ OpenForWriting(f) \/ CloseFile(f)
    <2>1. PICK f \in File : Preserve(f) \/ OpenForWriting(f) \/ CloseFile(f)
        BY <1>6
    <2>2. CASE Preserve(f)
        <3>1. /\ f # "config" /\ file[f] # Absent /\ ~ setup.resume /\ setup.at = f
              /\ setup' = [setup EXCEPT !.at = NextStage[f]] /\ file' = file
            BY <2>2 DEF Preserve, Rewrites
        <3>2. ~ setup.open
            BY <2>2 DEF Preserve
        <3>3. CASE f = "vision"
            BY <1>1, <3>1, <3>2, <3>3 DEF NextStage
        <3>4. CASE f = "state"
            BY <1>1, <3>1, <3>2, <3>4 DEF NextStage
        <3>5. QED
            BY <3>1, <3>3, <3>4
    <2>3. CASE OpenForWriting(f)
        <3>1. /\ setup' = [setup EXCEPT !.open = TRUE] /\ setup.at = f
              /\ file' = [file EXCEPT ![f] = Empty]
            BY <2>3 DEF OpenForWriting
        <3>2. QED
            BY <1>1, <3>1
    <2>4. CASE CloseFile(f)
        <3>1. /\ setup' = [setup EXCEPT !.at = NextStage[f], !.open = FALSE] /\ setup.at = f
              /\ file' = [file EXCEPT ![f] = setup.project]
            BY <2>4 DEF CloseFile
        <3>2. setup.project # Absent /\ setup.project # Empty
            BY <1>1, <1>2
        <3>3. setup'.at = NextStage[f] /\ ~ setup'.open /\ setup'.project = setup.project
              /\ setup'.resume = setup.resume
            BY <1>1, <3>1
        <3>4. file'[f] = setup.project /\ \A g \in File \ {f} : file'[g] = file[g]
            BY <1>1, <3>1
        <3>5. CASE f = "config"
            BY <3>1, <3>3, <3>4, <3>5 DEF NextStage
        <3>6. CASE f = "vision"
            BY <3>1, <3>2, <3>3, <3>4, <3>6 DEF NextStage
        <3>7. CASE f = "state"
            BY <3>1, <3>2, <3>3, <3>4, <3>7 DEF NextStage
        <3>8. QED
            BY <3>5, <3>6, <3>7
    <2>5. QED
        BY <2>1, <2>2, <2>3, <2>4
<1>7. CASE EndSetup \/ KillSetup
    BY <1>7 DEF EndSetup, KillSetup, IdleSetup
<1>8. CASE StartSelfTest \/ EndSelfTest
    BY <1>1, <1>8 DEF StartSelfTest, EndSelfTest
<1>9. QED
    BY <1>3, <1>4, <1>5, <1>6, <1>7, <1>8, BootstrapSteps

\* The answer of a setup is given when it is past all its files, and is gone as
\* soon as a file changes.
LEMMA SetupAnswerStep ==
    ASSUME ToolInv, SetupInv, SuccessfulSetupIsComplete, [Next]_vars
    PROVE  SuccessfulSetupIsComplete'
<1>1. CASE FinishSetup
    <2>1. setup.at = "validate" /\ file' = file /\ answer'.of = setup
        BY <1>1 DEF FinishSetup, EndSetup, AnswerOf
    <2>2. file["config"] = setup.project /\ Ready("vision") /\ Ready("state")
        BY <2>1 DEF SetupInv
    <2>3. QED
        BY <2>1, <2>2 DEF SuccessfulSetupIsComplete, Ready, Context
<1>2. CASE UNCHANGED <<file, answer>>
    BY <1>2 DEF SuccessfulSetupIsComplete
<1>3. CASE answer'.tool # "setup" \/ answer'.exit # 0
    BY <1>3 DEF SuccessfulSetupIsComplete
<1>4. FinishSetup \/ UNCHANGED <<file, answer>> \/ answer'.tool # "setup" \/ answer'.exit # 0
    <2> DEFINE P == FinishSetup \/ UNCHANGED <<file, answer>>
                    \/ answer'.tool # "setup" \/ answer'.exit # 0
    <2>1. FinishSetup => P
        OBVIOUS
    <2>2. EditFile \/ EditScenario \/ Checkout \/ RunSetup \/ RunSelfTest \/ RunSuite \/ RunEngine
          \/ RunCheck => P
        BY DEF EditFile, EditScenario, Checkout, RunSetup, RunSelfTest, RunSuite, RunEngine,
               RunCheck, Act, NoAnswer, Answer, AnswerOf
    <2>3. RefuseSetup \/ FinishSelfTest \/ EndSuite \/ EndEngine \/ CheckGrade => P
        BY DEF RefuseSetup, FinishSelfTest, EndSuite, EndEngine, CheckGrade, Answer, AnswerOf
    <2>4. SuiteStep \/ EngineStep \/ CheckSuite \/ UNCHANGED vars => P
        BY DEF SuiteStep, EngineStep, CheckSuite, vars, bootstrapVars
    <2>5. SetupStep \/ CheckSelfTest => P
        <3>1. SetupStep => setup.at \in File
            BY DEF SetupStep, Preserve, OpenForWriting, CloseFile, File
        <3>2. SetupStep => answer = NoAnswer /\ answer' = answer
            BY <3>1 DEF SetupStep, ToolInv, OneTool
        <3>3. QED
            BY <3>2 DEF NoAnswer, Answer, AnswerOf, CheckSelfTest, EndSelfTest
    <2>6. Kill => P
        BY DEF Kill, KillSetup, bootstrapVars
    <2> HIDE DEF P
    <2>7. P
        BY <2>1, <2>2, <2>3, <2>4, <2>5, <2>6 DEF Next, Operate, ToolStep
    <2>8. QED
        BY <2>7 DEF P
<1>5. QED
    BY <1>1, <1>2, <1>3, <1>4

-----------------------------------------------------------------------------
(* Loops *)

\* The limits of every mode, those of a mode without a policy included.
LEMMA RulesTypes ==
    ASSUME NEW mode \in Mode
    PROVE  Rules(mode).max_loops \in Nat \ {0} /\ Rules(mode).target_score \in Nat
<1>1. CASE mode = "Custom"
    BY <1>1 DEF Rules, LoopModes
<1>2. CASE mode \in {"Fast", "Balanced", "Exhaustive", "Research", "Production"}
    BY <1>2 DEF Rules, LoopModes
<1>3. QED
    BY <1>1, <1>2 DEF Mode, LoopModes

\* What a step can do to the loop.
LEMMA LoopSteps ==
    ASSUME [Next]_vars
    PROVE  \/ loop' = loop
           \/ \E late \in BOOLEAN : Iterate(late)
           \/ \E mode \in Mode, auth \in BOOLEAN : loop' = FreshLoop(mode, auth)
           \/ DropRuntimes
<1> DEFINE P == \/ loop' = loop
                \/ \E late \in BOOLEAN : Iterate(late)
                \/ \E mode \in Mode, auth \in BOOLEAN : loop' = FreshLoop(mode, auth)
                \/ DropRuntimes
<1>1. ASSUME NEW r, NEW mode \in Mode, Dispatch(NoPlans, NoIterations, r, mode, ContextPresent)
      PROVE  P
    <2> DEFINE auth == Executed(NoPlans, r, ContextPresent).request_id \in AuthIds
    <2>1. auth \in BOOLEAN
        OBVIOUS
    <2>2. loop' = [FreshLoop(mode, auth) EXCEPT !.loop_count = 0, !.scores = <<>>]
        BY <1>1 DEF Dispatch, NoIterations, FreshLoop
    <2> HIDE DEF auth
    <2>3. loop' = FreshLoop(mode, auth)
        BY <2>2 DEF FreshLoop
    <2>4. QED
        BY <2>1, <2>3
<1>2. RunEngine => P
    BY <1>1 DEF RunEngine
<1>3. SuiteStep => P
    <2>1. StartScenario(ContextPresent) => P
        <3>1. LoopModeOf(Request[Current]) \in Mode
            BY DEF LoopModeOf, Mode, LoopModes
        <3>2. QED
            BY <1>1, <3>1 DEF StartScenario, BeginScenario
    <2>2. QED
        BY <2>1 DEF SuiteStep, MissScenario, FailScenario, IterateScenario, OpenReport,
                    CloseReport, OpenDashboard
<1>4. EditFile \/ EditScenario \/ Checkout \/ RunSetup \/ RefuseSetup \/ RunSelfTest \/ RunSuite
      \/ RunCheck \/ SetupStep \/ FinishSetup \/ FinishSelfTest \/ CheckSelfTest \/ CheckGrade
      \/ UNCHANGED vars => P
    BY DEF EditFile, EditScenario, Checkout, RunSetup, RefuseSetup, RunSelfTest, RunSuite, RunCheck,
           SetupStep, FinishSetup, FinishSelfTest, CheckSelfTest, CheckGrade, vars
<1>5. EndSuite \/ EngineStep \/ EndEngine \/ CheckSuite \/ Kill => P
    BY DEF EndSuite, EngineStep, EndEngine, CheckSuite, Kill
<1> HIDE DEF P
<1>6. P
    BY <1>2, <1>3, <1>4, <1>5 DEF Next, Operate, ToolStep
<1>7. QED
    BY <1>6 DEF P

LoopsInv == LoopTypeOK /\ LoopInv /\ LoopStopsInTime

\* A score is a number of points.
LEMMA ScoreTypes ==
    ASSUME NEW errors \in {0, 1}
    PROVE  ScoreOf(errors) \in 0..100
    BY DEF ScoreOf

\* An iteration that is not the last leaves a turn, and was below the target.
LEMMA ContinueMeansBelow ==
    ASSUME NEW count \in Nat, NEW scores \in Seq(0..100), Len(scores) > 0, NEW mode \in Mode,
           NEW late \in BOOLEAN
    PROVE  LET reason == Termination(LimitStatus(count, mode, late), scores, mode)
           IN  /\ reason \in Reason
               /\ reason = "CONTINUE" =>
                      /\ count < Rules(mode).max_loops
                      /\ scores[Len(scores)] < Rules(mode).target_score
<1>1. Rules(mode).max_loops \in Nat /\ Rules(mode).target_score \in Nat
    BY RulesTypes
<1>2. scores[Len(scores)] \in 0..100
    <2>1. Len(scores) \in 1..Len(scores)
        BY LenProperties
    <2>2. QED
        BY <2>1, ElementOfSeq
<1> DEFINE status == LimitStatus(count, mode, late)
           last == scores[Len(scores)]
           n == Len(scores)
           negligible == n >= 2 /\ scores[n] - scores[IF n >= 2 THEN n - 1 ELSE n] <= 0
                                /\ scores[n] > 60
<1>3. status = "OK" \/ status = "max_loops_exceeded" \/ status = "timeout_triggered"
    BY DEF LimitStatus
<1>4. count < Rules(mode).max_loops \/ status = "max_loops_exceeded"
    BY <1>1 DEF LimitStatus
<1>b. negligible \in BOOLEAN
    OBVIOUS
<1> HIDE DEF status, negligible, last
<1>5. Termination(status, scores, mode) =
          IF status = "max_loops_exceeded" THEN "MAX_LOOPS_EXCEEDED"
          ELSE IF status = "timeout_triggered" THEN "TIMEOUT_TRIGGERED"
          ELSE IF last >= Rules(mode).target_score THEN "TARGET_QUALITY_ACHIEVED"
          ELSE IF negligible THEN "NEGLIGIBLE_IMPROVEMENT" ELSE "CONTINUE"
    BY DEF Termination, negligible, last
<1> DEFINE reason == Termination(status, scores, mode)
<1>6. reason \in Reason
    BY <1>5 DEF Reason
<1>7. last \in 0..100
    BY <1>2 DEF last
<1>8. reason = "CONTINUE" => count < Rules(mode).max_loops
    BY <1>4, <1>5
<1>9. reason = "CONTINUE" => ~ (last >= Rules(mode).target_score)
    BY <1>3, <1>5
<1>10. reason = "CONTINUE" => last < Rules(mode).target_score
    BY <1>1, <1>7, <1>9
<1>11. QED
    BY <1>6, <1>8, <1>10 DEF status, last

\* A loop that goes on has a turn left and has not met its target.
LEMMA LoopStepInv ==
    ASSUME LoopsInv, [Next]_vars
    PROVE  LoopsInv'
<1> USE DEF LoopsInv
<1>1. CASE loop' = loop
    BY <1>1 DEF LoopTypeOK, LoopInv, LoopStopsInTime
<1>2. ASSUME NEW mode \in Mode, NEW auth \in BOOLEAN, NEW running \in BOOLEAN,
             loop' = [running |-> running, mode |-> mode, auth |-> auth, loop_count |-> 0,
                      scores |-> <<>>, reason |-> "CONTINUE"]
      PROVE  LoopsInv'
    <2>1. loop'.running = running /\ loop'.mode = mode /\ loop'.loop_count = 0
          /\ loop'.scores = <<>>
        BY <1>2
    <2>2. Rules(mode).max_loops \in Nat \ {0} /\ Rules(mode).target_score \in Nat
        BY RulesTypes
    <2>3. <<>> \in Seq(0..100)
        OBVIOUS
    <2>4. LoopTypeOK'
        BY <1>2, <2>3 DEF LoopTypeOK, Reason
    <2>5. QED
        BY <2>1, <2>2, <2>4 DEF LoopInv, LoopStopsInTime
<1>3. CASE \E mode \in Mode, auth \in BOOLEAN : loop' = FreshLoop(mode, auth)
    BY <1>2, <1>3 DEF FreshLoop
<1>4. CASE DropRuntimes
    <2>1. "Balanced" \in Mode
        BY DEF Mode, LoopModes
    <2>2. QED
        BY <1>2, <1>4, <2>1 DEF DropRuntimes, NoIterations, FreshLoop
<1>5. CASE \E late \in BOOLEAN : Iterate(late)
    <2>1. PICK late \in BOOLEAN : Iterate(late)
        BY <1>5
    <2> DEFINE count == loop.loop_count + 1
               errors == IF count = 1 /\ loop.auth THEN 1 ELSE 0
               scores == Append(loop.scores, ScoreOf(errors))
               reason == Termination(LimitStatus(count, loop.mode, late), scores, loop.mode)
    <2>2. /\ loop.mode \in Mode /\ loop.loop_count \in Nat /\ loop.scores \in Seq(0..100)
          /\ loop \in [running : BOOLEAN, mode : Mode, auth : BOOLEAN, loop_count : Nat,
                       scores : Seq(0..100), reason : Reason]
        BY DEF LoopTypeOK
    <2>3. errors \in {0, 1}
        OBVIOUS
    <2>4. ScoreOf(errors) \in 0..100
        BY <2>3, ScoreTypes
    <2>5. loop.running /\ loop' = [loop EXCEPT !.loop_count = count, !.scores = scores,
                                        !.reason = reason, !.running = (reason = "CONTINUE")]
        BY <2>1 DEF Iterate, Logged
    <2> HIDE DEF errors
    <2>6. /\ scores \in Seq(0..100) /\ scores # <<>> /\ Len(scores) = Len(loop.scores) + 1
          /\ \A i \in 1..Len(loop.scores) : scores[i] = loop.scores[i]
        BY <2>2, <2>4
    <2>7. count \in Nat
        BY <2>2
    <2> HIDE DEF scores
    <2>8. /\ reason \in Reason
          /\ reason = "CONTINUE" => /\ count < Rules(loop.mode).max_loops
                                    /\ scores[Len(scores)] < Rules(loop.mode).target_score
        BY <2>2, <2>6, <2>7, ContinueMeansBelow
    <2> HIDE DEF reason
    <2>9. /\ loop'.loop_count = count /\ loop'.scores = scores /\ loop'.mode = loop.mode
          /\ loop'.running <=> reason = "CONTINUE"
        BY <2>2, <2>5
    <2>10. LoopTypeOK'
        <3>1. (reason = "CONTINUE") \in BOOLEAN
            OBVIOUS
        <3>2. QED
            BY <2>2, <2>5, <2>6, <2>7, <2>8, <3>1 DEF LoopTypeOK
    <2>11. Rules(loop.mode).max_loops \in Nat /\ Rules(loop.mode).target_score \in Nat
        BY <2>2, RulesTypes
    <2>12. /\ loop.loop_count < Rules(loop.mode).max_loops
           /\ loop.loop_count = Len(loop.scores)
           /\ \A i \in 1..Len(loop.scores) : loop.scores[i] < Rules(loop.mode).target_score
        BY <2>5 DEF LoopInv, LoopStopsInTime
    <2>13. LoopStopsInTime'
        BY <2>2, <2>6, <2>9, <2>11, <2>12 DEF LoopStopsInTime
    <2>14. LoopInv'
        <3>1. \A i \in 1..Len(scores) : i \in 1..Len(loop.scores) \/ i = Len(scores)
            BY <2>2, <2>6
        <3>2. QED
            BY <2>6, <2>8, <2>9, <2>12, <3>1 DEF LoopInv
    <2>15. QED
        BY <2>10, <2>13, <2>14
<1>6. QED
    BY <1>1, <1>3, <1>4, <1>5, LoopSteps

-----------------------------------------------------------------------------
(* Plans *)

PlansInv == PlanInv /\ RoutedByItsOwnFiles

\* A harness without plans plans for the request it is given.
LEMMA FreshPlan ==
    ASSUME NEW r, NEW mode, Dispatch(NoPlans, NoIterations, r, mode, ContextPresent)
    PROVE  plans'[r.task].agents = AgentsFor(r)
<1>1. Executed(NoPlans, r, ContextPresent) = PlanFor(r, ContextPresent)
    BY DEF Executed, NoPlans
<1>2. plans'[r.task] = PlanFor(r, ContextPresent)
    BY <1>1 DEF Dispatch, Cached
<1>3. QED
    BY <1>2 DEF PlanFor

\* What a step can do to the plan and the loop of a scenario, and to the reports.
LEMMA PlanSteps ==
    ASSUME ToolInv, [Next]_vars
    PROVE  \/ UNCHANGED <<reports, suite, plans, loop>>
           \/ reports' = reports /\ suite'.at \notin {"iterating", "reporting"}
           \/ StartScenario(ContextPresent) \/ IterateScenario
           \/ OpenReport \/ CloseReport
<1> DEFINE P == \/ UNCHANGED <<reports, suite, plans, loop>>
                \/ reports' = reports /\ suite'.at \notin {"iterating", "reporting"}
                \/ StartScenario(ContextPresent) \/ IterateScenario
                \/ OpenReport \/ CloseReport
<1>1. suite.at # "idle" => tool = "suite" \/ (tool = "check" /\ check.at = "suite")
    BY DEF ToolInv, OneTool
<1>2. suite \in [at : Stages, todo : Seq(Scenario), results : Results]
    BY DEF ToolInv, SuiteTypeOK
<1>3. EditFile \/ EditScenario \/ Checkout \/ RunSetup \/ RefuseSetup \/ RunSelfTest
      \/ RunCheck \/ SetupStep \/ FinishSetup \/ FinishSelfTest \/ CheckGrade
      \/ UNCHANGED vars => P
    BY DEF EditFile, EditScenario, Checkout, RunSetup, RefuseSetup, RunSelfTest, RunCheck,
           SetupStep, FinishSetup, FinishSelfTest, CheckGrade, vars, suiteVars
<1>4. RunSuite \/ CheckSelfTest => P
    BY DEF RunSuite, CheckSelfTest, StartSuite, suiteVars
<1>5. RunEngine \/ EngineStep \/ EndEngine => P
    BY <1>1 DEF RunEngine, EngineStep, EndEngine, Act, suiteVars
<1>6. SuiteStep => P
    <2>1. MissScenario \/ FailScenario \/ OpenDashboard => P
        BY <1>2 DEF MissScenario, FailScenario, OpenDashboard, Recorded
    <2>2. QED
        BY <2>1 DEF SuiteStep
<1>7. EndSuite \/ CheckSuite \/ Kill => P
    <2>1. EndSuite \/ CheckSuite \/ Kill => CrashSuite \/ FinishSuite \/ KillSuite
        BY DEF EndSuite, CheckSuite, Kill
    <2>2. CrashSuite \/ FinishSuite \/ KillSuite => suite' = IdleSuite /\ reports' = reports
        BY DEF CrashSuite, FinishSuite, KillSuite
    <2>3. IdleSuite.at = "idle"
        BY DEF IdleSuite
    <2>4. QED
        BY <2>1, <2>2, <2>3
<1> HIDE DEF P
<1>8. P
    BY <1>3, <1>4, <1>5, <1>6, <1>7 DEF Next, Operate, ToolStep
<1>9. QED
    BY <1>8 DEF P

\* A scenario is planned when it starts, by a harness that has no plans, and
\* its report takes the agents from that plan.
LEMMA PlansStepInv ==
    ASSUME ToolInv, PlansInv, [Next]_vars
    PROVE  PlansInv'
<1>1. HasWork'
    BY ToolStepInv DEF ToolInv
<1>2. SuiteTypeOK /\ HasWork
    BY DEF ToolInv
<1>3. suite \in [at : Stages, todo : Seq(Scenario), results : Results] /\ DOMAIN reports = Scenario
    BY <1>2 DEF SuiteTypeOK
<1>4. CASE UNCHANGED <<reports, suite, plans, loop>> \/ IterateScenario
    <2>1. reports' = reports /\ suite' = suite /\ plans' = plans
        BY <1>4 DEF IterateScenario, suiteVars
    <2>2. QED
        BY <1>1, <2>1 DEF PlansInv, PlanInv, HasWork, RoutedByItsOwnFiles, Current
<1>5. CASE reports' = reports /\ suite'.at \notin {"iterating", "reporting"}
    BY <1>1, <1>5 DEF PlansInv, PlanInv, HasWork, RoutedByItsOwnFiles
<1>6. CASE StartScenario(ContextPresent)
    <2>1. /\ Dispatch(NoPlans, NoIterations, Request[Current],
                      LoopModeOf(Request[Current]), ContextPresent)
          /\ suite' = [suite EXCEPT !.at = "iterating"] /\ reports' = reports
        BY <1>6 DEF StartScenario, BeginScenario
    <2>2. plans'[Request[Current].task].agents = AgentsFor(Request[Current])
        BY <2>1, FreshPlan
    <2>3. suite'.todo = suite.todo
        BY <1>3, <2>1
    <2>4. PlanInv'
        BY <1>1, <2>2, <2>3 DEF PlanInv, HasWork, Current
    <2>5. QED
        BY <2>1, <2>4 DEF PlansInv, RoutedByItsOwnFiles
<1>7. CASE OpenReport
    <2>1. /\ suite.at = "iterating" /\ suite' = [suite EXCEPT !.at = "reporting"]
          /\ reports' = [reports EXCEPT ![Current] = TornReport] /\ plans' = plans
        BY <1>7 DEF OpenReport
    <2>2. suite'.todo = suite.todo
        BY <1>3, <2>1
    <2>3. PlanInv'
        BY <1>1, <2>1, <2>2 DEF PlansInv, PlanInv, HasWork, Current
    <2>4. TornReport.status = "torn"
        BY DEF TornReport, NoReport
    <2>5. \A s \in Scenario : reports'[s] = TornReport \/ reports'[s] = reports[s]
        BY <1>3, <2>1
    <2>6. RoutedByItsOwnFiles'
        BY <2>4, <2>5 DEF PlansInv, RoutedByItsOwnFiles
    <2>7. QED
        BY <2>3, <2>6 DEF PlansInv
<1>8. CASE CloseReport
    <2>1. PICK report :
              /\ report.agents = plans[Request[Current].task].agents
              /\ reports' = [reports EXCEPT ![Current] = report]
        <3>1. PICK status :
                  reports' = [reports EXCEPT ![Current] =
                      [agents |-> plans[Request[Current].task].agents,
                       iterations |-> Len(loop.scores),
                       score |-> loop.scores[Len(loop.scores)], status |-> status]]
            BY <1>8 DEF CloseReport
        <3>2. QED
            BY <3>1
    <2>2. suite.at = "reporting"
        BY <1>8 DEF CloseReport
    <2>3. plans[Request[Current].task].agents = AgentsFor(Request[Current])
        BY <2>2 DEF PlansInv, PlanInv
    <2>4. \A s \in Scenario : (s = Current /\ reports'[s] = report) \/ reports'[s] = reports[s]
        BY <1>3, <2>1
    <2>5. RoutedByItsOwnFiles'
        BY <2>1, <2>3, <2>4 DEF PlansInv, RoutedByItsOwnFiles
    <2>6. suite'.at \notin {"iterating", "reporting"}
        BY <1>8 DEF CloseReport, Recorded
    <2>7. QED
        BY <1>1, <2>5, <2>6 DEF PlansInv, PlanInv, HasWork
<1>9. QED
    BY <1>4, <1>5, <1>6, <1>7, <1>8, PlanSteps

-----------------------------------------------------------------------------
(* Escalations *)

\* The agents that a walk from a, when it has come past visited, can stay among
\* until it meets one of visited again.
RunsIntoCycle(map, a, visited) ==
    \E ring \in SUBSET (DOMAIN map \ FinalAuthority) :
        a \in ring /\ \A b \in ring : b \in visited \/ map[b] \in ring

\* What the walk does at one agent, and then as walk says.
WalkOn(map, walk, a, visited) ==
    IF a \in FinalAuthority THEN FALSE
    ELSE IF a \in visited THEN TRUE
    ELSE map[a] \in DOMAIN map /\ walk[<<map[a], visited \cup {a}>>]

WalkFrom(map, walk) ==
    walk = [at \in (DOMAIN map) \X SUBSET DOMAIN map |-> WalkOn(map, walk, at[1], at[2])]

\* The walk is a solution of its recursion, if there is one.
LEMMA WalkIsChosen ==
    ASSUME NEW map, \E walk : WalkFrom(map, walk)
    PROVE  WalkFrom(map, Walk(map))
<1>1. Walk(map) = CHOOSE walk : WalkFrom(map, walk)
    BY DEF Walk, WalkFrom, WalkOn
<1>2. WalkFrom(map, CHOOSE walk : WalkFrom(map, walk))
    BY Zenon
<1>3. QED
    BY <1>1, <1>2

\* One step of the walk keeps to such a ring.
LEMMA RingUnfolds ==
    ASSUME NEW map, NEW a \in DOMAIN map, NEW visited \in SUBSET DOMAIN map
    PROVE  RunsIntoCycle(map, a, visited) <=>
               /\ a \notin FinalAuthority
               /\ a \in visited \/ /\ map[a] \in DOMAIN map
                                   /\ RunsIntoCycle(map, map[a], visited \cup {a})
<1> DEFINE Free == DOMAIN map \ FinalAuthority
<1>1. CASE a \in FinalAuthority
    BY <1>1 DEF RunsIntoCycle
<1>2. CASE a \notin FinalAuthority /\ a \in visited
    <2>1. {a} \in SUBSET Free
        BY <1>2
    <2>2. RunsIntoCycle(map, a, visited)
        BY <1>2, <2>1 DEF RunsIntoCycle
    <2>3. QED
        BY <1>2, <2>2 DEF RunsIntoCycle
<1>3. CASE a \notin FinalAuthority /\ a \notin visited
    <2>1. ASSUME RunsIntoCycle(map, a, visited)
          PROVE  map[a] \in DOMAIN map /\ RunsIntoCycle(map, map[a], visited \cup {a})
        <3>1. PICK ring \in SUBSET Free :
                  a \in ring /\ \A b \in ring : b \in visited \/ map[b] \in ring
            BY <2>1 DEF RunsIntoCycle
        <3>2. map[a] \in ring
            BY <1>3, <3>1
        <3>3. QED
            BY <3>1, <3>2 DEF RunsIntoCycle
    <2>2. ASSUME map[a] \in DOMAIN map, RunsIntoCycle(map, map[a], visited \cup {a})
          PROVE  RunsIntoCycle(map, a, visited)
        <3>1. PICK ring \in SUBSET Free :
                  map[a] \in ring /\ \A b \in ring : b \in visited \cup {a} \/ map[b] \in ring
            BY <2>2 DEF RunsIntoCycle
        <3>2. ring \cup {a} \in SUBSET Free
            BY <1>3
        <3>3. \A b \in ring \cup {a} : b \in visited \/ map[b] \in ring \cup {a}
            BY <3>1
        <3>4. QED
            BY <3>2, <3>3 DEF RunsIntoCycle
    <2>3. RunsIntoCycle(map, a, visited) <=>
              map[a] \in DOMAIN map /\ RunsIntoCycle(map, map[a], visited \cup {a})
        BY <2>1, <2>2
    <2>4. QED
        BY <1>3, <2>3
<1>4. QED
    BY <1>1, <1>2, <1>3

\* The walk finds these rings: over finitely many agents its recursion has one
\* solution, since every step leaves fewer agents to come past.
LEMMA WalkFindsRings ==
    ASSUME NEW map, IsFiniteSet(DOMAIN map)
    PROVE  \A a \in DOMAIN map : CycleFound(map, a) <=> RunsIntoCycle(map, a, {})
<1> DEFINE D == DOMAIN map
           w == Walk(map)
           P == {U \in SUBSET D :
                    \A a \in D : w[<<a, D \ U>>] <=> RunsIntoCycle(map, a, D \ U)}
<1>1. WalkFrom(map, w)
    <2> DEFINE v == [at \in D \X SUBSET D |-> RunsIntoCycle(map, at[1], at[2])]
    <2>1. ASSUME NEW at \in D \X SUBSET D
          PROVE  RunsIntoCycle(map, at[1], at[2]) = WalkOn(map, v, at[1], at[2])
        <3>1. at[1] \in D /\ at[2] \in SUBSET D
            OBVIOUS
        <3> DEFINE a == at[1]
                   visited == at[2]
        <3>2. RunsIntoCycle(map, a, visited) <=>
                  /\ a \notin FinalAuthority
                  /\ a \in visited \/ /\ map[a] \in D
                                        /\ RunsIntoCycle(map, map[a], visited \cup {a})
            BY <3>1, RingUnfolds
        <3>3. map[a] \in D =>
                  v[<<map[a], visited \cup {a}>>] = RunsIntoCycle(map, map[a], visited \cup {a})
            BY <3>1
        <3> HIDE DEF v, a, visited
        <3>4. RunsIntoCycle(map, a, visited) <=> WalkOn(map, v, a, visited)
            BY <3>2, <3>3 DEF WalkOn
        <3>5. RunsIntoCycle(map, a, visited) \in BOOLEAN
            BY DEF RunsIntoCycle
        <3>6. WalkOn(map, v, a, visited) \in BOOLEAN
            BY Zenon DEF WalkOn
        <3>7. RunsIntoCycle(map, a, visited) = WalkOn(map, v, a, visited)
            BY <3>4, <3>5, <3>6
        <3>8. QED
            BY <3>7 DEF a, visited
    <2>2. v = [at \in D \X SUBSET D |-> WalkOn(map, v, at[1], at[2])]
        <3> DEFINE new(at) == WalkOn(map, v, at[1], at[2])
        <3>1. \A at \in D \X SUBSET D : v[at] = new(at)
            BY <2>1
        <3>2. v = [at \in D \X SUBSET D |-> v[at]]
            OBVIOUS
        <3> HIDE DEF v, new
        <3>3. v = [at \in D \X SUBSET D |-> new(at)]
            BY <3>1, <3>2
        <3>4. QED
            BY <3>3 DEF new
    <2> HIDE DEF v
    <2>3. \E walk : WalkFrom(map, walk)
        BY <2>2 DEF WalkFrom
    <2>4. QED
        BY <2>3, WalkIsChosen
<1>2. ASSUME NEW U \in SUBSET D, \A V \in SUBSET U : V # U => V \in P, NEW a \in D
      PROVE  w[<<a, D \ U>>] <=> RunsIntoCycle(map, a, D \ U)
    <2> DEFINE visited == D \ U
    <2> HIDE DEF w
    <2>1. w[<<a, visited>>] = WalkOn(map, w, a, visited)
        BY <1>1 DEF WalkFrom
    <2>2. RunsIntoCycle(map, a, visited) <=>
              /\ a \notin FinalAuthority
              /\ a \in visited \/ /\ map[a] \in D
                                    /\ RunsIntoCycle(map, map[a], visited \cup {a})
        BY RingUnfolds
    <2>3. ASSUME a \notin visited, map[a] \in D
          PROVE  w[<<map[a], visited \cup {a}>>] <=> RunsIntoCycle(map, map[a], visited \cup {a})
        <3>1. U \ {a} \in P
            BY <1>2, <2>3
        <3>2. D \ (U \ {a}) = visited \cup {a}
            BY <2>3
        <3>3. w[<<map[a], D \ (U \ {a})>>] <=> RunsIntoCycle(map, map[a], D \ (U \ {a}))
            BY <2>3, <3>1
        <3> HIDE DEF visited
        <3>4. QED
            BY <3>2, <3>3, Zenon
    <2> HIDE DEF visited
    <2>4. w[<<a, visited>>] <=> RunsIntoCycle(map, a, visited)
        BY <2>1, <2>2, <2>3 DEF WalkOn
    <2>5. QED
        BY <2>4 DEF visited
<1> HIDE DEF w
<1>3. \A U \in SUBSET D : (\A V \in SUBSET U : V # U => V \in P) => U \in P
    BY <1>2
<1>4. D \in P
    <2> HIDE DEF P
    <2> QED
        BY <1>3, StrongSetInduction
<1>5. \A a \in D : w[<<a, {}>>] <=> RunsIntoCycle(map, a, {})
    <2>1. D \ D = {}
        OBVIOUS
    <2>2. QED
        BY <1>4, <2>1
<1>6. QED
    BY <1>5, Zenon DEF CycleFound, w

-----------------------------------------------------------------------------
(* Numbers of things *)

\* There are finitely many scenarios.
LEMMA ScenariosFinite == IsFiniteSet(Scenario)
<1>1. IsFiniteSet(DOMAIN Manifest)
    BY ManifestAssumption, FS_Interval
<1>2. QED
    BY <1>1, ImageSize DEF Scenario

CategoryList ==
    <<"Structural", "Contract", "Dependency", "TokenBudget", "CrossReference", "Architecture",
      "AgentRouting", "Workflow", "Standards", "Metrics", "Artifacts", "Bootstrap", "Harness",
      "Loop", "Validation", "Production", "Certification", "Distribution">>

\* The validator has eighteen categories.
LEMMA Categories == IsFiniteSet(Category) /\ Cardinality(Category) = 18
<1>1. CategoryList \in [1..18 -> Category]
    BY DEF CategoryList, Category, Checks
<1>2. \A i \in 1..18, j \in 1..18 : CategoryList[i] = CategoryList[j] => i = j
    BY DEF CategoryList
<1>3. \A c \in Category : \E i \in 1..18 : CategoryList[i] = c
    BY DEF CategoryList, Category, Checks
<1>4. CategoryList \in Bijection(1..18, Category)
    BY <1>1, <1>2, <1>3 DEF Bijection, Injection, Surjection, IsInjective
<1>5. ExistsBijection(1..18, Category) /\ IsFiniteSet(1..18)
    <2>1. \A n \in Int : IsFiniteSet(1..n)
        BY FS_Interval
    <2>2. 18 \in Int
        OBVIOUS
    <2>3. IsFiniteSet(1..18)
        BY <2>1, <2>2, Zenon
    <2>4. QED
        BY <1>4, <2>3, Zenon DEF ExistsBijection
<1>6. IsFiniteSet(Category)
    BY <1>5, FS_Bijection
<1>7. QED
    BY <1>5, <1>6, FS_CountingElements

\* Finitely many kinds of defect, at so many points each.
Priced(kinds) == IsFiniteSet(DOMAIN kinds) /\ \A k \in DOMAIN kinds : kinds[k] \in Nat

\* Every category prices its defects.
LEMMA ChecksArePriced == ASSUME NEW c \in Category PROVE Priced(Checks[c])
<1>1. Priced(StructuralChecks)
    <2> DEFINE D == {"missing_root_file", "misnamed_agent"}
    <2>1. DOMAIN StructuralChecks = D
        BY DEF StructuralChecks
    <2>2. IsFiniteSet(D)
        BY FewAreFinite, Zenon
    <2>3. QED
        BY <2>1, <2>2 DEF Priced, StructuralChecks
<1>2. Priced(ContractChecks)
    <2> DEFINE D == {"missing_section"}
    <2>1. DOMAIN ContractChecks = D
        BY DEF ContractChecks
    <2>2. IsFiniteSet(D)
        BY FewAreFinite, Zenon
    <2>3. QED
        BY <2>1, <2>2 DEF Priced, ContractChecks
<1>3. Priced(DependencyChecks)
    <2> DEFINE D == {"escalation_cycle"}
    <2>1. DOMAIN DependencyChecks = D
        BY DEF DependencyChecks
    <2>2. IsFiniteSet(D)
        BY FewAreFinite, Zenon
    <2>3. QED
        BY <2>1, <2>2 DEF Priced, DependencyChecks
<1>4. Priced(TokenBudgetChecks)
    <2> DEFINE D == {"oversized_budget"}
    <2>1. DOMAIN TokenBudgetChecks = D
        BY DEF TokenBudgetChecks
    <2>2. IsFiniteSet(D)
        BY FewAreFinite, Zenon
    <2>3. QED
        BY <2>1, <2>2 DEF Priced, TokenBudgetChecks
<1>5. Priced(CrossReferenceChecks)
    <2> DEFINE D == {"broken_link"}
    <2>1. DOMAIN CrossReferenceChecks = D
        BY DEF CrossReferenceChecks
    <2>2. IsFiniteSet(D)
        BY FewAreFinite, Zenon
    <2>3. QED
        BY <2>1, <2>2 DEF Priced, CrossReferenceChecks
<1>6. Priced(ArchitectureChecks)
    <2> DEFINE D == {"missing_layer"}
    <2>1. DOMAIN ArchitectureChecks = D
        BY DEF ArchitectureChecks
    <2>2. IsFiniteSet(D)
        BY FewAreFinite, Zenon
    <2>3. QED
        BY <2>1, <2>2 DEF Priced, ArchitectureChecks
<1>7. Priced(AgentRoutingChecks)
    <2> DEFINE D == {"routing_unreadable", "unroutable_domain"}
    <2>1. DOMAIN AgentRoutingChecks = D
        BY DEF AgentRoutingChecks
    <2>2. IsFiniteSet(D)
        BY FewAreFinite, Zenon
    <2>3. QED
        BY <2>1, <2>2 DEF Priced, AgentRoutingChecks
<1>8. Priced(WorkflowChecks)
    <2> DEFINE D == {"workflow_index_missing", "missing_workflow"}
    <2>1. DOMAIN WorkflowChecks = D
        BY DEF WorkflowChecks
    <2>2. IsFiniteSet(D)
        BY FewAreFinite, Zenon
    <2>3. QED
        BY <2>1, <2>2 DEF Priced, WorkflowChecks
<1>9. Priced(StandardsChecks)
    <2> DEFINE D == {"standards_index_missing", "unregistered_standard", "untiered_standard"}
    <2>1. DOMAIN StandardsChecks = D
        BY DEF StandardsChecks
    <2>2. IsFiniteSet(D)
        BY FewAreFinite, Zenon
    <2>3. QED
        BY <2>1, <2>2 DEF Priced, StandardsChecks
<1>10. Priced(MetricsChecks)
    <2> DEFINE D == {"unowned_metric", "unscheduled_metric"}
    <2>1. DOMAIN MetricsChecks = D
        BY DEF MetricsChecks
    <2>2. IsFiniteSet(D)
        BY FewAreFinite, Zenon
    <2>3. QED
        BY <2>1, <2>2 DEF Priced, MetricsChecks
<1>11. Priced(ArtifactsChecks)
    <2> DEFINE D == {"invalid_frontmatter", "missing_key", "broken_trace", "orphan_decision"}
    <2>1. DOMAIN ArtifactsChecks = D
        BY DEF ArtifactsChecks
    <2>2. IsFiniteSet(D)
        BY FewAreFinite, Zenon
    <2>3. QED
        BY <2>1, <2>2 DEF Priced, ArtifactsChecks
<1>12. Priced(BootstrapChecks)
    <2> DEFINE D == {"missing_boot_file", "config_absent", "config_invalid",
                   "config_profile_missing", "context_absent"}
    <2>1. DOMAIN BootstrapChecks = D
        BY DEF BootstrapChecks
    <2>2. IsFiniteSet(D)
        BY FewAreFinite, Zenon
    <2>3. QED
        BY <2>1, <2>2 DEF Priced, BootstrapChecks
<1>13. Priced(HarnessChecks)
    <2> DEFINE D == {"missing_harness_file", "missing_policy", "empty_policy",
                   "unparsable_policy"}
    <2>1. DOMAIN HarnessChecks = D
        BY DEF HarnessChecks
    <2>2. IsFiniteSet(D)
        BY FewAreFinite, Zenon
    <2>3. QED
        BY <2>1, <2>2 DEF Priced, HarnessChecks
<1>14. Priced(LoopChecks)
    <2> DEFINE D == {"missing_loop_module", "missing_loop_policy", "unparsable_loop_policy",
                   "unbounded_loops"}
    <2>1. DOMAIN LoopChecks = D
        BY DEF LoopChecks
    <2>2. IsFiniteSet(D)
        BY FewAreFinite, Zenon
    <2>3. QED
        BY <2>1, <2>2 DEF Priced, LoopChecks
<1>15. Priced(ValidationChecks)
    <2> DEFINE D == {"missing_manifest", "missing_runner", "incomplete_scenario"}
    <2>1. DOMAIN ValidationChecks = D
        BY DEF ValidationChecks
    <2>2. IsFiniteSet(D)
        BY FewAreFinite, Zenon
    <2>3. QED
        BY <2>1, <2>2 DEF Priced, ValidationChecks
<1>16. Priced(ProductionChecks)
    <2> DEFINE D == {"unreleased_version", "missing_report"}
    <2>1. DOMAIN ProductionChecks = D
        BY DEF ProductionChecks
    <2>2. IsFiniteSet(D)
        BY FewAreFinite, Zenon
    <2>3. QED
        BY <2>1, <2>2 DEF Priced, ProductionChecks
<1>17. Priced(CertificationChecks)
    <2> DEFINE D == {"version_not_final", "missing_certificate"}
    <2>1. DOMAIN CertificationChecks = D
        BY DEF CertificationChecks
    <2>2. IsFiniteSet(D)
        BY FewAreFinite, Zenon
    <2>3. QED
        BY <2>1, <2>2 DEF Priced, CertificationChecks
<1>18. Priced(DistributionChecks)
    <2> DEFINE D == {"missing_onboarding_file", "missing_tooling_file", "missing_profile",
                   "stale_version", "broken_index_link"}
    <2>1. DOMAIN DistributionChecks = D
        BY DEF DistributionChecks
    <2>2. IsFiniteSet(D)
        BY FewAreFinite, Zenon
    <2>3. QED
        BY <2>1, <2>2 DEF Priced, DistributionChecks
<1>19. QED
    BY <1>1, <1>2, <1>3, <1>4, <1>5, <1>6, <1>7, <1>8, <1>9, <1>10, <1>11, <1>12, <1>13,
       <1>14, <1>15, <1>16, <1>17, <1>18 DEF Category, Checks

\* A category has between nothing and a hundred points.
LEMMA ScoreIsBounded ==
    ASSUME NEW n \in [Defect -> Nat], NEW c \in Category
    PROVE  Score(c, n) \in 0..100
<1> DEFINE K == DOMAIN Checks[c]
           f == [k \in K |-> Checks[c][k] * n[k]]
<1>1. IsFiniteSet(K) /\ \A k \in K : Checks[c][k] \in Nat
    BY ChecksArePriced DEF Priced
<1>2. K \subseteq Defect
    BY DEF Defect
<1>3. \A k \in K : f[k] \in Nat
    <2> SUFFICES ASSUME NEW k \in K PROVE f[k] \in Nat
        OBVIOUS
    <2>1. Checks[c][k] \in Nat /\ n[k] \in Nat
        BY <1>1, <1>2
    <2>2. \A i, j \in Nat : i * j \in Nat
        OBVIOUS
    <2>3. QED
        BY <2>1, <2>2
<1>4. SumFunction(f) = SumFunctionOnSet(f, K)
    BY DEF SumFunction
<1> HIDE DEF f, K
<1>5. SumFunctionOnSet(f, K) \in Nat
    BY <1>1, <1>3, NatSums
<1>6. Score(c, n) = IF SumFunction(f) > 100 THEN 0 ELSE 100 - SumFunction(f)
    BY DEF Score, f, K
<1>7. QED
    BY <1>4, <1>5, <1>6

\* With a grade that the check accepts, three categories may be dead and no
\* fourth: fourteen times a hundred is less than eighteen times the grade.
LEMMA GradeBoundsTheDead ==
    ASSUME NEW n \in [Defect -> Nat], OverallGrade(n) >= MinGrade
    PROVE  Cardinality({c \in Category : Score(c, n) = 0}) <= 3
<1> DEFINE f == [c \in Category |-> Score(c, n)]
           Dead == {c \in Category : Score(c, n) = 0}
           Alive == {c \in Category : f[c] # 0}
<1>1. \A c \in Category : f[c] \in 0..100
    BY ScoreIsBounded
<1>2. SumFunction(f) = SumFunctionOnSet(f, Category)
    BY DEF SumFunction
<1>3. Category = Dead \cup Alive /\ Dead \cap Alive = {}
    BY DEF Category
<1>4. OverallGrade(n) = SumFunction(f) \div 18
    BY Categories DEF OverallGrade
<1>5. Dead \in SUBSET Category /\ Alive \in SUBSET Category
    OBVIOUS
<1> HIDE DEF f, Dead
<1>6. SumFunctionOnSet(f, Category) \in 0..(100 * Cardinality(Alive))
    BY <1>1, Categories, SumBounded
<1> HIDE DEF Alive
<1>7. /\ IsFiniteSet(Dead) /\ IsFiniteSet(Alive)
      /\ Cardinality(Dead) \in Nat /\ Cardinality(Alive) \in Nat
    BY <1>5, Categories, FS_Subset, FS_CardinalityType
<1>8. Cardinality(Dead) + Cardinality(Alive) = 18
    <2>1. Cardinality(Dead \cup Alive) =
              Cardinality(Dead) + Cardinality(Alive) - Cardinality(Dead \cap Alive)
        BY <1>7, FS_Union
    <2>2. Cardinality(Dead \cap Alive) = 0
        BY <1>3, FS_EmptySet
    <2>3. Cardinality(Dead \cup Alive) = 18
        BY <1>3, Categories
    <2>4. QED
        BY <1>7, <2>1, <2>2, <2>3
<1>9. \A s \in Nat : s \div 18 >= 83 => s >= 1494
    OBVIOUS
<1>10. SumFunctionOnSet(f, Category) >= 1494
    BY <1>2, <1>4, <1>6, <1>7, <1>9 DEF MinGrade
<1>11. Cardinality(Alive) >= 15
    BY <1>6, <1>7, <1>10
<1>12. Cardinality(Dead) <= 3
    BY <1>7, <1>8, <1>11
<1>13. QED
    BY <1>12 DEF Dead

\* What the validator counts is counted, and the broken references are the
\* tree's.
LEMMA DefectsAreCounted ==
    ASSUME tree \in Trees
    PROVE  /\ Defects \in [Defect -> Nat]
           /\ Defects.broken_link = tree.defects.broken_link
<1>1. tree.defects \in [Defect -> Nat] /\ IsFiniteSet(DOMAIN tree.declared)
    BY TreeAssumption
<1>2. \A k \in DOMAIN SetupDefects : SetupDefects[k] \in Nat
    BY DEF SetupDefects
<1>3. CyclesFound(EscalationMap(tree.declared)) \in Nat
    <2> DEFINE map == EscalationMap(tree.declared)
    <2>1. DOMAIN map = DOMAIN tree.declared
        BY DEF EscalationMap
    <2> HIDE DEF map
    <2>2. {a \in DOMAIN map : CycleFound(map, a)} \in SUBSET DOMAIN map
        OBVIOUS
    <2>3. IsFiniteSet({a \in DOMAIN map : CycleFound(map, a)})
        BY <1>1, <2>1, <2>2, FS_Subset
    <2>4. CyclesFound(map) \in Nat
        BY <2>3, FS_CardinalityType DEF CyclesFound
    <2>5. QED
        BY <2>4 DEF map
<1> DEFINE unready == {s \in Scenario : scenario[s] \in {"missing", "incomplete", "undocumented"}}
<1>4. Cardinality(unready) \in Nat
    <2>1. unready \in SUBSET Scenario
        OBVIOUS
    <2> HIDE DEF unready
    <2>2. QED
        BY <2>1, ScenariosFinite, FS_Subset, FS_CardinalityType
<1>5. "broken_link" \in Defect
    <2>1. "CrossReference" \in Category /\ "broken_link" \in DOMAIN Checks["CrossReference"]
        BY DEF Category, Checks, CrossReferenceChecks
    <2>2. QED
        BY <2>1 DEF Defect
<1>6. Defects = [k \in Defect |->
            IF k \in DOMAIN SetupDefects THEN SetupDefects[k]
            ELSE IF k = "escalation_cycle" THEN CyclesFound(EscalationMap(tree.declared))
            ELSE IF k = "incomplete_scenario" THEN Cardinality(unready)
            ELSE tree.defects[k]]
    BY Zenon DEF Defects
<1> HIDE DEF unready
<1>7. Defects \in [Defect -> Nat]
    BY <1>1, <1>2, <1>3, <1>4, <1>6
<1>8. "broken_link" \notin DOMAIN SetupDefects
    BY DEF SetupDefects
<1>9. QED
    BY <1>5, <1>6, <1>7, <1>8

-----------------------------------------------------------------------------
(* Scores *)

ScoresInv == ScoreInv /\ ScoredOnItsOwnErrors

\* A loop for a plan that a new harness has made starts with nothing behind it.
LEMMA LoopForPlan ==
    ASSUME NEW r, NEW mode, Dispatch(NoPlans, NoIterations, r, mode, ContextPresent)
    PROVE  loop' = FreshLoop(mode, r.id \in AuthIds)
<1>1. Executed(NoPlans, r, ContextPresent) = PlanFor(r, ContextPresent)
    BY DEF Executed, NoPlans
<1>2. PlanFor(r, ContextPresent).request_id = r.id
    BY DEF PlanFor
<1> DEFINE auth == r.id \in AuthIds
<1>3. loop' = [FreshLoop(mode, auth) EXCEPT !.loop_count = 0, !.scores = <<>>]
    BY <1>1, <1>2 DEF Dispatch, NoIterations, FreshLoop
<1> HIDE DEF auth
<1>4. loop' = FreshLoop(mode, auth)
    BY <1>3 DEF FreshLoop
<1>5. QED
    BY <1>4 DEF auth

\* An iteration after none fails if the plan is about authentication, and one
\* after a failure does not; a hundred points end the loop.
LEMMA IterationScores ==
    ASSUME LoopsInv, NEW late \in BOOLEAN, Iterate(late),
           loop.mode \in {"Balanced", "Exhaustive"}, loop.scores \in ScoresOf(loop.auth, TRUE)
    PROVE  /\ loop'.mode = loop.mode /\ loop'.auth = loop.auth
           /\ loop'.scores \in ScoresOf(loop'.auth, loop'.running)
<1> DEFINE count == loop.loop_count + 1
           errors == IF count = 1 /\ loop.auth THEN 1 ELSE 0
           scores == Append(loop.scores, ScoreOf(errors))
           reason == Termination(LimitStatus(count, loop.mode, late), scores, loop.mode)
<1>1. /\ loop \in [running : BOOLEAN, mode : Mode, auth : BOOLEAN, loop_count : Nat,
                   scores : Seq(0..100), reason : Reason]
      /\ loop.loop_count = Len(loop.scores)
    BY DEF LoopsInv, LoopTypeOK, LoopStopsInTime
<1>2. loop' = [loop EXCEPT !.loop_count = count, !.scores = scores,
                           !.reason = reason, !.running = (reason = "CONTINUE")]
    BY DEF Iterate, Logged
<1>3. \/ loop.scores = <<>>
      \/ loop.auth /\ loop.scores = <<55>>
    BY DEF ScoresOf
<1>4. ScoreOf(0) = 100 /\ ScoreOf(1) = 55
    BY DEF ScoreOf
<1>5. \/ loop.auth /\ scores = <<55>>
      \/ ~ loop.auth /\ scores = <<100>>
      \/ loop.auth /\ scores = <<55, 100>>
    <2>1. CASE loop.scores = <<>>
        <3>1. count = 1
            BY <1>1, <2>1
        <3>2. scores = <<ScoreOf(errors)>>
            BY <2>1
        <3>3. CASE loop.auth
            BY <1>4, <3>1, <3>2, <3>3
        <3>4. CASE ~ loop.auth
            BY <1>4, <3>1, <3>2, <3>4
        <3>5. QED
            BY <3>3, <3>4
    <2>2. CASE loop.auth /\ loop.scores = <<55>>
        <3>1. count = 2
            BY <1>1, <2>2
        <3>2. scores = Append(<<55>>, 100)
            BY <1>4, <2>2, <3>1
        <3>3. Append(<<55>>, 100) = <<55, 100>>
            <4> DEFINE s == Append(<<55>>, 100)
            <4>1. s \in Seq(Int) /\ Len(s) = 2 /\ s[1] = 55 /\ s[2] = 100
                OBVIOUS
            <4> HIDE DEF s
            <4>2. s = <<55, 100>>
                BY <4>1
            <4>3. QED
                BY <4>2 DEF s
        <3>4. QED
            BY <2>2, <3>2, <3>3
    <2>3. QED
        BY <1>3, <2>1, <2>2
<1>6. reason = "CONTINUE" => scores[Len(scores)] < Rules(loop.mode).target_score
    <2>1. scores \in Seq(0..100) /\ Len(scores) > 0 /\ count \in Nat /\ loop.mode \in Mode
        <3>1. errors \in {0, 1}
            OBVIOUS
        <3>2. ScoreOf(errors) \in 0..100
            BY <3>1, ScoreTypes
        <3> HIDE DEF errors
        <3>3. QED
            BY <1>1, <3>2
    <2> HIDE DEF scores, count
    <2>2. QED
        BY <2>1, ContinueMeansBelow
<1>7. Rules(loop.mode).target_score <= 95
    BY DEF Rules, LoopModes
<1>8. Rules(loop.mode).target_score \in Nat
    BY <1>1, RulesTypes
<1>9. /\ loop'.mode = loop.mode /\ loop'.auth = loop.auth /\ loop'.scores = scores
      /\ loop'.running <=> reason = "CONTINUE"
    <2> HIDE DEF scores, count, reason
    <2> QED
        BY <1>1, <1>2
<1> HIDE DEF scores, reason
<1>10. CASE loop.auth /\ scores = <<55>>
    BY <1>9, <1>10 DEF ScoresOf
<1>11. CASE ~ loop.auth /\ scores = <<100>>
    <2>1. scores[Len(scores)] = 100
        BY <1>11
    <2>2. ~ loop'.running
        BY <1>6, <1>7, <1>8, <1>9, <2>1
    <2>3. QED
        BY <1>9, <1>11, <2>2 DEF ScoresOf
<1>12. CASE loop.auth /\ scores = <<55, 100>>
    <2>1. scores[Len(scores)] = 100
        BY <1>12
    <2>2. ~ loop'.running
        BY <1>6, <1>7, <1>8, <1>9, <2>1
    <2>3. QED
        BY <1>9, <1>12, <2>2 DEF ScoresOf
<1>13. QED
    BY <1>5, <1>10, <1>11, <1>12

\* A scenario starts with a loop of its own, and its report takes the scores
\* from that loop.
LEMMA ScoresStepInv ==
    ASSUME ToolInv, LoopsInv, ScoresInv, [Next]_vars
    PROVE  ScoresInv'
<1>1. /\ suite \in [at : Stages, todo : Seq(Scenario), results : Results]
      /\ DOMAIN reports = Scenario
    BY DEF ToolInv, SuiteTypeOK
<1>2. CASE UNCHANGED <<reports, suite, plans, loop>>
    BY <1>2 DEF ScoresInv, ScoreInv, ScoredOnItsOwnErrors, Current
<1>3. CASE reports' = reports /\ suite'.at \notin {"iterating", "reporting"}
    BY <1>3 DEF ScoresInv, ScoreInv, ScoredOnItsOwnErrors
<1>4. CASE StartScenario(ContextPresent)
    <2>1. /\ Dispatch(NoPlans, NoIterations, Request[Current],
                      LoopModeOf(Request[Current]), ContextPresent)
          /\ suite' = [suite EXCEPT !.at = "iterating"] /\ reports' = reports
        BY <1>4 DEF StartScenario, BeginScenario
    <2>2. loop' = FreshLoop(LoopModeOf(Request[Current]), Request[Current].id \in AuthIds)
        BY <2>1, LoopForPlan
    <2>3. LoopModeOf(Request[Current]) \in {"Balanced", "Exhaustive"}
        BY DEF LoopModeOf
    <2>4. suite'.todo = suite.todo /\ suite'.at = "iterating"
        BY <1>1, <2>1
    <2>5. /\ loop'.mode \in {"Balanced", "Exhaustive"} /\ loop'.scores = <<>>
          /\ loop'.auth = (Request[Current].id \in AuthIds) /\ loop'.running
        BY <2>2, <2>3 DEF FreshLoop
    <2>6. ScoreInv'
        BY <2>4, <2>5 DEF ScoreInv, ScoresOf, Current
    <2>7. QED
        BY <2>1, <2>6 DEF ScoresInv, ScoredOnItsOwnErrors
<1>5. CASE IterateScenario
    <2>1. PICK late \in BOOLEAN : Iterate(late)
        BY <1>5 DEF IterateScenario
    <2>2. suite.at = "iterating" /\ suite' = suite /\ reports' = reports
        BY <1>5 DEF IterateScenario, suiteVars
    <2>3. loop.running
        BY <2>1 DEF Iterate
    <2>4. /\ loop.mode \in {"Balanced", "Exhaustive"}
          /\ loop.auth = (Request[Current].id \in AuthIds)
          /\ loop.scores \in ScoresOf(loop.auth, loop.running)
        BY <2>2 DEF ScoresInv, ScoreInv
    <2>5. loop.scores \in ScoresOf(loop.auth, TRUE)
        BY <2>3, <2>4 DEF ScoresOf
    <2>6. /\ loop'.mode = loop.mode /\ loop'.auth = loop.auth
          /\ loop'.scores \in ScoresOf(loop'.auth, loop'.running)
        BY <2>1, <2>4, <2>5, IterationScores
    <2>7. ScoreInv'
        BY <2>2, <2>4, <2>6 DEF ScoreInv, Current
    <2>8. QED
        BY <2>2, <2>7 DEF ScoresInv, ScoredOnItsOwnErrors
<1>6. CASE OpenReport
    <2>1. /\ suite.at = "iterating" /\ suite' = [suite EXCEPT !.at = "reporting"]
          /\ reports' = [reports EXCEPT ![Current] = TornReport] /\ loop' = loop
          /\ ~ loop.running
        BY <1>6 DEF OpenReport
    <2>2. suite'.todo = suite.todo /\ suite'.at = "reporting"
        BY <1>1, <2>1
    <2>3. ScoreInv'
        BY <2>1, <2>2 DEF ScoresInv, ScoreInv, Current
    <2>4. TornReport.status = "torn"
        BY DEF TornReport, NoReport
    <2>5. \A s \in Scenario : reports'[s] = TornReport \/ reports'[s] = reports[s]
        BY <1>1, <2>1
    <2>6. ScoredOnItsOwnErrors'
        BY <2>4, <2>5 DEF ScoresInv, ScoredOnItsOwnErrors
    <2>7. QED
        BY <2>3, <2>6 DEF ScoresInv
<1>7. CASE CloseReport
    <2>1. PICK report :
              /\ report.iterations = Len(loop.scores)
              /\ report.score = loop.scores[Len(loop.scores)]
              /\ reports' = [reports EXCEPT ![Current] = report]
        <3>1. PICK status :
                  reports' = [reports EXCEPT ![Current] =
                      [agents |-> plans[Request[Current].task].agents,
                       iterations |-> Len(loop.scores),
                       score |-> loop.scores[Len(loop.scores)], status |-> status]]
            BY <1>7 DEF CloseReport
        <3>2. QED
            BY <3>1
    <2>2. suite.at = "reporting"
        BY <1>7 DEF CloseReport
    <2>3. /\ loop.auth = (Request[Current].id \in AuthIds)
          /\ loop.scores \in ScoresOf(loop.auth, loop.running) /\ ~ loop.running
        BY <2>2 DEF ScoresInv, ScoreInv
    <2>4. \/ loop.auth /\ loop.scores = <<55>>
          \/ loop.auth /\ loop.scores = <<55, 100>>
          \/ ~ loop.auth /\ loop.scores = <<100>>
        BY <2>3 DEF ScoresOf
    <2>5. \/ loop.auth /\ report.iterations = 1 /\ report.score = 55
          \/ loop.auth /\ report.iterations = 2 /\ report.score = 100
          \/ ~ loop.auth /\ report.iterations = 1 /\ report.score = 100
        <3>1. \A s : /\ s = <<55>> => Len(s) = 1 /\ s[Len(s)] = 55
                     /\ s = <<100>> => Len(s) = 1 /\ s[Len(s)] = 100
                     /\ s = <<55, 100>> => Len(s) = 2 /\ s[Len(s)] = 100
            OBVIOUS
        <3>2. report.iterations = Len(loop.scores) /\ report.score = loop.scores[Len(loop.scores)]
            BY <2>1
        <3>3. CASE loop.auth /\ loop.scores = <<55>>
            <4>1. report.iterations = 1 /\ report.score = 55
                BY <3>1, <3>2, <3>3
            <4>2. QED
                BY <3>3, <4>1
        <3>4. CASE loop.auth /\ loop.scores = <<55, 100>>
            <4>1. report.iterations = 2 /\ report.score = 100
                BY <3>1, <3>2, <3>4
            <4>2. QED
                BY <3>4, <4>1
        <3>5. CASE ~ loop.auth /\ loop.scores = <<100>>
            <4>1. report.iterations = 1 /\ report.score = 100
                BY <3>1, <3>2, <3>5
            <4>2. QED
                BY <3>5, <4>1
        <3>6. QED
            BY <2>4, <3>3, <3>4, <3>5
    <2>6. \A s \in Scenario : (s = Current /\ reports'[s] = report) \/ reports'[s] = reports[s]
        BY <1>1, <2>1
    <2>7. ScoredOnItsOwnErrors'
        <3> SUFFICES ASSUME NEW s \in Scenario, reports'[s].status \in {"PASS", "FAIL"}
                     PROVE  LET first == IF Request[s].id \in AuthIds THEN 55 ELSE 100
                            IN  IF reports'[s].iterations = 1 THEN reports'[s].score = first
                                ELSE /\ reports'[s].iterations = 2 /\ reports'[s].score = 100
                                     /\ first < 100
            BY DEF ScoredOnItsOwnErrors
        <3>1. CASE s = Current /\ reports'[s] = report
            <4>1. Request[s].id \in AuthIds <=> loop.auth
                BY <2>3, <3>1
            <4>2. QED
                BY <2>5, <3>1, <4>1
        <3>2. CASE reports'[s] = reports[s]
            BY <3>2 DEF ScoresInv, ScoredOnItsOwnErrors
        <3>3. QED
            BY <2>6, <3>1, <3>2
    <2>8. suite'.at \notin {"iterating", "reporting"}
        BY <1>7 DEF CloseReport, Recorded
    <2>9. QED
        BY <2>7, <2>8 DEF ScoresInv, ScoreInv
<1>8. QED
    BY <1>2, <1>3, <1>4, <1>5, <1>6, <1>7, PlanSteps

-----------------------------------------------------------------------------
(* Results *)

\* A result of the scenario whose turn it is keeps the results in line with the
\* manifest.
LEMMA RecordedAligned ==
    ASSUME NEW results \in Results, NEW todo \in Seq(Scenario), todo # <<>>,
           Aligned(results, todo), NEW status \in {"PASS", "FAIL", "ERROR"}
    PROVE  /\ Aligned(Append(results, [id |-> Head(todo), status |-> status]), Tail(todo))
           /\ Head(todo) = Manifest[Len(results) + 1]
<1> DEFINE R == [id : Scenario, status : {"PASS", "FAIL", "ERROR"}]
           result == [id |-> Head(todo), status |-> status]
           new == Append(results, result)
           rest == Tail(todo)
<1>1. results \in Seq(R) /\ result \in R
    BY DEF Results
<1>2. /\ Len(todo) \in Nat \ {0} /\ Head(todo) = todo[1] /\ Len(results) \in Nat
      /\ DOMAIN todo = 1..Len(todo) /\ DOMAIN results = 1..Len(results)
    BY <1>1
<1>3. Head(todo) = Manifest[Len(results) + 1]
    BY <1>2 DEF Aligned
<1> HIDE DEF R
<1>4. /\ Len(new) = Len(results) + 1 /\ DOMAIN new = 1..Len(new)
      /\ new[Len(results) + 1] = result
      /\ \A i \in 1..Len(results) : new[i] = results[i]
    BY <1>1
<1>5. /\ Len(rest) = Len(todo) - 1 /\ DOMAIN rest = 1..Len(rest)
      /\ \A i \in 1..Len(rest) : rest[i] = todo[i + 1]
    BY <1>2
<1> HIDE DEF new, rest
<1>6. Len(new) + Len(rest) = Len(Manifest)
    <2>1. Len(results) + Len(todo) = Len(Manifest)
        BY DEF Aligned
    <2>2. \A m \in Nat, n \in Nat \ {0} : (m + 1) + (n - 1) = m + n
        OBVIOUS
    <2>3. Len(new) + Len(rest) = Len(results) + Len(todo)
        BY <1>2, <1>4, <1>5, <2>2
    <2>4. QED
        BY <2>1, <2>3, Zenon
<1>7. \A i \in DOMAIN new : new[i].id = Manifest[i]
    <2> SUFFICES ASSUME NEW i \in DOMAIN new PROVE new[i].id = Manifest[i]
        OBVIOUS
    <2>1. CASE i = Len(results) + 1
        BY <1>3, <1>4, <2>1
    <2>2. CASE i \in 1..Len(results)
        BY <1>2, <1>4, <2>2 DEF Aligned
    <2>3. QED
        BY <1>2, <1>4, <2>1, <2>2
<1>8. \A i \in DOMAIN rest : rest[i] = Manifest[Len(new) + i]
    <2> SUFFICES ASSUME NEW i \in DOMAIN rest PROVE rest[i] = Manifest[Len(new) + i]
        OBVIOUS
    <2>1. i + 1 \in DOMAIN todo /\ i \in 1..Len(rest)
        BY <1>2, <1>5
    <2>2. rest[i] = Manifest[Len(results) + (i + 1)]
        BY <1>5, <2>1 DEF Aligned
    <2>3. Len(results) + (i + 1) = Len(new) + i
        BY <1>2, <1>4, <2>1
    <2>4. QED
        BY <2>2, <2>3
<1>9. Aligned(new, rest)
    BY <1>6, <1>7, <1>8 DEF Aligned
<1>10. QED
    BY <1>3, <1>9 DEF new, rest

\* A scenario that does not pass is never forgotten.
LEMMA RecordedUnfailed ==
    ASSUME NEW results \in Results, NEW id \in Scenario, NEW status \in {"PASS", "FAIL", "ERROR"}
    PROVE  Unfailed(Append(results, [id |-> id, status |-> status]))
               <=> Unfailed(results) /\ status = "PASS"
<1> DEFINE R == [id : Scenario, status : {"PASS", "FAIL", "ERROR"}]
           result == [id |-> id, status |-> status]
           new == Append(results, result)
<1>1. results \in Seq(R) /\ result \in R
    BY DEF Results
<1>2. DOMAIN results = 1..Len(results) /\ Len(results) \in Nat
    BY <1>1
<1> HIDE DEF R
<1>3. /\ DOMAIN new = 1..(Len(results) + 1)
      /\ new[Len(results) + 1] = result
      /\ \A i \in 1..Len(results) : new[i] = results[i]
    BY <1>1
<1> HIDE DEF new
<1>4. \A i \in DOMAIN new : i \in DOMAIN results \/ i = Len(results) + 1
    BY <1>2, <1>3
<1>5. Unfailed(new) <=> Unfailed(results) /\ result.status = "PASS"
    BY <1>2, <1>3, <1>4 DEF Unfailed
<1>6. QED
    BY <1>5 DEF new

\* At first, all of the manifest is to be done.
LEMMA NothingRecorded == Aligned(<<>>, Manifest)
<1>1. Len(Manifest) \in Nat /\ DOMAIN Manifest = 1..Len(Manifest)
    BY ManifestAssumption
<1>2. Len(<<>>) = 0 /\ DOMAIN <<>> = {}
    OBVIOUS
<1>3. \A i \in 1..Len(Manifest) : 0 + i = i
    OBVIOUS
<1>4. 0 + Len(Manifest) = Len(Manifest)
    BY <1>1
<1>5. QED
    BY <1>1, <1>2, <1>3, <1>4 DEF Aligned

\* What has been done is of the manifest, and so are its scenarios.
LEMMA ResultsAreScenarios ==
    ASSUME NEW results \in Results, NEW todo, Aligned(results, todo)
    PROVE  \A i \in DOMAIN results : results[i].id = Manifest[i] /\ Manifest[i] \in Scenario
<1> DEFINE R == [id : Scenario, status : {"PASS", "FAIL", "ERROR"}]
<1>1. results \in Seq(R)
    BY DEF Results
<1>2. \A x \in R : x.id \in Scenario
    OBVIOUS
<1> HIDE DEF R
<1>3. \A i \in DOMAIN results : results[i] \in R
    BY <1>1
<1>4. QED
    BY <1>2, <1>3 DEF Aligned

\* The results go along with the manifest, and with the reports while nothing
\* has failed.
LEMMA ResultStepInv ==
    ASSUME ToolInv, ResultInv, [Next]_vars
    PROVE  ResultInv'
<1>1. /\ suite \in [at : Stages, todo : Seq(Scenario), results : Results]
      /\ suite.todo \in Seq(Scenario) /\ suite.results \in Results
      /\ DOMAIN reports = Scenario
    BY DEF ToolInv, SuiteTypeOK
<1>2. HasWork
    BY DEF ToolInv
<1>3. CASE UNCHANGED suiteVars \/ (tool = "none" /\ EditScenario)
    <2>1. suite' = suite /\ reports' = reports
        BY <1>3 DEF suiteVars, EditScenario
    <2>2. QED
        BY <2>1 DEF ResultInv, Current
<1>4. CASE StartSuite
    <2>1. suite'.at = "scenarios" /\ suite'.results = <<>> /\ suite'.todo = Manifest
        BY <1>4 DEF StartSuite
    <2>2. suite'.results = <<>> => DOMAIN suite'.results = {}
        OBVIOUS
    <2>3. Aligned(suite'.results, suite'.todo)
        BY <2>1, NothingRecorded
    <2>4. QED
        BY <2>1, <2>2, <2>3 DEF ResultInv
<1>5. ASSUME NEW status \in {"PASS", "FAIL", "ERROR"}, suite' = Recorded(status),
             suite.at \in {"scenarios", "reporting"},
             status = "PASS" =>
                 /\ suite.at = "reporting"
                 /\ \E report : /\ report.status = "PASS"
                                /\ reports' = [reports EXCEPT ![Current] = report]
      PROVE  ResultInv'
    <2>1. suite.todo # <<>> /\ suite.at # "idle"
        BY <1>2, <1>5 DEF HasWork
    <2>2. /\ suite'.todo = Tail(suite.todo)
          /\ suite'.results = Append(suite.results, [id |-> Head(suite.todo), status |-> status])
          /\ suite'.at = IF Tail(suite.todo) = <<>> THEN "dashboard" ELSE "scenarios"
        BY <1>5 DEF Recorded, Current
    <2>3. /\ Aligned(suite'.results, suite'.todo)
          /\ Head(suite.todo) = Manifest[Len(suite.results) + 1]
        BY <1>1, <2>1, <2>2, RecordedAligned DEF ResultInv
    <2>4. Head(suite.todo) \in Scenario
        BY <1>1, <2>1
    <2>5. Unfailed(suite'.results) <=> Unfailed(suite.results) /\ status = "PASS"
        <3>1. Unfailed(Append(suite.results, [id |-> Head(suite.todo), status |-> status]))
                  <=> Unfailed(suite.results) /\ status = "PASS"
            BY <1>1, <1>5, <2>4, RecordedUnfailed, Zenon
        <3>2. QED
            BY <2>2, <3>1
    <2>6. ASSUME Unfailed(suite'.results), NEW i \in DOMAIN suite'.results
          PROVE  reports'[Manifest[i]].status = "PASS"
        <3>1. PICK report : /\ report.status = "PASS"
                            /\ reports' = [reports EXCEPT ![Current] = report]
            BY <1>5, <2>5, <2>6
        <3>2. Unfailed(suite.results) /\ suite.at = "reporting"
            BY <1>5, <2>5, <2>6
        <3>3. reports'[Current] = report /\ \A s \in Scenario \ {Current} : reports'[s] = reports[s]
            BY <1>1, <2>4, <3>1 DEF Current
        <3>4. i \in DOMAIN suite.results \/ i = Len(suite.results) + 1
            BY <1>1, <2>2 DEF Results
        <3>5. CASE Manifest[i] = Current
            BY <3>1, <3>3, <3>5
        <3>6. CASE Manifest[i] # Current /\ i \in DOMAIN suite.results
            <4>1. reports[Manifest[i]].status = "PASS"
                BY <2>1, <3>2, <3>6 DEF ResultInv
            <4>2. Manifest[i] \in Scenario
                BY <1>1, <2>1, <3>6, ResultsAreScenarios DEF ResultInv
            <4>3. QED
                BY <3>3, <3>6, <4>1, <4>2
        <3>7. QED
            BY <2>3, <3>4, <3>5, <3>6 DEF Current
    <2>7. QED
        BY <2>2, <2>3, <2>6 DEF ResultInv
<1>6. CASE MissScenario \/ FailScenario
    <2>1. PICK status \in {"FAIL", "ERROR"} : suite' = Recorded(status) /\ suite.at = "scenarios"
        BY <1>6 DEF MissScenario, FailScenario
    <2>2. QED
        BY <1>5, <2>1
<1>7. CASE StartScenario(ContextPresent)
    <2>1. /\ suite.at = "scenarios" /\ suite' = [suite EXCEPT !.at = "iterating"]
          /\ reports' = reports
        BY <1>7 DEF StartScenario, BeginScenario
    <2>2. suite'.at = "iterating" /\ suite'.todo = suite.todo /\ suite'.results = suite.results
        BY <1>1, <2>1
    <2>3. QED
        BY <2>1, <2>2 DEF ResultInv
<1>8. CASE OpenReport
    <2>1. /\ suite.at = "iterating" /\ suite' = [suite EXCEPT !.at = "reporting"]
          /\ reports' = [reports EXCEPT ![Current] = TornReport]
        BY <1>8 DEF OpenReport
    <2>2. suite'.at = "reporting" /\ suite'.todo = suite.todo /\ suite'.results = suite.results
        BY <1>1, <2>1
    <2>3. \A s : s # Current => reports'[s] = reports[s] \/ s \notin Scenario
        BY <1>1, <2>1
    <2>4. \A i \in DOMAIN suite.results : Manifest[i] \in Scenario
        BY <1>1, <2>1, ResultsAreScenarios DEF ResultInv
    <2>5. QED
        BY <2>1, <2>2, <2>3, <2>4 DEF ResultInv, Current
<1>9. CASE CloseReport
    <2>1. PICK status \in {"PASS", "FAIL"} :
              /\ suite' = Recorded(status)
              /\ reports' = [reports EXCEPT ![Current] =
                     [agents |-> plans[Request[Current].task].agents,
                      iterations |-> Len(loop.scores),
                      score |-> loop.scores[Len(loop.scores)], status |-> status]]
        BY <1>9 DEF CloseReport
    <2>2. \E report : report.status = status /\ reports' = [reports EXCEPT ![Current] = report]
        BY <2>1
    <2>3. suite.at = "reporting"
        BY <1>9 DEF CloseReport
    <2>4. QED
        BY <1>5, <2>1, <2>2, <2>3
<1>10. CASE OpenDashboard
    <2>1. /\ suite.at = "dashboard" /\ suite' = [suite EXCEPT !.at = "writing"]
          /\ reports' = reports
        BY <1>10 DEF OpenDashboard
    <2>2. suite'.at = "writing" /\ suite'.todo = suite.todo /\ suite'.results = suite.results
        BY <1>1, <2>1
    <2>3. QED
        BY <2>1, <2>2 DEF ResultInv
<1>11. CASE CrashSuite \/ FinishSuite \/ KillSuite
    BY <1>11 DEF CrashSuite, FinishSuite, KillSuite, IdleSuite, ResultInv
<1>12. QED
    BY <1>3, <1>4, <1>6, <1>7, <1>8, <1>9, <1>10, <1>11, SuiteSteps

-----------------------------------------------------------------------------
(* What a success says *)

\* A suite that comes to its end has a result of every scenario; if none failed,
\* all reports say PASS, and one that passed as many as there are failed none.
LEMMA SuiteSuccess ==
    ASSUME ToolInv, ResultInv, suite.at = "writing"
    PROVE  /\ Unfailed(suite.results) =>
                  /\ Passed(suite.results) = Scenario
                  /\ \A s \in Scenario : reports[s].status = "PASS"
           /\ Cardinality(Passed(suite.results)) = ExpectedScenarios
                  => Unfailed(suite.results)
<1>1. /\ suite.results \in Results
      /\ suite.todo = <<>> /\ Aligned(suite.results, suite.todo)
      /\ Unfailed(suite.results) =>
             \A i \in DOMAIN suite.results : reports[Manifest[i]].status = "PASS"
    BY DEF ToolInv, SuiteTypeOK, ResultInv
<1>2. DOMAIN Manifest = 1..Len(Manifest) /\ Len(Manifest) \in Nat
    BY ManifestAssumption
<1>3. DOMAIN suite.results = DOMAIN Manifest
    <2>1. DOMAIN suite.results = 1..Len(suite.results) /\ Len(suite.results) \in Nat
        BY <1>1 DEF Results
    <2>2. Len(suite.results) + Len(suite.todo) = Len(Manifest)
        BY <1>1 DEF Aligned
    <2>3. suite.todo = <<>> => Len(suite.todo) = 0
        OBVIOUS
    <2>4. Len(suite.results) = Len(Manifest)
        BY <1>1, <2>1, <2>2, <2>3
    <2>5. QED
        BY <1>2, <2>1, <2>4
<1>4. \A i \in DOMAIN Manifest : suite.results[i].id = Manifest[i]
    BY <1>1, <1>3 DEF Aligned
<1>5. ASSUME Unfailed(suite.results)
      PROVE  /\ Passed(suite.results) = Scenario
             /\ \A s \in Scenario : reports[s].status = "PASS"
    <2>1. Passed(suite.results) = {suite.results[i].id : i \in DOMAIN Manifest}
        BY <1>3, <1>5 DEF Passed, Unfailed
    <2>2. Passed(suite.results) = Scenario
        BY <1>4, <2>1 DEF Scenario
    <2>3. QED
        BY <1>1, <1>3, <1>5, <2>2 DEF Scenario
<1>6. ASSUME ~ Unfailed(suite.results)
      PROVE  Cardinality(Passed(suite.results)) # ExpectedScenarios
    <2>1. PICK i \in DOMAIN Manifest : suite.results[i].status # "PASS"
        BY <1>3, <1>6 DEF Unfailed
    <2> DEFINE Rest == (1..Len(Manifest)) \ {i}
               Others == {Manifest[j] : j \in Rest}
    <2>2. Passed(suite.results) \subseteq Others
        BY <1>2, <1>3, <1>4, <2>1 DEF Passed
    <2>3. IsFiniteSet(Rest) /\ Cardinality(Rest) = Len(Manifest) - 1
        <3>1. IsFiniteSet(1..Len(Manifest)) /\ Cardinality(1..Len(Manifest)) = Len(Manifest)
            <4>1. 1 \in Int /\ Len(Manifest) \in Int /\ Len(Manifest) # 0
                BY <1>2, <2>1
            <4>2. QED
                BY <4>1, <1>2, FS_Interval
        <3>2. i \in 1..Len(Manifest)
            BY <1>2
        <3>3. QED
            BY <3>1, <3>2, FS_RemoveElement
    <2>4. IsFiniteSet(Others) /\ Cardinality(Others) <= Cardinality(Rest)
        <3> HIDE DEF Rest
        <3>1. QED
            BY <2>3, ImageSize
    <2> HIDE DEF Rest, Others
    <2>5. /\ Cardinality(Passed(suite.results)) <= Cardinality(Others)
          /\ Cardinality(Passed(suite.results)) \in Nat /\ Cardinality(Others) \in Nat
        <3>1. IsFiniteSet(Passed(suite.results))
            BY <2>2, <2>4, FS_Subset
        <3>2. QED
            BY <2>2, <2>4, <3>1, FS_Subset, FS_CardinalityType
    <2>6. QED
        BY <1>2, <2>3, <2>4, <2>5 DEF ExpectedScenarios
<1>7. QED
    BY <1>5, <1>6

\* Success of a suite or a check is answered when it ends, and by nothing else.
LEMMA AnswerSteps ==
    ASSUME ToolInv, [Next]_vars
    PROVE  \/ UNCHANGED vars \/ answer'.tool \notin {"suite", "check"}
           \/ EndSuite \/ CheckGrade
<1> DEFINE P == \/ UNCHANGED vars \/ answer'.tool \notin {"suite", "check"}
                \/ EndSuite \/ CheckGrade
<1>1. EditFile \/ EditScenario \/ Checkout \/ RunSetup \/ RefuseSetup \/ RunSelfTest
      \/ RunSuite \/ RunEngine \/ RunCheck => P
    BY DEF EditFile, EditScenario, Checkout, RunSetup, RefuseSetup, RunSelfTest, RunSuite,
           RunEngine, RunCheck, Act, NoAnswer, Answer, AnswerOf
<1>2. FinishSetup \/ FinishSelfTest \/ EndEngine => P
    BY DEF FinishSetup, FinishSelfTest, EndEngine, Answer, AnswerOf
<1>3. SetupStep \/ SuiteStep \/ EngineStep \/ CheckSelfTest \/ CheckSuite \/ Kill => P
    <2>1. SetupStep => tool # "none"
        BY DEF SetupStep, Preserve, OpenForWriting, CloseFile, File, ToolInv, OneTool
    <2>2. SuiteStep => suite.at # "idle"
        BY DEF SuiteStep, MissScenario, FailScenario, StartScenario, BeginScenario,
               IterateScenario, OpenReport, CloseReport, OpenDashboard
    <2>3. SuiteStep => tool # "none"
        BY <2>2 DEF ToolInv, OneTool
    <2>4. EngineStep \/ CheckSelfTest \/ CheckSuite \/ Kill => tool # "none"
        BY DEF EngineStep, CheckSelfTest, CheckSuite, Kill
    <2>5. SetupStep \/ SuiteStep \/ EngineStep \/ CheckSelfTest \/ CheckSuite \/ Kill
              => answer' = answer
        BY DEF SetupStep, SuiteStep, EngineStep, CheckSelfTest, CheckSuite, Kill
    <2>6. tool # "none" => answer.tool = "none"
        BY DEF ToolInv, OneTool, NoAnswer, Answer, AnswerOf
    <2>7. QED
        BY <2>1, <2>3, <2>4, <2>5, <2>6
<1> HIDE DEF P
<1>4. EndSuite \/ CheckGrade \/ UNCHANGED vars => P
    BY DEF P
<1>5. P
    BY <1>1, <1>2, <1>3, <1>4 DEF Next, Operate, ToolStep
<1>6. QED
    BY <1>5 DEF P

\* What the suite says of itself when it succeeds is what it has written.
LEMMA SuccessStep ==
    ASSUME ToolInv, ResultInv, SuccessIsOnDisk, [Next]_vars
    PROVE  SuccessIsOnDisk'
<1>1. CASE UNCHANGED vars
    BY <1>1 DEF vars, suiteVars, SuccessIsOnDisk
<1>2. CASE answer'.tool # "suite"
    BY <1>2 DEF SuccessIsOnDisk, Answer, AnswerOf
<1>3. ASSUME EndSuite, answer' = Answer("suite", TRUE)
      PROVE  SuccessIsOnDisk'
    <2>1. FinishSuite /\ AllPassed
        <3>1. answer'.exit = 0
            BY <1>3 DEF Answer, AnswerOf
        <3>2. FinishSuite /\ answer' = Answer("suite", AllPassed)
            <4>1. \/ CrashSuite /\ answer' = Answer("suite", FALSE)
                  \/ FinishSuite /\ answer' = Answer("suite", AllPassed)
                BY <1>3, Zenon DEF EndSuite
            <4>2. answer' # Answer("suite", FALSE)
                BY <3>1 DEF Answer, AnswerOf
            <4>3. QED
                BY <4>1, <4>2, Zenon
        <3>3. CASE ~ AllPassed
            <4>1. answer'.exit = 1
                BY <3>2, <3>3 DEF Answer, AnswerOf
            <4>2. QED
                BY <3>1, <4>1
        <3>4. QED
            BY <3>2, <3>3
    <2>2. /\ suite.at = "writing" /\ reports' = reports
          /\ dashboard'.results = suite.results
          /\ dashboard'.covered = Covered(suite.results)
        BY <2>1 DEF FinishSuite, Dashboard
    <2>3. /\ Passed(suite.results) = Scenario
          /\ \A s \in Scenario : reports[s].status = "PASS"
        BY <2>1, <2>2, SuiteSuccess DEF AllPassed, Unfailed
    <2>4. Passed(dashboard'.results) = Scenario
        BY <2>2, <2>3
    <2>5. Covered(suite.results) = Subsystem
        <3> DEFINE C == Covered(suite.results)
        <3>1. C \subseteq Subsystem
            BY <2>3, CoverageAssumption DEF Covered
        <3>2. Cardinality(C) >= Cardinality(Subsystem)
            BY <2>1 DEF AllPassed
        <3>3. IsFiniteSet(Subsystem)
            BY CoverageAssumption
        <3> HIDE DEF C
        <3>4. /\ IsFiniteSet(C) /\ Cardinality(C) <= Cardinality(Subsystem)
              /\ Cardinality(C) = Cardinality(Subsystem) => C = Subsystem
            BY <3>1, <3>3, FS_Subset
        <3>5. Cardinality(C) \in Nat /\ Cardinality(Subsystem) \in Nat
            BY <3>3, <3>4, FS_CardinalityType
        <3>6. C = Subsystem
            BY <3>2, <3>4, <3>5
        <3>7. QED
            BY <3>6 DEF C
    <2>6. QED
        BY <2>2, <2>3, <2>4, <2>5 DEF SuccessIsOnDisk
<1>4. CASE CheckGrade
    BY <1>4 DEF CheckGrade, SuccessIsOnDisk, Answer, AnswerOf
<1>5. QED
    BY <1>1, <1>2, <1>3, <1>4, AnswerSteps DEF SuccessIsOnDisk

-----------------------------------------------------------------------------
(* The baseline check *)

\* The tree changes between two tools only.
LEMMA TreeSteps ==
    ASSUME [Next]_vars, tree \in Trees
    PROVE  tree' \in Trees /\ (tool # "none" => tree' = tree)
<1> DEFINE P == tree' \in Trees /\ (tool # "none" => tree' = tree)
<1>1. Checkout => P
    BY DEF Checkout, Act
<1>2. EditFile \/ EditScenario \/ RunSetup \/ RefuseSetup \/ RunSelfTest
      \/ RunSuite \/ RunEngine \/ RunCheck => P
    BY DEF EditFile, EditScenario, RunSetup, RefuseSetup, RunSelfTest, RunSuite,
           RunEngine, RunCheck
<1>3. SetupStep \/ FinishSetup \/ FinishSelfTest \/ SuiteStep \/ EndSuite \/ EngineStep
      \/ EndEngine \/ CheckSelfTest \/ CheckSuite \/ CheckGrade \/ Kill \/ UNCHANGED vars => P
    BY DEF SetupStep, FinishSetup, FinishSelfTest, SuiteStep, EndSuite, EngineStep,
           EndEngine, CheckSelfTest, CheckSuite, CheckGrade, Kill, vars
<1> HIDE DEF P
<1>4. P
    BY <1>1, <1>2, <1>3 DEF Next, Operate, ToolStep
<1>5. QED
    BY <1>4 DEF P

\* What the check has come past stays so: nothing else runs meanwhile.
LEMMA CheckStepInv ==
    ASSUME ToolInv, ResultInv, CheckInv, tree \in Trees, [Next]_vars
    PROVE  CheckInv'
<1>1. CASE UNCHANGED vars
    BY <1>1 DEF vars, suiteVars, CheckInv, ProfilesVerified, AllOnDisk
<1>2. CASE check' = check /\ check.at = "idle"
    BY <1>2 DEF CheckInv
<1>3. CASE RunCheck
    BY <1>3 DEF RunCheck, CheckInv
<1>4. Operate => RunCheck \/ (check' = check /\ check.at = "idle")
    <2>1. Operate => tool = "none"
        BY DEF Operate, EditFile, EditScenario, Checkout, RunSetup, RefuseSetup, RunSelfTest,
               RunSuite, RunEngine, RunCheck, Act
    <2>2. Operate => RunCheck \/ check' = check
        BY DEF Operate, EditFile, EditScenario, Checkout, RunSetup, RefuseSetup, RunSelfTest,
               RunSuite, RunEngine
    <2>3. QED
        BY <2>1, <2>2 DEF CheckInv
<1>5. SetupStep \/ FinishSetup \/ FinishSelfTest \/ EndSuite \/ EngineStep \/ EndEngine
          => check' = check /\ check.at = "idle"
    <2>1. SetupStep \/ FinishSetup => tool = "setup"
        BY DEF SetupStep, Preserve, OpenForWriting, CloseFile, File, FinishSetup, EndSetup,
               ToolInv, OneTool
    <2>2. FinishSelfTest \/ EndSuite \/ EngineStep \/ EndEngine => tool # "check"
        BY DEF FinishSelfTest, EndSuite, EngineStep, EndEngine
    <2>3. SetupStep \/ FinishSetup \/ FinishSelfTest \/ EndSuite \/ EngineStep \/ EndEngine
              => check' = check
        BY DEF SetupStep, FinishSetup, FinishSelfTest, EndSuite, EngineStep, EndEngine
    <2>4. QED
        BY <2>1, <2>2, <2>3 DEF CheckInv
<1>6. CASE SuiteStep
    <2>1. suite.at # "idle"
        BY <1>6 DEF SuiteStep, MissScenario, FailScenario, StartScenario, BeginScenario,
                    IterateScenario, OpenReport, CloseReport, OpenDashboard
    <2>2. check.at = "suite" \/ check.at = "idle"
        BY <2>1 DEF ToolInv, OneTool, CheckInv
    <2>3. UNCHANGED <<tree, tool, check>>
        BY <1>6 DEF SuiteStep
    <2>4. QED
        BY <2>2, <2>3 DEF CheckInv, ProfilesVerified
<1>7. CASE CheckSelfTest
    <2>1. \/ check'.at = "suite" /\ (check'.failed <=> ~ ProfilesVerified)
          \/ check'.at = "validator" /\ check'.failed
        <3> DEFINE failed == ~ ProfilesVerified
        <3>1. \/ check' = [at |-> "suite", failed |-> failed]
              \/ check' = [at |-> "validator", failed |-> TRUE]
            BY <1>7, Zenon DEF CheckSelfTest
        <3>2. failed <=> ~ ProfilesVerified
            OBVIOUS
        <3> HIDE DEF failed
        <3>3. QED
            BY <3>1, <3>2
    <2>2. tool' = "check" /\ tree' = tree
        BY <1>7 DEF CheckSelfTest
    <2>3. QED
        BY <2>1, <2>2 DEF CheckInv, ProfilesVerified
<1>8. CASE CheckSuite
    <2>1. /\ tool' = "check" /\ tree' = tree /\ check.at = "suite"
          /\ check'.at = "validator"
        BY <1>8 DEF CheckSuite
    <2>2. CASE check'.failed
        BY <2>1, <2>2 DEF CheckInv
    <2>3. CASE ~ check'.failed
        <3>1. /\ FinishSuite /\ ~ check.failed
              /\ Cardinality(Passed(suite.results)) = ExpectedScenarios
            <4> DEFINE all == Cardinality(Passed(suite.results)) = ExpectedScenarios
                       failed == check.failed \/ ~ all
            <4>1. \/ check' = [at |-> "validator", failed |-> TRUE]
                  \/ FinishSuite /\ check' = [at |-> "validator", failed |-> failed]
                BY <1>8, Zenon DEF CheckSuite
            <4>2. failed <=> check.failed \/ ~ all
                OBVIOUS
            <4> HIDE DEF failed
            <4>3. FinishSuite /\ ~ failed
                BY <2>3, <4>1
            <4>4. QED
                BY <4>2, <4>3
        <3>2. suite.at = "writing" /\ dashboard'.results = suite.results /\ reports' = reports
            BY <3>1 DEF FinishSuite, Dashboard
        <3>3. \A s \in Scenario : reports[s].status = "PASS"
            BY <3>1, <3>2, SuiteSuccess
        <3>4. AllOnDisk'
            BY <3>1, <3>2, <3>3 DEF AllOnDisk
        <3>5. ProfilesVerified'
            BY <2>1, <3>1 DEF CheckInv, ProfilesVerified
        <3>6. QED
            BY <2>1, <3>4, <3>5 DEF CheckInv
    <2>4. QED
        BY <2>2, <2>3
<1>9. CASE CheckGrade \/ Kill
    BY <1>9 DEF CheckGrade, Kill, IdleCheck, CheckInv
<1>10. QED
    BY <1>1, <1>2, <1>3, <1>4, <1>5, <1>6, <1>7, <1>8, <1>9 DEF Next, ToolStep

\* The check that says success has seen all that success means.
LEMMA GreenStep ==
    ASSUME ToolInv, CheckInv, GreenBoundsTheDamage, tree \in Trees, [Next]_vars
    PROVE  GreenBoundsTheDamage'
<1> DEFINE Dead == {c \in Category : Score(c, Defects) = 0}
<1>1. CASE UNCHANGED vars
    <2>1. UNCHANGED <<tree, dashboard, reports, scenario, file, answer>>
        BY <1>1 DEF vars, suiteVars, bootstrapVars
    <2>2. Defects' = Defects
        BY <2>1 DEF Defects, SetupDefects
    <2>3. Dead' = Dead
        BY <2>2
    <2> HIDE DEF Dead
    <2>4. QED
        BY <2>1, <2>3 DEF Dead, GreenBoundsTheDamage, ProfilesVerified
<1>2. CASE answer'.tool # "check"
    BY <1>2 DEF GreenBoundsTheDamage, Answer, AnswerOf
<1>3. CASE EndSuite
    BY <1>3 DEF EndSuite, GreenBoundsTheDamage, Answer, AnswerOf
<1>4. ASSUME CheckGrade, answer' = Answer("check", TRUE)
      PROVE  GreenBoundsTheDamage'
    <2> DEFINE sound == OverallGrade(Defects) >= MinGrade /\ Defects.broken_link = 0
    <2>1. sound /\ ~ check.failed /\ check.at = "validator"
        <3>1. answer' = Answer("check", sound /\ ~ check.failed) /\ check.at = "validator"
            BY <1>4 DEF CheckGrade
        <3> HIDE DEF sound
        <3>2. answer'.exit = 0
            BY <1>4 DEF Answer, AnswerOf
        <3>3. QED
            BY <3>1, <3>2 DEF Answer, AnswerOf
    <2>2. ProfilesVerified /\ AllOnDisk
        BY <2>1 DEF CheckInv
    <2>3. /\ Defects \in [Defect -> Nat]
          /\ Defects.broken_link = tree.defects.broken_link
        BY DefectsAreCounted
    <2>4. Cardinality(Dead) <= 3
        BY <2>1, <2>3, GradeBoundsTheDead
    <2>5. UNCHANGED <<tree, dashboard, reports, scenario, file>>
        BY <1>4 DEF CheckGrade, suiteVars, bootstrapVars
    <2>6. Defects' = Defects
        BY <2>5 DEF Defects, SetupDefects
    <2>7. Dead' = Dead
        BY <2>6
    <2>8. tree.defects.broken_link = 0
        BY <2>1, <2>3
    <2> HIDE DEF Dead
    <2>9. QED
        BY <2>2, <2>4, <2>5, <2>7, <2>8 DEF Dead, GreenBoundsTheDamage, ProfilesVerified,
                                            AllOnDisk
<1>5. QED
    BY <1>1, <1>2, <1>3, <1>4, AnswerSteps DEF GreenBoundsTheDamage

-----------------------------------------------------------------------------
(* The theorems *)

\* What holds of the tools and their answers, of setups, loops and plans, all at
\* once.
Everything ==
    /\ ToolInv /\ tree \in Trees
    /\ SetupInv /\ SuccessfulSetupIsComplete
    /\ LoopsInv /\ PlansInv /\ ScoresInv
    /\ ResultInv /\ SuccessIsOnDisk
    /\ CheckInv /\ GreenBoundsTheDamage

\* Nothing has been set up, planned, iterated or answered at first.
LEMMA EverythingInit == Init => Everything
<1> SUFFICES ASSUME Init PROVE Everything
    OBVIOUS
<1>1. SetupInv /\ SuccessfulSetupIsComplete
    BY DEF Init, BootstrapInit, IdleSetup, NoAnswer, Answer, AnswerOf, SetupInv,
           SuccessfulSetupIsComplete
<1>2. LoopsInv
    <2>1. "Balanced" \in Mode
        BY DEF Mode, LoopModes
    <2>2. loop = [running |-> FALSE, mode |-> "Balanced", auth |-> FALSE, loop_count |-> 0,
                  scores |-> <<>>, reason |-> "CONTINUE"]
        BY DEF Init, LoopInit, FreshLoop
    <2>3. Rules("Balanced").max_loops \in Nat
        BY <2>1, RulesTypes
    <2>4. <<>> \in Seq(0..100)
        OBVIOUS
    <2>5. QED
        BY <2>1, <2>2, <2>3, <2>4 DEF LoopsInv, LoopTypeOK, LoopInv, LoopStopsInTime, Reason
<1>3. PlansInv
    BY DEF Init, SuiteInit, IdleSuite, NoReport, PlansInv, PlanInv, RoutedByItsOwnFiles
<1>4. ScoresInv /\ ResultInv
    BY DEF Init, SuiteInit, IdleSuite, NoReport, ScoresInv, ScoreInv, ScoredOnItsOwnErrors,
           ResultInv
<1>5. SuccessIsOnDisk /\ CheckInv /\ GreenBoundsTheDamage
    BY DEF Init, IdleCheck, NoAnswer, Answer, AnswerOf, SuccessIsOnDisk, CheckInv,
           GreenBoundsTheDamage
<1>6. tree \in Trees
    BY DEF Init
<1>7. QED
    BY <1>1, <1>2, <1>3, <1>4, <1>5, <1>6, ToolInit DEF Everything

\* AgentInv is an invariant: the tools run one at a time, every setup, loop, plan,
\* suite and check is where it can be, and what follows from that holds.
THEOREM AgentsAreSound == Spec => []AgentInv
<1>1. Everything /\ [Next]_vars => Everything'
    <2> SUFFICES ASSUME Everything, [Next]_vars PROVE Everything'
        OBVIOUS
    <2> USE DEF Everything
    <2>1. ToolInv' /\ tree' \in Trees
        BY ToolStepInv, TreeSteps
    <2>2. SetupInv' /\ SuccessfulSetupIsComplete'
        BY SetupStepInv, SetupAnswerStep
    <2>3. LoopsInv' /\ PlansInv' /\ ScoresInv'
        BY LoopStepInv, PlansStepInv, ScoresStepInv
    <2>4. ResultInv' /\ SuccessIsOnDisk'
        BY ResultStepInv, SuccessStep
    <2>5. CheckInv' /\ GreenBoundsTheDamage'
        BY CheckStepInv, GreenStep
    <2>6. QED
        BY <2>1, <2>2, <2>3, <2>4, <2>5
<1>2. Everything => AgentInv
    BY DEF Everything, AgentInv, TypeOK, ToolInv, ToolTypeOK, LoopsInv, PlansInv, ScoresInv
<1>3. QED
    BY EverythingInit, <1>1, <1>2, PTL DEF Spec

\* After a setup that succeeds the configuration is its own and both context files
\* are there, after a resume with a text, whatever was killed or edited before it.
THEOREM SetupsAreComplete == Spec => []SuccessfulSetupIsComplete
<1>1. AgentInv => SuccessfulSetupIsComplete
    BY DEF AgentInv
<1>2. QED
    BY AgentsAreSound, <1>1, PTL

\* Every loop ends in time, in every mode and whatever the clock does.
THEOREM LoopsStopInTime == Spec => []LoopStopsInTime
<1>1. AgentInv => LoopStopsInTime
    BY DEF AgentInv
<1>2. QED
    BY AgentsAreSound, <1>1, PTL

\* Every scenario of every manifest is routed by its own files.
THEOREM ScenariosAreRouted == Spec => []RoutedByItsOwnFiles
<1>1. AgentInv => RoutedByItsOwnFiles
    BY DEF AgentInv
<1>2. QED
    BY AgentsAreSound, <1>1, PTL

\* Every scenario is scored on the iterations of its own loop, whatever ran
\* before it, and however the loops before it ended.
THEOREM ScoresAreOwn == Spec => []ScoredOnItsOwnErrors
<1>1. AgentInv => ScoredOnItsOwnErrors
    BY DEF AgentInv
<1>2. QED
    BY AgentsAreSound, <1>1, PTL

\* A suite that reports success, of any manifest and any coverage, has it on the
\* disk: every report says PASS, and the dashboard lists and covers everything.
THEOREM SuccessesAreOnDisk == Spec => []SuccessIsOnDisk
<1>1. AgentInv => SuccessIsOnDisk
    BY DEF AgentInv
<1>2. QED
    BY AgentsAreSound, <1>1, PTL

\* A green baseline check bounds the damage on any tree: the eighteen scores of
\* at most a hundred average 83 only if at most three of them are nothing.
THEOREM GreenChecksBound == Spec => []GreenBoundsTheDamage
<1>1. AgentInv => GreenBoundsTheDamage
    BY DEF AgentInv
<1>2. QED
    BY AgentsAreSound, <1>1, PTL

\* Of any set of contracts the validator reports only agents whose escalations
\* never end, and misses none but those that meet a final authority on their way.
THEOREM CyclesAreFound == Spec => []EscalationCyclesAreFound
<1>1. AgentInv => EscalationCyclesAreFound
    <2> SUFFICES ASSUME tree \in Trees PROVE EscalationCyclesAreFound
        BY DEF AgentInv
    <2> DEFINE map == EscalationMap(tree.declared)
    <2>1. DOMAIN map = DOMAIN tree.declared
        BY DEF EscalationMap
    <2>2. IsFiniteSet(DOMAIN map)
        BY <2>1, TreeAssumption
    <2> HIDE DEF map
    <2>3. ASSUME NEW a \in DOMAIN map
          PROVE  CycleFound(map, a) <=>
                     \E ring \in SUBSET (DOMAIN map \ FinalAuthority) :
                         a \in ring /\ IsRing(map, ring)
        BY <2>2, WalkFindsRings DEF RunsIntoCycle, IsRing
    <2>4. ASSUME NEW a \in DOMAIN map, CycleFound(map, a)
          PROVE  NeverResolves(map, a)
        BY <2>3, <2>4 DEF NeverResolves
    <2>5. ASSUME NEW a \in DOMAIN map, ~ CycleFound(map, a),
                 NEW ring \in SUBSET DOMAIN map, a \in ring, IsRing(map, ring)
          PROVE  ring \cap FinalAuthority # {}
        BY <2>3, <2>5
    <2>6. QED
        BY <2>4, <2>5 DEF EscalationCyclesAreFound, map
<1>2. QED
    BY AgentsAreSound, <1>1, PTL
=============================================================================
