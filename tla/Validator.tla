------------------------------ MODULE Validator ------------------------------
(***************************************************************************)
(* The repository validator (tools/scripts/validate_agentos.py) as a       *)
(* function of the defects of a tree.  A defect map n says for each kind   *)
(* of defect how often the scan meets it; each kind costs its points per   *)
(* occurrence in one of eighteen categories.  The code takes the points    *)
(* off one by one and never goes below zero, which is the difference       *)
(* stopped at zero; a category whose index is unreadable is set to zero,   *)
(* which is a loss of a hundred.  What is printed beside the grade (the    *)
(* section reports, the coverage, the warnings) is left out.               *)
(***************************************************************************)
EXTENDS Integers, FiniteSets, Functions

StructuralChecks == [missing_root_file |-> 15, misnamed_agent |-> 10]
ContractChecks == [missing_section |-> 5]
DependencyChecks == [escalation_cycle |-> 50]
TokenBudgetChecks == [oversized_budget |-> 20]
CrossReferenceChecks == [broken_link |-> 5]
ArchitectureChecks == [missing_layer |-> 20]
AgentRoutingChecks == [routing_unreadable |-> 100, unroutable_domain |-> 15]
WorkflowChecks == [workflow_index_missing |-> 100, missing_workflow |-> 15]
StandardsChecks ==
    [standards_index_missing |-> 100, unregistered_standard |-> 10, untiered_standard |-> 10]
MetricsChecks == [unowned_metric |-> 15, unscheduled_metric |-> 15]
ArtifactsChecks ==
    [invalid_frontmatter |-> 10, missing_key |-> 5, broken_trace |-> 10, orphan_decision |-> 5]
BootstrapChecks ==
    [missing_boot_file |-> 25, config_absent |-> 20, config_invalid |-> 15,
     config_profile_missing |-> 15, context_absent |-> 10]
HarnessChecks ==
    [missing_harness_file |-> 10, missing_policy |-> 15, empty_policy |-> 10,
     unparsable_policy |-> 15]
LoopChecks ==
    [missing_loop_module |-> 5, missing_loop_policy |-> 10, unparsable_loop_policy |-> 10,
     unbounded_loops |-> 15]
ValidationChecks == [missing_manifest |-> 25, missing_runner |-> 10, incomplete_scenario |-> 5]
ProductionChecks == [unreleased_version |-> 25, missing_report |-> 20]
CertificationChecks == [version_not_final |-> 25, missing_certificate |-> 10]
DistributionChecks ==
    [missing_onboarding_file |-> 8, missing_tooling_file |-> 5, missing_profile |-> 5,
     stale_version |-> 5, broken_index_link |-> 5]

\* The scores, by category.  Checklists have none: a missing gate is a warning.
Checks ==
    [Structural |-> StructuralChecks, Contract |-> ContractChecks,
     Dependency |-> DependencyChecks, TokenBudget |-> TokenBudgetChecks,
     CrossReference |-> CrossReferenceChecks, Architecture |-> ArchitectureChecks,
     AgentRouting |-> AgentRoutingChecks, Workflow |-> WorkflowChecks,
     Standards |-> StandardsChecks, Metrics |-> MetricsChecks, Artifacts |-> ArtifactsChecks,
     Bootstrap |-> BootstrapChecks, Harness |-> HarnessChecks, Loop |-> LoopChecks,
     Validation |-> ValidationChecks, Production |-> ProductionChecks,
     Certification |-> CertificationChecks, Distribution |-> DistributionChecks]

Category == DOMAIN Checks
Defect == UNION {DOMAIN Checks[c] : c \in Category}
Sound == [k \in Defect |-> 0]

Score(c, n) ==
    LET lost == SumFunction([k \in DOMAIN Checks[c] |-> Checks[c][k] * n[k]])
    IN  IF lost > 100 THEN 0 ELSE 100 - lost

OverallGrade(n) == SumFunction([c \in Category |-> Score(c, n)]) \div Cardinality(Category)

\* The exit status: the grade, and no broken reference and no cycle at all.
Passes(n) == OverallGrade(n) >= 85 /\ n.broken_link = 0 /\ n.escalation_cycle = 0

-----------------------------------------------------------------------------
(* Who an agent escalates to, and the walk that looks for cycles *)

FinalAuthority == {"human", "orchestrator", "chief-architect"}

\* The first "escalate to" of the contract, or the default; declared[a] = ""
\* where the contract has no such clause.
EscalationMap(declared) ==
    [a \in DOMAIN declared |->
        IF declared[a] # "" THEN declared[a]
        ELSE IF a \in {"orchestrator", "chief-architect", "planner"} THEN "human"
        ELSE "chief-architect"]

\* Mutant: a cycle is one that comes back to where the walk began.
CycleFound_ComesHome(map, start) ==
    LET walk[at \in (DOMAIN map) \X SUBSET DOMAIN map] ==
            LET curr == at[1]
                visited == at[2]
            IN  IF curr \in FinalAuthority THEN FALSE
                ELSE IF curr \in visited THEN curr = start
                ELSE map[curr] \in DOMAIN map /\ walk[<<map[curr], visited \cup {curr}>>]
    IN  walk[<<start, {}>>]

\* The walk of validate_dependency from curr, when it has come past visited.
Walk(map) ==
    LET walk[at \in (DOMAIN map) \X SUBSET DOMAIN map] ==
            LET curr == at[1]
                visited == at[2]
            IN  IF curr \in FinalAuthority THEN FALSE
                ELSE IF curr \in visited THEN TRUE
                ELSE map[curr] \in DOMAIN map /\ walk[<<map[curr], visited \cup {curr}>>]
    IN  walk

CycleFound(map, start) == Walk(map)[<<start, {}>>]

\* Counted once for each agent whose escalations run into one.
CyclesFound(map) == Cardinality({a \in DOMAIN map : CycleFound(map, a)})

\* Whoever is in the ring escalates to one who is.
IsRing(map, ring) == \A b \in ring : map[b] \in ring

\* What a cycle is (ADR-0019): the human engineer is the one terminal authority,
\* and escalations that start at a never leave the agents.
NeverResolves(map, a) == \E ring \in SUBSET DOMAIN map : a \in ring /\ IsRing(map, ring)
=============================================================================
