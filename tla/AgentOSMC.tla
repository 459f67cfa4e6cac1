------------------------------ MODULE AgentOSMC ------------------------------
(* An instance of AgentOS for TLC. *)
EXTENDS AgentOS, TLC

CONSTANTS p1, p2

\* Two scenarios with the same task, of which the first speaks of
\* authentication and covers everything that the second does.
TwoScenarios == <<"VS-1-auth", "VS-2">>

OneFile(name, type, words) == <<[name |-> name, type |-> type, words |-> words]>>

Requests ==
    "VS-1-auth" :> [id |-> "VS-1-auth", task |-> {"test", "multiple"},
                    files |-> OneFile("auth", "py", {"auth"})] @@
    "VS-2" :> [id |-> "VS-2", task |-> {"test", "multiple"},
               files |-> OneFile("other", "other", {}) \o OneFile("other", "css", {})]

ExpectedAgents ==
    "VS-1-auth" :> {"security-reviewer", "ai-reviewer"} @@ "VS-2" :> {"ui-reviewer"}

Subsystems == {"Agent Routing", "Loop Runtime"}
Covers == "VS-1-auth" :> Subsystems @@ "VS-2" :> {"Loop Runtime"}

NoClause == [a \in {"planner", "ai-reviewer", "ui-reviewer", "docs-reviewer"} |-> ""]
Escalating(clauses) == [NoClause EXCEPT !["ai-reviewer"] = clauses[1],
                                        !["ui-reviewer"] = clauses[2],
                                        !["docs-reviewer"] = clauses[3]]

\* Orchestrator and chief architect escalate to each other, and the reviewer to
\* the latter by default.
AuthoritiesInCircle ==
    "orchestrator" :> "chief-architect" @@ "chief-architect" :> "orchestrator" @@
    "ai-reviewer" :> ""

\* A tree without a defect, and this repository's: the three categories that
\* audit another product's release are lost or nearly so, and two root files
\* are missing; its grade is 83.
Upstream == [defects |-> Sound, declared |-> NoClause]
Recorded83 ==
    [missing_root_file |-> 2, unreleased_version |-> 1, missing_report |-> 4,
     version_not_final |-> 1, missing_certificate |-> 8, missing_onboarding_file |-> 5,
     missing_tooling_file |-> 4, stale_version |-> 1]
With(more) == [k \in Defect |-> IF k \in DOMAIN more THEN more[k] ELSE 0]

SomeTrees ==
    {Upstream,
     [defects |-> With(Recorded83), declared |-> NoClause],
     \* ... and a fourth category lost
     [defects |-> With("missing_layer" :> 5 @@ Recorded83), declared |-> NoClause],
     [defects |-> With("broken_link" :> 1), declared |-> NoClause],
     [defects |-> With("missing_profile" :> 1), declared |-> AuthoritiesInCircle],
     \* two agents that escalate to each other, and one that escalates to them
     [defects |-> With("missing_manifest" :> 1),
      declared |-> Escalating(<<"ui-reviewer", "ai-reviewer", "ai-reviewer">>)]}
=============================================================================
