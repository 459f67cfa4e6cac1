------------------------------- MODULE Harness -------------------------------
(***************************************************************************)
(* The harness (runtime/harness): a request is classified, routed to       *)
(* agents, tools and context files, and the plan is kept for requests with *)
(* the same task.  A request's task is the set of the keywords it          *)
(* contains; a changed file is its name, its type ("css" stands for html   *)
(* and js too, "md" for yaml and yml) and the words in its path.  The      *)
(* policies are the tables of runtime/policies.  Nothing else acts while   *)
(* execute runs, so that it is one step; its state history is printed and  *)
(* otherwise left out.                                                     *)
(***************************************************************************)
EXTENDS Integers, FiniteSets, Sequences

VARIABLE plans   \* the plan cache of the harness at hand: task -> plan

\* runtime/policies/routing.yaml
DomainRouting ==
    [science |-> "science-reviewer", ai |-> "ai-reviewer", security |-> "security-reviewer",
     performance |-> "performance-reviewer", ui |-> "ui-reviewer", docs |-> "docs-reviewer",
     release |-> "release-reviewer", architecture |-> "chief-architect"]
OverrideRouting ==
    [preprocessing |-> "science-reviewer", train |-> "science-reviewer",
     api |-> "performance-reviewer", auth |-> "security-reviewer",
     login |-> "security-reviewer", index |-> "ui-reviewer", config |-> "chief-architect"]
ExtensionRouting ==
    [py |-> "ai-reviewer", ipynb |-> "ai-reviewer", css |-> "ui-reviewer", ts |-> "ui-reviewer",
     md |-> "docs-reviewer"]

-----------------------------------------------------------------------------
(* TaskClassifier.classify *)

\* The first changed file of a known type decides, unless the task says more.
DomainOfFiles(files) ==
    LET typed == SelectSeq(files, LAMBDA f : f.type \in {"py", "css", "md"})
        f == Head(typed)
    IN  IF typed = <<>> THEN "architecture"
        ELSE IF f.type = "css" THEN "ui"
        ELSE IF f.type = "md" THEN "docs"
        ELSE IF f.words \cap {"preprocessing", "train"} # {} THEN "science"
        ELSE IF f.words \cap {"auth", "login"} # {} THEN "security"
        ELSE "ai"

DomainOf(r) ==
    IF r.task \cap {"perf", "optimize", "db", "api"} # {} THEN "performance"
    ELSE IF r.task \cap {"security", "cve", "credential"} # {} THEN "security"
    ELSE IF r.task \cap {"test", "regression", "bug"} # {} THEN "science"
    ELSE DomainOfFiles(r.files)

CategoryOf(r) ==
    IF r.task \cap {"fix", "bug", "error"} # {} THEN "hotfix"
    ELSE IF r.task \cap {"release", "tag"} # {} THEN "release"
    ELSE IF r.task \cap {"research", "experiment"} # {} THEN "research"
    ELSE "feature"

Gates ==
    [feature |-> {"QG-001", "QG-002"}, hotfix |-> {"QG-007", "QG-002"},
     release |-> {"QG-008", "QG-006"}, research |-> {"QG-004"}]

Workflow ==
    [feature |-> "master", hotfix |-> "bug_fix", release |-> "release", research |-> "research"]

-----------------------------------------------------------------------------
(* AgentRouter, ToolRouter, ContextOptimizer *)

FilesOf(r) == {r.files[i] : i \in DOMAIN r.files}

\* Overrides by name; failing those, types; failing those, the domain.
AgentsFor(r) ==
    LET overrides == {OverrideRouting[f.name] :
                         f \in {g \in FilesOf(r) : g.name \in DOMAIN OverrideRouting}}
        byType == {ExtensionRouting[f.type] :
                      f \in {g \in FilesOf(r) : g.type \in DOMAIN ExtensionRouting}}
    IN  IF overrides # {} THEN overrides
        ELSE IF byType # {} THEN byType
        ELSE {DomainRouting[DomainOf(r)]}

\* The scripts whose trigger the task names, and the validator in any case.
ToolsFor(r) == {"validation"} \cup (r.task \cap {"bootstrap", "simulation"})

\* Mandatory files that exist, the agents' contracts, the gates' checklists.
ContextFor(r, present) == present \cup AgentsFor(r) \cup Gates[CategoryOf(r)]

PlanFor(r, present) ==
    [request_id |-> r.id, category |-> CategoryOf(r), domain |-> DomainOf(r),
     workflow |-> Workflow[CategoryOf(r)], agents |-> AgentsFor(r), tools |-> ToolsFor(r),
     context |-> ContextFor(r, present)]

-----------------------------------------------------------------------------

NoPlans == [t \in {} |-> {}]

\* HarnessRuntime.execute
Executed(cache, r, present) ==
    IF r.task \in DOMAIN cache THEN cache[r.task] ELSE PlanFor(r, present)

Cached(cache, r, plan) == [t \in DOMAIN cache \cup {r.task} |->
                              IF t = r.task THEN plan ELSE cache[t]]
=============================================================================
