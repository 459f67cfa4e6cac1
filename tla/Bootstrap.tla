------------------------------ MODULE Bootstrap ------------------------------
(***************************************************************************)
(* tools/scripts/bootstrap_project.py: it writes PROJECT_CONFIG.yaml,      *)
(* context/vision.md and context/state.md one after the other, then asks   *)
(* the validator.  open(path, "w") empties a file and the content arrives  *)
(* when it is closed, so that each write is two steps and a kill between   *)
(* them leaves an empty file.  What a file holds is its project's text, or *)
(* what the user made of it.                                               *)
(***************************************************************************)
CONSTANTS
    Project,    \* project_info as compiled from defaults, --config or prompts
    Unlisted,   \* those whose profile has no file under profiles/
    Absent,     \* no such file
    Empty,      \* opened for writing, never closed
    Edited      \* the user's own text

ASSUME BootstrapAssumption ==
    /\ Project # {} /\ Unlisted \subseteq Project
    /\ {Absent, Empty, Edited} \cap Project = {}
    /\ Absent # Empty /\ Absent # Edited /\ Empty # Edited

VARIABLES
    file,     \* the three files
    setup,    \* the running bootstrap
    sandbox   \* does sandbox_test_project/ exist?

bootstrapVars == <<file, setup, sandbox>>

File == {"config", "vision", "state"}
Context == {"vision", "state"}
NextStage == [config |-> "vision", vision |-> "state", state |-> "validate"]
Stage == {"idle", "validate", "sandbox"} \cup File

IdleSetup ==
    [at |-> "idle", open |-> FALSE, project |-> CHOOSE p \in Project : TRUE, resume |-> FALSE]

BootstrapTypeOK ==
    /\ file \in [File -> Project \cup {Absent, Empty, Edited}]
    /\ setup \in [at : Stage, open : BOOLEAN, project : Project, resume : BOOLEAN]
    /\ sandbox \in BOOLEAN

\* A fresh clone, or a repository in use.
BootstrapInit ==
    /\ \E text \in {Absent, Edited} : file = [f \in File |-> text]
    /\ setup = IdleSetup
    /\ sandbox = FALSE

\* main, once the directories, the profile and the answers are accepted; a
\* profile without a file falls back to the default one and keeps its name.
StartSetup(p, resume) ==
    /\ setup.at = "idle"
    /\ setup' = [at |-> "config", open |-> FALSE, project |-> p, resume |-> resume]
    /\ UNCHANGED <<file, sandbox>>

\* "exists and not resume_mode" preserves, so that a resume rewrites them all; the
\* configuration always goes.
Rewrites(f) == f = "config" \/ file[f] = Absent \/ setup.resume

Preserve(f) ==
    /\ setup.at = f /\ ~ setup.open /\ ~ Rewrites(f)
    /\ setup' = [setup EXCEPT !.at = NextStage[f]]
    /\ UNCHANGED <<file, sandbox>>

OpenForWriting(f) ==
    /\ setup.at = f /\ ~ setup.open /\ Rewrites(f)
    /\ file' = [file EXCEPT ![f] = Empty]
    /\ setup' = [setup EXCEPT !.open = TRUE]
    /\ UNCHANGED sandbox

\* Mutant: the file is left to the garbage collector and never flushed.
CloseFile_Unflushed(f) ==
    /\ setup.at = f /\ setup.open
    /\ setup' = [setup EXCEPT !.at = NextStage[f], !.open = FALSE]
    /\ UNCHANGED <<file, sandbox>>

CloseFile(f) ==
    /\ setup.at = f /\ setup.open
    /\ file' = [file EXCEPT ![f] = setup.project]
    /\ setup' = [setup EXCEPT !.at = NextStage[f], !.open = FALSE]
    /\ UNCHANGED sandbox

\* The exit that follows the validator's.
EndSetup ==
    /\ setup.at = "validate"
    /\ setup' = IdleSetup
    /\ UNCHANGED <<file, sandbox>>

\* --self-test: a stale sandbox is removed and a new one made, the profiles are
\* looked up, the sandbox is removed whatever the outcome.
StartSelfTest ==
    /\ setup.at = "idle"
    /\ setup' = [setup EXCEPT !.at = "sandbox"]
    /\ sandbox' = TRUE
    /\ UNCHANGED file

EndSelfTest ==
    /\ setup.at = "sandbox"
    /\ setup' = [setup EXCEPT !.at = "idle"]
    /\ sandbox' = FALSE
    /\ UNCHANGED file

KillSetup ==
    /\ setup.at # "idle"
    /\ setup' = IdleSetup
    /\ UNCHANGED <<file, sandbox>>

\* What the validator's Bootstrap category meets in these files.
SetupDefects ==
    [config_absent |-> IF file["config"] = Absent THEN 1 ELSE 0,
     config_invalid |-> IF file["config"] = Empty THEN 1 ELSE 0,
     config_profile_missing |-> IF file["config"] \in Unlisted THEN 1 ELSE 0,
     context_absent |-> IF file["vision"] = Absent /\ file["state"] = Absent THEN 2
                        ELSE IF Absent \in {file["vision"], file["state"]} THEN 1 ELSE 0]
=============================================================================
