------------------------------- MODULE Workflow -------------------------------
(***************************************************************************)
(* The owned install and uninstall workflows of an MCP connection          *)
(* (dcc-cua-cli/src/workflow.rs): a recipe of the startup policy starts    *)
(* one child process, a supervisor thread and the callers refresh its      *)
(* state under the run's lock, a verification thread checks the artifact.  *)
(***************************************************************************)
EXTENDS Naturals, FiniteSets

CONSTANTS Runs,        \* identifiers of the runs one connection can start
          MaxRuns,     \* MAX_RUNS, the runs one connection may hold
          Policies,    \* the recipes a policy file may hold, one to a policy
          NoPolicy     \* no policy configured: the manager is disabled

ASSUME MaxRunsAssumption == MaxRuns \in Nat
ASSUME NoPolicyAssumption == NoPolicy \notin Policies

VARIABLES run,         \* [Runs -> RunState], state "none" until started
          recipe,      \* the one recipe of the policy, or NoPolicy
          policyOver,  \* the policy has expired (either clock) or was dropped
          consumed     \* consumed_uninstall holds the recipe

workflowVars == <<run, recipe, policyOver, consumed>>

-----------------------------------------------------------------------------
(* Recipes and runs *)

\* What a recipe of the policy says that the life of a run depends on.
Recipe == [kind : {"install", "uninstall"}, present : BOOLEAN, gui : BOOLEAN,
           allowCancel : BOOLEAN, bounded : BOOLEAN, local : BOOLEAN,
           program : {"installer", "interpreter"}]

ASSUME PoliciesAssumption == Policies \subseteq Recipe

\* validate_local_path: a fixed disk, no link anywhere on the path.
LocalPath(r) == r.local

\* restricted_executable: no shell, script host or system dialog.
Unrestricted(r) == r.program # "interpreter"

\* validate_recipe: an install must leave its artifact, an uninstall must not;
\* the lists are bounded; the paths are local, the program is unrestricted.
ValidRecipe(r) == /\ r.bounded
                  /\ (r.kind = "install") = r.present
                  /\ LocalPath(r)
                  /\ Unrestricted(r)

\* from_policy_file refuses the whole policy for one invalid recipe, and the
\* server does not start then; without a policy the manager is disabled.
LoadedRecipes == {r \in Policies : ValidRecipe(r)}

Terminations == {"expired", "timed_out", "cancelled"}
RunStates == {"running", "verifying", "succeeded", "failed", "outcome_unknown"}
             \cup Terminations

RunState == [state : {"none"} \cup RunStates,
             proc : {"none", "alive", "ok", "bad"},    \* the child, its exit code
             exitObserved : BOOLEAN,
             termination : {"none"} \cup Terminations,
             asked : BOOLEAN,                          \* cancellation_requested
             verification : {"none", "pending", "true", "false", "error"},
             timeUp : BOOLEAN]                         \* the run's deadline passed

NoRunState == [state |-> "none", proc |-> "none", exitObserved |-> FALSE,
               termination |-> "none", asked |-> FALSE,
               verification |-> "none", timeUp |-> FALSE]

Alive(r) == r.proc = "alive"

WorkflowInit == /\ run = [w \in Runs |-> NoRunState]
                /\ recipe \in LoadedRecipes \cup {NoPolicy}
                /\ policyOver = FALSE
                /\ consumed = FALSE

-----------------------------------------------------------------------------
(* refresh: everything that moves a run. Each operator is the set of       *)
(* states one refresh may leave, a failed system call being one of them.   *)

Unknown(r) == [r EXCEPT !.state = "outcome_unknown"]

\* The verdict of the verification thread, unless a deadline came first.
Verdict(r) ==
    IF r.timeUp \/ policyOver THEN Unknown(r)
    ELSE IF r.verification = "pending" THEN r
    ELSE [r EXCEPT !.verification = "none",
                   !.state = CASE r.verification = "true" -> "succeeded"
                               [] r.verification = "false" -> "failed"
                               [] OTHER -> "outcome_unknown"]

\* The child was found to have ended.
Exited(r) ==
    LET q == [r EXCEPT !.exitObserved = TRUE]
    IN  IF q.termination # "none" THEN {[q EXCEPT !.state = q.termination]}
        ELSE IF q.state = "outcome_unknown" THEN {q}
        ELSE IF q.proc = "bad" THEN {[q EXCEPT !.state = "failed"]}
        ELSE {Unknown(q), [q EXCEPT !.state = "verifying", !.verification = "pending"]}

\* The child still runs: its deadlines and a requested cancellation. The
\* process that could not be killed, or may not be, is of unknown outcome.
StillRunning(r) ==
    IF r.state = "outcome_unknown" \/ r.termination # "none"
          \/ ~(policyOver \/ r.timeUp \/ r.asked)
    THEN {r}
    ELSE IF ~recipe.allowCancel THEN {Unknown(r)}
    ELSE {Unknown(r),
          [r EXCEPT !.termination = IF policyOver THEN "expired"
                                    ELSE IF r.timeUp THEN "timed_out" ELSE "cancelled"]}

\* try_wait, which can fail too.
Polled(r) == {Unknown(r)} \cup (IF Alive(r) THEN StillRunning(r) ELSE Exited(r))

LateVerification(r) == r.state # "verifying" /\ r.verification # "none"

\* The supervisor, and a stop of the whole manager, are done with a run.
Settled(r) == r.state = "none" \/ (r.exitObserved /\ r.verification = "none")

\* What the further life of a settled run does not depend on is forgotten.
Forget(r) == IF Settled(r) THEN [r EXCEPT !.asked = FALSE, !.timeUp = FALSE,
                                          !.termination = "none"] ELSE r

\* A late verdict ends the verification and leaves the outcome unknown.
Refresh(r) ==
    IF LateVerification(r) /\ r.verification = "pending" THEN {r}
    ELSE LET q == IF LateVerification(r) THEN [r EXCEPT !.verification = "none"] ELSE r
         IN  {Forget(s) : s \in IF q.state = "verifying" THEN {Verdict(q)}
                                ELSE IF q.exitObserved THEN {q}
                                ELSE Polled(q)}

\* cancel: a running process is asked to end, if the recipe allows it.
Cancel(r) ==
    IF r.state = "none" THEN {r}
    ELSE UNION {IF q.state = "running" /\ recipe.allowCancel
                THEN Refresh([q EXCEPT !.asked = TRUE])
                ELSE {q} : q \in Refresh(r)}

\* process_id: only a run that nothing has begun to end has a process.
Active(r) == r.state = "running" /\ r.termination = "none"

-----------------------------------------------------------------------------
(* The manager's start, and the threads and the processes it started *)

Started == {w \in Runs : run[w].state # "none"}

\* The refusals of start before anything is spawned.
MayStart == /\ recipe # NoPolicy /\ ~policyOver
            /\ ~consumed
            /\ Cardinality(Started) < MaxRuns
            /\ \A w \in Started : run[w].exitObserved

\* start also refuses when the user is elevated, when the executable or a
\* directory cannot be pinned as the policy names it, or when spawning fails.
LaunchRefused == UNCHANGED <<run, recipe, policyOver, consumed>>

\* start spawns the child and hands the run to its supervisor.
StartRun(w) == /\ run' = [run EXCEPT ![w] = [NoRunState EXCEPT !.state = "running",
                                                                !.proc = "alive"]]
               /\ consumed' = (recipe.kind = "uninstall")

\* One turn of the supervisor's loop, which ends once the run is settled.
Supervise(w) == /\ ~Settled(run[w])
                /\ \E r \in Refresh(run[w]) : run' = [run EXCEPT ![w] = r]
                /\ UNCHANGED <<recipe, policyOver, consumed>>

\* The child ends: by itself with an exit code, or killed.
ProcessEnds(w) ==
    /\ Alive(run[w])
    /\ \E code \in IF run[w].termination = "none" THEN {"ok", "bad"} ELSE {"bad"} :
          run' = [run EXCEPT ![w].proc = code]
    /\ UNCHANGED <<recipe, policyOver, consumed>>

\* The verification thread sends its result: the artifact is as the recipe
\* says, is not, or could not be read.
VerifyResult(w) ==
    /\ run[w].verification = "pending"
    /\ \E v \in {"true", "false", "error"} : run' = [run EXCEPT ![w].verification = v]
    /\ UNCHANGED <<recipe, policyOver, consumed>>

\* The run's own deadline passes (after the policy's it decides nothing), and
\* the policy's.
TimeUp(w) == /\ run[w].state \in {"running", "verifying"} /\ ~run[w].timeUp /\ ~policyOver
             /\ run' = [run EXCEPT ![w].timeUp = TRUE]
             /\ UNCHANGED <<recipe, policyOver, consumed>>

PolicyExpires == /\ recipe # NoPolicy /\ ~policyOver
                 /\ \E w \in Runs : run[w].state = "none" \/ ~Settled(run[w])
                 /\ policyOver' = TRUE
                 /\ UNCHANGED <<run, recipe, consumed>>

WorkflowStep == \/ \E w \in Runs : \/ Supervise(w) \/ ProcessEnds(w)
                                   \/ VerifyResult(w) \/ TimeUp(w)
                \/ PolicyExpires

WorkflowTypeOK == /\ run \in [Runs -> RunState]
                  /\ recipe \in Recipe \cup {NoPolicy}
                  /\ policyOver \in BOOLEAN
                  /\ consumed \in BOOLEAN
=============================================================================
