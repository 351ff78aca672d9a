------------------------------- MODULE McpTasks -------------------------------
(***************************************************************************)
(* The tasks of one MCP connection (dcc-cua-cli/src/mcp_server.rs): the    *)
(* server handles one RPC after another, owns for every task a lease, a    *)
(* Host connection that runs in the same process and the session it opened *)
(* there, and for some a workflow; at end of input it stops all of them.   *)
(***************************************************************************)
EXTENDS Workflow

CONSTANTS Tasks,        \* the tasks one connection can start, by number
          Capacities,   \* small values for MAX_PENDING_TASKS
          Windows,      \* windows the process of a workflow shows, one after another, numbered
          MaxPlain,     \* tasks the client starts without a workflow policy,
          MaxOwned,     \* and with one
          NoRun,        \* no workflow
          NoTaskId      \* no task

ASSUME CapacitiesAssumption == Capacities \subseteq Nat \ {0}
ASSUME TasksAssumption == Tasks \subseteq Nat
ASSUME WindowsAssumption ==
    Windows \subseteq Nat /\ \E x \in Windows : \A y \in Windows : x <= y
ASSUME NoRunAssumption == NoRun \notin Runs /\ NoTaskId \notin Tasks

VARIABLES capacity,     \* MAX_PENDING_TASKS, the tasks the map may hold
          task,         \* [Tasks -> TaskProposal], the map of the server
          conn,         \* [Tasks -> the Host connection task and its result]
          live,         \* [Tasks -> the Host holds a live session]
          rpc,          \* the RPC being handled, and where it awaits
          srv,          \* "serving", "closing" (end of input), "clean", "failed"
          shutdown,     \* the tasks shutdown_tasks has begun, and whether one failed
          window,       \* the window the workflow's process shows now
          refused       \* what was known of a Host whose task was last refused a start

mcpVars == <<capacity, task, conn, live, rpc, srv, shutdown, window, refused>>

FirstWindow == CHOOSE x \in Windows : \A y \in Windows : x <= y

TaskProposal ==
    [present : BOOLEAN, used : BOOLEAN,           \* in the map; the id was issued
     workflow : Runs \cup {NoRun},
     target : Windows,
     userAction : BOOLEAN,
     lease : {"none", "live", "revoked", "pruned"},
     expired : BOOLEAN,
     session : BOOLEAN,                           \* the server holds the session
     attempted : BOOLEAN,                         \* session_open_attempted
     owner : {"none", "pending", "ok", "err"},    \* host_task and its completion
     revoked : BOOLEAN,
     cleanup : {"none", "stopped", "failed", "unknown"},
     completion : {"none", "pending", "ok", "err"}]

NoTask == [present |-> FALSE, used |-> FALSE, workflow |-> NoRun,
           target |-> FirstWindow, userAction |-> FALSE,
           lease |-> "none", expired |-> FALSE, session |-> FALSE,
           attempted |-> FALSE, owner |-> "none", revoked |-> FALSE,
           cleanup |-> "none", completion |-> "none"]

NoRpc == [pc |-> "idle", task |-> NoTaskId, workflow |-> NoRun, next |-> "reply"]
At(pc, t, w, next) == [pc |-> pc, task |-> t, workflow |-> w, next |-> next]

McpInit == /\ capacity \in Capacities
           /\ task = [t \in Tasks |-> NoTask]
           /\ conn = [t \in Tasks |-> "none"]
           /\ live = [t \in Tasks |-> FALSE]
           /\ rpc = NoRpc
           /\ srv = "serving"
           /\ shutdown = [begun |-> {}, failed |-> FALSE]
           /\ window = FirstWindow
           /\ refused = "none"

-----------------------------------------------------------------------------
(* What the server reads off a task *)

\* stopped_task_status: both the session's and the connection's evidence.
StoppedStatus(p) ==
    IF p.completion = "pending" THEN "cleanup_unknown"
    ELSE IF p.completion = "err" \/ p.cleanup = "failed" THEN "cleanup_failed"
    ELSE IF p.cleanup = "stopped" THEN "stopped" ELSE "cleanup_unknown"

RetainedUnlessExpired(p) == p.session \/ ~p.expired

\* ensure_task_capacity keeps what is owned or not expired.
Retained(p) == p.session \/ p.owner = "pending" \/ ~p.expired

Reclaim(p) == IF p.present /\ ~Retained(p) THEN [NoTask EXCEPT !.used = TRUE] ELSE p
Reclaimed(f) == [t \in Tasks |-> Reclaim(f[t])]

Present(f) == {t \in Tasks : f[t].present}

\* register drops every expired record of the broker, whoever holds it.
Pruned(p) == [p EXCEPT !.lease = IF p.expired /\ @ # "none" THEN "pruned" ELSE @]

\* The checks common to start_task, task_call and workflow_call.
Usable(p) == p.present /\ ~p.revoked /\ ~p.userAction /\ ~p.expired

Serving == srv = "serving" /\ rpc.pc = "idle"

\* The client's next task, within its bound.
MayAsk(t) == /\ {u \in Tasks : task[u].used} = {u \in Tasks : u < t}
             /\ t <= IF recipe = NoPolicy THEN MaxPlain ELSE MaxOwned

-----------------------------------------------------------------------------
(* Starting *)

\* prepare_scoped_task: validation passed, a place is free, the lease issued.
Proposal(w, x) == [NoTask EXCEPT !.present = TRUE, !.used = TRUE, !.workflow = w,
                                 !.target = x, !.lease = "live"]

Prepared(f, t, w, x) ==
    [u \in Tasks |-> IF u = t THEN Proposal(w, x) ELSE Pruned(Reclaim(f[u]))]

\* A start that failed revokes the task it prepared; a rebind only answers.
Failed(t, w, next) == IF next = "startFailed" THEN At("revoke", t, w, next) ELSE NoRpc

\* start_task, and open_task_session up to its first await: a task that has
\* owned a Host connection is refused; driver or extension listener may fail
\* before the connection task is spawned.
StartTask(f, t, w, failNext) ==
    \/ /\ f[t].owner # "none"
       /\ task' = f
       /\ rpc' = NoRpc /\ refused' = f[t].owner
       /\ UNCHANGED conn
    \/ /\ f[t].owner = "none"
       /\ task' = [f EXCEPT ![t] = [f[t] EXCEPT !.attempted = TRUE, !.owner = "pending"]]
       /\ conn' = [conn EXCEPT ![t] = "serving"]
       /\ rpc' = At("open", t, w, failNext)
       /\ UNCHANGED refused
    \/ /\ f[t].owner = "none"
       /\ task' = [f EXCEPT ![t] = [f[t] EXCEPT !.attempted = TRUE]]
       /\ rpc' = Failed(t, w, failNext)
       /\ UNCHANGED <<conn, refused>>

\* start_task RPC with an exact window.
StartExact(t) ==
    LET f == Reclaimed(task)
    IN  /\ Serving
        /\ MayAsk(t)
        /\ \/ /\ Cardinality(Present(f)) >= capacity
              /\ task' = f /\ UNCHANGED <<rpc, conn, refused>>
           \/ /\ Cardinality(Present(f)) < capacity
              /\ StartTask(Prepared(f, t, NoRun, window), t, NoRun, "startFailed")
        /\ UNCHANGED <<live, srv, shutdown, window>>
        /\ UNCHANGED workflowVars

\* start_task RPC with a recipe: the process is started before the task.
StartWorkflow(t, w) ==
    LET f == Reclaimed(task)
    IN  /\ Serving
        /\ MayAsk(t) /\ run[w].state = "none"
        /\ task' = f
        /\ \/ /\ Cardinality(Present(f)) < capacity /\ MayStart /\ recipe.gui
              /\ StartRun(w)
              /\ rpc' = At("derive", t, w, "startFailed")
              /\ UNCHANGED <<recipe, policyOver>>
           \/ LaunchRefused /\ UNCHANGED rpc
        /\ UNCHANGED <<conn, live, srv, shutdown, window, refused>>

\* derive_workflow_window gives up: no unique window in ten seconds, or the
\* process is no longer active. A start cancels its workflow.
DeriveFails ==
    /\ rpc.pc = "derive"
    /\ IF rpc.next = "startFailed"
       THEN \E r \in Cancel(run[rpc.workflow]) : run' = [run EXCEPT ![rpc.workflow] = r]
       ELSE \E r \in Refresh(run[rpc.workflow]) : run' = [run EXCEPT ![rpc.workflow] = r]
    /\ rpc' = NoRpc
    /\ UNCHANGED <<task, conn, live, srv, shutdown, window, refused, recipe, policyOver, consumed>>

\* The one window of the active process. A start prepares the task for it.
DeriveStart ==
    /\ rpc.pc = "derive" /\ rpc.next = "startFailed"
    /\ Active(run[rpc.workflow]) /\ ~run[rpc.workflow].timeUp /\ ~policyOver
    /\ StartTask(Prepared(task, rpc.task, rpc.workflow, window),
                 rpc.task, rpc.workflow, "startFailed")
    /\ UNCHANGED <<live, srv, shutdown, window, workflowVars>>

\* hello and open_logical_task_session answered.
OpenReturns ==
    /\ rpc.pc = "open"
    /\ task' = [task EXCEPT ![rpc.task].session = TRUE]
    /\ live' = [live EXCEPT ![rpc.task] = TRUE]
    /\ rpc' = NoRpc
    /\ UNCHANGED <<conn, srv, shutdown, window, refused, workflowVars>>

\* They failed, perhaps after the Host opened the session: the client and its
\* stream are dropped, the connection task goes on.
OpenFails ==
    /\ rpc.pc = "open"
    /\ \E b \in BOOLEAN : live' = [live EXCEPT ![rpc.task] = b]
    /\ conn' = [conn EXCEPT ![rpc.task] = "closing"]
    /\ rpc' = Failed(rpc.task, rpc.workflow, rpc.next)
    /\ UNCHANGED <<task, srv, shutdown, window, refused, workflowVars>>

-----------------------------------------------------------------------------
(* Stopping: revoke_task, from its entry to its answer *)

\* What follows when the revocation has answered.
AfterRevoke(status) ==
    CASE rpc.next = "rebind" /\ status = "stopped" -> [rpc EXCEPT !.pc = "reissue"]
      [] rpc.next \in {"shutdown", "shutdownError"} -> NoRpc
      [] rpc.next = "startFailed" /\ rpc.workflow # NoRun -> [rpc EXCEPT !.pc = "cancel"]
      [] OTHER -> NoRpc

Answer(status) ==
    /\ rpc' = AfterRevoke(status)
    /\ shutdown' = [shutdown EXCEPT !.failed =
                       @ \/ rpc.next = "shutdownError"
                         \/ (rpc.next = "shutdown" /\ status # "stopped")]

\* The cleanup a revocation records when no session is held.
NoSessionCleanup(p) == IF p.attempted THEN "unknown" ELSE "stopped"

\* finish_owned_host_task: nothing to wait for, or the wait begins.
Finishing(p) == IF p.owner = "none" THEN p
                ELSE [p EXCEPT !.cleanup = IF @ = "none" THEN "unknown" ELSE @,
                               !.completion = p.owner]

\* The entry: cancel the workflow, revoke the lease, take the session. A
\* lease the broker no longer holds ends the RPC here with an error.
Revoke ==
    LET t == rpc.task
        p == task[t]
        w == IF rpc.next = "rebind" THEN NoRun ELSE p.workflow
    IN  /\ rpc.pc = "revoke"
        /\ IF w = NoRun THEN UNCHANGED run
           ELSE \E r \in Cancel(run[w]) : run' = [run EXCEPT ![w] = r]
        /\ \/ /\ ~p.present
              /\ Answer("not found")
              /\ UNCHANGED task
           \/ /\ p.present /\ p.revoked
              /\ task' = [task EXCEPT ![t] = Finishing(p)]
              /\ rpc' = [rpc EXCEPT !.pc = "finish"]
              /\ UNCHANGED shutdown
           \/ /\ p.present /\ ~p.revoked /\ p.lease = "pruned"
              /\ IF rpc.next = "shutdown"
                 THEN /\ rpc' = [rpc EXCEPT !.pc = IF p.session THEN "stop" ELSE "finish",
                                            !.next = "shutdownError"]
                      /\ task' = [task EXCEPT ![t] =
                                    IF p.session THEN [p EXCEPT !.session = FALSE]
                                    ELSE Finishing([p EXCEPT !.cleanup = "stopped"])]
                      /\ UNCHANGED shutdown
                 ELSE Answer("not found") /\ UNCHANGED task
           \/ /\ p.present /\ ~p.revoked /\ p.lease # "pruned"
              /\ LET q == [p EXCEPT !.lease = "revoked", !.revoked = TRUE]
                 IN  IF p.session
                     THEN /\ task' = [task EXCEPT ![t] = [q EXCEPT !.session = FALSE]]
                          /\ rpc' = [rpc EXCEPT !.pc = "stop"]
                     ELSE /\ task' = [task EXCEPT ![t] =
                                Finishing([q EXCEPT !.cleanup = NoSessionCleanup(q)])]
                          /\ rpc' = [rpc EXCEPT !.pc = "finish"]
              /\ UNCHANGED shutdown
        /\ UNCHANGED <<conn, live, srv, window, refused, recipe, policyOver, consumed>>

\* stop_owned_task_session: the Host acknowledges with the result of its
\* cleanup, or sixty seconds or the connection end without it. Either way the
\* client is dropped and the connection closes behind it.
StopReturns ==
    LET t == rpc.task
    IN  /\ rpc.pc = "stop"
        /\ \E c \in {"stopped", "failed", "unknown"} :
              /\ task' = [task EXCEPT ![t] = Finishing([@ EXCEPT !.cleanup = c])]
              /\ live' = [live EXCEPT ![t] = @ /\ c = "unknown"]
        /\ conn' = [conn EXCEPT ![t] = "closing"]
        /\ rpc' = [rpc EXCEPT !.pc = "finish"]
        /\ UNCHANGED <<srv, shutdown, window, refused, workflowVars>>

\* The wait for the connection task ends with its result, after five seconds,
\* or at once when there is none or its result is known.
FinishReturns ==
    LET t == rpc.task
        q == IF task[t].completion = "pending" /\ conn[t] \in {"ok", "err"}
             THEN [task[t] EXCEPT !.owner = conn[t], !.completion = conn[t]]
             ELSE task[t]
    IN  /\ rpc.pc = "finish"
        /\ task' = [task EXCEPT ![t] = q]
        /\ Answer(StoppedStatus(q))
        /\ UNCHANGED <<conn, live, srv, window, refused, workflowVars>>

\* A start that failed cancels the workflow it had started.
CancelStarted ==
    /\ rpc.pc = "cancel"
    /\ \E r \in Cancel(run[rpc.workflow]) : run' = [run EXCEPT ![rpc.workflow] = r]
    /\ rpc' = NoRpc
    /\ UNCHANGED <<task, conn, live, srv, shutdown, window, refused, recipe, policyOver, consumed>>

-----------------------------------------------------------------------------
(* The other RPCs of a task *)

\* stop_task
StopTask(t) == /\ Serving /\ task[t].used
               /\ rpc' = At("revoke", t, NoRun, "reply")
               /\ UNCHANGED <<task, conn, live, srv, shutdown, window, refused, workflowVars>>

\* require_user_action revokes the lease and leaves the session to stop_task.
RequireUserAction(t) ==
    /\ Serving /\ task[t].present /\ ~task[t].revoked /\ ~task[t].expired
    /\ task[t].lease # "pruned"
    /\ task' = [task EXCEPT ![t].userAction = TRUE, ![t].lease = "revoked"]
    /\ UNCHANGED <<conn, live, rpc, srv, shutdown, window, refused, workflowVars>>

\* A call of a task whose workflow's process is gone revokes the task first;
\* what a call that goes through does is the Host's (HostControl).
CallRevokes(t) ==
    LET w == task[t].workflow
    IN  /\ Serving /\ task[t].present /\ w # NoRun
        /\ \E r \in Refresh(run[w]) :
              /\ ~Active(r)
              /\ run' = [run EXCEPT ![w] = r]
        /\ rpc' = At("revoke", t, NoRun, "reply")
        /\ UNCHANGED <<task, conn, live, srv, shutdown, window, refused>>
        /\ UNCHANGED <<recipe, policyOver, consumed>>

\* workflow_cancel
WorkflowCancel(t) ==
    LET w == task[t].workflow
    IN  /\ Serving /\ Usable(task[t]) /\ w # NoRun
        /\ \E r \in Cancel(run[w]) :
              /\ run' = [run EXCEPT ![w] = r]
              /\ rpc' = IF r.state = "running" /\ ~r.asked THEN NoRpc
                        ELSE At("revoke", t, NoRun, "reply")
        /\ UNCHANGED <<task, conn, live, srv, shutdown, window, refused>>
        /\ UNCHANGED <<recipe, policyOver, consumed>>

\* workflow_rebind: find the window of the process again.
WorkflowRebind(t) == /\ Serving /\ Usable(task[t]) /\ task[t].workflow # NoRun
                     /\ rpc' = At("derive", t, task[t].workflow, "rebind")
                     /\ UNCHANGED <<task, conn, live, srv, shutdown, window, refused>>
                     /\ UNCHANGED workflowVars

\* The same window: nothing to do. Another: revoke the task, not the workflow.
DeriveRebind ==
    /\ rpc.pc = "derive" /\ rpc.next = "rebind"
    /\ Active(run[rpc.workflow])
    /\ IF window = task[rpc.task].target
       THEN rpc' = NoRpc
       ELSE rpc' = [rpc EXCEPT !.pc = "revoke"]
    /\ UNCHANGED <<task, conn, live, srv, shutdown, window, refused, workflowVars>>

\* The old window's cleanup is confirmed: the task gets a lease for the new
\* one, unless the process has ended meanwhile, and is started again.
Reissue ==
    LET t == rpc.task
        p == [task[t] EXCEPT !.target = window, !.lease = "live", !.revoked = FALSE,
                             !.cleanup = "none", !.completion = "none",
                             !.attempted = FALSE]
        f == [u \in Tasks |-> IF u = t THEN p ELSE Pruned(task[u])]
    IN  /\ rpc.pc = "reissue"
        /\ IF Active(run[rpc.workflow]) /\ ~policyOver /\ ~run[rpc.workflow].timeUp
              /\ ~task[t].expired
           THEN StartTask(f, t, rpc.workflow, "reply")
           ELSE rpc' = NoRpc /\ UNCHANGED <<task, conn, refused>>
        /\ UNCHANGED <<live, srv, shutdown, window, workflowVars>>

-----------------------------------------------------------------------------
(* End of input *)

EndOfInput == /\ Serving
              /\ srv' = "closing"
              /\ UNCHANGED <<task, conn, live, rpc, shutdown, window, refused, workflowVars>>

\* shutdown_tasks revokes every task of the map in turn.
ShutdownTask(t) ==
    /\ srv = "closing" /\ rpc.pc = "idle"
    /\ t \in Present(task) \ shutdown.begun
    /\ rpc' = At("revoke", t, NoRun, "shutdown")
    /\ shutdown' = [shutdown EXCEPT !.begun = @ \cup {t}]
    /\ UNCHANGED <<task, conn, live, srv, window, refused, workflowVars>>

\* stop_all cancels every run, waits a second at most, and reads them again.
StopAll ==
    /\ srv = "closing" /\ rpc.pc = "idle" /\ Present(task) \subseteq shutdown.begun
    /\ \E f \in [Runs -> UNION {Cancel(run[w]) : w \in Runs}] :
          /\ \A w \in Runs : f[w] \in Cancel(run[w])
          /\ run' = f
    /\ rpc' = At("stopall", NoTaskId, NoRun, "reply")
    /\ UNCHANGED <<task, conn, live, srv, shutdown, window, refused, recipe, policyOver, consumed>>

ExitWaits ==
    /\ rpc.pc = "stopall" /\ \A w \in Runs : Settled(run[w])
    /\ srv' = IF shutdown.failed THEN "failed" ELSE "clean"
    /\ policyOver' = TRUE
    /\ rpc' = NoRpc
    /\ UNCHANGED <<task, conn, live, shutdown, window, refused, run, recipe, consumed>>

\* run_connection returns: an error unless every cleanup was confirmed.
Exit ==
    /\ rpc.pc = "stopall"
    /\ srv' = IF shutdown.failed \/ \E w \in Runs : ~Settled(run[w]) THEN "failed" ELSE "clean"
    /\ policyOver' = TRUE
    /\ rpc' = NoRpc
    /\ UNCHANGED <<task, conn, live, shutdown, window, refused, run, recipe, consumed>>

-----------------------------------------------------------------------------
(* The Host connection of a task, time, and the workflow's own window *)

\* The Host ends its sessions when its client is gone, then its task returns.
HostReturns(t) ==
    /\ conn[t] = "closing"
    /\ \E r \in {"ok", "err"} : conn' = [conn EXCEPT ![t] = r]
    /\ live' = [live EXCEPT ![t] = FALSE]
    /\ UNCHANGED <<task, rpc, srv, shutdown, window, refused, workflowVars>>

\* It ends a session whose lease has ended.
HostEndsSession(t) ==
    /\ live[t] /\ conn[t] = "serving"
    /\ task[t].expired \/ task[t].lease # "live"
    /\ live' = [live EXCEPT ![t] = FALSE]
    /\ UNCHANGED <<task, conn, rpc, srv, shutdown, window, refused, workflowVars>>

\* The lifetime of a task passes.
Expire(t) == /\ task[t].present /\ ~task[t].expired
             /\ task' = [task EXCEPT ![t].expired = TRUE]
             /\ UNCHANGED <<conn, live, rpc, srv, shutdown, window, refused, workflowVars>>

\* The installer replaces the window a task works on.
WindowReplaced(t) == /\ task[t].session /\ task[t].workflow # NoRun
                     /\ Alive(run[task[t].workflow])
                     /\ \E x \in Windows : x > window /\ window' = x
                     /\ UNCHANGED <<task, conn, live, rpc, srv, shutdown, refused, workflowVars>>

McpServer == /\ \/ DeriveFails \/ DeriveStart
                \/ Revoke \/ StopReturns \/ FinishReturns \/ CancelStarted
                \/ DeriveRebind \/ Reissue
                \/ \E t \in Tasks : ShutdownTask(t)
                \/ StopAll \/ Exit
             /\ UNCHANGED capacity

McpClient == /\ \/ \E t \in Tasks : \/ StartExact(t) \/ StopTask(t) \/ RequireUserAction(t)
                                    \/ CallRevokes(t) \/ WorkflowCancel(t)
                                    \/ WorkflowRebind(t)
                                    \/ \E w \in Runs : StartWorkflow(t, w)
                \/ EndOfInput
             /\ UNCHANGED capacity

\* hello and the opening of the session have no deadline in the server.
McpAnswer == (OpenReturns \/ OpenFails) /\ UNCHANGED capacity
McpAsks == rpc.pc = "open"

McpEnvironment == \/ /\ \E t \in Tasks : \/ HostReturns(t) \/ HostEndsSession(t)
                                          \/ Expire(t) \/ WindowReplaced(t)
                     /\ UNCHANGED capacity
                  \/ WorkflowStep /\ UNCHANGED mcpVars
=============================================================================
