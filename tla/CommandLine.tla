------------------------------ MODULE CommandLine ------------------------------
(***************************************************************************)
(* The long-running commands of the dcc-cua executable on one machine: a   *)
(* few command lines update the installation, make sure that a Host runs,  *)
(* or serve MCP on standard input. Updates and host-ensure share the       *)
(* installed executable and the endpoint; an MCP server runs its Hosts in  *)
(* its own process and shares neither, so it is started alone.             *)
(***************************************************************************)
EXTENDS McpTasks, HostEnsure

CONSTANT Sessions    \* the commands run side by side, a set of [Procs -> command]

VARIABLE command     \* [Procs -> the command each process runs]

commandVars == <<command, mcpVars, workflowVars, ensureVars, updateVars>>

Installed == CHOOSE v \in Versions : \A u \in Versions : v <= u

McpRuns == \E p \in Procs : command[p] = "mcp"

\* run_command picks the command by its name.
CommandInit ==
    /\ command \in Sessions
    /\ McpInit
    /\ WorkflowInit
    /\ McpRuns \/ recipe = NoPolicy
    /\ (McpRuns /\ recipe = NoPolicy) \/ \A n \in Capacities : n <= capacity
    /\ EnsureInit(command, Installed)
    /\ UpdateInit(command, Installed)

\* The server's threads and its Hosts end with its process.
Mcp(A) == /\ McpRuns /\ srv \in {"serving", "closing"}
          /\ A
          /\ UNCHANGED <<command, ensureVars, updateVars>>
Ensure(A) == A /\ UNCHANGED <<command, mcpVars, workflowVars, updateVars>>
Update(A) == A /\ UNCHANGED <<command, mcpVars, workflowVars, ensureVars>>

Program == \/ Mcp(McpServer)
           \/ \E p \in Procs : Ensure(EnsureCommand(p)) \/ Update(UpdateCommand(p))

Environment == \/ Mcp(McpClient) \/ Mcp(McpAnswer) \/ Mcp(McpEnvironment)
               \/ Ensure(HostStopped)
               \/ \E p \in Procs : \/ Ensure(HostBinds(p)) \/ Update(UpdateAnswer(p))
                                   \/ Update(Crash(p))

CommandNext == Program \/ Environment

\* A command that can take a step of its own takes one: its other awaits have a
\* deadline. Nothing says that the user answers the prompt, that a server answers
\* an update or that a Host answers hello and the opening of a session.
CommandSpec == CommandInit /\ [][CommandNext]_commandVars /\ WF_commandVars(Program)

-----------------------------------------------------------------------------
(* Properties *)

CommandTypeOK ==
    /\ WorkflowTypeOK
    /\ task \in [Tasks -> TaskProposal]
    /\ conn \in [Tasks -> {"none", "serving", "closing", "ok", "err"}]
    /\ live \in [Tasks -> BOOLEAN]
    /\ child \in [Procs -> HostProcess]
    /\ exe \in Versions \cup {Missing}

\* A task reported stopped has no session left and its Host connection has
\* returned (stopped_task_status), and a server that exits without an error
\* (run_connection) leaves no session, no connection and no process of a
\* workflow: whatever was reclaimed for capacity before, whatever expired,
\* failed to start or answered late.
StoppedMeansEnded ==
    /\ CommandTypeOK
    /\ \A t \in Tasks : task[t].present /\ task[t].revoked /\ rpc.task # t
                          /\ StoppedStatus(task[t]) = "stopped"
                        => ~live[t] /\ conn[t] \in {"none", "ok"}
    /\ srv = "clean" => /\ \A t \in Tasks : ~live[t] /\ conn[t] \notin {"serving", "closing"}
                        /\ \A w \in Runs : run[w].proc # "alive" /\ run[w].verification = "none"

\* The installation always has an executable or the copy of one (update.rs,
\* install_single_with), and a host-ensure that gave up leaves no Host of its
\* own behind, except when it could not even read that Host's state.
NothingLost ==
    /\ exe = Missing => \E p \in Procs : Kept(p)
    /\ \A p \in Procs : pc[p] \in Failures \ {"pollChild"}
                        => child[p].state \in {"none", "exited"}

\* The command waits for an answer that has no deadline.
Asks(p) == UpdateAsks(p) \/ (command[p] = "mcp" /\ McpAsks)

\* The command is over; a server may wait for its next line of input.
Ended(p) == /\ EnsureEnded(p) /\ UpdateEnded(p)
            /\ command[p] = "mcp" => srv # "closing" /\ rpc.pc = "idle"

\* Every command comes to an end, unless it waits for ever for the user's
\* confirmation, for the server of an update or for a Host to answer hello and
\* open a session: an update and a host-ensure by themselves, an RPC of an MCP
\* server, and the server once its input has ended, whatever other commands, its
\* Hosts and the processes of its workflows do.
CommandEnds == \A p \in Procs : <>[]Asks(p) \/ (~Ended(p) ~> Ended(p))

\* The refusal "previous Host startup did not finish" (mcp_server.rs,
\* start_task) is only given while a Host connection has not finished.
RefusedOnlyUnfinished == refused \in {"none", "pending"}
=============================================================================
