------------------------------ MODULE HostEnsure ------------------------------
(***************************************************************************)
(* host-ensure (dcc-cua-cli/src/host_lifecycle.rs): several command lines  *)
(* may each find no Host at the endpoint, spawn one from the installed     *)
(* executable and wait until the endpoint answers, whoever serves it.      *)
(***************************************************************************)
EXTENDS Updater

VARIABLES pc,         \* [Procs -> where the command is]
          version,    \* [Procs -> the release the command line itself is]
          child,      \* [Procs -> the Host it spawned]
          endpoint,   \* who serves the endpoint: NoHost, "old", or a proc's child
          oldVersion  \* the release of a Host that served before

ensureVars == <<pc, version, child, endpoint, oldVersion>>

NoHost == "nobody"
OldHost == "old"

ASSUME NoHostAssumption == {NoHost, OldHost} \cap Procs = {}

\* A spawned Host: starting until it has the endpoint or finds it taken.
HostProcess == [state : {"none", "starting", "serving", "exited"}, version : Versions]

Child(s, v) == [state |-> s, version |-> v]

Answering == endpoint # NoHost
ServedVersion == IF endpoint = OldHost THEN oldVersion ELSE child[endpoint].version

Failures == {"initialProbe", "prepareSpawn", "spawnFailed", "pollChild", "version",
             "childExited", "readyTimeout"}
Answers == {"existing", "started"} \cup Failures

EnsureInit(cmds, installed) ==
    /\ pc = [p \in Procs |-> IF cmds[p] = "ensure" THEN "probe" ELSE "none"]
    /\ version = [p \in Procs |-> installed]
    /\ child = [p \in Procs |-> Child("none", installed)]
    /\ oldVersion \in Versions
    /\ endpoint \in IF \E p \in Procs : cmds[p] = "ensure" THEN {NoHost, OldHost} ELSE {NoHost}

Goto(p, l) == pc' = [pc EXCEPT ![p] = l]

\* validate_host_version
Matches(p) == ServedVersion = version[p]

\* The first ping. An answer decides; a peer that rejects it, or an unknown
\* error, is no evidence that there is no Host; an absent, refusing or silent
\* endpoint lets the command spawn one.
Probe(p) ==
    /\ pc[p] = "probe"
    /\ \/ /\ Answering
          /\ Goto(p, IF Matches(p) THEN "existing" ELSE "version")
       \/ Answering /\ Goto(p, "initialProbe")
       \/ Goto(p, "spawn")
    /\ UNCHANGED <<version, child, endpoint, oldVersion>>

\* prepare_detached_spawn, then the installed executable is started, if no
\* update has moved it away.
Spawn(p) ==
    /\ pc[p] = "spawn"
    /\ \/ /\ exe # Missing
          /\ child' = [child EXCEPT ![p] = Child("starting", exe)]
          /\ Goto(p, "poll")
       \/ exe = Missing /\ Goto(p, "spawnFailed") /\ UNCHANGED child
       \/ Goto(p, "prepareSpawn") /\ UNCHANGED child
    /\ UNCHANGED <<version, endpoint, oldVersion>>

ChildGone(p) == child[p].state \in {"none", "exited"}

\* stop_failed_child kills the command's own Host, whoever serves.
StopChild(p) == /\ child' = [child EXCEPT ![p].state = "exited"]
                /\ endpoint' = IF endpoint = p THEN NoHost ELSE endpoint

\* One turn of the loop in which the endpoint answered.
PollReady(p) ==
    /\ pc[p] = "poll" /\ Answering
    /\ IF Matches(p)
       THEN /\ Goto(p, IF ChildGone(p) THEN "existing" ELSE "started")
            /\ UNCHANGED <<child, endpoint>>
       ELSE Goto(p, "version") /\ StopChild(p)
    /\ UNCHANGED <<version, oldVersion>>

\* The deadline, before which an exited child is no reason to give up: the
\* command that won the race may not serve yet. A ping may also go unanswered.
PollExhausted(p) ==
    /\ pc[p] = "poll"
    /\ Goto(p, IF ChildGone(p) THEN "childExited" ELSE "readyTimeout")
    /\ StopChild(p)
    /\ UNCHANGED <<version, oldVersion>>

\* The state of the child cannot be read: the command returns at once.
PollFails(p) ==
    /\ pc[p] = "poll"
    /\ Goto(p, "pollChild")
    /\ UNCHANGED <<version, child, endpoint, oldVersion>>

\* A spawned Host takes the free endpoint, or exits because it is taken.
HostBinds(p) ==
    /\ child[p].state = "starting"
    /\ IF endpoint = NoHost
       THEN endpoint' = p /\ child' = [child EXCEPT ![p].state = "serving"]
       ELSE child' = [child EXCEPT ![p].state = "exited"] /\ UNCHANGED endpoint
    /\ UNCHANGED <<pc, version, oldVersion>>

\* The user stops the Host that serves.
HostStopped ==
    /\ endpoint # NoHost
    /\ child' = IF endpoint = OldHost THEN child
                ELSE [child EXCEPT ![endpoint].state = "exited"]
    /\ endpoint' = NoHost
    /\ UNCHANGED <<pc, version, oldVersion>>

EnsureCommand(p) == Probe(p) \/ Spawn(p) \/ PollReady(p) \/ PollExhausted(p)
                         \/ PollFails(p)

EnsureEnded(p) == pc[p] \notin {"probe", "spawn", "poll"}
=============================================================================
