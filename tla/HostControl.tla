---------------------------- MODULE HostControl ----------------------------
(***************************************************************************)
(* Control of one Host process: its connections, the sessions each owns,   *)
(* the shared interrupt generation and the Host-wide raw-input FIFO.       *)
(*                                                                         *)
(* A connection is one task.  It serves its requests one at a time; between*)
(* two requests, and while a wait runs, it polls the interrupt generation, *)
(* and between two requests it also reaps idle sessions and refreshes      *)
(* their state.  Everything else of a request runs to its next await.      *)
(***************************************************************************)
EXTENDS Integers, Sequences, FiniteSets

CONSTANTS
    Conns,          \* connections of the Host
    Slots,          \* session ids a connection may use
    Kinds,          \* the kinds of session it opens
    MaxSessions,    \* MAX_SESSIONS_PER_CONNECTION
    MaxGeneration   \* bound: stops the environment issues

ASSUME HostControlAssumption ==
    /\ Kinds \subseteq {"pixels", "leased", "semantic", "desktop"}
    /\ MaxSessions \in Nat \ {0}
    /\ MaxGeneration \in Nat

VARIABLES
    generation,   \* INTERRUPT_GENERATION
    connected,    \* connected[c]: the connection is being served
    observed,     \* observed[c]: observed_interrupt_generation
    sessions,     \* sessions[c][s]: a session, or NoSession
    task,         \* task[c]: the request the connection is serving
    queue         \* RAW_INPUT_QUEUE: connections in FIFO order, the head owns the turn

vars == <<generation, connected, observed, sessions, task, queue>>

(***************************************************************************)
(* Sessions.  A pixels session observes pixels only and needs the lease of *)
(* a task authorization for its input; a leased one has such a lease and   *)
(* observes semantically; a semantic one has none. A lease can be revoked. *)
(***************************************************************************)
Bound == {"pixels", "leased"}
NoSession == [kind |-> "none"]
Session == [kind : Kinds,
            generation : 0 .. MaxGeneration,   \* of the banner, or interrupt_generation
            openedAt : 0 .. MaxGeneration,     \* ghost: when the open request began
            active : BOOLEAN,                  \* the core session is active
            interrupted : BOOLEAN,             \* the Host tombstone
            revoked : BOOLEAN]                 \* the lease is no longer valid

\* Requests that use a session and may change what it controls.
\*   action     execute_action / execute_desktop_action with raw input
\*   semantic   execute_action without raw input
\*   guarded    minimize_window, and set_window_frame of a pixels session
\*   unguarded  activate, restore_activate, close, invoke_menu, cursor_tool
Ops == {"action", "semantic", "guarded", "unguarded"}

OpsOf(kind) ==
    CASE kind = "desktop" -> {"action"}
      [] kind = "pixels" -> Ops \ {"semantic"}
      [] OTHER -> Ops

Idle == [stage |-> "idle"]
Opening == [stage : {"opening"}, slot : Slots, kind : Kinds, openedAt : 0 .. MaxGeneration]
Waiting == [stage : {"waiting"}, slot : Slots]
Acting == [stage : {"queued", "cleared", "sent", "delay", "capture"},
           slot : Slots, op : Ops, kind : Kinds,
           \* ghost: "queued" if a stop or a revocation found the request in the
           \* queue, "cleared" if a stop found it behind the second look
           stale : {"no", "queued", "cleared"}]

Stopped(x) == [x EXCEPT !.active = FALSE, !.interrupted = TRUE]
Owned(c) == {s \in Slots : sessions[c][s] # NoSession}
Removed(c) == [s \in Slots |-> NoSession]

\* control_banner_interrupted for a window, interrupt_generation_changed for a
\* desktop: a window that lost its core session has no banner left to compare.
BannerInterrupted(x) ==
    /\ x.kind = "desktop" \/ x.active
    /\ x.generation # generation

\* ensure_session_not_interrupted: what it makes of a session, and its verdict.
NotInterrupted(x) == ~x.interrupted /\ ~BannerInterrupted(x)
Checked(x) == IF ~x.interrupted /\ BannerInterrupted(x) THEN Stopped(x) ELSE x

SetSession(c, s, x) == sessions' = [sessions EXCEPT ![c][s] = x]
SetTask(c, t) == task' = [task EXCEPT ![c] = t]

(***************************************************************************)
(* The raw-input FIFO.                                                     *)
(***************************************************************************)
UsesTurnRawOnly(op) == op = "action"   \* mutant: window mutations skip the queue

UsesTurn(op) == op # "semantic"

OwnsTurn(c) == queue # <<>> /\ Head(queue) = c

Released(c) == IF OwnsTurn(c) THEN Tail(queue) ELSE queue

\* The request of c is answered; the guard of its turn, if any, is dropped.
Answer(c) ==
    /\ SetTask(c, Idle)
    /\ queue' = Released(c)

Init ==
    /\ generation = 0
    /\ connected = [c \in Conns |-> TRUE]
    /\ observed = [c \in Conns |-> 0]
    /\ sessions = [c \in Conns |-> [s \in Slots |-> NoSession]]
    /\ task = [c \in Conns |-> Idle]
    /\ queue = <<>>

(***************************************************************************)
(* Opening and closing sessions and connections.                           *)
(***************************************************************************)
Connect(c) ==
    /\ ~connected[c]
    /\ connected' = [connected EXCEPT ![c] = TRUE]
    /\ observed' = [observed EXCEPT ![c] = generation]
    /\ UNCHANGED <<generation, sessions, task, queue>>

\* End of the stream, seen between two requests or while a wait runs.
Disconnect(c) ==
    /\ connected[c]
    /\ task[c].stage \in {"idle", "waiting"}
    /\ connected' = [connected EXCEPT ![c] = FALSE]
    /\ sessions' = [sessions EXCEPT ![c] = Removed(c)]
    /\ SetTask(c, Idle)
    /\ UNCHANGED <<generation, observed, queue>>

\* A free id and a free place; tombstones still take one.
OpenBegin(c, s, kind) ==
    /\ connected[c]
    /\ task[c] = Idle
    /\ sessions[c][s] = NoSession
    /\ Cardinality(Owned(c)) < MaxSessions
    /\ SetTask(c, [stage |-> "opening", slot |-> s, kind |-> kind, openedAt |-> generation])
    /\ UNCHANGED <<generation, connected, observed, sessions, queue>>

\* A desktop session keeps the generation read before its start; a window's
\* banner reads its own when it starts.
OpenFinish(c) ==
    /\ task[c].stage = "opening"
    /\ LET t == task[c]
       IN  SetSession(c, t.slot,
              [kind |-> t.kind,
               generation |-> IF t.kind = "desktop" THEN t.openedAt ELSE generation,
               openedAt |-> t.openedAt,
               active |-> TRUE, interrupted |-> FALSE, revoked |-> FALSE])
    /\ SetTask(c, Idle)
    /\ UNCHANGED <<generation, connected, observed, queue>>

OpenFail(c) ==
    /\ task[c].stage = "opening"
    /\ SetTask(c, Idle)
    /\ UNCHANGED <<generation, connected, observed, sessions, queue>>

StopSession(c, s) ==
    /\ connected[c]
    /\ task[c] = Idle
    /\ sessions[c][s] # NoSession
    /\ SetSession(c, s, NoSession)
    /\ UNCHANGED <<generation, connected, observed, task, queue>>

(***************************************************************************)
(* Stops.                                                                  *)
(***************************************************************************)
\* A stop reaches a request in the queue, or one that already has its turn.
Staled(t) ==
    IF t.stage \in {"queued", "cleared"} /\ t.stale = "no"
    THEN [t EXCEPT !.stale = t.stage] ELSE t

\* Escape, seen by the keyboard hook while some window shows a banner.
Escape ==
    /\ generation < MaxGeneration
    /\ \E c \in Conns, s \in Slots :
          /\ sessions[c][s].kind \in Kinds \ {"desktop"}
          /\ sessions[c][s].active
    /\ generation' = generation + 1
    /\ task' = [c \in Conns |-> Staled(task[c])]
    /\ UNCHANGED <<connected, observed, sessions, queue>>

\* interrupt_all: the sessions of the caller are drained here, the others by
\* their own connections.  Only the wait's copy of the request also marks the
\* generation as seen.
InterruptAll(c) ==
    /\ generation < MaxGeneration
    /\ connected[c]
    /\ task[c].stage \in {"idle", "waiting"}
    /\ generation' = generation + 1
    /\ sessions' = [sessions EXCEPT ![c] = Removed(c)]
    /\ task' = [d \in Conns |-> IF d = c THEN Idle ELSE Staled(task[d])]
    /\ observed' = IF task[c].stage = "waiting"
                   THEN [observed EXCEPT ![c] = generation + 1] ELSE observed
    /\ UNCHANGED <<connected, queue>>

InterruptPollMarksOnly(c) ==   \* mutant: the generation is marked as seen, nothing is stopped
    /\ connected[c]
    /\ task[c].stage \in {"idle", "waiting"}
    /\ observed[c] # generation
    /\ observed' = [observed EXCEPT ![c] = generation]
    /\ SetTask(c, Idle)
    /\ UNCHANGED <<generation, connected, sessions, queue>>

\* The 50 ms tick, between two requests or inside a wait, which it drops.
InterruptPoll(c) ==
    /\ connected[c]
    /\ task[c].stage \in {"idle", "waiting"}
    /\ observed[c] # generation
    /\ observed' = [observed EXCEPT ![c] = generation]
    /\ sessions' = [sessions EXCEPT ![c] =
          [s \in Slots |-> IF s \in Owned(c) THEN Stopped(sessions[c][s]) ELSE NoSession]]
    /\ SetTask(c, Idle)
    /\ UNCHANGED <<generation, connected, queue>>

\* The broker ends a lease; the Host finds out when it next validates it.
RevokeLease(c, s) ==
    /\ sessions[c][s].kind \in Bound
    /\ ~sessions[c][s].revoked
    /\ SetSession(c, s, [sessions[c][s] EXCEPT !.revoked = TRUE])
    /\ task' = IF task[c].stage = "queued" /\ task[c].slot = s
               THEN [task EXCEPT ![c] = Staled(@)] ELSE task
    /\ UNCHANGED <<generation, connected, observed, queue>>

(***************************************************************************)
(* The 250 ms tick between two requests.                                   *)
(***************************************************************************)
IdleReap(c, s) ==
    /\ connected[c]
    /\ task[c] = Idle
    /\ sessions[c][s].kind \in Kinds \ {"desktop"}
    /\ SetSession(c, s, NoSession)
    /\ UNCHANGED <<generation, connected, observed, task, queue>>

StateRefresh(c) ==
    /\ connected[c]
    /\ task[c] = Idle
    /\ sessions' = [sessions EXCEPT ![c] =
          [s \in Slots |->
              LET x == sessions[c][s]
              IN  IF x # NoSession /\ x.kind \in Bound /\ x.revoked THEN Stopped(x) ELSE x]]
    /\ UNCHANGED <<generation, connected, observed, task, queue>>

(***************************************************************************)
(* Using a session.                                                        *)
(***************************************************************************)
\* authorized_session: idle expiry, then the lease, then the interrupt.
Expired(c, s) ==
    /\ connected[c]
    /\ task[c] = Idle
    /\ sessions[c][s].kind \in Kinds \ {"desktop"}
    /\ SetSession(c, s, Stopped(sessions[c][s]))
    /\ UNCHANGED <<generation, connected, observed, task, queue>>

Refused(c, s) ==
    /\ connected[c]
    /\ task[c] = Idle
    /\ sessions[c][s] # NoSession
    /\ ~sessions[c][s].revoked
    /\ ~NotInterrupted(sessions[c][s])
    /\ SetSession(c, s, Checked(sessions[c][s]))
    /\ UNCHANGED <<generation, connected, observed, task, queue>>

\* The banner of an uninterrupted session fails: the session is stopped, but
\* not marked as interrupted.
BannerFails(c, s) ==
    /\ connected[c]
    /\ task[c] = Idle
    /\ sessions[c][s].kind \in Kinds \ {"desktop"}
    /\ ~sessions[c][s].revoked
    /\ NotInterrupted(sessions[c][s])
    /\ sessions[c][s].active
    /\ SetSession(c, s, [sessions[c][s] EXCEPT !.active = FALSE])
    /\ UNCHANGED <<generation, connected, observed, task, queue>>

Authorized(c, s) ==
    /\ connected[c]
    /\ task[c] = Idle
    /\ sessions[c][s] # NoSession
    /\ ~sessions[c][s].revoked
    /\ NotInterrupted(sessions[c][s])

ResumeUnchecked(c, s) ==   \* mutant: the tombstone is not looked at
    /\ connected[c]
    /\ task[c] = Idle
    /\ sessions[c][s].kind \in {"leased", "semantic"}
    /\ ~sessions[c][s].active
    /\ SetSession(c, s, [sessions[c][s] EXCEPT !.active = TRUE, !.generation = generation])
    /\ UNCHANGED <<generation, connected, observed, task, queue>>

\* resume_session starts a core session that lost its control, with a new
\* banner; a pixels-only session may not ask for it.
Resume(c, s) ==
    /\ Authorized(c, s)
    /\ sessions[c][s].kind \in {"leased", "semantic"}
    /\ ~sessions[c][s].active
    /\ SetSession(c, s, [sessions[c][s] EXCEPT !.active = TRUE, !.generation = generation])
    /\ UNCHANGED <<generation, connected, observed, task, queue>>

\* wait_for and poll_session_events, which stay interruptible.
BeginWait(c, s) ==
    /\ Authorized(c, s)
    /\ sessions[c][s].kind # "desktop"
    /\ SetTask(c, [stage |-> "waiting", slot |-> s])
    /\ UNCHANGED <<generation, connected, observed, sessions, queue>>

\* The wait is over: its own check found a stop, or it has its answer.
EndWait(c) ==
    /\ task[c].stage = "waiting"
    /\ SetSession(c, task[c].slot, Checked(sessions[c][task[c].slot]))
    /\ SetTask(c, Idle)
    /\ UNCHANGED <<generation, connected, observed, queue>>

\* An accepted request, until it has its turn: the confirmation prompt, the
\* secret vault and the FIFO itself all take time.
Begin(c, s, op) ==
    /\ Authorized(c, s)
    /\ op \in OpsOf(sessions[c][s].kind)
    /\ SetTask(c, [stage |-> "queued", slot |-> s, op |-> op,
                   kind |-> sessions[c][s].kind, stale |-> "no"])
    /\ queue' = IF UsesTurn(op) THEN Append(queue, c) ELSE queue
    /\ UNCHANGED <<generation, connected, observed, sessions>>

RevalidatesPixelsOnly(op, kind) ==   \* mutant: a lease does not ask for the second look
    op = "guarded" \/ (op # "unguarded" /\ kind = "pixels")

\* Which requests look at their session again once they have the turn:
\* revalidate_queued_action and revalidate_queued_window_mutation.
Revalidates(op, kind) ==
    op = "guarded" \/ (op # "unguarded" /\ kind \in Bound)

AcquireSkipsStale(c) ==   \* mutant: a stale request is passed over, never refused
    /\ task[c].stage = "queued"
    /\ UsesTurn(task[c].op) => OwnsTurn(c)
    /\ LET t == task[c]
           x == sessions[c][t.slot]
       IN  /\ ~(Revalidates(t.op, t.kind) /\ (~NotInterrupted(x) \/ x.revoked))
           /\ SetTask(c, [t EXCEPT !.stage = "cleared"])
    /\ UNCHANGED <<generation, connected, observed, sessions, queue>>

\* The turn is acquired (or none is needed) and the session looked at again.
Acquire(c) ==
    /\ task[c].stage = "queued"
    /\ UsesTurn(task[c].op) => OwnsTurn(c)
    /\ LET t == task[c]
           x == sessions[c][t.slot]
       IN  IF Revalidates(t.op, t.kind) /\ (~NotInterrupted(x) \/ x.revoked)
           THEN /\ SetSession(c, t.slot, Checked(x))
                /\ Answer(c)
           ELSE /\ SetTask(c, [t EXCEPT !.stage = "cleared"])
                /\ UNCHANGED <<sessions, queue>>
    /\ UNCHANGED <<generation, connected, observed>>

\* The last gate before native input.  The pixel route compares the generation
\* of the session's own banner, the others one they read when they start; none
\* of them looks at the lease once more.
FinalGate(x, op) ==
    /\ x.active
    /\ x.kind = "pixels" /\ op = "action" => x.generation = generation

Dispatch(c) ==
    /\ task[c].stage = "cleared"
    /\ FinalGate(sessions[c][task[c].slot], task[c].op)
    /\ SetTask(c, [task[c] EXCEPT !.stage = "sent"])
    /\ UNCHANGED <<generation, connected, observed, sessions, queue>>

\* The core refuses before any input: inactive, stale evidence, a closed gate.
RefusedByCore(c) ==
    /\ task[c].stage = "cleared"
    /\ Answer(c)
    /\ UNCHANGED <<generation, connected, observed, sessions>>

\* Completed, or failed with a known outcome; without capture the turn ends.
Complete(c) ==
    /\ task[c].stage = "sent"
    /\ Answer(c)
    /\ UNCHANGED <<generation, connected, observed, sessions>>

\* The outcome is unknown: a window's core session is given up.
CompleteUnknown(c) ==
    /\ task[c].stage = "sent"
    /\ task[c].kind # "desktop"
    /\ SetSession(c, task[c].slot, [sessions[c][task[c].slot] EXCEPT !.active = FALSE])
    /\ Answer(c)
    /\ UNCHANGED <<generation, connected, observed>>

CompleteThenCapture(c) ==
    /\ task[c].stage = "sent"
    /\ task[c].op \in {"action", "semantic"}
    /\ SetTask(c, [task[c] EXCEPT !.stage = "delay"])
    /\ UNCHANGED <<generation, connected, observed, sessions, queue>>

\* wait_for_*_post_snapshot_delay: one slice after another, each of them
\* looking at the session first.
Delay(c) ==
    /\ task[c].stage = "delay"
    /\ LET x == sessions[c][task[c].slot]
       IN  /\ SetSession(c, task[c].slot, Checked(x))
           /\ IF NotInterrupted(x)
              THEN /\ SetTask(c, [task[c] EXCEPT !.stage = "capture"])
                   /\ UNCHANGED queue
              ELSE Answer(c)
    /\ UNCHANGED <<generation, connected, observed>>

Capture(c) ==
    /\ task[c].stage = "capture"
    /\ Answer(c)
    /\ UNCHANGED <<generation, connected, observed, sessions>>

Serve(c) ==
    \/ OpenFinish(c) \/ OpenFail(c)
    \/ Acquire(c)
    \/ Dispatch(c) \/ RefusedByCore(c)
    \/ Complete(c) \/ CompleteUnknown(c) \/ CompleteThenCapture(c)
    \/ Delay(c)
    \/ Capture(c)

Use(c, s) ==
    \/ \E kind \in Kinds : OpenBegin(c, s, kind)
    \/ StopSession(c, s)
    \/ RevokeLease(c, s)
    \/ IdleReap(c, s)
    \/ Expired(c, s)
    \/ Refused(c, s)
    \/ BannerFails(c, s)
    \/ Resume(c, s)
    \/ BeginWait(c, s)
    \/ \E op \in Ops : Begin(c, s, op)

Next ==
    \/ Escape
    \/ \E c \in Conns :
          \/ Connect(c) \/ Disconnect(c)
          \/ InterruptAll(c) \/ InterruptPoll(c)
          \/ StateRefresh(c)
          \/ EndWait(c)
          \/ Serve(c)
          \/ \E s \in Slots : Use(c, s)

Spec == Init /\ [][Next]_vars

\* A request that is being served goes on: native calls and deadlines are
\* bounded.  The select of a connection picks at random among its ready
\* branches, so a tick that is due again and again is taken.
FairSpec ==
    /\ Spec
    /\ \A c \in Conns :
          /\ WF_vars(Serve(c))
          /\ SF_vars(InterruptPoll(c))
          /\ SF_vars(StateRefresh(c))
          /\ WF_vars(EndWait(c))

(***************************************************************************)
(* Properties.                                                             *)
(***************************************************************************)
TypeOK ==
    /\ generation \in 0 .. MaxGeneration
    /\ connected \in [Conns -> BOOLEAN]
    /\ observed \in [Conns -> 0 .. MaxGeneration]
    /\ sessions \in [Conns -> [Slots -> Session \cup {NoSession}]]
    /\ task \in [Conns -> {Idle} \cup Opening \cup Waiting \cup Acting]
    /\ queue \in Seq(Conns)

Dispatched == {"sent", "delay", "capture"}

\* The turn protects the physical input: two connections are never both past
\* the queue with requests that use it, whatever ends the request before.
RawInputExclusive ==
    \A c, d \in Conns :
        /\ c # d
        /\ task[c].stage \in {"cleared"} \cup Dispatched
        /\ task[d].stage \in {"cleared"} \cup Dispatched
        => task[c].op = "semantic" \/ task[d].op = "semantic"

\* Everyone in the FIFO is a request still in need of its turn, once: a turn
\* outlives no request, so no dead request can block the Host's input.
TurnsBelongToRequests ==
    /\ \A i \in DOMAIN queue :
          /\ task[queue[i]].stage \in {"queued", "cleared"} \cup Dispatched
          /\ task[queue[i]].op # "semantic"
    /\ \A i, j \in DOMAIN queue : queue[i] = queue[j] => i = j

\* The raw-input FIFO works as a lock: one holder at a time past the queue, and
\* no place in it that outlives the request it was taken for.
InputTurns == TypeOK /\ RawInputExclusive /\ TurnsBelongToRequests

\* A stop, or the revocation of the lease, that arrives while a request waits
\* for the queue keeps it from reaching native input, where the code
\* revalidates; this includes the lease every pixel action needs.  A stop keeps
\* a pixel action from it until the very last gate.  A revocation does not: one
\* that comes behind the second look is found only by the next request or tick.
StopReachesQueued ==
    \A c \in Conns :
        task[c].stage \in Dispatched =>
            /\ \/ task[c].op = "guarded"
               \/ task[c].op # "unguarded" /\ task[c].kind \in Bound
               => task[c].stale # "queued"
            /\ task[c].kind = "pixels" /\ task[c].op = "action" => task[c].stale = "no"

\* The tombstone is final: a session that was interrupted never controls its
\* window again, by resume_session or otherwise.
TombstoneIsFinal ==
    \A c \in Conns, s \in Slots :
        sessions[c][s] # NoSession /\ sessions[c][s].interrupted => ~sessions[c][s].active

\* A stop ends every session whose open request was made before it, on every
\* connection, also the one whose banner started after it.
StopEndsSessions ==
    \A c \in Conns, s \in Slots :
        (sessions[c][s] # NoSession /\ sessions[c][s].openedAt # generation)
            ~> (sessions[c][s] = NoSession \/ sessions[c][s].interrupted)

\* A revoked lease ends its session without a request that uses it.
RevocationEndsSession ==
    \A c \in Conns, s \in Slots :
        (sessions[c][s] # NoSession /\ sessions[c][s].revoked)
            ~> (sessions[c][s] = NoSession \/ sessions[c][s].interrupted)

\* What ends a session from outside its connection arrives there.
EndingsArrive == StopEndsSessions /\ RevocationEndsSession

\* Whoever waits for the input turn gets it.
QueuedIsServed ==
    \A c \in Conns : task[c].stage = "queued" ~> task[c].stage # "queued"

=============================================================================
