--------------------------- MODULE SessionEvents ---------------------------
(***************************************************************************)
(* The per-session event queue of the Host (session_events.rs) with the    *)
(* long poll that reads it (request_handler.rs, PollSessionEvents) and the *)
(* 250 ms state poll of an idle connection that also feeds it (lib.rs).    *)
(*                                                                         *)
(* The queue samples two facts of the world, whether the desktop accepts   *)
(* input and whether the bound window is available, numbers every change   *)
(* of either and keeps the last Capacity events.  A client holds a cursor  *)
(* and folds the pages it is given into its own view.                      *)
(***************************************************************************)
EXTENDS Integers, Sequences

CONSTANTS
    Capacity,     \* MAX_SESSION_INPUT_EVENTS
    MaxSequence   \* bound: no observation once this many sequence numbers are out

ASSUME SessionEventsAssumption ==
    /\ Capacity \in Nat \ {0}
    /\ MaxSequence \in Nat \ {0}

VARIABLES
    desktop,   \* the desktop's real input readiness
    window,    \* the bound window's real availability
    input,     \* input_current.status
    target,    \* target_current.status
    events,    \* the retained events, oldest first
    latest,    \* latest_sequence
    stopped,   \* the session was interrupted
    poll,      \* the poll being served, or NoPoll
    cursor,    \* client: sequence of the last state it knows
    view,      \* client: the state it reconstructed at that cursor
    history    \* ghost: history[n] is the queue's state at sequence n

vars == <<desktop, window, input, target, events, latest, stopped, poll, cursor, view, history>>
queue == <<input, target, events, latest, history>>

InputStatus == {"ready", "suspended"}
TargetStatus == {"available", "minimized", "unavailable"}
State == [input : InputStatus, target : TargetStatus]
Event == [seq : Nat, field : {"input", "target"}, to : InputStatus \cup TargetStatus]
NoPoll == [after |-> -1]
Poll == [after : Nat, base : State, deadlineReached : BOOLEAN]

(***************************************************************************)
(* Queue operations.                                                       *)
(***************************************************************************)

\* push_back, then pop_front while the queue is longer than its capacity.
Retained(es, e) ==
    LET pushed == Append(es, e)
    IN  IF Len(pushed) > Capacity THEN Tail(pushed) ELSE pushed

\* One status change: the next sequence number and one event.  A sample equal
\* to the current status publishes nothing.
Changed(q, field, status) ==
    IF q.state[field] = status THEN q
    ELSE [state |-> [q.state EXCEPT ![field] = status],
          latest |-> q.latest + 1,
          events |-> Retained(q.events, [seq |-> q.latest + 1, field |-> field, to |-> status]),
          history |-> Append(q.history, [q.state EXCEPT ![field] = status])]

Observe(q, status) == Changed(q, "input", status)

ObserveTarget(q, status) == Changed(q, "target", status)

EventsAfterSkipsNext(q, after) ==   \* mutant: the event right after the cursor is left out
    {e \in {q.events[i] : i \in DOMAIN q.events} : e.seq > after + 1}

\* The retained events past a cursor.  Their order is their sequence number.
EventsAfter(q, after) ==
    {e \in {q.events[i] : i \in DOMAIN q.events} : e.seq > after}

ResyncRequiredLate(q, after) ==   \* mutant: one popped event goes unnoticed
    \/ after > q.latest
    \/ q.events # <<>> /\ after + 2 < q.events[1].seq

ResyncRequired(q, after) ==
    \/ after > q.latest
    \/ q.events # <<>> /\ after + 1 < q.events[1].seq

(***************************************************************************)
(* One sample: input readiness first, then the target probe.  A probe that *)
(* fails with an unrelated error is dropped and leaves the target alone.   *)
(***************************************************************************)
Current == [state |-> [input |-> input, target |-> target],
            latest |-> latest, events |-> events, history |-> history]

Sampled(probeFails) ==
    LET q == Observe(Current, desktop)
    IN  IF probeFails THEN q ELSE ObserveTarget(q, window)

SetQueue(q) ==
    /\ input' = q.state.input
    /\ target' = q.state.target
    /\ events' = q.events
    /\ latest' = q.latest
    /\ history' = q.history

Init ==
    /\ desktop \in InputStatus
    /\ window \in TargetStatus
    /\ input = desktop
    /\ target = window
    /\ events = <<>>
    /\ latest = 1
    /\ stopped = FALSE
    /\ poll = NoPoll
    /\ cursor = 1
    /\ view = [input |-> desktop, target |-> window]
    /\ history = <<view>>

(***************************************************************************)
(* The world moves on its own.                                             *)
(***************************************************************************)
DesktopChanges ==
    /\ latest < MaxSequence
    /\ desktop' \in InputStatus \ {desktop}
    /\ UNCHANGED <<window, stopped, poll, cursor, view>> /\ UNCHANGED queue

WindowChanges ==
    /\ latest < MaxSequence
    /\ window' \in TargetStatus \ {window}
    /\ UNCHANGED <<desktop, stopped, poll, cursor, view>> /\ UNCHANGED queue

\* The user stops control; a poll that is being served notices on its next turn.
Stop ==
    /\ ~stopped
    /\ stopped' = TRUE
    /\ UNCHANGED <<desktop, window, poll, cursor, view>> /\ UNCHANGED queue

\* refresh_connection_session_states, between two requests of the connection.
\* It goes over interrupted sessions too, whose target probe then fails.
StatePoll ==
    /\ poll = NoPoll
    /\ \E probeFails \in BOOLEAN :
          /\ stopped => probeFails
          /\ SetQueue(Sampled(probeFails))
    /\ UNCHANGED <<desktop, window, stopped, poll, cursor, view>>

\* The client asks for what follows its cursor.
PollStart ==
    /\ poll = NoPoll
    /\ poll' = [after |-> cursor, base |-> view, deadlineReached |-> FALSE]
    /\ UNCHANGED <<desktop, window, stopped, cursor, view>> /\ UNCHANGED queue

\* The client repeats an older poll whose page it lost, from the state it had
\* then, or asks from a cursor this session never issues.
PollOtherCursor ==
    /\ poll = NoPoll
    /\ \E after \in (0 .. latest \cup {MaxSequence + 2}) \ {cursor} :
          poll' = [after |-> after,
                   base |-> IF after \in 1 .. latest THEN history[after] ELSE view,
                   deadlineReached |-> FALSE]
    /\ UNCHANGED <<desktop, window, stopped, cursor, view>> /\ UNCHANGED queue

Deadline ==
    /\ poll # NoPoll
    /\ ~poll.deadlineReached
    /\ poll' = [poll EXCEPT !.deadlineReached = TRUE]
    /\ UNCHANGED <<desktop, window, stopped, cursor, view>> /\ UNCHANGED queue

\* The client's fold of one page: the last event of a field gives its value.
Folded(state, page) ==
    [f \in DOMAIN state |->
        LET mine == {e \in page : e.field = f}
        IN  IF mine = {} THEN state[f]
            ELSE (CHOOSE e \in mine : \A d \in mine : d.seq <= e.seq).to]

\* ensure_session_not_interrupted at the top of every turn.
PollInterrupted ==
    /\ poll # NoPoll
    /\ stopped
    /\ poll' = NoPoll
    /\ UNCHANGED <<desktop, window, stopped, cursor, view>> /\ UNCHANGED queue

\* The page of a queue q answers the poll p, or it sleeps one more slice.
Answered(q, p) ==
    LET page == EventsAfter(q, p.after)
        resync == ResyncRequired(q, p.after)
    IN  IF resync \/ page # {}
        THEN /\ view' = IF resync THEN q.state ELSE Folded(p.base, page)
             /\ cursor' = q.latest
             /\ poll' = NoPoll
        ELSE /\ poll' = IF p.deadlineReached THEN NoPoll ELSE p
             /\ UNCHANGED <<view, cursor>>

PollTurnUnsampled ==   \* mutant: the loop waits for events nobody samples
    /\ poll # NoPoll
    /\ ~stopped
    /\ Answered(Current, poll)
    /\ UNCHANGED <<desktop, window, stopped>> /\ UNCHANGED queue

\* One turn of the poll loop: sample, then answer from the sampled queue.
PollTurn ==
    /\ poll # NoPoll
    /\ ~stopped
    /\ \E probeFails \in BOOLEAN :
          /\ SetQueue(Sampled(probeFails))
          /\ Answered(Sampled(probeFails), poll)
    /\ UNCHANGED <<desktop, window, stopped>>

Next ==
    \/ DesktopChanges
    \/ WindowChanges
    \/ Stop
    \/ StatePoll
    \/ PollStart
    \/ PollOtherCursor
    \/ Deadline
    \/ PollInterrupted
    \/ PollTurn

Spec == Init /\ [][Next]_vars

\* The poll loop runs on a timer and its deadline passes; the client keeps
\* asking from its own cursor.
FairSpec ==
    /\ Spec
    /\ WF_vars(PollTurn)
    /\ WF_vars(PollInterrupted)
    /\ WF_vars(Deadline)
    /\ SF_vars(PollStart)

(***************************************************************************)
(* Properties.                                                             *)
(***************************************************************************)
TypeOK ==
    /\ desktop \in InputStatus /\ window \in TargetStatus
    /\ input \in InputStatus /\ target \in TargetStatus
    /\ events \in Seq(Event)
    /\ latest \in Nat \ {0}
    /\ stopped \in BOOLEAN
    /\ poll \in Poll \cup {NoPoll}
    /\ cursor \in Nat \ {0}
    /\ view \in State
    /\ history \in Seq(State)

\* The queue holds exactly the last events, one per sequence number and none
\* missing, and never more than its capacity, however observe, observe_target
\* and the pop_front of an overflow interleave.
QueueIsTail ==
    /\ Len(events) = IF latest - 1 < Capacity THEN latest - 1 ELSE Capacity
    /\ \A i \in 1 .. Len(events) : events[i].seq = latest - Len(events) + i

\* page_after asks a client to resynchronise exactly when events it has not
\* seen were popped: never while they are all retained, always otherwise.
ResyncIffOverflow ==
    \A after \in 1 .. latest : ResyncRequired(Current, after) <=> latest - after > Capacity

\* What a client rebuilds from its pages is the state the queue had at the
\* client's cursor: no page skips, repeats or reorders a transition, whatever
\* the poll loop sampled between the client's request and its answer.
ViewAtCursor == cursor \in 1 .. Len(history) /\ view = history[cursor]

\* Every poll is answered: by events, by a resync, by its deadline or by the
\* interruption of its session.
PollReturns == poll # NoPoll ~> poll = NoPoll

\* A client that keeps polling ends up seeing the readiness the desktop
\* settles on, unless its session is stopped: the loop samples by itself, so
\* no transition waits for another request to be noticed.
ViewConverges ==
    \A s \in InputStatus : []~stopped /\ <>[](desktop = s) => <>[](view.input = s)

\* A client that keeps polling catches up: no poll hangs, and what it folds
\* comes to rest where the desktop does.
PollerCatchesUp == PollReturns /\ ViewConverges
=============================================================================
