--------------------------- MODULE HostConnection ---------------------------
(***************************************************************************)
(* One connection: the client library's operations and correlation ids     *)
(* (HostClient), the two framed streams, and the Host's connection loop    *)
(* with its three lanes, serial, parallel and interruptible.               *)
(*                                                                         *)
(* A frame is a length prefix and a body, written one after the other.  A  *)
(* read that is dropped between the two loses the prefix: what follows is  *)
(* read as a length, is far beyond any limit, and ends the connection.     *)
(***************************************************************************)
EXTENDS Integers, Sequences, FiniteSets

CONSTANTS
    MaxRequests,     \* bound: request ids a client uses
    MaxOutstanding,  \* MAX_PARALLEL_DISCOVERY_REQUESTS, tracked by the client
    MaxParallel      \* MAX_PARALLEL_DISCOVERY_REQUESTS, tasks of the Host

ASSUME HostConnectionAssumption ==
    /\ MaxRequests \in Nat \ {0}
    /\ MaxOutstanding \in Nat \ {0}
    /\ MaxParallel \in Nat \ {0}

VARIABLES
    state,        \* client: connection_state
    cause,        \* ghost: why the client gave the connection up
    op,           \* client: the operation in flight
    outstanding,  \* client: outstanding_request_ids
    leaked,       \* ghost: waits given up with their id still tracked
    pending,      \* client: pending_responses, read while another was awaited
    nextId,       \* client: next_request_id
    clientOpen,   \* the client holds its end of the stream
    clientRead,   \* client: its read future, see Reads
    toHost,       \* frames on their way to the Host
    toClient,     \* frames on their way to the client
    hostRead,     \* Host: its read future
    lane,         \* Host: what the connection loop is doing
    parallel,     \* Host: ids of the parallel tasks
    stop,         \* a shared stop this connection has not seen yet
    answers       \* ghost: answers[id]: how often a request was answered

client == <<state, cause, op, outstanding, leaked, pending, nextId, clientOpen, clientRead>>
host == <<hostRead, lane, parallel, stop>>
vars == <<client, toHost, toClient, host, answers>>

Ids == 1 .. MaxRequests
Waits == {"wait_for", "poll_session_events", "wait_for_window"}
Cancels == {"cancel", "cancel_window_wait"}
Methods == Waits \cup Cancels \cup {"serial", "discovery", "interrupt_all"}

Request == [id : Ids, method : Methods, waitId : Ids]
Response == [id : Ids, ok : BOOLEAN]

\* A read future holds nothing, the prefix of the first frame, or was dropped
\* with it.
Reads == {"fresh", "prefix", "lost"}

NoOp == [method |-> "none"]
Op == [method : Methods, await : Seq(Ids), cancellable : BOOLEAN, cancelled : BOOLEAN]

Reading == [stage |-> "reading"]
Closed == [stage |-> "closed"]
Lane == {Reading, Closed}
        \cup [stage : {"serving"}, id : Ids, method : {"serial", "interrupt_all"}]
        \cup [stage : {"waiting"}, id : Ids, method : Waits,
              registered : BOOLEAN, cancelled : BOOLEAN]

(***************************************************************************)
(* Frames and reads.                                                       *)
(***************************************************************************)
\* read_frame completes with the body, after its prefix was read.
Complete(stream, read) ==
    /\ stream # <<>>
    /\ read = "prefix"

Dropped(read) == IF read = "prefix" THEN "lost" ELSE read

\* write_json_locked and write_response_locked: whole responses, in order.
Answer(rs) ==
    /\ toClient' = toClient \o rs
    /\ answers' = [id \in Ids |->
          answers[id] + Cardinality({i \in DOMAIN rs : rs[i].id = id})]

Reply(id, ok) == [id |-> id, ok |-> ok]

Init ==
    /\ state = "ready" /\ cause = "none" /\ op = NoOp
    /\ outstanding = {} /\ leaked = {} /\ pending = {} /\ nextId = 1
    /\ clientOpen = TRUE /\ clientRead = "fresh"
    /\ toHost = <<>> /\ toClient = <<>>
    /\ hostRead = "fresh" /\ lane = Reading /\ parallel = {} /\ stop = FALSE
    /\ answers = [id \in Ids |-> 0]

(***************************************************************************)
(* The client.                                                             *)
(***************************************************************************)
\* RequestOperationGuard dropped without complete.
GiveUp(why) ==
    /\ state' = "unusable"
    /\ cause' = why
    /\ op' = NoOp

\* begin_request_operation and the frames of the operation, each registered
\* by register_outstanding_request before it is sent.
Start(methods) ==
    LET ids == [i \in DOMAIN methods |-> nextId + i - 1]
    IN  /\ state = "ready" /\ clientOpen
        /\ nextId + Len(methods) - 1 <= MaxRequests
        /\ nextId' = nextId + Len(methods)
        /\ IF Cardinality(outstanding) + Len(methods) > MaxOutstanding
           THEN /\ GiveUp("full")
                /\ UNCHANGED <<outstanding, toHost>>
           ELSE /\ state' = "in_flight"
                /\ op' = [method |-> methods[1], await |-> ids, cancelled |-> FALSE,
                          cancellable |-> methods[1] \in Waits /\ Len(methods) = 1]
                /\ outstanding' = outstanding \cup {ids[i] : i \in DOMAIN ids}
                /\ toHost' = toHost \o [i \in DOMAIN methods |->
                      [id |-> ids[i], method |-> methods[i], waitId |-> nextId]]
                /\ UNCHANGED cause
        /\ UNCHANGED <<leaked, pending, clientOpen, clientRead, toClient, host, answers>>

\* request, request_with_cancel and wait_for_window_with_cancel.
StartRequest == \E m \in Methods \ Cancels : Start(<<m>>)

\* request_batch_with_ids_all: read-only methods only.
StartBatch == \E m, n \in {"serial", "discovery"} : Start(<<m, n>>)

\* A client of its own that pipelines a request behind a wait.
StartPipelined == \E m \in Waits, n \in {"serial", "interrupt_all"} : Start(<<m, n>>)

\* The caller cancels: the read of the wait's response is dropped, the cancel
\* sent, and both responses awaited.
CancelReturnsOnAck ==   \* mutant: the wait's own response is left on the stream
    /\ state = "in_flight"
    /\ op.cancellable /\ ~op.cancelled
    /\ nextId <= MaxRequests
    /\ Cardinality(outstanding) < MaxOutstanding
    /\ op' = [op EXCEPT !.await = <<nextId>>, !.cancelled = TRUE]
    /\ outstanding' = outstanding \cup {nextId}
    /\ nextId' = nextId + 1
    /\ clientRead' = Dropped(clientRead)
    /\ toHost' = Append(toHost,
          [id |-> nextId,
           method |-> IF op.method = "wait_for_window" THEN "cancel_window_wait" ELSE "cancel",
           waitId |-> op.await[1]])
    /\ UNCHANGED <<state, cause, leaked, pending, clientOpen, toClient, host, answers>>

Cancel ==
    /\ state = "in_flight"
    /\ op.cancellable /\ ~op.cancelled
    /\ nextId <= MaxRequests
    /\ nextId' = nextId + 1
    /\ clientRead' = Dropped(clientRead)
    /\ IF Cardinality(outstanding) >= MaxOutstanding
       THEN GiveUp("full") /\ UNCHANGED <<outstanding, toHost>>
       ELSE /\ op' = [op EXCEPT !.await = <<nextId>> \o op.await, !.cancelled = TRUE]
            /\ outstanding' = outstanding \cup {nextId}
            /\ toHost' = Append(toHost,
                  [id |-> nextId,
                   method |-> IF op.method = "wait_for_window"
                              THEN "cancel_window_wait" ELSE "cancel",
                   waitId |-> op.await[1]])
            /\ UNCHANGED <<state, cause>>
    /\ UNCHANGED <<leaked, pending, clientOpen, toClient, host, answers>>

\* The response the operation waits for is there.  A refused cancel ends
\* wait_for_window_with_cancel at once, the id of its wait still tracked;
\* request_with_cancel drains the wait first.
Take(ok) ==
    LET rest == Tail(op.await)
        leaves == op.cancelled /\ rest # <<>> /\ ~ok /\ op.method = "wait_for_window"
    IN  /\ outstanding' = outstanding \ {Head(op.await)}
        /\ pending' = {r \in pending : r.id # Head(op.await)}
        /\ leaked' = IF leaves THEN leaked \cup {Head(rest)} ELSE leaked
        /\ IF rest = <<>> \/ leaves
           THEN state' = "ready" /\ op' = NoOp
           ELSE op' = [op EXCEPT !.await = rest] /\ UNCHANGED state

PendingIds == {r.id : r \in pending}

TakePending ==
    /\ state = "in_flight"
    /\ \E r \in pending : r.id = Head(op.await) /\ Take(r.ok)
    /\ UNCHANGED <<cause, nextId, clientOpen, clientRead, toHost, toClient, host, answers>>

\* receive_for_request_raw: one response from the stream.
Receive ==
    /\ state = "in_flight"
    /\ Head(op.await) \notin PendingIds
    /\ Complete(toClient, clientRead)
    /\ clientRead' = "fresh"
    /\ toClient' = Tail(toClient)
    /\ LET r == Head(toClient)
       IN  \/ /\ r.id \notin outstanding
              /\ GiveUp("untracked")
              /\ UNCHANGED <<outstanding, leaked, pending>>
           \/ /\ r.id \in outstanding /\ r.id = Head(op.await)
              /\ Take(r.ok)
              /\ UNCHANGED cause
           \/ /\ r.id \in outstanding /\ r.id # Head(op.await)
              /\ IF r.id \in PendingIds
                 THEN GiveUp("duplicate") /\ UNCHANGED pending
                 ELSE pending' = pending \cup {r} /\ UNCHANGED <<state, cause, op>>
              /\ UNCHANGED <<outstanding, leaked>>
    /\ UNCHANGED <<nextId, clientOpen, toHost, host, answers>>

ClientReadPrefix ==
    /\ state = "in_flight"
    /\ Head(op.await) \notin PendingIds
    /\ toClient # <<>> /\ clientRead = "fresh"
    /\ clientRead' = "prefix"
    /\ UNCHANGED <<state, cause, op, outstanding, leaked, pending, nextId, clientOpen>>
    /\ UNCHANGED <<toHost, toClient, host, answers>>

\* The stream ended, or its framing is lost.
ClientReadFails ==
    /\ state = "in_flight"
    /\ Head(op.await) \notin PendingIds
    /\ \/ toClient = <<>> /\ lane = Closed
       \/ toClient # <<>> /\ clientRead = "lost"
    /\ GiveUp(IF toClient = <<>> THEN "closed" ELSE "framing")
    /\ UNCHANGED <<outstanding, leaked, pending, nextId, clientOpen, clientRead>>
    /\ UNCHANGED <<toHost, toClient, host, answers>>

\* A timeout, or the request's future is dropped.
Abandon ==
    /\ state = "in_flight"
    /\ GiveUp("abandoned")
    /\ UNCHANGED <<outstanding, leaked, pending, nextId, clientOpen, clientRead>>
    /\ UNCHANGED <<toHost, toClient, host, answers>>

Leave ==
    /\ state \in {"ready", "unusable"}
    /\ clientOpen
    /\ clientOpen' = FALSE
    /\ UNCHANGED <<state, cause, op, outstanding, leaked, pending, nextId, clientRead>>
    /\ UNCHANGED <<toHost, toClient, host, answers>>

(***************************************************************************)
(* The Host's connection loop.                                             *)
(***************************************************************************)
\* A pinned read between two requests keeps its prefix; while a request is
\* served nothing is read.
HostReadPrefix ==
    /\ lane.stage \in {"reading", "waiting"}
    /\ toHost # <<>> /\ hostRead = "fresh"
    /\ hostRead' = "prefix"
    /\ UNCHANGED <<client, toHost, toClient, lane, parallel, stop, answers>>

\* Dispatch of one frame: the interruptible, the parallel or the serial lane.
\* No wait runs, so there is nothing to cancel.
HostDispatch ==
    /\ lane = Reading
    /\ Complete(toHost, hostRead)
    /\ hostRead' = "fresh"
    /\ toHost' = Tail(toHost)
    /\ LET r == Head(toHost)
       IN  \/ /\ r.method \in Waits
              /\ lane' = [stage |-> "waiting", id |-> r.id, method |-> r.method,
                          registered |-> r.method = "wait_for_window", cancelled |-> FALSE]
              /\ UNCHANGED <<parallel, toClient, answers>>
           \/ /\ r.method = "discovery"
              /\ Cardinality(parallel) < MaxParallel
              /\ parallel' = parallel \cup {r.id}
              /\ UNCHANGED <<lane, toClient, answers>>
           \/ /\ r.method \in {"serial", "interrupt_all"}
              /\ lane' = [stage |-> "serving", id |-> r.id, method |-> r.method]
              /\ UNCHANGED <<parallel, toClient, answers>>
           \/ /\ r.method \in Cancels
              /\ Answer(<<Reply(r.id, FALSE)>>)
              /\ UNCHANGED <<lane, parallel>>
    /\ UNCHANGED <<client, stop>>

HostServeSilentError ==   \* mutant: an error of the handler leaves no response
    /\ lane.stage = "serving"
    /\ \E ok \in BOOLEAN : Answer(IF ok THEN <<Reply(lane.id, TRUE)>> ELSE <<>>)
    /\ lane' = Reading
    /\ stop' = (stop \/ lane.method = "interrupt_all")
    /\ UNCHANGED <<client, toHost, hostRead, parallel>>

\* interrupt_all on the serial lane does not count its own stop as seen.
HostServe ==
    /\ lane.stage = "serving"
    /\ \E ok \in BOOLEAN : Answer(<<Reply(lane.id, ok)>>)
    /\ lane' = Reading
    /\ stop' = (stop \/ lane.method = "interrupt_all")
    /\ UNCHANGED <<client, toHost, hostRead, parallel>>

ParallelDone ==
    /\ \E id \in parallel, ok \in BOOLEAN :
          /\ parallel' = parallel \ {id}
          /\ Answer(<<Reply(id, ok)>>)
    /\ UNCHANGED <<client, toHost, hostRead, lane, stop>>

\* wait_for registers itself for cancellation when it is first polled.
RegisterWait ==
    /\ lane.stage = "waiting" /\ lane.method = "wait_for" /\ ~lane.registered
    /\ lane' = [lane EXCEPT !.registered = TRUE]
    /\ UNCHANGED <<client, toHost, toClient, hostRead, parallel, stop, answers>>

\* The interruptible lane ends, and with it the read it was making.
EndWait(rs) ==
    /\ Answer(rs)
    /\ lane' = Reading
    /\ hostRead' = Dropped(hostRead)

\* Its condition, its deadline or an error.
WaitCompletes ==
    /\ lane.stage = "waiting" /\ ~lane.cancelled
    /\ lane.method = "wait_for" => lane.registered
    /\ \E ok \in BOOLEAN : EndWait(<<Reply(lane.id, ok)>>)
    /\ UNCHANGED <<client, toHost, parallel, stop>>

\* wait_for_probe_until sees the cancellation before everything else.
WaitCancelled ==
    /\ lane.stage = "waiting" /\ lane.cancelled
    /\ EndWait(<<Reply(lane.id, TRUE)>>)
    /\ UNCHANGED <<client, toHost, parallel, stop>>

\* The 50 ms tick: nothing happened, and the loop starts a new read.
WaitTick ==
    /\ lane.stage = "waiting" /\ ~stop
    /\ hostRead = "prefix"
    /\ hostRead' = "lost"
    /\ UNCHANGED <<client, toHost, toClient, lane, parallel, stop, answers>>

\* The tick finds a shared stop.
WaitInterrupted ==
    /\ lane.stage = "waiting" /\ stop
    /\ stop' = FALSE
    /\ EndWait(<<Reply(lane.id, FALSE)>>)
    /\ UNCHANGED <<client, toHost, parallel>>

CancelKeepsWaiting(r) ==   \* mutant: the lane answers for the wait and does not leave it
    /\ IF lane.method = "wait_for_window" /\ lane.id = r.waitId
       THEN Answer(<<Reply(r.id, TRUE), Reply(lane.id, TRUE)>>)
       ELSE Answer(<<Reply(r.id, FALSE)>>)
    /\ UNCHANGED lane

\* cancel_window_wait: acknowledged, and the wait answered as cancelled.
CancelWindowWait(r) ==
    IF lane.method = "wait_for_window" /\ lane.id = r.waitId
    THEN /\ Answer(<<Reply(r.id, TRUE), Reply(lane.id, TRUE)>>)
         /\ lane' = Reading
    ELSE /\ Answer(<<Reply(r.id, FALSE)>>)
         /\ UNCHANGED lane

\* cancel_wait: the flag and the notification of a registered wait_for.
CancelWait(r) ==
    IF lane.method = "wait_for" /\ lane.registered
    THEN /\ Answer(<<Reply(r.id, TRUE)>>)
         /\ lane' = [lane EXCEPT !.cancelled = TRUE]
    ELSE /\ Answer(<<Reply(r.id, FALSE)>>)
         /\ UNCHANGED lane

RequestInProgress(r) ==
    /\ Answer(<<Reply(r.id, FALSE)>>)
    /\ UNCHANGED lane

\* A frame that arrives while a wait runs.  interrupt_all ends the wait.
WaitReads ==
    /\ lane.stage = "waiting"
    /\ Complete(toHost, hostRead)
    /\ hostRead' = "fresh"
    /\ toHost' = Tail(toHost)
    /\ LET r == Head(toHost)
       IN  \/ /\ r.method = "interrupt_all"
              /\ Answer(<<Reply(r.id, TRUE), Reply(lane.id, FALSE)>>)
              /\ lane' = Reading
              /\ stop' = FALSE
           \/ r.method = "cancel_window_wait" /\ CancelWindowWait(r) /\ UNCHANGED stop
           \/ r.method = "cancel" /\ CancelWait(r) /\ UNCHANGED stop
           \/ /\ r.method \notin Cancels \cup {"interrupt_all"}
              /\ RequestInProgress(r)
              /\ UNCHANGED stop
    /\ UNCHANGED <<client, parallel>>

\* A stop from elsewhere, and the tick that sees it between two requests.
SharedStop ==
    /\ ~stop /\ lane # Closed
    /\ stop' = TRUE
    /\ UNCHANGED <<client, toHost, toClient, hostRead, lane, parallel, answers>>

IdleTick ==
    /\ lane = Reading /\ stop
    /\ stop' = FALSE
    /\ UNCHANGED <<client, toHost, toClient, hostRead, lane, parallel, answers>>

\* finalize_connection: at the end of the stream, or when its framing is lost,
\* the parallel tasks are aborted and the wait is dropped.
HostCloses ==
    /\ lane.stage \in {"reading", "waiting"}
    /\ \/ toHost = <<>> /\ ~clientOpen
       \/ toHost # <<>> /\ hostRead = "lost"
    /\ lane' = Closed
    /\ parallel' = {}
    /\ UNCHANGED <<client, toHost, toClient, hostRead, stop, answers>>

ClientNext ==
    \/ StartRequest \/ StartBatch \/ StartPipelined \/ Cancel
    \/ TakePending \/ Receive \/ ClientReadPrefix \/ ClientReadFails
    \/ Abandon \/ Leave

HostSteps ==
    \/ HostReadPrefix \/ HostDispatch \/ HostServe \/ ParallelDone
    \/ RegisterWait \/ WaitCancelled \/ WaitInterrupted \/ WaitReads
    \/ HostCloses

Next == ClientNext \/ HostSteps \/ IdleTick \/ WaitCompletes \/ WaitTick \/ SharedStop

Spec == Init /\ [][Next]_vars

\* Both ends keep going.  How long a wait takes is its own business.
FairSpec ==
    /\ Spec
    /\ WF_vars(TakePending \/ Receive \/ ClientReadPrefix \/ ClientReadFails)
    /\ WF_vars(HostSteps)

(***************************************************************************)
(* Properties.                                                             *)
(***************************************************************************)
TypeOK ==
    /\ state \in {"ready", "in_flight", "unusable"}
    /\ cause \in {"none", "full", "untracked", "duplicate", "closed", "framing", "abandoned"}
    /\ op \in Op \cup {NoOp}
    /\ outstanding \subseteq Ids /\ leaked \subseteq Ids /\ pending \subseteq Response
    /\ nextId \in 1 .. MaxRequests + 1
    /\ clientOpen \in BOOLEAN
    /\ clientRead \in Reads /\ hostRead \in Reads
    /\ toHost \in Seq(Request) /\ toClient \in Seq(Response)
    /\ lane \in Lane
    /\ parallel \subseteq Ids
    /\ stop \in BOOLEAN
    /\ answers \in [Ids -> Nat]

\* Every request is answered at most once, whichever of a completion, a
\* cancel, a stop and an interrupt_all ends its wait.
OneAnswerEach == \A id \in Ids : answers[id] <= 1

\* The client gives the connection up for a timeout, for a read that somebody
\* dropped inside a frame, and for one thing of its own making: its table holds
\* so many waits it left after a refused cancel_window_wait that the next
\* operation finds no room.  (ADR 0011 would have only the ids of the current
\* operation tracked.)  No answer of the Host, and no other request, fills it.
UnusableForCause ==
    state = "unusable" =>
        \/ cause = "abandoned"
        \/ "lost" \in {clientRead, hostRead}
        \/ cause = "full" /\ Cardinality(leaked) >= MaxOutstanding - 1

\* The Host closes a connection when the client left it, or when it lost its
\* own place in the stream; nothing a client sends behind a wait is a reason.
HostClosesForCause == lane = Closed => ~clientOpen \/ hostRead = "lost"

\* Both ends deal honestly: one answer for each request, and neither gives the
\* connection up for anything the other did by the protocol.
HonestConnection == TypeOK /\ OneAnswerEach /\ UnusableForCause /\ HostClosesForCause

\* ADR 0011: a connection that may be used again carries nothing of an
\* earlier operation, on the wire or at the Host, that a later one could take
\* for its own; also when reads were dropped in the middle of a frame.
ReadyIsDrained ==
    state = "ready" =>
        /\ toHost = <<>> /\ toClient = <<>>
        /\ lane \in {Reading, Closed}
        /\ parallel = {}

\* An operation that is no wait comes to an end.
RequestEnds ==
    (state = "in_flight" /\ op.method \notin Waits) ~> state # "in_flight"

\* A cancel that was acknowledged ends its wait_for, whatever the condition
\* and the deadline of the wait.
AcknowledgedCancelEndsWait ==
    \A id \in Ids :
        (lane.stage = "waiting" /\ Reply(id, TRUE) \in {toClient[i] : i \in DOMAIN toClient}
           /\ op # NoOp /\ op.cancelled /\ op.await[1] = id)
            ~> state # "in_flight"

\* Whatever the client asks for, and whether it changes its mind or not, it is
\* not left waiting by the Host.
OperationsEnd == RequestEnds /\ AcknowledgedCancelEndsWait
=============================================================================
