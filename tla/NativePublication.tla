------------------------- MODULE NativePublication -------------------------
(***************************************************************************)
(* The mailbox between a session that starts a recording and the capture   *)
(* worker that owns the native window (live_observation/                   *)
(* native_publication.rs). There is one slot. A request waits in it, is    *)
(* taken by the worker and answered; the session may stop waiting at any   *)
(* moment, because its deadline passed or because its call was dropped,    *)
(* and the worker may stop serving. Every operation runs under the mutex   *)
(* of the slot and the one of the request, so it is one step here; which   *)
(* of the five failures closed a request is left out, since each of them   *)
(* reaches the caller as an error.                                         *)
(***************************************************************************)
EXTENDS Integers, Sequences

VARIABLES
    box,        \* the slot, and every request ever submitted to this mailbox
    late        \* the requests whose deadline has passed

Empty == [stopped |-> FALSE, owner |-> 0, requests |-> <<>>]

Request(seq, since) ==
    [seq |-> seq, since |-> since, at |-> "queued", outcome |-> "waiting", reply |-> FALSE]

Boxes(Seqs) ==
    [stopped : BOOLEAN, owner : Nat,
     requests : Seq([seq : Seqs, since : Nat, at : {"queued", "in_flight", "released"},
                     outcome : {"waiting", "completed", "consumed", "failed"},
                     reply : BOOLEAN])]

\* A request that failed stays failed; otherwise the stop counts before the
\* deadline, and the deadline is read under both locks.
LiveFailure(b, r) ==
    \/ b.requests[r].outcome = "failed"
    \/ b.stopped
    \/ r \in late

Release(b, r) == [b EXCEPT !.owner = IF @ = r THEN 0 ELSE @]

\* Work in flight keeps the slot when its caller gives up.
CloseFailed(b, r, releaseInFlight) ==
    LET failed == [b EXCEPT !.requests[r].outcome = "failed",
                            !.requests[r].reply = FALSE]
    IN  IF b.requests[r].at = "queued" \/ releaseInFlight
        THEN [Release(failed, r) EXCEPT !.requests[r].at = "released"]
        ELSE failed

Refuses(b) == b.stopped \/ b.owner # 0

Submit(b, seq, since) ==
    [b EXCEPT !.owner = Len(b.requests) + 1,
              !.requests = Append(@, Request(seq, since))]

\* PublicationInbox::take, and whether it hands out work.
CanTake(b) == b.owner # 0 /\ b.requests[b.owner].at = "queued"

TakeFails(b) == LiveFailure(b, b.owner)

Take(b) ==
    IF TakeFails(b) THEN CloseFailed(b, b.owner, TRUE)
                    ELSE [b EXCEPT !.requests[b.owner].at = "in_flight"]

StopInbox(b) ==
    IF b.stopped THEN b
    ELSE LET stopped == [b EXCEPT !.stopped = TRUE]
         IN  IF b.owner = 0 THEN stopped ELSE CloseFailed(stopped, b.owner, TRUE)

\* PendingPublication::try_result: "wait", "error", or the reply of the worker.
Answer(b, r) ==
    IF LiveFailure(b, r) THEN "error"
    ELSE CASE b.requests[r].outcome = "waiting" -> "wait"
           [] b.requests[r].outcome = "completed" ->
                 IF b.requests[r].reply THEN "valid" ELSE "refused"
           [] OTHER -> "error"

AfterAnswer(b, r) ==
    IF LiveFailure(b, r) THEN CloseFailed(b, r, FALSE)
    ELSE IF b.requests[r].outcome = "completed"
    THEN [b EXCEPT !.requests[r].outcome = "consumed"]
    ELSE b

\* A PendingPublication is dropped before it has finished.
Abandon(b, r) == CloseFailed(b, r, FALSE)

\* PublicationWork::ensure_live, complete, and its drop.
WorkFails(b, r) == LiveFailure(b, r) \/ b.requests[r].outcome # "waiting"

EnsureLive(b, r) == IF WorkFails(b, r) THEN CloseFailed(b, r, FALSE) ELSE b

Complete(b, r, reply) ==
    IF WorkFails(b, r) THEN CloseFailed(b, r, TRUE)
    ELSE Release([b EXCEPT !.requests[r].reply = reply,
                           !.requests[r].outcome = "completed",
                           !.requests[r].at = "released"], r)

DropWork(b, r) == CloseFailed(b, r, TRUE)
=============================================================================
