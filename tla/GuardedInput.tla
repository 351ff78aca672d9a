---------------------------- MODULE GuardedInput ----------------------------
(* Guarded physical input of a pixels-only session: every injection passes   *)
(* the fence of the observed window just before it is made, what went down   *)
(* is owed a release, and one release-only batch pays all of it at the end.  *)
(* The reads of one fence are one step; a change behind its back shows as a  *)
(* disturbance between the check and the dispatch.                           *)
EXTENDS InputDevice

VARIABLE guard   \* the transaction in progress and, at pc "return", its result

\* todo: inserted events whose releases are not booked yet; owed: releases of
\* what was inserted; got: what the system accepted;
\* balanced: the last batch left nothing down (closed_postcheck_allowed).
NoGuard == [req |-> "none", pc |-> "idle", i |-> 0, gen |-> 0, todo |-> <<>>, owed |-> <<>>,
            got |-> "none", balanced |-> FALSE, failed |-> FALSE, status |-> "none", sent |-> "none"]

Spot == 1

-----------------------------------------------------------------------------
(* The steps of an operation: run_click, run_drag, run_keypress, run_text. *)

Look == [op |-> "look", events |-> <<>>]
SetCursor == [op |-> "cursor", events |-> <<>>]
Batch(events) == [op |-> "batch", events |-> events]

Downs(keys) == [i \in DOMAIN keys |-> Down(keys[i])]
UpsOf(keys) == [i \in DOMAIN keys |-> Up(keys[Len(keys) + 1 - i])]

ClickScript(r) ==
    <<SetCursor>>
    \o (IF r.keys = <<>> THEN <<>> ELSE <<Batch(Downs(r.keys))>>)
    \o [c \in 1 .. r.clicks |-> Batch(<<Move(Spot), Down(r.button), Up(r.button)>>)]

\* The whole path is proved before the cursor moves; every later point waits
\* under the fence and then moves.
DragScript(r) ==
    [p \in 1 .. r.points |-> Look]
    \o <<SetCursor, Batch(<<Down(r.button)>>)>>
    \o [p \in 1 .. 2 * (r.points - 1) |->
            IF p % 2 = 1 THEN Look ELSE Batch(<<Move(Spot + p \div 2)>>)]
    \o <<Batch(<<Up(r.button)>>)>>

\* A held key is released by the clean-up.
KeypressScript(r) ==
    IF r.hold THEN <<Batch(Downs(r.keys)), Look>>
    ELSE <<Batch(Downs(r.keys) \o UpsOf(r.keys))>>

TextScript == <<Batch(<<Down("c"), Up("c"), Down("c"), Up("c")>>)>>

Script(r) ==
    CASE r.kind = "click" -> ClickScript(r)
      [] r.kind = "drag" -> DragScript(r)
      [] r.kind = "keys" -> KeypressScript(r)
      [] OTHER -> TextScript

Current == Script(guard.req)[guard.i]

-----------------------------------------------------------------------------
(* The fence. *)

\* validate_physical_metadata, validate_root_fence: the window of the
\* observation, whole, in front, on a usable desktop.
Metadata == window = "ok" /\ Exact
Interrupted == stops # guard.gen

\* check_mode: the proof of the popup is the observed one; only the check
\* behind a complete release accepts that it has closed.
PopupAllows(closed) == popup = "closed" => closed

\* check_physical_fence, check_capture_popup_fence.
FenceHolds(closed) ==
    /\ ~Interrupted
    /\ desk
    /\ Metadata
    /\ PopupAllows(closed)

\* A check may also fail by a read that errors, a lost presentation, a moved
\* or covered window: a fault that leaves no other trace.
CheckFails(closed) ==
    \/ ~FenceHolds(closed) /\ UNCHANGED faults
    \/ FenceHolds(closed) /\ faults > 0 /\ faults' = faults - 1
CheckPasses(closed) == FenceHolds(closed) /\ UNCHANGED faults

-----------------------------------------------------------------------------

SentOfLast(got) ==
    CASE got = "some" -> "Sent"
      [] OTHER -> "NotSent"

\* input_error: what an error says of the input.
SentOf(got) ==
    CASE got = "some" -> "Sent"
      [] got = "tried" -> "Unknown"
      [] OTHER -> "NotSent"

Finished(g, status, sent) == [g EXCEPT !.pc = "return", !.owed = <<>>, !.status = status, !.sent = sent]

\* The next step, or the clean-up behind the last one.
Onward(g) == [g EXCEPT !.i = @ + 1, !.pc = IF g.i = Len(Script(g.req)) THEN "cleanup" ELSE "check"]

FailingReturns(g) == [g EXCEPT !.failed = TRUE, !.pc = "post"]

\* A refusal ends the operation; what it owes is paid first.
Failing(g) == [g EXCEPT !.failed = TRUE, !.pc = "cleanup"]

\* perform_action: the generation is read before the request is looked at.
GuardBegin(r) ==
    /\ guard.pc = "idle"
    /\ guard' = [NoGuard EXCEPT !.req = r, !.pc = "prepare", !.gen = stops]
    /\ popup' = IF r.popup THEN "open" ELSE "none"
    /\ UNCHANGED <<fg, window, desk, stops, device, faults>>

\* validate_pixel_action: the fields belong to the operation.
Admissible(r) ==
    /\ r.kind = "click" => ~r.hold
    /\ r.kind = "drag" => r.keys = <<>>
    /\ r.kind \in {"keys", "text"} => r.button = "none"

\* input_fence, physical_point, physical_drag_points: the observation is stale,
\* or a point is outside of it or redacted.
ObservationRefuses == faults > 0 /\ faults' = faults - 1
\* The worker gets no presentation or overlay lease.
LeaseRefused == faults > 0 /\ faults' = faults - 1

GuardPrepare ==
    /\ guard.pc = "prepare"
    /\ \/ /\ Interrupted \/ ~Admissible(guard.req)
          /\ guard' = Finished(guard, "error", "NotSent") /\ UNCHANGED faults
       \/ /\ ~Interrupted /\ Admissible(guard.req) /\ ObservationRefuses
          /\ guard' = Finished(guard, "error", "NotSent")
       \/ /\ ~Interrupted /\ Admissible(guard.req)
          /\ guard' = [guard EXCEPT !.pc = "leases", !.i = 1] /\ UNCHANGED faults
    /\ UNCHANGED <<world, device>>

\* run_owned_pixel_worker: both leases, then the transaction.
GuardLeases ==
    /\ guard.pc = "leases"
    /\ \/ LeaseRefused /\ guard' = Finished(guard, "error", "NotSent")
       \/ guard' = [guard EXCEPT !.pc = "check"] /\ UNCHANGED faults
    /\ UNCHANGED <<world, device>>

\* A check without a mutation, or the one in front of a mutation.
GuardCheck ==
    /\ guard.pc = "check"
    /\ \/ CheckFails(FALSE) /\ guard' = Failing(guard)
       \/ /\ CheckPasses(FALSE)
          /\ guard' = IF Current.op = "look" THEN Onward(guard)
                      ELSE [guard EXCEPT !.pc = "dispatch"]
    /\ UNCHANGED <<world, device>>

\* SetCursorPos: one that reports failure may have moved the cursor.
GuardCursor ==
    /\ guard.pc = "dispatch" /\ Current.op = "cursor"
    /\ \E ok \in BOOLEAN :
        /\ Consumable(Spot, ok, guard.gen)
        /\ LET g == [guard EXCEPT !.got = IF ok THEN "some" ELSE "tried"]
           IN guard' = IF ok THEN Onward(g) ELSE Failing(g)
    /\ UNCHANGED world

\* SendInput, and whether all of the batch was inserted.
GuardBatch ==
    /\ guard.pc = "dispatch" /\ Current.op = "batch"
    /\ \E n \in 0 .. Len(Current.events) :
        /\ Submit(Current.events, n, guard.gen)
        /\ guard' = [guard EXCEPT !.pc = "owing", !.todo = SubSeq(Current.events, 1, n),
                                  !.got = IF n > 0 THEN "some" ELSE @,
                                  !.failed = n < Len(Current.events)]
    /\ UNCHANGED world

\* The position of the latest release like e that is owed.
LastOwed(owed, e) ==
    CHOOSE j \in DOMAIN owed :
        owed[j] = e /\ \A k \in DOMAIN owed : owed[k] = e => k =< j

\* The loop of Transaction::mutate over the inserted events: a press owes its
\* release, a release pays the latest one.
Owes(owed, e) ==
    CASE e[1] = "down" -> Append(owed, Up(e[2]))
      [] e[1] = "up" /\ e \in Range(owed) -> RemoveAt(owed, LastOwed(owed, e))
      [] OTHER -> owed

GuardOwes ==
    /\ guard.pc = "owing" /\ guard.todo # <<>>
    /\ guard' = [guard EXCEPT !.todo = Tail(@), !.owed = Owes(@, Head(guard.todo))]
    /\ UNCHANGED <<world, device, faults>>

\* keyboard_release_completed.
Balanced == ~guard.failed /\ guard.owed = <<>>

\* Behind the loop: InjectionIncomplete, or the next step.
GuardOwed ==
    /\ guard.pc = "owing" /\ guard.todo = <<>>
    /\ LET g == [guard EXCEPT !.balanced = Balanced]
       IN guard' = IF guard.failed THEN Failing(g) ELSE Onward(g)
    /\ UNCHANGED <<world, device, faults>>

\* cleanup: one release-only batch, unchecked and never repeated.
GuardCleanup ==
    /\ guard.pc = "cleanup"
    /\ \/ guard.owed = <<>> /\ guard' = [guard EXCEPT !.pc = "post"] /\ UNCHANGED <<device, faults>>
       \/ /\ guard.owed # <<>>
          /\ \E n \in 0 .. Len(guard.owed) :
                /\ Submit(Reverse(guard.owed), n, guard.gen)
                /\ guard' = [guard EXCEPT !.pc = "post", !.owed = <<>>,
                                          !.balanced = n = Len(guard.owed),
                                          !.failed = @ \/ n < Len(guard.owed)]
    /\ UNCHANGED world

\* finish: the result, the clean-up, and only then the check behind the input.
GuardPost ==
    /\ guard.pc = "post"
    /\ \/ /\ guard.failed /\ UNCHANGED faults
          /\ guard' = Finished(guard, "error", SentOf(guard.got))
       \/ /\ ~guard.failed /\ CheckFails(guard.balanced)
          /\ guard' = Finished(guard, "error", SentOf(guard.got))
       \/ /\ ~guard.failed /\ CheckPasses(guard.balanced)
          /\ guard' = Finished(guard, "succeeded", "Sent")
    /\ UNCHANGED <<world, device>>

GuardReturned ==
    /\ guard.pc = "return"
    /\ guard' = NoGuard
    /\ popup' = "none"
    /\ trail' = Fresh
    /\ cursor' = Home
    /\ UNCHANGED <<fg, window, desk, stops, held, faults>>

GuardStep ==
    \/ GuardPrepare \/ GuardLeases \/ GuardCheck \/ GuardCursor
    \/ GuardBatch \/ GuardOwes \/ GuardOwed \/ GuardCleanup \/ GuardPost
=============================================================================
