--------------------------- MODULE ForegroundInput ---------------------------
(* The local Windows fast path of perform_action: clicks, drags over four    *)
(* back ends, held keys and cursor moves for one exact foreground window.    *)
(* A call activates the window, checks it, injects, and must let go of what  *)
(* it pressed whatever happens on the way.                                   *)
EXTENDS WindowActivation, RelativeMotion

VARIABLE call   \* the input call in progress and, at pc "return", its result

\* Request: kind, backend, button, clicks, keys (modifiers of a click), the
\* path, and whether the target is behind UIPI.
Source == 1
NoCall == [req |-> "none", pc |-> "idle", stage |-> "none", tries |-> 0, i |-> 0, n |-> 0, gen |-> 0,
           failed |-> FALSE, path |-> FALSE, last |-> NoAttempt, trust |-> 0, seen |-> 0,
           status |-> "none", sent |-> "none"]

Return(c, status, sent) == [c EXCEPT !.pc = "return", !.status = status, !.sent = sent]

\* local_mutation_attempt_failure: whatever the dispatcher said of the input.
AttemptFailed(c) == Return(c, "error", "Unknown")
\* local_activation_attempt_failure.
ActivationFailed(c) == Return(c, "error", "NotSent")

-----------------------------------------------------------------------------
(* Selection of the drag back end, before and inside the fast path. *)

Fenced == {"combined", "relative"}

\* select_windows_foreground_drag_backend; "default" is no explicit backend.
SelectBackend(r) ==
    CASE r.backend \in {"send_input", "relative"} -> r.backend
      [] /\ r.backend \in {"default", "combined"}
         /\ r.button = "left" /\ r.keys = <<>> /\ r.points = 2 -> "combined"
      [] r.backend = "touch" /\ r.button = "left" -> "touch"
      [] OTHER -> "rejected"

\* windows_fast_preflight_rejection.
Rejects(r) == r.kind = "drag" /\ SelectBackend(r) = "rejected"

\* held_coordinate_click_as_drag: a held click is a drag on the spot.
Effective(r) ==
    IF r.kind = "click" /\ r.hold
    THEN [r EXCEPT !.kind = "drag", !.points = 2, !.destination = Source]
    ELSE r

-----------------------------------------------------------------------------
(* Stages of activation. *)

Activating(c, stage) == [c EXCEPT !.pc = "activating", !.stage = stage]

\* The session activates a window that is not foreground; every kind but a
\* click activates again, and a drag once more behind the cursor glide.
FirstStage(r) ==
    IF ~Exact THEN "implicit"
    ELSE IF r.kind \in {"click", "move"} THEN "dispatch" ELSE "first"
StageAfter(r, stage) ==
    CASE stage = "implicit" /\ r.kind \in {"drag", "keys"} -> "first"
      [] stage = "first" /\ r.kind = "drag" -> "glide"
      [] OTHER -> "dispatch"

ForegroundBegin(r) ==
    LET c == [NoCall EXCEPT !.gen = stops, !.req = Effective(r)]
    IN /\ call.pc = "idle"
       /\ IF window # "ok" \/ ~desk
          THEN call' = Return(c, "error", "NotSent") /\ UNCHANGED act
          ELSE IF Rejects(Effective(r))
          THEN call' = Return(c, "rejected", "NotSent") /\ UNCHANGED act
          ELSE call' = Activating(c, FirstStage(Effective(r))) /\ act' = ActivationStarts
       /\ UNCHANGED deviceVars

\* Where a call goes once its last activation has succeeded.
Dispatching(c) ==
    CASE c.req.kind = "click" -> [c EXCEPT !.pc = "preflight"]
      [] c.req.kind = "keys" -> [c EXCEPT !.pc = "keys"]
      [] c.req.kind = "move" -> [c EXCEPT !.pc = "cursor"]
      [] OTHER ->
            IF SelectBackend(c.req) = "touch" THEN [c EXCEPT !.pc = "touch"]
            ELSE IF c.req.elevated THEN AttemptFailed(c)
            ELSE [c EXCEPT !.pc = IF SelectBackend(c.req) = "combined" THEN "prebatch" ELSE "source"]

MayRetryAlways(c) == TRUE

\* run_bounded_foreground_dispatch: two attempts of a click.
MayRetry(c) == c.tries = 0

\* send_click_exact_foreground_mods: a refused activation of a click.
RefusedClick == /\ act.result = "refused" /\ MayRetry(call)
                /\ call.req.kind = "click" /\ call.stage = "dispatch"

Activated ==
    /\ call.pc = "activating" /\ act.phase = "done"
    /\ \/ /\ act.result # "ok" /\ RefusedClick
          /\ call' = [call EXCEPT !.tries = 1] /\ act' = ActivationStarts
       \/ /\ act.result # "ok" /\ ~RefusedClick
          /\ call' = IF call.stage = "implicit" \/ call.req.kind = "move"
                     THEN ActivationFailed(call) ELSE AttemptFailed(call)
          /\ act' = NoActivation
       \/ /\ act.result = "ok" /\ call.stage = "implicit"
          /\ ~(window = "ok" /\ desk /\ Exact)
          /\ call' = Return(call, "error", "NotSent") /\ act' = NoActivation
       \/ /\ act.result = "ok" /\ call.stage = "dispatch"
          /\ call' = Dispatching(call) /\ act' = NoActivation
       \/ /\ act.result = "ok" /\ call.stage # "dispatch"
          /\ call.stage = "implicit" => window = "ok" /\ desk /\ Exact
          /\ call' = Activating(call, StageAfter(call.req, call.stage))
          /\ act' = ActivationStarts
    /\ UNCHANGED <<world, device, faults>>

-----------------------------------------------------------------------------
(* Clicks: dispatch_click_exact_foreground. *)

ModifierDowns == [i \in DOMAIN call.req.keys |-> Down(call.req.keys[i])]
Ups(keys) == [i \in DOMAIN keys |-> Up(keys[Len(keys) + 1 - i])]

\* The last look at target and foreground; only a lost foreground is retried.
ClickPreflight ==
    /\ call.pc = "preflight"
    /\ LET ok == TargetCurrent /\ Exact /\ ~call.req.elevated
           again == TargetCurrent /\ ~Exact /\ MayRetry(call)
       IN /\ call' = IF ok THEN [call EXCEPT !.pc = "modifiers"]
                     ELSE IF again THEN [Activating(call, "dispatch") EXCEPT !.tries = 1]
                     ELSE AttemptFailed(call)
          /\ act' = IF ~ok /\ again THEN ActivationStarts ELSE act
    /\ UNCHANGED <<world, device, faults>>

\* SetCursorPos and the modifiers; a partial batch is taken back.
ClickModifiers ==
    /\ call.pc = "modifiers"
    /\ \E n \in 0 .. Len(ModifierDowns) :
        /\ Submit(<<Move(Source)>> \o ModifierDowns, n + 1, call.gen)
        /\ call' = IF n = Len(ModifierDowns) THEN [call EXCEPT !.pc = "click"]
                   ELSE [call EXCEPT !.failed = TRUE, !.n = n,
                                     !.pc = IF n = 0 THEN "finish" ELSE "takeback"]
    /\ UNCHANGED <<world, act>>

ClickTakeBack ==
    /\ call.pc = "takeback"
    /\ LET ups == Ups(SubSeq(call.req.keys, 1, call.n))
       IN \E n \in 0 .. Len(ups) : Submit(ups, n, call.gen)
    /\ call' = [call EXCEPT !.pc = "finish"]
    /\ UNCHANGED <<world, act>>

\* After the clicks: the modifiers, if there are any.
AfterClicks == IF call.req.keys = <<>> THEN "finish" ELSE "modifiersup"

\* Of MOVE, DOWN, UP exactly two inserted events leave the button down.
EmergencyPc(n) == IF n = 2 THEN "emergency" ELSE AfterClicks

ClickBatch ==
    /\ call.pc = "click"
    /\ \E n \in 0 .. 3 :
        /\ Submit(<<Move(Source), Down(call.req.button), Up(call.req.button)>>, n, call.gen)
        /\ call' = IF n < 3 THEN [call EXCEPT !.failed = TRUE, !.pc = EmergencyPc(n)]
                   ELSE [call EXCEPT !.i = @ + 1,
                                     !.pc = IF call.i + 1 < call.req.clicks THEN "click" ELSE AfterClicks]
    /\ UNCHANGED <<world, act>>

ClickEmergencyUp ==
    /\ call.pc = "emergency"
    /\ \E n \in 0 .. 1 : Submit(<<Up(call.req.button)>>, n, call.gen)
    /\ call' = [call EXCEPT !.pc = AfterClicks]
    /\ UNCHANGED <<world, act>>

\* The whole modifier-up batch is repeated once when it was cut.
ClickModifiersUp ==
    /\ call.pc \in {"modifiersup", "modifiersretry"}
    /\ LET ups == Ups(call.req.keys)
       IN \E n \in 0 .. Len(ups) :
            /\ Submit(ups, n, call.gen)
            /\ call' = IF n = Len(ups) THEN [call EXCEPT !.pc = "finish"]
                       ELSE IF call.pc = "modifiersup" THEN [call EXCEPT !.pc = "modifiersretry"]
                       ELSE [call EXCEPT !.pc = "finish", !.failed = TRUE]
    /\ UNCHANGED <<world, act>>

\* An attempted click is terminal, whatever was inserted of it.
AttemptedClick(c) == AttemptFailed(c)

ClickFinish ==
    /\ call.pc = "finish"
    /\ call' = IF call.failed THEN AttemptedClick(call) ELSE Return(call, "succeeded", "Sent")
    /\ UNCHANGED <<deviceVars, act>>

-----------------------------------------------------------------------------
(* Held keys: send_held_keys_exact_foreground; and a single synthesized key. *)

KeysDown ==
    /\ call.pc = "keys" /\ call.req.hold
    /\ \/ ~Exact /\ call' = AttemptFailed(call) /\ UNCHANGED <<device, faults>>
       \/ /\ Exact
          /\ \E n \in 0 .. Len(ModifierDowns) :
                /\ Submit(ModifierDowns, n, call.gen)
                /\ call' = IF n = Len(ModifierDowns)
                           THEN [call EXCEPT !.pc = "hold", !.gen = stops, !.n = n]
                           ELSE [call EXCEPT !.pc = "keysup", !.failed = TRUE, !.n = n]
    /\ UNCHANGED <<world, act>>

\* wait_until_interrupted: a stop ends the hold early.
KeysHold ==
    /\ call.pc = "hold"
    /\ call' = [call EXCEPT !.pc = "keysup", !.failed = stops # call.gen]
    /\ UNCHANGED <<deviceVars, act>>

\* release_all_keys: one at a time, from the last one, past any refusal.
KeysUp ==
    /\ call.pc = "keysup"
    /\ IF call.n = 0
       THEN /\ call' = IF call.failed THEN AttemptFailed(call) ELSE Return(call, "succeeded", "Sent")
            /\ UNCHANGED <<device, faults>>
       ELSE \E n \in 0 .. 1 :
            /\ Submit(<<Up(call.req.keys[call.n])>>, n, call.gen)
            /\ call' = [call EXCEPT !.n = @ - 1, !.failed = @ \/ n = 0]
    /\ UNCHANGED <<world, act>>

\* send_key_synthesized: presses and releases inside the platform library.
KeySynthesized ==
    /\ call.pc = "keys" /\ ~call.req.hold
    /\ \E ok \in BOOLEAN :
        /\ ok \/ faults > 0
        /\ faults' = IF ok THEN faults ELSE faults - 1
        /\ trail' = Trace(<<Letter>>, <<>>, call.gen)
        /\ held' = IF ok THEN held \ Range(call.req.keys) ELSE held
        /\ call' = IF ok THEN Return(call, "succeeded", "Sent") ELSE AttemptFailed(call)
    /\ UNCHANGED <<world, act, cursor>>

\* A foreground cursor move: move_cursor_desktop after its own activation.
CursorMoves ==
    /\ call.pc = "cursor"
    /\ \E n \in 0 .. 1 :
        /\ Submit(<<Move(Source)>>, n, call.gen)
        /\ call' = IF n = 1 THEN Return(call, "succeeded", "Sent") ELSE AttemptFailed(call)
    /\ UNCHANGED <<world, act>>

-----------------------------------------------------------------------------
(* Drags. *)

Backend == SelectBackend(call.req)
Steps == IF call.req.steps = 0 THEN 1 ELSE call.req.steps
Goal(i) == Waypoint(Source, call.req.destination, i, Steps)

\* windows_synthetic_touch_attempt: inject_drag_screen of the library.
SyntheticTouch ==
    /\ call.pc = "touch"
    /\ \E ok \in BOOLEAN :
        /\ ok \/ faults > 0
        /\ faults' = IF ok THEN faults ELSE faults - 1
        /\ trail' = Trace(<<Letter>>, <<>>, call.gen)
        /\ call' = Return(call, IF ok THEN "succeeded" ELSE "rejected", "Unknown")
    /\ UNCHANGED <<world, act, held, cursor>>

\* Separated and relative drags: a consumable move to the source, then DOWN.
DragSource ==
    /\ call.pc = "source"
    /\ \E ok \in BOOLEAN :
        /\ Consumable(Source, ok, call.gen)
        /\ call' = IF ok THEN [call EXCEPT !.pc = "down"] ELSE AttemptFailed(call)
    /\ UNCHANGED <<world, act>>

DragDown ==
    /\ call.pc = "down"
    /\ \E n \in 0 .. 1 :
        /\ Submit(<<Down(call.req.button)>>, n, call.gen)
        /\ call' = IF n = 1 THEN [call EXCEPT !.pc = "probe"] ELSE AttemptFailed(call)
    /\ UNCHANGED <<world, act>>

\* Combined: the fence before the batch wants the button up and the target in
\* front; a batch that is cut has not pressed the button.
CombinedFence ==
    /\ call.pc = "prebatch"
    /\ call' = IF TargetCurrent /\ "left" \notin held /\ Exact
               THEN [call EXCEPT !.pc = "batch"]
               ELSE Return(call, "rejected", "NotSent")
    /\ UNCHANGED <<deviceVars, act>>

CombinedBatch ==
    /\ call.pc = "batch"
    /\ \E n \in 0 .. 2 :
        /\ Submit(<<Move(Source), Down("left")>>, n, call.gen)
        /\ call' = IF n = 2 THEN [call EXCEPT !.pc = "probe"]
                   ELSE Return(call, "rejected", IF n > 0 THEN "Sent" ELSE "NotSent")
    /\ UNCHANGED <<world, act>>

\* WindowsRawInputSnapshot::allows_drag_path of a target that still exists.
AllowsDragPath == TargetCurrent /\ call.req.button \in held /\ Exact

PathPcUnfenced == IF Backend = "relative" THEN "slide" ELSE "step"

\* A fenced path looks at the target before every move.
PathPc == IF Backend \in Fenced THEN "fence" ELSE "step"

\* The residual the next waypoint begins with.
Trust(i, at) == Abs(Goal(i) - at)

\* A relative path reads the cursor when it begins; the history starts from there.
Looked == IF Backend = "relative" THEN [trail EXCEPT !.drift = 0] ELSE trail

\* After the button went down, and before each fenced move.
DragProbe ==
    /\ call.pc = "probe"
    /\ IF AllowsDragPath
       THEN /\ call' = [call EXCEPT !.pc = PathPc, !.i = 1, !.trust = Trust(1, cursor), !.seen = cursor]
            /\ trail' = Looked
       ELSE call' = [call EXCEPT !.pc = "up"] /\ UNCHANGED trail
    /\ UNCHANGED <<world, held, cursor, faults, act>>

\* The path goes on to the next waypoint, or ends complete.
NextWaypoint(c, at) ==
    IF c.i = Steps THEN [c EXCEPT !.pc = "up", !.path = TRUE]
    ELSE [c EXCEPT !.pc = PathPc, !.i = @ + 1, !.n = 0, !.last = NoAttempt,
                   !.trust = Trust(c.i + 1, at)]

\* A waypoint of a relative path that is reached without a move, by what was
\* read of the cursor last.
Skips == Backend = "relative" /\ call.n = 0 /\ Completed(call.seen, Goal(call.i), call.i = Steps, NoAttempt)

DragFence ==
    /\ call.pc = "fence"
    /\ call' = IF Skips THEN NextWaypoint(call, call.seen)
               ELSE [call EXCEPT !.pc = IF ~AllowsDragPath THEN "up"
                                        ELSE IF Backend = "relative" THEN "slide" ELSE "step"]
    /\ UNCHANGED <<deviceVars, act>>

\* Absolute moves: unfenced and consumable, or fenced and direct.
DragStep ==
    /\ call.pc = "step"
    /\ \E ok \in BOOLEAN :
        /\ IF Backend \in Fenced THEN Submit(<<Move(Goal(call.i))>>, IF ok THEN 1 ELSE 0, call.gen)
           ELSE Consumable(Goal(call.i), ok, call.gen)
        /\ call' = IF ok THEN NextWaypoint(call, Goal(call.i)) ELSE [call EXCEPT !.pc = "up"]
    /\ UNCHANGED <<world, act>>

\* How far a relative command may really carry the cursor.
Response(d) == {0, d, 2 * d}

\* One relative move from where the cursor was read last, read back; a waypoint has
\* six attempts.  What others did to the cursor meanwhile counts as its motion.
DragSlide ==
    /\ call.pc = "slide"
    /\ LET residual == Goal(call.i) - call.seen
           command == RelativeCommand(residual, call.last, call.trust)
       IN \/ Submit(<<Slide(command)>>, 0, call.gen) /\ call' = [call EXCEPT !.pc = "up"]
          \/ \E way \in Response(command) :
                /\ Submit(<<Slide(way)>>, 1, call.gen)
                /\ LET read == cursor + way
                       last == [has |-> TRUE, residual |-> residual,
                                command |-> command, motion |-> read - call.seen]
                       c == [call EXCEPT !.n = @ + 1, !.last = last, !.seen = read]
                   IN call' = IF Completed(read, Goal(call.i), call.i = Steps, last)
                              THEN NextWaypoint(c, read)
                              ELSE [c EXCEPT !.pc = IF c.n = MaxAttemptsPerWaypoint
                                                    THEN "up" ELSE PathPc]
    /\ UNCHANGED <<world, act>>

\* The combined back end reads the button back; the reading may fail.
Verified(n) == IF Backend = "combined" THEN {n = 1, FALSE} ELSE {n = 1}

\* windows_raw_drag_delivery: a complete path and a release without error.
DragResult(released) == IF call.path /\ released THEN "succeeded" ELSE "rejected"

\* The button goes up whatever the path did.
DragUp ==
    /\ call.pc = "up"
    /\ \E n \in 0 .. 1 : \E released \in Verified(n) :
        /\ Submit(<<Up(call.req.button)>>, n, call.gen)
        /\ call' = Return(call, DragResult(released), "Sent")
    /\ UNCHANGED <<world, act>>

-----------------------------------------------------------------------------

\* The caller has the result; nothing of the call is left but what it did.
Returned ==
    /\ call.pc = "return"
    /\ call' = NoCall
    /\ trail' = Fresh
    /\ cursor' = Home
    /\ UNCHANGED <<world, held, faults, act>>

ForegroundStep ==
    \/ ClickPreflight \/ ClickModifiers \/ ClickTakeBack \/ ClickBatch \/ ClickEmergencyUp
    \/ ClickModifiersUp \/ ClickFinish
    \/ KeysDown \/ KeysHold \/ KeysUp \/ KeySynthesized \/ CursorMoves
    \/ SyntheticTouch \/ DragSource \/ DragDown \/ CombinedFence \/ CombinedBatch
    \/ DragProbe \/ DragFence \/ DragStep \/ DragSlide \/ DragUp
=============================================================================
