-------------------------- MODULE WindowActivation --------------------------
(* Activation of one exact window: activate_window and the ladder of         *)
(* requests under it, with the interrupt gate the core puts around it.  The  *)
(* system may grant or refuse every request, threads may be attached to the  *)
(* input queues of others on the way, and the gate is asked again each time. *)
EXTENDS InputDevice

VARIABLE act    \* the activation in progress

Queues == {"foreground", "target"}
NoActivation == [phase |-> "idle", gen |-> 0, attached |-> {}, result |-> "none"]

\* activate_windows_with_interrupt_gate: the generation is read once.
ActivationStarts == [NoActivation EXCEPT !.phase = "gate", !.gen = stops]

\* windows_activation_stop_gate around the platform input gate.
Gate == IF stops # act.gen THEN "interrupted" ELSE IF ~desk THEN "desktop" ELSE "ok"

\* require_available_window_handle.
Available == CASE window = "gone" -> "target"
               [] window = "minimized" -> "minimized"
               [] OTHER -> "ok"

\* The end of the activation; the core looks at the generation once more.
Ended(result) ==
    [act EXCEPT !.phase = "done", !.attached = {},
                !.result = IF stops # act.gen THEN "interrupted" ELSE result]
To(phase) == [act EXCEPT !.phase = phase]

\* SetForegroundWindow, SetFocus, a queued show: granted or not.
Granted(g) == fg' = IF g THEN "ExactTarget" ELSE fg

\* The frame before, the gate, the instance.
ActivationGate ==
    /\ act.phase = "gate"
    /\ act' = IF Available # "ok" THEN Ended(Available)
              ELSE IF Gate # "ok" THEN Ended(Gate) ELSE To("request")
    /\ UNCHANGED <<world, device, faults>>

\* The initial foreground request.
ActivationRequest ==
    /\ act.phase = "request"
    /\ \/ Available # "ok" /\ act' = Ended(Available) /\ UNCHANGED fg
       \/ Available = "ok" /\ \E g \in {Exact, TRUE} :
            Granted(g) /\ act' = To(IF g THEN "settle" ELSE "raise")
    /\ UNCHANGED <<window, desk, stops, popup, device, faults>>

\* Raise without topmost, and ask again.
ActivationRaise ==
    /\ act.phase = "raise"
    /\ \/ Available # "ok" /\ act' = Ended(Available) /\ UNCHANGED fg
       \/ Available = "ok" /\ \E g \in {Exact, TRUE} :
            Granted(g) /\ act' = To(IF g THEN "queued" ELSE "attach")
    /\ UNCHANGED <<window, desk, stops, popup, device, faults>>

\* run_responsive_attachment: gate, probe, gate, attach; then bring to top.
\* Either attachment may be refused, and a window may not answer the probe.
ActivationAttach ==
    /\ act.phase = "attach"
    /\ \/ Gate # "ok" /\ act' = Ended(Gate) /\ UNCHANGED fg
       \/ Gate = "ok" /\ act' = Ended("failed") /\ UNCHANGED fg
       \/ /\ Gate = "ok"
          /\ \E q \in SUBSET Queues, g \in {Exact, window = "ok"} :
                /\ act' = [To("focus") EXCEPT !.attached = q]
                /\ Granted(g)
    /\ UNCHANGED <<window, desk, stops, popup, device, faults>>

\* AttachedInputQueues::target_available: the queue of the target is shared
\* directly, or through the foreground thread when it owns the target.
FocusAvailable == "target" \in act.attached

\* What preflight and validation say before SetFocus.
FocusRefusal ==
    IF ~FocusAvailable THEN "ok"
    ELSE IF Gate # "ok" THEN Gate
    ELSE IF window # "ok" THEN "target" ELSE "ok"

\* run_attached_focus: whatever preflight and focus say, detach comes first.
AttachedFocus(g) ==
    IF FocusRefusal # "ok"
    THEN act' = Ended(FocusRefusal) /\ UNCHANGED fg
    ELSE act' = [To("queued") EXCEPT !.attached = {}] /\ Granted(g)

ActivationFocus ==
    /\ act.phase = "focus"
    /\ \E g \in {Exact, FocusAvailable /\ window = "ok"} : AttachedFocus(g)
    /\ UNCHANGED <<window, desk, stops, popup, device, faults>>

\* run_queued_activation: one queued show request and a bounded readback.
ActivationQueued ==
    /\ act.phase = "queued"
    /\ \/ Available # "ok" /\ act' = Ended(Available) /\ UNCHANGED fg
       \/ Available = "ok" /\ \E g \in {Exact, TRUE} :
            Granted(g) /\ act' = IF g THEN To("settle") ELSE Ended("refused")
    /\ UNCHANGED <<window, desk, stops, popup, device, faults>>

\* The frame of before is restored, the input queue synchronised; either may
\* fail, and the foreground is read again.
ActivationSettle ==
    /\ act.phase = "settle"
    /\ \/ Available # "ok" /\ act' = Ended(Available)
       \/ Available = "ok" /\ act' = Ended("failed")
       \/ Available = "ok" /\ act' = IF Exact THEN To("final") ELSE Ended("refused")
    /\ UNCHANGED <<world, device, faults>>

\* Final validation of instance and foreground.
ActivationFinal ==
    /\ act.phase = "final"
    /\ act' = Ended(IF window = "gone" THEN "target" ELSE IF Exact THEN "ok" ELSE "refused")
    /\ UNCHANGED <<world, device, faults>>

ActivationStep ==
    \/ ActivationGate \/ ActivationRequest \/ ActivationRaise \/ ActivationAttach
    \/ ActivationFocus \/ ActivationQueued \/ ActivationSettle \/ ActivationFinal
=============================================================================
