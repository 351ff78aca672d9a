--------------------------- MODULE ActionEvidence ---------------------------
(***************************************************************************)
(* The evidence a window session acts on.  The core session keeps the last *)
(* observation and an epoch that advances whenever it is invalidated; the  *)
(* Host keeps its own copies (observation, accessibility tree, browser     *)
(* snapshot) and follows the epoch.  A request may be refused, fail at any *)
(* gate, reach the window, or end without anyone knowing whether it did.   *)
(*                                                                         *)
(* The requests of a session are served one at a time, so each of them is  *)
(* one step; what the native side answers is a choice.  The steps of a     *)
(* request are operators from one session state to the next.               *)
(***************************************************************************)
EXTENDS Integers

CONSTANTS
    MaxEpoch,    \* bound: no new request once the epoch got this far
    MaxCapture   \* bound: no new request once this many captures were made

ASSUME ActionEvidenceAssumption ==
    /\ MaxEpoch \in Nat
    /\ MaxCapture \in Nat

VARIABLES
    session,   \* the core session and the Host's record of it
    used       \* ghost: the evidence of the last input that was dispatched

vars == <<session, used>>

None == [id |-> 0, at |-> 0]

\* A capture: its identity and, a ghost, the version of the window it shows.
Capture == [id : Nat, at : Nat]

Session ==
    [semantic : BOOLEAN,        \* observation_mode, fixed when the session opens
     active : BOOLEAN,          \* core: the session controls its window
     epoch : Nat,               \* core: action_evidence_epoch
     obs : Capture,             \* core: observation
     synced : Nat,              \* Host: synchronized_action_evidence_epoch
     hostObs : Capture,         \* Host: latest_observation_id
     hostAcc : Capture,         \* Host: latest_accessibility_state_id and _root
     browserEpoch : Nat \cup {-1},   \* Host: browser_evidence_epoch, -1 for None
     snap : Capture,            \* Host: the browser's latest_snapshot_id
     input : {"ready", "suspended"},
     target : {"available", "minimized", "unavailable"},
     version : Nat,             \* ghost: how often the window may have changed
     captures : Nat]            \* identities issued so far

(***************************************************************************)
(* Core: the observation and its epoch.                                    *)
(***************************************************************************)
\* Input may have reached the window, or the provider's state was renewed.
Touched(s) == [s EXCEPT !.version = @ + 1]

InvalidateActionObservations(s) ==
    [s EXCEPT !.epoch = @ + 1, !.obs = None]

InvalidateLocalSession(s) ==
    [InvalidateActionObservations(s) EXCEPT !.active = FALSE]

NewCapture(s) == [id |-> s.captures + 1, at |-> s.version]

Captured(s) == [s EXCEPT !.obs = NewCapture(s), !.captures = @ + 1]

(***************************************************************************)
(* Host: following the epoch.                                              *)
(***************************************************************************)
ClearNativeCaches(s) == [s EXCEPT !.hostObs = None, !.hostAcc = None]

DiscardBrowserEvidence(s) == [s EXCEPT !.browserEpoch = -1, !.snap = None]

\* synchronize_action_evidence_epoch_with: a moved epoch empties the caches; a
\* browser snapshot that is being published survives it.
Synchronize(s, publishes) ==
    IF s.synced = s.epoch THEN s
    ELSE LET t == IF publishes THEN s ELSE DiscardBrowserEvidence(s)
         IN  [ClearNativeCaches(t) EXCEPT !.synced = s.epoch]

Synced(s) == Synchronize(s, FALSE)

\* HostSession::invalidate_action_observations and ::invalidate_observations.
HostInvalidateActionObservations(s) == Synced(InvalidateActionObservations(s))

HostInvalidateObservations(s) ==
    DiscardBrowserEvidence(ClearNativeCaches([s EXCEPT !.synced = s.epoch]))

\* observe_input_readiness and observe_target_availability: a status that
\* changed is an event and ends the evidence.
ObserveInput(s, status) ==
    IF s.input = status THEN s
    ELSE HostInvalidateActionObservations([Touched(s) EXCEPT !.input = status])

ObserveTarget(s, status) ==
    IF s.target = status THEN s
    ELSE HostInvalidateActionObservations([Touched(s) EXCEPT !.target = status])

\* finish_observation_sensitive_attempt of the Host, for the code of a result.
Finished(s, code) ==
    LET t == Synced(s)
        u == IF code \in {"ok", "other"} THEN t ELSE HostInvalidateActionObservations(t)
    IN  CASE code = "input_unavailable" -> ObserveInput(u, "suspended")
          [] code = "target_minimized" -> ObserveTarget(u, "minimized")
          [] code = "target_unavailable" -> ObserveTarget(u, "unavailable")
          [] OTHER -> u

(***************************************************************************)
(* What a call of the core may do: a set of outcomes.  sent: input may have*)
(* reached the window.                                                     *)
(***************************************************************************)
Outcome(s, code, sent) == [s |-> s, code |-> code, sent |-> sent]

GateCodes == {"input_unavailable", "target_minimized", "target_unavailable", "invalid_target"}

\* A gate is closed: the core drops its own evidence before it answers.
GateFailures(s, sent) ==
    {Outcome(InvalidateActionObservations(s), code, sent) : code \in GateCodes}

\* refresh_upstream_session_before_observation_if_needed: not due, renewed, failed.
Refreshed(s) == {s, InvalidateActionObservations(Touched(s))}

RefreshFailures(s) ==
    {Outcome(InvalidateActionObservations(Touched(s)), code, FALSE) :
        code \in {"other", "completion_unknown", "input_unavailable"}}

\* A read of the window: screenshot, accessibility_snapshot, get_browser_state.
\* An error that is no gate leaves the previous observation in place.
Reads(s) ==
    IF ~s.active THEN {Outcome(s, "other", FALSE)}
    ELSE RefreshFailures(s) \cup
         UNION {GateFailures(r, FALSE) \cup {Outcome(r, code, FALSE) : code \in {"ok", "other"}} :
                r \in Refreshed(s)}

\* The Host's state after a read that is to become the core's observation.
Observed(o) == Finished(IF o.code = "ok" THEN Captured(o.s) ELSE o.s, o.code)

DispatchesToolErrorKept(s) ==   \* mutant: a tool's own error counts as not dispatched
    LET t == Touched(s)
        done == InvalidateActionObservations(t)
    IN  {Outcome(done, code, TRUE) : code \in {"ok", "completion_unknown"}}
        \cup {Outcome(t, "other", TRUE)}
        \cup GateFailures(done, TRUE)
        \cup {Outcome(InvalidateLocalSession(t), "completion_unknown", TRUE)}

\* finish_typed_dispatch_result and its local counterparts: everything that
\* may have reached the window ends the evidence, whatever its result; a lost
\* answer also gives up the session.
Dispatches(s) ==
    LET t == Touched(s)
        done == InvalidateActionObservations(t)
    IN  {Outcome(done, code, TRUE) : code \in {"ok", "other", "completion_unknown"}}
        \cup GateFailures(done, TRUE)
        \cup {Outcome(InvalidateLocalSession(t), "completion_unknown", TRUE)}

\* Before a dispatch: the provider's lease is due, a gate is closed, the
\* request is refused or never started.
PreDispatches(s) ==
    {Outcome(InvalidateActionObservations(s), "refresh_required", FALSE),
     Outcome(s, "other", FALSE)}
    \cup GateFailures(s, FALSE)

\* Mutations that need no observation of their own: window commands, menus,
\* native tools, browser input.
Mutations(s) ==
    IF ~s.active THEN {Outcome(s, "other", FALSE)}
    ELSE PreDispatches(s) \cup Dispatches(s)

\* perform_action of the observation o: a stale one is refused, a backend that
\* declines answers without input, and the target may first be activated,
\* which ends the evidence before anything is sent.
PerformAction(s, o) ==
    IF ~s.active \/ s.obs = None \/ s.obs.id # o.id THEN {Outcome(s, "other", FALSE)}
    ELSE LET activated == InvalidateActionObservations(s)
         IN  PreDispatches(s) \cup Dispatches(s)
             \cup {Outcome(s, "ok", FALSE), Outcome(activated, "completion_unknown", FALSE)}
             \cup PreDispatches(activated) \cup Dispatches(activated)

\* activate: on Windows the evidence goes first, elsewhere only a lost answer ends it.
Activations(s) ==
    IF ~s.active THEN {Outcome(s, "other", FALSE)}
    ELSE GateFailures(s, FALSE)
         \cup {Outcome(s, code, FALSE) : code \in {"ok", "other"}}
         \cup {Outcome(InvalidateActionObservations(s), code, FALSE) :
                  code \in {"ok", "other", "completion_unknown"}}

\* The Host's states after target_availability or window_state: anything but
\* an available window ends the evidence, and a change is an event.
Probed(s) ==
    IF ~s.active THEN {Finished(s, "other")}
    ELSE {Finished(s, "other"), ObserveTarget(Synced(s), "available")}
         \cup {Finished(o.s, o.code) : o \in GateFailures(s, FALSE)}
         \cup {ObserveTarget(HostInvalidateActionObservations(s), status) :
                  status \in {"minimized", "unavailable"}}

(***************************************************************************)
(* Requests.  Each of them first brings the Host up to date.               *)
(***************************************************************************)
Init ==
    /\ \E semantic \in BOOLEAN :
          session = [semantic |-> semantic, active |-> TRUE,
                     epoch |-> 0, obs |-> None, synced |-> 0,
                     hostObs |-> None, hostAcc |-> None, browserEpoch |-> -1, snap |-> None,
                     input |-> "ready", target |-> "available", version |-> 0, captures |-> 0]
    /\ used = [at |-> 0, version |-> 0]

Served ==
    /\ session.epoch < MaxEpoch
    /\ session.captures < MaxCapture

\* permits_method leaves a pixels-only session with snapshots, actions, window
\* commands and samples; the other requests ask for a semantic one.
Begun == Synced(session)

\* The caches after a capture: a pixels-only session keeps no tree.
Recorded(s) ==
    [s EXCEPT !.hostObs = s.obs, !.hostAcc = IF s.semantic THEN s.obs ELSE None]

\* An image that cannot be handed over ends the Host's evidence.
SnapshotOf(s) ==
    \E o \in Reads(s) :
        LET t == Observed(o)
        IN  IF o.code # "ok" THEN session' = t
            ELSE session' \in {Recorded(t), HostInvalidateObservations(Recorded(t))}

Snapshot ==
    /\ Served
    /\ SnapshotOf(Begun)
    /\ UNCHANGED used

\* activate_before, which a pixels-only session may not ask for: a capture only
\* follows an activation that succeeded.
SnapshotActivateBefore ==
    /\ Served
    /\ session.semantic
    /\ \E o \in Activations(Begun) :
          LET t == Finished(o.s, o.code)
          IN  IF o.code = "ok" THEN SnapshotOf(t) ELSE session' = t
    /\ UNCHANGED used

AccessibilitySnapshot ==
    /\ Served
    /\ session.semantic
    /\ \E o \in Reads(Begun) :
          session' = IF o.code = "ok" THEN Recorded(Observed(o)) ELSE Observed(o)
    /\ UNCHANGED used

\* wait_for: every probe replaces the core's observation and leaves the Host's
\* record alone; a probe that is cut off is abandoned with all evidence.
WaitFor ==
    /\ Served
    /\ session.semantic
    /\ \/ \E o \in Reads(Begun) : session' = Observed(o)
       \/ Begun.active /\ session' = HostInvalidateActionObservations(Begun)
    /\ UNCHANGED used

\* The capture after an action: recorded, or the caches stay empty.
AfterAction(s) ==
    \/ session' = ClearNativeCaches(s)
    \/ \E o \in Reads(s) :
          session' = IF o.code = "ok" THEN Recorded(Observed(o))
                     ELSE ClearNativeCaches(Observed(o))

\* The action of s on its own latest observation, as the Host knows it.  A
\* pixels-only session loses the Host's evidence whatever the result.
Act(s) ==
    \E o \in PerformAction(s, s.hostObs) :
        LET f == Finished(o.s, o.code)
            t == IF s.semantic THEN f ELSE HostInvalidateObservations(f)
        IN  /\ IF o.code = "ok" THEN AfterAction(t) ELSE session' = t
            /\ used' = IF o.sent THEN [at |-> s.hostObs.at, version |-> s.version] ELSE used

\* confirmed_action_evidence_refresh: a confirmation that outlived the lease
\* renews the evidence and binds the approved action to it.
ActOnRenewedEvidence(s) ==
    \E o \in Reads(s) :
        \/ /\ o.code # "ok"
           /\ session' = Observed(o)
           /\ UNCHANGED used
        \/ /\ o.code = "ok"
           /\ session' = HostInvalidateObservations(Observed(o))
           /\ UNCHANGED used
        \/ /\ o.code = "ok"
           /\ Act(Recorded(Observed(o)))

\* execute_action: the client names the Host's latest observation, anything
\* else is refused.
ExecuteAction ==
    /\ Served
    /\ Begun.hostObs # None
    /\ \/ Act(Begun)
       \/ /\ Begun.semantic
          /\ Begun.active
          /\ Begun.obs # None
          /\ ActOnRenewedEvidence(Begun)

\* Frames, menus, close, activate and restore need no observation.  The Host's
\* caches go whatever the result; some then look at the window again.
WindowMutation ==
    /\ Served
    /\ \E o \in Mutations(Begun) \cup Activations(Begun) :
          LET t == HostInvalidateObservations(Finished(o.s, o.code))
          IN  session' \in {t} \cup Probed(t)
    /\ UNCHANGED used

\* minimize_window acts on the latest observation.
MinimizeWindow ==
    /\ Served
    /\ Begun.hostObs # None
    /\ \E o \in PerformAction(Begun, Begun.hostObs) :
          /\ LET t == HostInvalidateObservations(Finished(o.s, o.code))
             IN  session' \in IF o.code = "ok" THEN Probed(t) ELSE {t}
          /\ used' = IF o.sent THEN [at |-> Begun.hostObs.at, version |-> Begun.version] ELSE used

\* call_tool: bound to the window, not to an observation.
CallTool ==
    /\ Served
    /\ session.semantic
    /\ \E o \in Mutations(Begun) : session' = Finished(o.s, o.code)
    /\ UNCHANGED used

(***************************************************************************)
(* The browser inside the window.                                          *)
(***************************************************************************)
\* A snapshot that is published counts for the epoch the request ended in.
Published(s) ==
    [Synchronize(s, TRUE) EXCEPT
        !.browserEpoch = s.epoch, !.snap = NewCapture(s), !.captures = @ + 1]

\* get_browser_state drops the old snapshot first; anything but a published
\* new one leaves the browser without evidence.
BrowserSnapshot ==
    /\ Served
    /\ session.semantic
    /\ \E o \in Reads([Begun EXCEPT !.snap = None]) :
          \/ session' = Finished(DiscardBrowserEvidence(o.s), o.code)
          \/ o.code = "ok" /\ session' = Published(o.s)
    /\ UNCHANGED used

\* browser_click, _type, _pointer, _set_input_files, _download: on the current
\* snapshot of the current epoch.
BrowserInput ==
    /\ Served
    /\ session.semantic
    /\ Begun.browserEpoch = Begun.synced
    /\ Begun.snap # None
    /\ \E o \in Mutations([Begun EXCEPT !.snap = None]) :
          /\ session' = Finished(o.s, o.code)
          /\ used' = IF o.sent THEN [at |-> Begun.snap.at, version |-> Begun.version] ELSE used

\* browser_navigate, _prepare and _dialog need no snapshot and end it.
BrowserNavigate ==
    /\ Served
    /\ session.semantic
    /\ \E o \in Mutations([Begun EXCEPT !.snap = None]) : session' = Finished(o.s, o.code)
    /\ UNCHANGED used

(***************************************************************************)
(* Samples of the desktop and of the window, between and inside requests.  *)
(***************************************************************************)
\* get_input_state, poll_session_events, the 250 ms tick; session_health is
\* two of them.
Sample ==
    /\ Served
    /\ \E input \in {"ready", "suspended"} : session' \in Probed(ObserveInput(session, input))
    /\ UNCHANGED used

\* A banner that failed, or a stop: the core session ends, the Host's record
\* stays as it is until the next request.
StopCore ==
    /\ Served
    /\ session.active
    /\ session' = InvalidateLocalSession(session)
    /\ UNCHANGED used

ResumeSession ==
    /\ Served
    /\ session.semantic
    /\ ~session.active
    /\ session' = [Begun EXCEPT !.active = TRUE]
    /\ UNCHANGED used

Next ==
    \/ Snapshot
    \/ SnapshotActivateBefore
    \/ AccessibilitySnapshot
    \/ WaitFor
    \/ ExecuteAction
    \/ WindowMutation
    \/ MinimizeWindow
    \/ CallTool
    \/ BrowserSnapshot
    \/ BrowserInput
    \/ BrowserNavigate
    \/ Sample
    \/ StopCore
    \/ ResumeSession

Spec == Init /\ [][Next]_vars

(***************************************************************************)
(* Properties.                                                             *)
(***************************************************************************)
TypeOK ==
    /\ session \in Session
    /\ used \in [at : Nat, version : Nat]

\* Every input that was sent, native or into the browser, acted on evidence
\* of the window as it was: captured after the last input that may have
\* reached it, after the last renewal of the provider's lease and after the
\* last transition the Host published.  No observation serves twice.
InputOnFreshEvidence == used.at = used.version

\* The Host's caches, which find reads without asking the core, never hold a
\* capture from before such a change, not even while the core holds another.
HostEvidenceFresh ==
    /\ session.hostObs # None => session.hostObs.at = session.version
    /\ session.hostAcc # None => session.hostAcc.at = session.version

\* A browser snapshot counts only in the epoch it was bound to, and then the
\* page has not been touched since, natively or through the browser.
BrowserEvidenceFresh ==
    session.snap # None /\ session.browserEpoch = session.epoch
        => session.snap.at = session.version
=============================================================================
