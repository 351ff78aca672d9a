-------------------------- MODULE LiveObservation --------------------------
(***************************************************************************)
(* The live observation of a window session.  A worker captures the window *)
(* and publishes numbered frames into a watch channel (live_observation.rs,*)
(* windows_capture.rs); the session starts, replaces and stops it, and its *)
(* snapshots wait for a frame beyond every fence that an action, a changed *)
(* target or an earlier snapshot left behind (session/observation.rs).     *)
(*                                                                         *)
(* The calls of a session come one after the other; the worker runs beside *)
(* them.  A stream whose start failed keeps a channel nobody reads and is  *)
(* forgotten here with its worker.                                         *)
(***************************************************************************)
EXTENDS Integers

CONSTANTS
    MaxStream,     \* bound: streams that are started
    MaxSequence,   \* bound: frames of one stream
    MaxBoundary,   \* bound: no new call once this many boundaries were drawn
    MaxPauses      \* bound: pauses of one stream

ASSUME LiveObservationAssumption ==
    /\ MaxStream \in Nat
    /\ MaxSequence \in Nat
    /\ MaxBoundary \in Nat
    /\ MaxPauses \in Nat

VARIABLES
    streams,      \* LIVE_OBSERVATION_STREAM_COUNTER: streams started so far
    worker,       \* the capture worker of the last stream
    shutdown,     \* its LiveObservationShutdown was requested
    status,       \* its LiveObservationStatus, in the watch channel
    interrupted,  \* a shared stop changed the interrupt generation
    active,       \* the session controls its window
    live,         \* the session's live_observation is present
    observation,  \* the session's observation
    postFence,    \* post_action_live_sequence_fence
    transFence,   \* observation_transition_live_sequence_fence
    cleanup,      \* local_cleanup
    call,         \* the call the session is serving
    boundary      \* ghost: how often evidence was invalidated or an action completed

channel == <<worker, shutdown, status>>
evidence == <<observation, postFence, transFence, boundary>>
vars == <<streams, channel, interrupted, active, live, evidence, cleanup, call>>

(***************************************************************************)
(* Frames.  since and pauses are ghosts: the boundaries and the pauses of  *)
(* the stream when the frame was published.                                *)
(***************************************************************************)
NoFrame == [sequence |-> 0, since |-> 0, pauses |-> 0]
Frame == [sequence : Nat, since : Nat, pauses : Nat]

\* pauseFence is pause_sequence_fence, 0 for None; pauses a ghost.
Status == [latest : Frame, paused : BOOLEAN, pauseFence : Nat,
           terminal : BOOLEAN, pauses : Nat]

Fresh == [latest |-> NoFrame, paused |-> FALSE, pauseFence |-> 0,
          terminal |-> FALSE, pauses |-> 0]

NoFence == [stream |-> 0, sequence |-> 0]
Fence == [stream : Nat, sequence : Nat]

\* An observation without frame is one of pixels or semantics taken directly.
NoObservation == [kind |-> "none"]
Direct == [kind |-> "direct"]
Observation == {NoObservation, Direct}
               \cup [kind : {"live"}, stream : Nat, frame : Frame]

Idle == [stage |-> "idle"]
Call == {Idle}
        \cup [stage : {"preflight"}, reuse : BOOLEAN]
        \cup [stage : {"starting", "first_frame", "waiting", "acting"}]
        \cup [stage : {"joining"}, then : {"idle", "preflight", "start"}]
        \cup [stage : {"encoding"}, frame : Frame]

\* source_pending and the issues of local_cleanup; both keep a session from
\* starting anything again.
Cleanup == {"clean", "pending"}
CleanupReusable == cleanup = "clean"

WorkerRuns == worker \in {"loop", "capturing"}

Max(a, b) == IF a > b THEN a ELSE b

(***************************************************************************)
(* LiveObservationStatus.                                                  *)
(***************************************************************************)
PublishFrame(st) ==
    IF st.terminal THEN st
    ELSE [st EXCEPT
            !.latest = [sequence |-> st.latest.sequence + 1,
                        since |-> boundary, pauses |-> st.pauses],
            !.paused = FALSE]

RecordPausedNoFence(st) ==   \* mutant: the pause is shown, its fence is not moved
    IF st.terminal THEN st
    ELSE [st EXCEPT !.paused = TRUE, !.pauses = @ + 1]

\* record_paused_error: what was published before a pause stays behind it.
RecordPaused(st) ==
    IF st.terminal THEN st
    ELSE [st EXCEPT
            !.paused = TRUE,
            !.pauseFence = Max(@, st.latest.sequence),
            !.pauses = @ + 1]

RecordTerminal(st) == [st EXCEPT !.paused = FALSE, !.terminal = TRUE]

\* validate_frame_eligibility of the frame a snapshot is about to publish.
Eligible(frame) ==
    /\ ~status.terminal
    /\ ~status.paused
    /\ status.pauseFence < frame.sequence
    /\ frame.sequence <= status.latest.sequence

(***************************************************************************)
(* Fences of the session.                                                  *)
(***************************************************************************)
\* latest_fence: None without a stream or before its first frame.
LatestFence ==
    IF live /\ status.latest # NoFrame
    THEN [stream |-> streams, sequence |-> status.latest.sequence]
    ELSE NoFence

\* sequence_for: a fence of another stream says nothing, and 0 is no fence.
SequenceFor(fence) == IF fence.stream = streams THEN fence.sequence ELSE 0

DecisionFence ==
    IF observation.kind = "live"
    THEN [stream |-> observation.stream, sequence |-> observation.frame.sequence]
    ELSE NoFence

ObservationSequenceFence ==
    Max(Max(SequenceFor(DecisionFence), SequenceFor(postFence)), SequenceFor(transFence))

InvalidateWithoutFence ==   \* mutant: the observation goes, its boundary is not drawn
    /\ observation' = NoObservation
    /\ postFence' = NoFence
    /\ boundary' = boundary + 1
    /\ UNCHANGED transFence

InvalidateActionObservations ==
    /\ observation' = NoObservation
    /\ postFence' = NoFence
    /\ transFence' = IF LatestFence # NoFence THEN LatestFence ELSE transFence
    /\ boundary' = boundary + 1

Init ==
    /\ streams = 0 /\ worker = "ended" /\ shutdown = FALSE /\ status = Fresh
    /\ interrupted = FALSE /\ active = TRUE /\ live = FALSE
    /\ observation = NoObservation /\ postFence = NoFence /\ transFence = NoFence
    /\ cleanup = "clean" /\ call = Idle
    /\ boundary = 0

(***************************************************************************)
(* The worker.                                                             *)
(***************************************************************************)
session == <<streams, interrupted, active, live, evidence, cleanup, call>>

WorkerCheckIgnoresShutdown ==   \* mutant: only a shared stop ends the loop
    /\ worker = "loop"
    /\ worker' = IF interrupted THEN "ended" ELSE "capturing"
    /\ UNCHANGED <<shutdown, status, session>>

\* The head of the loop.
WorkerCheck ==
    /\ worker = "loop"
    /\ worker' = IF shutdown \/ interrupted THEN "ended" ELSE "capturing"
    /\ UNCHANGED <<shutdown, status, session>>

\* A frame; a stop requested after the last look at the signal is too late.
WorkerPublish ==
    /\ worker = "capturing"
    /\ status.latest.sequence < MaxSequence
    /\ worker' = "loop"
    /\ status' = PublishFrame(status)
    /\ UNCHANGED <<shutdown, session>>

\* A pending capture is raced against the signal, or looked at after it.
WorkerLeaves ==
    /\ worker = "capturing"
    /\ shutdown \/ interrupted
    /\ worker' = "ended"
    /\ UNCHANGED <<shutdown, status, session>>

\* An unavailable desktop, on Windows every temporary failure: pause and try
\* again; elsewhere other failures are only counted.
WorkerPauses ==
    /\ worker = "capturing"
    /\ status.pauses < MaxPauses
    /\ worker' = "loop"
    /\ status' = RecordPaused(status)
    /\ UNCHANGED <<shutdown, session>>

WorkerRetries ==
    /\ worker = "capturing"
    /\ worker' = "loop"
    /\ UNCHANGED <<shutdown, status, session>>

\* The window is gone, or the task authorization, which takes the portable
\* worker's last frame with it.
WorkerTerminal ==
    /\ worker = "capturing"
    /\ worker' = "ended"
    /\ \E latest \in {status.latest, NoFrame} :
          status' = [RecordTerminal(status) EXCEPT !.latest = latest]
    /\ UNCHANGED <<shutdown, session>>

\* A panic: its join reports an error.
WorkerFails ==
    /\ worker = "capturing"
    /\ worker' = "failed"
    /\ UNCHANGED <<shutdown, status, session>>

WorkerNext ==
    \/ WorkerCheck
    \/ WorkerPublish
    \/ WorkerLeaves
    \/ WorkerPauses
    \/ WorkerRetries
    \/ WorkerTerminal
    \/ WorkerFails

\* A shared stop, which the worker notices by itself.
Interrupt ==
    /\ ~interrupted
    /\ interrupted' = TRUE
    /\ UNCHANGED <<streams, channel, active, live, evidence, cleanup, call>>

(***************************************************************************)
(* stop_live_observation.                                                  *)
(***************************************************************************)
Served ==
    /\ active
    /\ call = Idle
    /\ boundary < MaxBoundary

\* The obligation is recorded before the join is awaited.
TakeLive(then) ==
    /\ live' = FALSE
    /\ shutdown' = TRUE
    /\ cleanup' = "pending"
    /\ call' = [stage |-> "joining", then |-> then]

NothingToStop ==
    /\ call' = Idle
    /\ UNCHANGED <<live, shutdown, cleanup>>

ClearFences ==
    /\ postFence' = NoFence
    /\ transFence' = NoFence

StopLiveObservation ==
    /\ call = Idle
    /\ ClearFences
    /\ IF live THEN TakeLive("idle") ELSE NothingToStop
    /\ UNCHANGED <<streams, worker, status, interrupted, active, observation, boundary>>

\* invalidate_local_session: a stop, or an action whose answer is lost.
InvalidateLocalSession ==
    /\ call = Idle \/ call.stage = "acting"
    /\ active
    /\ active' = FALSE
    /\ observation' = NoObservation
    /\ ClearFences
    /\ boundary' = boundary + 1
    /\ IF live THEN TakeLive("idle") ELSE NothingToStop
    /\ UNCHANGED <<streams, worker, status, interrupted>>

\* start again, after ensure_local_cleanup_reusable.
ResumeSession ==
    /\ call = Idle /\ boundary < MaxBoundary
    /\ ~active
    /\ CleanupReusable
    /\ active' = TRUE
    /\ UNCHANGED <<streams, channel, interrupted, live, evidence, cleanup, call>>

\* A worker that ended is acknowledged; one that failed leaves an issue, and
\* with it ensure_local_cleanup_reusable ends what was to follow.
Joined(then) ==
    /\ ~WorkerRuns
    /\ cleanup' = IF worker = "ended" THEN "clean" ELSE "pending"
    /\ call' = IF worker = "failed" \/ then = "idle" THEN Idle
               ELSE IF then = "preflight" THEN [stage |-> "preflight", reuse |-> FALSE]
               ELSE [stage |-> "starting"]

Join ==
    /\ call.stage = "joining"
    /\ Joined(call.then)
    /\ UNCHANGED <<streams, channel, interrupted, active, live, evidence>>

\* The caller drops the call while it joins.
AbandonJoin ==
    /\ call.stage = "joining"
    /\ call' = Idle
    /\ UNCHANGED <<streams, channel, interrupted, active, live, evidence, cleanup>>

(***************************************************************************)
(* ensure_live_observation.                                                *)
(***************************************************************************)
\* is_active with no terminal reason, read before the target is looked at.  A
\* changed capture preparation replaces the stream first.
StartLiveObservation ==
    /\ Served
    /\ streams < MaxStream
    /\ CleanupReusable
    /\ \/ /\ call' = [stage |-> "preflight", reuse |-> live /\ WorkerRuns /\ ~status.terminal]
          /\ UNCHANGED <<live, shutdown, cleanup, postFence, transFence>>
       \/ /\ live
          /\ TakeLive("preflight")
          /\ ClearFences
    /\ UNCHANGED <<streams, worker, status, interrupted, active, observation, boundary>>

\* The desktop or the window is not available.
PreflightFails ==
    /\ call.stage = "preflight"
    /\ call' = Idle
    /\ InvalidateActionObservations
    /\ UNCHANGED <<streams, channel, interrupted, active, live, cleanup>>

ReuseExisting ==
    /\ call.stage = "preflight"
    /\ call.reuse
    /\ call' = Idle
    /\ UNCHANGED <<streams, channel, interrupted, active, live, evidence, cleanup>>

ReplaceExisting ==
    /\ call.stage = "preflight"
    /\ ~call.reuse
    /\ IF live
       THEN TakeLive("start") /\ ClearFences
       ELSE /\ call' = [stage |-> "starting"]
            /\ UNCHANGED <<live, shutdown, cleanup, postFence, transFence>>
    /\ UNCHANGED <<streams, worker, status, interrupted, active, observation, boundary>>

\* begin_live_observation_replacement, a new channel and its worker.
Spawn ==
    /\ call.stage = "starting"
    /\ call' = [stage |-> "first_frame"]
    /\ InvalidateActionObservations
    /\ streams' = streams + 1
    /\ worker' = "loop"
    /\ shutdown' = FALSE
    /\ status' = Fresh
    /\ UNCHANGED <<interrupted, active, live, cleanup>>

\* wait_for_latest_frame of a stream the session does not have yet.
FirstFrame ==
    /\ call.stage = "first_frame"
    /\ ~status.terminal /\ ~status.paused /\ status.latest # NoFrame
    /\ live' = TRUE
    /\ call' = Idle
    /\ UNCHANGED <<streams, channel, interrupted, active, evidence, cleanup>>

\* A reason, the end of the worker, or the timeout: the stream is dropped.
StartFails ==
    /\ call.stage = "first_frame"
    /\ call' = Idle
    /\ worker' = "ended"
    /\ shutdown' = TRUE
    /\ UNCHANGED <<streams, status, interrupted, active, live, evidence, cleanup>>

(***************************************************************************)
(* live_observation_screenshot.                                            *)
(***************************************************************************)
Rebaseline ==
    /\ transFence' = IF transFence # NoFence /\ LatestFence # NoFence
                     THEN LatestFence ELSE transFence
    /\ UNCHANGED <<observation, postFence, boundary>>

\* The provider's session may be renewed first; behind the gates the fence of
\* a transition moves up to the latest frame.
SnapshotBegin ==
    /\ Served
    /\ live
    /\ call' = [stage |-> "waiting"]
    /\ Rebaseline \/ InvalidateActionObservations
    /\ UNCHANGED <<streams, channel, interrupted, active, live, cleanup>>

\* A gate is closed, before the wait or after it; other failures (a reason in
\* the channel, the timeout, a frame that is not eligible) leave the evidence.
SnapshotFails ==
    /\ call.stage \in {"waiting", "encoding"}
    /\ call' = Idle
    /\ InvalidateActionObservations \/ UNCHANGED evidence
    /\ UNCHANGED <<streams, channel, interrupted, active, live, cleanup>>

\* latest_after, then the frame is encoded on another thread.
SnapshotFrame ==
    /\ call.stage = "waiting"
    /\ ~status.terminal /\ ~status.paused
    /\ status.latest.sequence > ObservationSequenceFence
    /\ call' = [stage |-> "encoding", frame |-> status.latest]
    /\ UNCHANGED <<streams, channel, interrupted, active, live, evidence, cleanup>>

\* The target was looked at again and the frame is still eligible.
SnapshotPublish ==
    /\ call.stage = "encoding"
    /\ Eligible(call.frame)
    /\ call' = Idle
    /\ observation' = [kind |-> "live", stream |-> streams, frame |-> call.frame]
    /\ ClearFences
    /\ UNCHANGED <<streams, channel, interrupted, active, live, boundary, cleanup>>

\* accessibility_snapshot beside the stream, or any snapshot without one.
DirectObservation ==
    /\ Served
    /\ observation' = Direct
    /\ UNCHANGED <<streams, channel, interrupted, active, live, postFence, transFence, boundary,
                   cleanup, call>>

(***************************************************************************)
(* Actions.  Frames arrive while the input is being sent.                  *)
(***************************************************************************)
ActBegin ==
    /\ Served
    /\ call' = [stage |-> "acting"]
    /\ UNCHANGED <<streams, channel, interrupted, active, live, evidence, cleanup>>

CompleteAction ==
    /\ postFence' = LatestFence
    /\ boundary' = boundary + 1

\* complete_action: the input was declined, the observation stays.
ActDeclined ==
    /\ call.stage = "acting"
    /\ call' = Idle
    /\ CompleteAction
    /\ UNCHANGED <<streams, channel, interrupted, active, live, observation, transFence, cleanup>>

\* The input was sent: the evidence goes, then complete_action.
ActCompletes ==
    /\ call.stage = "acting"
    /\ call' = Idle
    /\ observation' = NoObservation
    /\ transFence' = IF LatestFence # NoFence THEN LatestFence ELSE transFence
    /\ CompleteAction
    /\ UNCHANGED <<streams, channel, interrupted, active, live, cleanup>>

\* A failed action, a closed gate, a changed target, a renewed provider.
ActInvalidates ==
    /\ call.stage = "acting"
    /\ call' = Idle
    /\ InvalidateActionObservations
    /\ UNCHANGED <<streams, channel, interrupted, active, live, cleanup>>

SessionSteps ==
    \/ Join
    \/ PreflightFails
    \/ ReuseExisting
    \/ ReplaceExisting
    \/ Spawn
    \/ FirstFrame
    \/ StartFails
    \/ SnapshotFails
    \/ SnapshotFrame
    \/ SnapshotPublish
    \/ ActDeclined
    \/ ActCompletes
    \/ ActInvalidates

Next ==
    \/ WorkerNext
    \/ Interrupt
    \/ StopLiveObservation
    \/ InvalidateLocalSession
    \/ ResumeSession
    \/ StartLiveObservation
    \/ SnapshotBegin
    \/ DirectObservation
    \/ ActBegin
    \/ AbandonJoin
    \/ SessionSteps

Spec == Init /\ [][Next]_vars

\* A capture ends by itself or with the shutdown signal, every wait of a call
\* has a deadline, and the session's task is scheduled.
FairSpec ==
    /\ Spec
    /\ WF_vars(WorkerNext)
    /\ WF_vars(SessionSteps)

(***************************************************************************)
(* Properties.                                                             *)
(***************************************************************************)
TypeOK ==
    /\ streams \in Nat
    /\ worker \in {"loop", "capturing", "ended", "failed"}
    /\ shutdown \in BOOLEAN /\ interrupted \in BOOLEAN
    /\ status \in Status
    /\ active \in BOOLEAN /\ live \in BOOLEAN
    /\ observation \in Observation
    /\ postFence \in Fence /\ transFence \in Fence
    /\ cleanup \in Cleanup
    /\ call \in Call
    /\ boundary \in Nat

\* A frame only becomes the observation if it was published after the last
\* completed action, invalidation, renewal or replacement, whatever stopped,
\* restarted, failed or was observed directly in between.
FrameAfterBoundary ==
    [][observation' # observation /\ observation'.kind = "live"
        => observation'.frame.since = boundary]_vars

\* A pause of the stream between the publication of a frame and the end of
\* the snapshot that waits for its encoding revokes the frame, also when the
\* stream has resumed by then.
PauseRevokes ==
    [][observation' # observation /\ observation'.kind = "live"
        => ~status.paused /\ observation'.frame.pauses = status.pauses]_vars

\* docs/adr/0009: a stream never starts beside the worker of one that was
\* stopped, replaced or given up while its stop was awaited.
OneProducer == [][streams' # streams => ~WorkerRuns]_vars

\* No fence of a running stream is ahead of it: the next frame always gets
\* a waiting snapshot through.
FenceReachable ==
    live /\ ~status.terminal => ObservationSequenceFence <= status.latest.sequence

\* The fences of a session work in both directions: they keep every frame of
\* an earlier boundary out and never keep the next one out.
FramesFenced == [](TypeOK /\ FenceReachable) /\ FrameAfterBoundary

\* Streams do not mix: nothing of a paused or replaced stream reaches the
\* session through the one that follows it.
StreamsDoNotMix == PauseRevokes /\ OneProducer

\* Every call of the session ends, also a stop that joins its worker.
CallEnds == call # Idle ~> call = Idle

=============================================================================
