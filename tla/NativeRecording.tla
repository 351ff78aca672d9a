--------------------------- MODULE NativeRecording ---------------------------
(***************************************************************************)
(* A pixels-only session that records its window (runtime/session/         *)
(* native_recording.rs): it starts a live observation if there is none,    *)
(* takes a fresh frame, lets the capture worker validate it through the    *)
(* mailbox of NativePublication, starts the recorder of Showcase and lets  *)
(* the worker validate the frame that was encoded first, before it calls   *)
(* the recording active. Its stop drains the recorder and then the stream  *)
(* it owns.                                                                *)
(*                                                                         *)
(* Every call of the session is a future that its caller may drop at an    *)
(* await. The worker runs on its own thread: it publishes, pauses, serves  *)
(* the mailbox between two frames, and ends at a stop of the user, at the  *)
(* end of the lease, or when it is asked to.                               *)
(***************************************************************************)
EXTENDS Showcase, NativePublication

CONSTANT MaxStarts      \* calls of recording_start

VARIABLES
    session,    \* ComputerUseSession: what it owns, and where its call is
    work,       \* the request the worker is busy with
    stops       \* the interrupt generation

recordingVars ==
    <<source, shown, revoked, prod, chan, ack, enc, media, public, stopper, faults,
      box, late, session, work, stops>>

recorder == <<shown, prod, chan, ack, enc, media, public, stopper>>

ASSUME StartsAssumption == MaxStarts \in Nat \ {0}

Idle == [request |-> 0, pc |-> "idle", reply |-> FALSE]

\* Where the call stands: first frame of a new stream, frame, Prepare
\* validation, recorder startup, Encoded validation, drain, end of the stream.
Calls == {"idle", "first", "frame", "prepare", "ready", "encoded", "drain", "unlive"}

RecordingInit ==
    /\ source \in {Closed, Opened(0)}
    /\ shown = [status |-> FreshStatus, open |-> FALSE]
    /\ revoked = FALSE /\ faults = 0 /\ late = {} /\ stops = 0
    /\ NoRecorder
    /\ box = Empty
    /\ work = Idle
    /\ session = [pc |-> "idle", starts |-> 0, live |-> source.open, owns |-> FALSE,
                  recorder |-> FALSE, active |-> FALSE, since |-> 0, fence |-> 0, frame |-> 0,
                  request |-> 0, wanted |-> 0, recorderPending |-> FALSE,
                  sourcePending |-> FALSE, issue |-> FALSE,
                  evidence |-> "none"]

-----------------------------------------------------------------------------
(* The capture worker (run_windows_capture_loop).                          *)

WorkerBusy == work.request # 0

WorkerMay == source.open /\ ~WorkerBusy

Asked == source.shutdown \/ stops # source.since

Publish ==
    /\ WorkerMay /\ ~Asked /\ ~revoked
    /\ source.status.latest < MaxFrames
    /\ source' = [source EXCEPT !.status = PublishFrame(@)]
    /\ UNCHANGED <<recorder, revoked, faults, box, late, session, work, stops>>

Pause ==
    /\ WorkerMay /\ ~source.status.paused /\ source.pauses < MaxPauses
    /\ source' = [source EXCEPT !.status = RecordPaused(@), !.pauses = @ + 1]
    /\ UNCHANGED <<recorder, revoked, faults, box, late, session, work, stops>>

\* The worker ends: its inbox is dropped, which stops the mailbox.
WorkerEnds(status) ==
    /\ source' = [source EXCEPT !.status = status, !.open = FALSE]
    /\ box' = StopInbox(box)

WorkerLeaves ==
    /\ WorkerMay
    /\ \/ Asked /\ WorkerEnds(source.status)
       \/ revoked /\ WorkerEnds(RecordTerminal(source.status))
    /\ UNCHANGED <<recorder, revoked, faults, late, session, work, stops>>

\* The thread panics or its target is gone; work in flight is dropped.
WorkerFails ==
    /\ source.open /\ faults < MaxFaults
    /\ Fail(TRUE)
    /\ source' = [source EXCEPT !.status = RecordTerminal(@), !.open = FALSE]
    /\ box' = StopInbox(IF WorkerBusy THEN DropWork(box, work.request) ELSE box)
    /\ work' = Idle
    /\ UNCHANGED <<recorder, revoked, late, session, stops>>

\* service_native_publication: take, validate natively, answer.
WorkerTakes ==
    /\ WorkerMay /\ ~Asked /\ ~revoked
    /\ CanTake(box)
    /\ box' = Take(box)
    /\ work' = IF TakeFails(box) THEN Idle
               ELSE [request |-> box.owner, pc |-> "taken", reply |-> FALSE]
    /\ UNCHANGED <<source, recorder, revoked, faults, late, session, stops>>

\* require_live, the exclusion of the overlay and the proof: the frame must
\* still be eligible, and the proof may fail by itself.
Validated(proof) ==
    /\ ~WorkFails(box, work.request)
    /\ ~source.shutdown
    /\ stops = box.requests[work.request].since
    /\ Eligible(source.status, box.requests[work.request].seq)
    /\ proof

WorkerValidates ==
    /\ work.pc = "taken"
    /\ \E proof \in BOOLEAN :
        work' = [work EXCEPT !.pc = "judged", !.reply = Validated(proof)]
    /\ box' = EnsureLive(box, work.request)
    /\ UNCHANGED <<source, recorder, revoked, faults, late, session, stops>>

WorkerAnswers ==
    /\ work.pc = "judged"
    /\ box' = Complete(box, work.request, work.reply)
    /\ work' = Idle
    /\ UNCHANGED <<source, recorder, revoked, faults, late, session, stops>>

\* The deadline of an unanswered request passes.
Expire ==
    /\ session.request # 0 /\ session.request \notin late /\ faults < MaxFaults
    /\ late' = late \cup {session.request}
    /\ Fail(TRUE)
    /\ UNCHANGED <<source, recorder, revoked, box, session, work, stops>>

-----------------------------------------------------------------------------
(* recording_start.                                                        *)

Unsettled == session.recorderPending \/ session.sourcePending \/ session.issue

Interrupted == stops # session.since

\* The generation and the fence are read first. A stream that is dead is
\* replaced, and a new one begins with an empty mailbox. (A worker whose start
\* was given up shares nothing with the next one but the window; the model
\* waits for its end.)
Start ==
    /\ session.pc = "idle" /\ session.starts < MaxStarts
    /\ ~Unsettled /\ ~session.active /\ ~session.recorder
    /\ LET fresh == ~(session.live /\ source.open) IN
       /\ fresh => ~source.open /\ ~WorkerBusy
       /\ session' = [session EXCEPT !.starts = @ + 1, !.since = stops, !.owns = fresh,
                                     !.fence = IF fresh THEN 0 ELSE source.status.latest,
                                     !.live = ~fresh,
                                     !.pc = IF fresh THEN "first" ELSE "frame"]
       /\ source' = IF fresh THEN Opened(stops) ELSE source
       /\ box' = IF fresh THEN Empty ELSE box
       /\ late' = IF fresh THEN {} ELSE late
    /\ UNCHANGED <<recorder, revoked, faults, work, stops>>

\* The end of a failed start: the evidence names the failure, and a stream
\* started for it is stopped.
FailStart(s) ==
    /\ session' = [s EXCEPT !.request = 0,
                            !.evidence = IF @ = "none" THEN "failed" ELSE @,
                            !.frame = 0, !.fence = 0, !.live = @ /\ ~s.owns,
                            !.sourcePending = @ \/ (s.owns /\ s.live),
                            !.pc = IF s.owns /\ s.live THEN "unlive" ELSE "idle"]
    /\ source' = [source EXCEPT !.shutdown = @ \/ (s.owns /\ s.live)]

\* ensure_live_observation of a new stream waits for its first frame, and
\* gives the stream up when it does not come.
FirstFrameSeen ==
    /\ session.pc = "first"
    /\ source.status.latest > 0 /\ ~source.status.paused /\ ~source.status.terminal
    /\ session' = [session EXCEPT !.live = TRUE, !.pc = "frame"]
    /\ UNCHANGED <<source, recorder, revoked, faults, box, late, work, stops>>

GiveUpFirst ==
    /\ session.pc = "first"
    /\ session' = [session EXCEPT !.pc = "idle"]
    /\ source' = [source EXCEPT !.shutdown = TRUE]
    /\ UNCHANGED <<recorder, revoked, faults, box, late, work, stops>>

\* latest_after(fence), the checks and the Prepare request.
TakeFrame ==
    /\ session.pc = "frame" /\ ~Interrupted /\ source.open
    /\ source.status.latest > session.fence
    /\ Eligible(source.status, source.status.latest)
    /\ ~Refuses(box)
    /\ box' = Submit(box, source.status.latest, session.since)
    /\ session' = [session EXCEPT !.frame = source.status.latest,
                                  !.request = Len(box.requests) + 1, !.pc = "prepare"]
    /\ UNCHANGED <<source, recorder, revoked, faults, late, work, stops>>

\* The frame does not come, is revoked, or the mailbox refuses the request.
NoFrame ==
    /\ session.pc = "frame"
    /\ FailStart(session)
    /\ UNCHANGED <<recorder, revoked, faults, box, late, work, stops>>

\* The checks after a validation, of the session itself.
StillGood(seq) ==
    /\ ~Interrupted
    /\ source.open
    /\ ~source.shutdown
    /\ Eligible(source.status, seq)

\* The polling ends with an error, with a reply that came too late to use, or
\* because the stream has ended.
ValidationFails(seq) ==
    \/ Answer(box, session.request) \in {"error", "refused"}
    \/ Answer(box, session.request) = "valid" /\ ~StillGood(seq)
    \/ ~source.open \/ source.shutdown

Prepared ==
    /\ session.pc = "prepare"
    /\ Answer(box, session.request) = "valid" /\ StillGood(session.frame)
    /\ box' = AfterAnswer(box, session.request)
    \* start_owned_native_recorder: pending before the encoder can write.
    /\ Spawned
    /\ session' = [session EXCEPT !.request = 0, !.pc = "ready", !.recorderPending = TRUE,
                                  !.evidence = IF @ = "none" THEN "unknown" ELSE @]
    /\ UNCHANGED <<source, revoked, faults, late, work, stops>>

PreparationFails ==
    /\ session.pc = "prepare"
    /\ ValidationFails(session.frame)
    /\ box' = IF Answer(box, session.request) = "wait" THEN Abandon(box, session.request)
              ELSE AfterAnswer(box, session.request)
    /\ FailStart(session)
    /\ UNCHANGED <<recorder, revoked, faults, late, work, stops>>

\* The encoder is ready: the session owns the recorder and asks the worker
\* about the frame that was encoded first.
AskEncoded ==
    /\ session.pc = "ready" /\ enc.first # 0
    /\ enc.first >= session.frame /\ StillGood(enc.first) /\ ~Refuses(box)
    /\ box' = Submit(box, enc.first, session.since)
    /\ session' = [session EXCEPT !.recorder = TRUE, !.recorderPending = FALSE,
                                  !.request = Len(box.requests) + 1, !.pc = "encoded"]
    /\ UNCHANGED <<source, recorder, revoked, faults, late, work, stops>>

\* (History.) The frame a stop must not lose: the latest one, unless a pause
\* has revoked it.
Wanted ==
    IF shown.status.paused \/ shown.status.latest <= shown.status.fence THEN 0
    ELSE shown.status.latest

FinalizingUnmarked(s) ==
    [s EXCEPT !.active = FALSE, !.recorder = FALSE,
              !.evidence = "unknown", !.request = 0, !.pc = "drain", !.frame = 0, !.fence = 0,
              !.wanted = Wanted]

\* finalize_owned_recording_video up to its first await: the pending mark is
\* set before the owner is given away.
Finalizing(s) ==
    [s EXCEPT !.active = FALSE, !.recorder = FALSE, !.recorderPending = TRUE,
              !.evidence = "unknown", !.request = 0, !.pc = "drain", !.frame = 0, !.fence = 0,
              !.wanted = Wanted]

\* refuse_native_recording_startup.
RefuseEncoded ==
    /\ session.pc = "ready" /\ enc.first # 0
    /\ ~(enc.first >= session.frame /\ StillGood(enc.first) /\ ~Refuses(box))
    /\ session' = Finalizing(session)
    /\ stopper' = "sent"
    /\ UNCHANGED <<source, shown, prod, chan, ack, enc, media, public, revoked, faults,
                   box, late, work, stops>>

\* The encoder ended without a first frame: the producer is aborted, and both
\* tasks are joined before the start fails.
StartupFails ==
    /\ session.pc = "ready" /\ enc.first = 0 /\ enc.pc = "done"
    /\ prod' = ProducerEnds
    /\ FailStart([session EXCEPT !.recorderPending = FALSE, !.evidence = "failed"])
    /\ UNCHANGED <<shown, chan, ack, enc, media, public, stopper, revoked, faults,
                   box, late, work, stops>>

Activated ==
    /\ session.pc = "encoded"
    /\ Answer(box, session.request) = "valid" /\ StillGood(enc.first)
    /\ box' = AfterAnswer(box, session.request)
    /\ session' = [session EXCEPT !.request = 0, !.active = TRUE, !.evidence = "none",
                                  !.frame = 0, !.fence = 0, !.pc = "idle"]
    /\ UNCHANGED <<source, recorder, revoked, faults, late, work, stops>>

EncodedFails ==
    /\ session.pc = "encoded"
    /\ ValidationFails(enc.first)
    /\ box' = IF Answer(box, session.request) = "wait" THEN Abandon(box, session.request)
              ELSE AfterAnswer(box, session.request)
    /\ session' = Finalizing(session)
    /\ stopper' = "sent"
    /\ UNCHANGED <<source, shown, prod, chan, ack, enc, media, public, revoked, faults,
                   late, work, stops>>

-----------------------------------------------------------------------------
(* recording_stop, the stop of the session, and their common drain.        *)

RecordingStop ==
    /\ session.pc = "idle" /\ (session.active \/ session.recorder)
    /\ session' = Finalizing(session)
    /\ stopper' = "sent"
    /\ UNCHANGED <<source, shown, prod, chan, ack, enc, media, public, revoked, faults,
                   box, late, work, stops>>

\* Both tasks are joined; the outcome of the encoder is the evidence.
Drained ==
    /\ session.pc = "drain" /\ Joined
    /\ LET settled == [session EXCEPT !.recorderPending = FALSE, !.evidence = StopOutcome,
                                      !.issue = @ \/ StopOutcome # "finalized"]
       IN  IF session.owns /\ session.live
           THEN /\ session' = [settled EXCEPT !.live = FALSE, !.sourcePending = TRUE,
                                              !.pc = "unlive"]
                /\ source' = [source EXCEPT !.shutdown = TRUE]
           ELSE /\ session' = [settled EXCEPT !.pc = "idle"]
                /\ source' = source
    /\ UNCHANGED <<recorder, revoked, faults, box, late, work, stops>>

StreamJoined ==
    /\ session.pc = "unlive" /\ ~source.open
    /\ session' = [session EXCEPT !.sourcePending = FALSE, !.pc = "idle"]
    /\ UNCHANGED <<source, recorder, revoked, faults, box, late, work, stops>>

\* stop_live_observation, also the last part of the stop of the session.
StopLive ==
    /\ session.pc = "idle" /\ session.live
    /\ session' = [session EXCEPT !.live = FALSE, !.sourcePending = TRUE, !.pc = "unlive"]
    /\ source' = [source EXCEPT !.shutdown = TRUE]
    /\ UNCHANGED <<recorder, revoked, faults, box, late, work, stops>>

\* The future of the call is dropped at an await. A request is withdrawn, a
\* recorder that is starting loses its stop channel, a drain goes on unseen.
Dropped ==
    /\ session.pc # "idle" /\ faults < MaxFaults
    /\ Fail(TRUE)
    /\ session' = [session EXCEPT !.pc = "idle", !.request = 0, !.frame = 0, !.fence = 0]
    /\ box' = IF session.request # 0 THEN Abandon(box, session.request) ELSE box
    /\ source' = [source EXCEPT !.shutdown = @ \/ session.pc = "first"]
    /\ stopper' = IF session.pc = "ready" THEN "dropped" ELSE stopper
    /\ UNCHANGED <<shown, prod, chan, ack, enc, media, public, revoked, late, work, stops>>

\* The user stops everything.
Escape ==
    /\ stops = 0 /\ faults < MaxFaults
    /\ stops' = 1
    /\ Fail(TRUE)
    /\ UNCHANGED <<source, recorder, revoked, box, late, session, work>>

-----------------------------------------------------------------------------
Own == UNCHANGED <<box, late, session, work, stops>>

Worker == WorkerLeaves \/ WorkerTakes \/ WorkerValidates \/ WorkerAnswers

Session ==
    \/ TakeFrame \/ Prepared \/ PreparationFails \/ AskEncoded \/ RefuseEncoded
    \/ StartupFails \/ Activated \/ EncodedFails \/ Drained \/ StreamJoined

Tasks ==
    \/ (RelayCopies \/ RelayEnds) /\ Own
    \/ ProducerStep /\ Own
    \/ EncoderStep /\ Own

Environment ==
    \/ Publish \/ Pause \/ WorkerFails \/ Escape \/ Start \/ RecordingStop \/ StopLive \/ Dropped
    \/ Revoke /\ Own

Timeouts == Expire \/ FirstFrameSeen \/ GiveUpFirst \/ NoFrame

RecordingNext == Worker \/ Session \/ Tasks \/ Environment \/ Timeouts

\* The tasks are scheduled, the worker polls, and every wait has a deadline.
RecordingSpec ==
    /\ RecordingInit
    /\ [][RecordingNext]_recordingVars
    /\ WF_recordingVars(Worker \/ Session \/ Tasks \/ Timeouts)

-----------------------------------------------------------------------------
Evidence == {"none", "unknown", "failed", "finalized"}

RecordingTypeOK ==
    /\ source \in [status : Statuses, open : BOOLEAN, since : 0..1, shutdown : BOOLEAN,
                   pauses : 0..MaxPauses]
    /\ shown \in [status : Statuses, open : BOOLEAN]
    /\ prod.pc \in {"off", "read", "wait", "send", "ack", "ended"}
    /\ Len(chan) <= Depth
    /\ ack \in {"none", "waiting", "given", "refused"}
    /\ enc \in [pc : {"off", "first", "run", "finish", "done"},
                first : 0..MaxFrames, last : 0..MaxFrames]
    /\ media \in [finished : Nat, partial : Nat, manifest : Nat]
    /\ public \in [paused : BOOLEAN, terminal : BOOLEAN, outcome : {"none", "failed", "finalized"}]
    /\ box \in Boxes(1..MaxFrames)
    /\ session.pc \in Calls /\ session.evidence \in Evidence
    /\ work.request \in 0..Len(box.requests)

\* What recording_stop reports as finalized is finished: both tasks have ended,
\* no partial file is left, the manifest has one entry for every sample, and
\* unless the authorization ended or a pause revoked it, the frame that was the
\* latest when the stop was asked for has reached the encoder through the bounded channel.
RecordedInFull ==
    session.evidence = "finalized" /\ ~session.recorderPending /\ ~session.recorder =>
        /\ Joined
        /\ media.partial = 0
        /\ media.manifest = media.finished
        /\ ~revoked /\ session.wanted > prod.applied => enc.last >= session.wanted

\* The recorder says it is paused only once the segment before the pause has
\* been closed under its final name, and stops saying so only when the next
\* segment is open, however the watch conflates pauses and frames.
PausedIsDurable ==
    [][/\ ~public.paused /\ public'.paused => media.partial = 0
       /\ public.paused /\ ~public'.paused /\ enc'.pc = "run" => media.partial # 0
      ]_recordingVars

\* A session that owes no cleanup has nothing running: whatever call was
\* dropped, the tasks of a recorder are owned, marked pending, or joined. And
\* the slot of the mailbox belongs to the work in flight until the worker lets
\* go of it, so two validations never overlap.
NothingUnowned ==
    /\ RecordingTypeOK
    /\ session.pc = "idle" /\ ~session.recorderPending /\ ~session.recorder => Joined
    /\ WorkerBusy => box.owner = work.request

\* A recorder that was told to stop, or whose owner is gone, ends with both
\* tasks; a call of the session ends; the slot of the mailbox becomes free.
RecordingEnds ==
    /\ stopper # "open" ~> Joined
    /\ session.pc # "idle" ~> session.pc = "idle"
    /\ box.owner # 0 ~> box.owner = 0
=============================================================================
