------------------------------ MODULE Showcase ------------------------------
(***************************************************************************)
(* The video recorder (dcc-cua-showcase/src/lib.rs): a producer task reads *)
(* the latest value of the live observation and hands frames and pause     *)
(* boundaries over a bounded channel to an encoder thread, which writes    *)
(* MP4 segments and a manifest of their frames.                            *)
(*                                                                         *)
(* A watch keeps only its last value, so the producer may miss frames, and *)
(* pauses too: `status.fence' is the last frame a pause has revoked. The   *)
(* producer passes a pause on as a boundary event and waits until the      *)
(* encoder has closed its segment; after it, the first frame waits until a *)
(* new segment is open. Frames of an uninterrupted stream are dropped when *)
(* the channel is full; before a pause and at the stop they are not.       *)
(*                                                                         *)
(* Pixels, codecs and media times are left out. What remains of a frame is *)
(* its sequence number, and of a segment how many samples it has. A sample *)
(* that the encoder omits, a segment that is five minutes old and an I/O   *)
(* operation that fails are choices.                                       *)
(***************************************************************************)
EXTENDS Integers, Sequences

CONSTANTS
    MaxFrames,      \* frames of a stream
    MaxPauses,      \* pauses of a stream
    MaxFaults,      \* failed I/O, dead workers, expired waits, revocations, stops by the user
    Depth           \* capacity of the channel to the encoder (2 in the code)

ASSUME ShowcaseAssumption ==
    /\ MaxFrames \in Nat \ {0}
    /\ MaxPauses \in Nat
    /\ MaxFaults \in Nat
    /\ Depth \in Nat \ {0}

VARIABLES
    source,     \* the stream: its status, and whether its worker lives
    shown,      \* the copy of the status that the recorder subscribes to
    revoked,    \* RecordingAuthorization
    prod,       \* ShowcaseProducer
    chan,       \* the events on their way to the encoder
    ack,        \* the acknowledgement the producer waits for
    enc,        \* the encoder thread
    media,      \* samples in finished segments, in the partial one, in the manifest
    public,     \* what ShowcaseRecorder::state shows
    stopper,    \* the stop request: "open", "sent" or "dropped"
    faults

-----------------------------------------------------------------------------
(* The stream that is recorded. 0 stands for no frame and no fence.        *)

FreshStatus == [latest |-> 0, paused |-> FALSE, fence |-> 0, terminal |-> FALSE]

Statuses ==
    [latest : 0..MaxFrames, paused : BOOLEAN, fence : 0..MaxFrames, terminal : BOOLEAN]

Closed ==
    [status |-> FreshStatus, open |-> FALSE, since |-> 0, shutdown |-> FALSE,
     pauses |-> 0]

Opened(generation) == [Closed EXCEPT !.open = TRUE, !.since = generation]

\* LiveObservationStatus::publish_frame.
PublishFrame(st) == [st EXCEPT !.latest = @ + 1, !.paused = FALSE]

\* record_paused_error revokes the frames so far.
RecordPaused(st) ==
    IF st.terminal THEN st
    ELSE [st EXCEPT !.fence = IF st.latest > @ THEN st.latest ELSE @, !.paused = TRUE]

RecordTerminal(st) == [st EXCEPT !.paused = FALSE, !.terminal = TRUE]

\* validate_frame_eligibility.
Eligible(st, seq) ==
    /\ ~st.terminal
    /\ ~st.paused
    /\ seq > st.fence
    /\ st.latest >= seq

\* project_showcase_status: the task of showcase_subscription copies the
\* status, and ends after the last one.
RelayCopies ==
    /\ shown.open
    /\ shown.status # source.status
    /\ shown' = [shown EXCEPT !.status = source.status]
    /\ UNCHANGED <<source, revoked, prod, chan, ack, enc, media, public, stopper, faults>>

RelayEnds ==
    /\ shown.open
    /\ shown.status = source.status
    /\ ~source.open
    /\ shown' = [shown EXCEPT !.open = FALSE]
    /\ UNCHANGED <<source, revoked, prod, chan, ack, enc, media, public, stopper, faults>>

-----------------------------------------------------------------------------
(* The producer. One status makes it send a few events, the plan, and then *)
(* leaves it in a new state.                                               *)

NoProducer ==
    [pc |-> "off", seen |-> FreshStatus, fwd |-> 0, applied |-> 0, paused |-> FALSE,
     plan |-> <<>>, leaving |-> FALSE]

ProducerEnds == [prod EXCEPT !.pc = "ended", !.plan = <<>>]

\* A pause the producer has not seen, found only by its fence, is a boundary.
NewFence(st, p) == st.fence > p.applied

MissedPause(st, p) == NewFence(st, p) /\ p.fwd # 0 /\ ~st.paused

PausedBefore(st, p) == p.paused \/ MissedPause(st, p)

\* A paused source without any frame ends the producer: startup then fails.
NothingToRecord(st, p) == st.paused /\ p.fwd = 0 /\ st.latest = 0

\* resume: only a frame that the pause has not revoked and that is new.
Resumes(st, p) ==
    /\ PausedBefore(st, p)
    /\ ~st.paused
    /\ st.latest > st.fence
    /\ st.latest > p.fwd

\* send_latest, send_latest_guaranteed.
NewFrame(st, p) == st.latest > p.fwd

PlanForgetsBoundary(st, p, guaranteed) ==
    CASE st.paused /\ p.paused -> <<>>
      [] st.paused /\ ~p.paused -> IF NewFrame(st, p) THEN <<"frame">> ELSE <<>>
      [] ~st.paused /\ PausedBefore(st, p) ->
            IF Resumes(st, p) THEN <<"resumed">> ELSE <<>>
      [] OTHER -> IF NewFrame(st, p) THEN <<"try">> ELSE <<>>

PlanTriesAlways(st, p, guaranteed) ==
    CASE st.paused /\ p.paused -> <<>>
      [] st.paused /\ ~p.paused ->
            IF NewFrame(st, p) THEN <<"frame", "boundary">> ELSE <<"boundary">>
      [] ~st.paused /\ PausedBefore(st, p) ->
            (IF MissedPause(st, p) /\ ~p.paused THEN <<"boundary">> ELSE <<>>)
            \o (IF Resumes(st, p) THEN <<"resumed">> ELSE <<>>)
      [] OTHER -> IF NewFrame(st, p) THEN <<"try">> ELSE <<>>

Plan(st, p, guaranteed) ==
    LET boundary == IF MissedPause(st, p) /\ ~p.paused THEN <<"boundary">> ELSE <<>>
        frame == IF NewFrame(st, p) THEN <<IF guaranteed \/ st.paused THEN "frame" ELSE "try">>
                                    ELSE <<>>
    IN  CASE st.paused /\ p.paused -> <<>>
          [] st.paused /\ ~p.paused -> frame \o <<"boundary">>
          [] ~st.paused /\ PausedBefore(st, p) ->
                boundary \o (IF Resumes(st, p) THEN <<"resumed">> ELSE <<>>)
          [] OTHER -> frame

\* apply_status begins. The last arm ends the producer at once.
Read(guaranteed, leaving) ==
    LET st == shown.status IN
    prod' = IF NothingToRecord(st, prod)
            THEN [ProducerEnds EXCEPT !.seen = st]
            ELSE [prod EXCEPT !.pc = "send", !.seen = st, !.leaving = leaving,
                              !.plan = Plan(st, prod, guaranteed)]

\* initialize, then a value that has changed.
ProducerReads ==
    /\ \/ prod.pc = "read"
       \/ prod.pc = "wait" /\ stopper = "open" /\ shown.status # prod.seen
    /\ Read(FALSE, FALSE)
    /\ UNCHANGED <<source, shown, revoked, chan, ack, enc, media, public, stopper, faults>>

\* flush_for_stop, on request or because the source has closed.
ProducerFlushes ==
    /\ prod.pc = "wait"
    /\ \/ stopper = "sent"
       \/ stopper = "open" /\ shown.status = prod.seen /\ ~shown.open
    /\ Read(TRUE, TRUE)
    /\ UNCHANGED <<source, shown, revoked, chan, ack, enc, media, public, stopper, faults>>

\* The owner of the stop channel is gone without asking for anything.
ProducerLeaves ==
    /\ prod.pc = "wait"
    /\ stopper = "dropped"
    /\ prod' = ProducerEnds
    /\ UNCHANGED <<source, shown, revoked, chan, ack, enc, media, public, stopper, faults>>

Receiving == enc.pc \notin {"off", "done"}

Sent(kind) == Append(chan, [kind |-> kind, seq |-> prod.seen.latest])

\* A full channel makes try_send skip the frame, and send wait.
ProducerTries ==
    /\ prod.pc = "send" /\ prod.plan # <<>> /\ Head(prod.plan) = "try"
    /\ LET room == Receiving /\ Len(chan) < Depth IN
       /\ chan' = IF room THEN Sent("frame") ELSE chan
       /\ prod' = [prod EXCEPT !.plan = Tail(@),
                               !.fwd = IF room THEN prod.seen.latest ELSE @]
    /\ UNCHANGED <<source, shown, revoked, ack, enc, media, public, stopper, faults>>

ProducerSends ==
    /\ prod.pc = "send" /\ prod.plan # <<>> /\ Head(prod.plan) # "try"
    /\ Receiving /\ Len(chan) < Depth
    /\ chan' = Sent(Head(prod.plan))
    /\ IF Head(prod.plan) = "frame"
       THEN /\ prod' = [prod EXCEPT !.plan = Tail(@), !.fwd = prod.seen.latest]
            /\ ack' = ack
       ELSE /\ prod' = [prod EXCEPT !.pc = "ack"]
            /\ ack' = "waiting"
    /\ UNCHANGED <<source, shown, revoked, enc, media, public, stopper, faults>>

\* The receiver is gone, or an acknowledgement is refused: the producer ends.
ProducerBroken ==
    /\ \/ prod.pc = "send" /\ prod.plan # <<>> /\ Head(prod.plan) # "try" /\ ~Receiving
       \/ prod.pc = "ack" /\ ack = "refused"
    /\ prod' = ProducerEnds
    /\ ack' = "none"
    /\ UNCHANGED <<source, shown, revoked, chan, enc, media, public, stopper, faults>>

ProducerAcknowledged ==
    /\ prod.pc = "ack" /\ ack = "given"
    /\ prod' = [prod EXCEPT !.pc = "send", !.plan = Tail(@),
                            !.paused = Head(prod.plan) = "boundary",
                            !.fwd = IF Head(prod.plan) = "resumed" THEN prod.seen.latest ELSE @]
    /\ ack' = "none"
    /\ UNCHANGED <<source, shown, revoked, chan, enc, media, public, stopper, faults>>

\* The rest of apply_status: the pause shown to the outside follows what the
\* encoder has acknowledged, and a resume without a new frame leaves it.
Projected ==
    [public EXCEPT
        !.paused = prod.seen.paused \/ (prod.paused /\ @),
        !.terminal = @ \/ prod.seen.terminal]

ProducerApplied ==
    /\ prod.pc = "send" /\ prod.plan = <<>>
    /\ prod' = [prod EXCEPT !.pc = IF prod.leaving THEN "ended" ELSE "wait",
                            !.applied = IF prod.seen.fence > @ THEN prod.seen.fence ELSE @]
    /\ public' = Projected
    /\ UNCHANGED <<source, shown, revoked, chan, ack, enc, media, stopper, faults>>

ProducerStep ==
    \/ ProducerReads \/ ProducerFlushes \/ ProducerLeaves \/ ProducerTries
    \/ ProducerSends \/ ProducerBroken \/ ProducerAcknowledged \/ ProducerApplied

-----------------------------------------------------------------------------
(* The encoder. It takes one event after the other; it holds the admission *)
(* of the recording while it handles one, so that a revocation waits.      *)

NoEncoder == [pc |-> "off", first |-> 0, last |-> 0]

NoMedia == [finished |-> 0, partial |-> 0, manifest |-> 0]

NoPublic == [paused |-> FALSE, terminal |-> FALSE, outcome |-> "none"]

Faulty == IF faults < MaxFaults THEN BOOLEAN ELSE {FALSE}

Fail(f) == faults' = IF f THEN faults + 1 ELSE faults

NextEvent == Head(chan)

Answers(event, how) == IF event.kind \in {"boundary", "resumed"} THEN how ELSE ack

EncoderReturnsSilently(outcome, terminal) ==
    /\ enc' = [enc EXCEPT !.pc = "done"]
    /\ public' = [public EXCEPT !.outcome = outcome, !.terminal = @ \/ terminal]
    /\ UNCHANGED <<chan, ack>>

\* The thread returns: its receiver goes, and with it every unanswered event.
EncoderReturns(outcome, terminal) ==
    /\ enc' = [enc EXCEPT !.pc = "done"]
    /\ public' = [public EXCEPT !.outcome = outcome, !.terminal = @ \/ terminal]
    /\ chan' = <<>>
    /\ ack' = IF ack = "waiting" THEN "refused" ELSE ack

\* begin_segment and CaptureManifest::frame.
Manifested(m) == [m EXCEPT !.manifest = @ + 1]

BeginSegment(m) == [Manifested(m) EXCEPT !.partial = 1]

AddSample(m) == [Manifested(m) EXCEPT !.partial = @ + 1]

\* finalize_active_segment: the partial file gets its final name.
FinalizeSegment(m) == [m EXCEPT !.finished = @ + m.partial, !.partial = 0]

\* CaptureManifest::finish refuses a manifest that misses a sample.
Covered(m) == m.manifest = m.finished + m.partial

\* receive_first_frame, admission, the first segment, and the ready signal.
FirstBoundary ==
    /\ enc.pc = "first" /\ chan # <<>> /\ NextEvent.kind = "boundary"
    /\ chan' = Tail(chan)
    /\ ack' = "given"
    /\ UNCHANGED <<source, shown, revoked, prod, enc, media, public, stopper, faults>>

FirstFrame ==
    /\ enc.pc = "first" /\ chan # <<>> /\ NextEvent.kind # "boundary"
    /\ \E fault \in Faulty :
        /\ Fail(fault)
        /\ IF revoked \/ fault
           THEN /\ EncoderReturns("failed", FALSE)
                /\ media' = media
           ELSE /\ enc' = [pc |-> "run", first |-> NextEvent.seq, last |-> NextEvent.seq]
                /\ media' = BeginSegment(media)
                /\ chan' = Tail(chan)
                /\ ack' = Answers(NextEvent, "given")
                /\ public' = public
    /\ UNCHANGED <<source, shown, revoked, prod, stopper>>

NoFirstFrame ==
    /\ enc.pc = "first" /\ chan = <<>> /\ prod.pc = "ended"
    /\ EncoderReturns("failed", FALSE)
    /\ UNCHANGED <<source, shown, revoked, prod, media, stopper, faults>>

\* The end of the authorization: the event is dropped and the file is closed.
EncoderRevoked ==
    /\ enc.pc = "run" /\ chan # <<>> /\ revoked
    /\ chan' = Tail(chan)
    /\ ack' = Answers(NextEvent, "refused")
    /\ enc' = [enc EXCEPT !.pc = "finish"]
    /\ public' = [public EXCEPT !.terminal = TRUE]
    /\ UNCHANGED <<source, shown, revoked, prod, media, stopper, faults>>

Admitted(kind) == enc.pc = "run" /\ chan # <<>> /\ ~revoked /\ NextEvent.kind = kind

EncodePause ==
    /\ Admitted("boundary")
    /\ \E fault \in Faulty :
        /\ Fail(fault)
        /\ IF fault
           THEN EncoderReturns("failed", FALSE) /\ media' = media
           ELSE /\ media' = FinalizeSegment(media)
                /\ chan' = Tail(chan)
                /\ ack' = "given"
                /\ UNCHANGED <<enc, public>>
    /\ UNCHANGED <<source, shown, revoked, prod, stopper>>

EncodeResume ==
    /\ Admitted("resumed")
    /\ \E fault \in Faulty :
        /\ Fail(fault)
        /\ IF fault \/ media.partial # 0
           THEN EncoderReturns("failed", FALSE) /\ media' = media
           ELSE /\ media' = BeginSegment(media)
                /\ enc' = [enc EXCEPT !.last = NextEvent.seq]
                /\ chan' = Tail(chan)
                /\ ack' = "given"
                /\ UNCHANGED public
    /\ UNCHANGED <<source, shown, revoked, prod, stopper>>

\* A frame joins the segment, opens the next one after five minutes, or is
\* left out by the rate control of the encoder.
EncodeFrame ==
    /\ Admitted("frame")
    /\ \E fault \in Faulty :
        /\ Fail(fault)
        /\ IF fault \/ media.partial = 0
           THEN EncoderReturns("failed", FALSE) /\ media' = media
           ELSE /\ media' \in {media, AddSample(media),
                               BeginSegment(FinalizeSegment(media))}
                /\ enc' = [enc EXCEPT !.last = NextEvent.seq]
                /\ chan' = Tail(chan)
                /\ UNCHANGED <<ack, public>>
    /\ UNCHANGED <<source, shown, revoked, prod, stopper>>

EncoderDrained ==
    /\ enc.pc = "run" /\ chan = <<>> /\ prod.pc = "ended"
    /\ enc' = [enc EXCEPT !.pc = "finish"]
    /\ UNCHANGED <<source, shown, revoked, prod, chan, ack, media, public, stopper, faults>>

\* The last segment, the sidecar and the manifest. A failure may come before
\* or after the segment has its final name.
EncoderFinishes ==
    /\ enc.pc = "finish"
    /\ \E fault \in Faulty :
        /\ Fail(fault)
        /\ EncoderReturns(IF fault \/ ~Covered(media) THEN "failed" ELSE "finalized", FALSE)
        /\ media' \in IF fault THEN {media, FinalizeSegment(media)} ELSE {FinalizeSegment(media)}
    /\ UNCHANGED <<source, shown, revoked, prod, stopper>>

EncoderStep ==
    \/ FirstBoundary \/ FirstFrame \/ NoFirstFrame \/ EncoderRevoked \/ EncodePause
    \/ EncodeResume \/ EncodeFrame \/ EncoderDrained \/ EncoderFinishes

\* The issuer of the lease revokes it.
Revoke ==
    /\ ~revoked /\ faults < MaxFaults
    /\ revoked' = TRUE
    /\ Fail(TRUE)
    /\ UNCHANGED <<source, shown, prod, chan, ack, enc, media, public, stopper>>

-----------------------------------------------------------------------------
(* What the owner of the recorder does to it.                              *)

NoRecorder ==
    /\ prod = NoProducer /\ chan = <<>> /\ ack = "none" /\ enc = NoEncoder
    /\ media = NoMedia /\ public = NoPublic /\ stopper = "open"

\* start_authorized_with_outcome spawns the two tasks.
Spawned ==
    /\ prod' = [NoProducer EXCEPT !.pc = "read"]
    /\ enc' = [NoEncoder EXCEPT !.pc = "first"]
    /\ shown' = [status |-> source.status, open |-> TRUE]
    /\ chan' = <<>> /\ ack' = "none" /\ media' = NoMedia
    /\ public' = NoPublic /\ stopper' = "open"

\* stop_with_outcome: the stop is sent, both tasks are joined, and the outcome
\* the encoder has left is the result.
StopOutcome == public.outcome

Joined == prod.pc \in {"off", "ended"} /\ enc.pc \in {"off", "done"}
=============================================================================
