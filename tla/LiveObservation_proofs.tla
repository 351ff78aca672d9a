----------------------- MODULE LiveObservation_proofs -----------------------
(***************************************************************************)
(* For every number of streams, frames, boundaries and pauses: a frame     *)
(* becomes the observation only behind every boundary and every pause, no  *)
(* fence is out of reach, and one worker captures at a time.               *)
(*                                                                         *)
(* The fences of the session are forgotten again and again (a stop, a      *)
(* snapshot, a direct observation).  The invariant says why this is safe:  *)
(* the latest frame of a live stream is either of the present boundary or  *)
(* not beyond the two fences, whatever the observation is.                 *)
(***************************************************************************)
EXTENDS LiveObservation, TLAPS

\* What the session has while it serves a call.
Staged ==
    /\ call.stage \in {"starting", "first_frame", "joining"} => ~ live
    /\ call.stage \in {"waiting", "encoding"} => live
    /\ call.stage \in {"preflight", "starting", "first_frame"} => cleanup = "clean"

\* A running worker that is not the session's leaves its cleanup pending.
Produced == WorkerRuns => live \/ call.stage = "first_frame" \/ cleanup = "pending"

\* No fence is ahead of its stream.
Reached(f) ==
    /\ f.stream <= streams
    /\ f.stream = streams /\ ~ status.terminal => f.sequence <= status.latest.sequence

Behind == Reached(postFence) /\ Reached(transFence) /\ Reached(DecisionFence)

\* The frames of a stream the session has: of this boundary, or behind a fence.
Fenced ==
    live /\ ~ status.terminal =>
        /\ status.latest # NoFrame
        /\ \/ status.latest.since = boundary
           \/ status.latest.sequence <= SequenceFor(postFence)
           \/ status.latest.sequence <= SequenceFor(transFence)

\* The frames of a stream that is being started.
First ==
    /\ call.stage = "first_frame" /\ ~ status.terminal /\ status.latest # NoFrame
    => status.latest.since = boundary

\* A stream that does not pause shows a frame behind its last pause.
Resumed ==
    /\ ~ status.terminal /\ ~ status.paused /\ status.latest # NoFrame
    => status.latest.pauses = status.pauses

\* The frame that is being encoded.
Encoded ==
    call.stage = "encoding" =>
        /\ call.frame.since = boundary
        /\ ~ status.terminal =>
              /\ status.latest.since = boundary
              /\ call.frame.sequence <= status.latest.sequence
              /\ \/ call.frame.pauses = status.pauses
                 \/ call.frame.sequence <= status.pauseFence

Inv == TypeOK /\ Staged /\ Produced /\ Behind /\ Fenced /\ First /\ Resumed /\ Encoded

-----------------------------------------------------------------------------
(***************************************************************************)
(* Types.                                                                  *)
(***************************************************************************)
\* The calls a session serves, one by one.
LEMMA Calls ==
    /\ Idle \in Call /\ Idle.stage = "idle"
    /\ \A b \in BOOLEAN : /\ [stage |-> "preflight", reuse |-> b] \in Call
                          /\ [stage |-> "preflight", reuse |-> b].stage = "preflight"
    /\ \A g \in {"starting", "first_frame", "waiting", "acting"} :
          [stage |-> g] \in Call /\ [stage |-> g].stage = g
    /\ \A t \in {"idle", "preflight", "start"} :
          /\ [stage |-> "joining", then |-> t] \in Call
          /\ [stage |-> "joining", then |-> t].stage = "joining"
    /\ \A f \in Frame : /\ [stage |-> "encoding", frame |-> f] \in Call
                        /\ [stage |-> "encoding", frame |-> f].stage = "encoding"
                        /\ [stage |-> "encoding", frame |-> f].frame = f
<1>1. Idle \in Call /\ Idle.stage = "idle"
  BY DEF Idle, Call
<1>2. ASSUME NEW b \in BOOLEAN
      PROVE  /\ [stage |-> "preflight", reuse |-> b] \in Call
             /\ [stage |-> "preflight", reuse |-> b].stage = "preflight"
  BY DEF Call
<1>3. ASSUME NEW g \in {"starting", "first_frame", "waiting", "acting"}
      PROVE  [stage |-> g] \in Call /\ [stage |-> g].stage = g
  BY DEF Call
<1>4. ASSUME NEW t \in {"idle", "preflight", "start"}
      PROVE  /\ [stage |-> "joining", then |-> t] \in Call
             /\ [stage |-> "joining", then |-> t].stage = "joining"
  BY DEF Call
<1>5. ASSUME NEW f \in Frame
      PROVE  /\ [stage |-> "encoding", frame |-> f] \in Call
             /\ [stage |-> "encoding", frame |-> f].stage = "encoding"
             /\ [stage |-> "encoding", frame |-> f].frame = f
  BY DEF Call
<1> QED
  BY <1>1, <1>2, <1>3, <1>4, <1>5

\* What is being encoded is a frame, and a join knows what follows.
LEMMA CallParts ==
    ASSUME NEW c \in Call
    PROVE  /\ c.stage = "encoding" => c.frame \in Frame
           /\ c.stage = "joining" => c.then \in {"idle", "preflight", "start"}
           /\ c.stage \in {"idle", "preflight", "starting", "first_frame", "waiting", "acting",
                           "joining", "encoding"}
  BY DEF Call, Idle

\* The fences are fences, and each is 0 or the sequence of its stream.
LEMMA Fences ==
    ASSUME TypeOK
    PROVE  /\ NoFence \in Fence /\ NoFence.stream = 0 /\ NoFence.sequence = 0
           /\ LatestFence \in Fence /\ DecisionFence \in Fence
           /\ LatestFence = NoFence \/ LatestFence = [stream |-> streams,
                                                       sequence |-> status.latest.sequence]
           /\ live /\ status.latest # NoFrame =>
                 LatestFence.stream = streams /\ LatestFence.sequence = status.latest.sequence
<1>1. NoFence \in Fence /\ NoFence.stream = 0 /\ NoFence.sequence = 0
  BY DEF NoFence, Fence
<1>2. streams \in Nat /\ status.latest \in Frame /\ status.latest.sequence \in Nat
  BY DEF TypeOK, Status, Frame
<1>3. LatestFence \in Fence
  BY <1>1, <1>2 DEF LatestFence, Fence
<1>4. DecisionFence \in Fence
  <2>1. CASE observation.kind = "live"
    <3>1. observation \in [kind : {"live"}, stream : Nat, frame : Frame]
      BY <2>1 DEF TypeOK, Observation, NoObservation, Direct
    <3>2. observation.stream \in Nat /\ observation.frame.sequence \in Nat
      BY <3>1 DEF Frame
    <3> QED  BY <2>1, <3>2 DEF DecisionFence, Fence
  <2>2. CASE observation.kind # "live"
    BY <1>1, <2>2 DEF DecisionFence
  <2> QED  BY <2>1, <2>2
<1> QED
  BY <1>1, <1>2, <1>3, <1>4 DEF LatestFence

(***************************************************************************)
(* What becomes of the evidence.                                           *)
(***************************************************************************)
Kept == Behind /\ Fenced /\ Resumed

\* Nothing was published and no evidence changed.
LEMMA EvidenceKept ==
    ASSUME Inv, UNCHANGED <<streams, status, evidence>>, live' => live
    PROVE  Kept'
<1>1. UNCHANGED <<observation, postFence, transFence, boundary>>
  BY DEF evidence
<1>2. DecisionFence' = DecisionFence
  BY <1>1 DEF DecisionFence
<1>3. Behind'
  BY <1>1, <1>2 DEF Inv, Behind, Reached
<1>4. Fenced' /\ Resumed'
  BY <1>1 DEF Inv, Fenced, Resumed, SequenceFor
<1> QED
  BY <1>3, <1>4 DEF Kept

\* invalidate_action_observations: the boundary is drawn at the latest frame.
LEMMA BoundaryDrawn ==
    ASSUME Inv, InvalidateActionObservations, UNCHANGED <<streams, status, live>>
    PROVE  /\ Kept'
           /\ observation' \in Observation /\ postFence' \in Fence /\ transFence' \in Fence
           /\ boundary' \in Nat
<1>1. /\ observation' = NoObservation /\ postFence' = NoFence /\ boundary' = boundary + 1
      /\ transFence' = IF LatestFence # NoFence THEN LatestFence ELSE transFence
  BY DEF InvalidateActionObservations
<1>2. PICK l : l = LatestFence
  OBVIOUS
<1>3. /\ NoFence \in Fence /\ NoFence.stream = 0 /\ NoFence.sequence = 0 /\ l \in Fence
      /\ l = NoFence \/ l = [stream |-> streams, sequence |-> status.latest.sequence]
      /\ live /\ status.latest # NoFrame => l.stream = streams /\ l.sequence = status.latest.sequence
  BY <1>2, Fences DEF Inv
<1>4. DecisionFence' = NoFence
  BY <1>1 DEF DecisionFence, NoObservation
<1>5. /\ streams \in Nat /\ status.latest.sequence \in Nat /\ boundary \in Nat
      /\ transFence \in Fence /\ transFence.sequence \in Nat
  BY DEF Inv, TypeOK, Status, Frame, Fence
<1>6. observation' \in Observation /\ postFence' \in Fence /\ transFence' \in Fence /\ boundary' \in Nat
  BY <1>1, <1>2, <1>3, <1>5 DEF Observation
<1>7. Reached(NoFence)' /\ Reached(transFence)'
  <2>1. Reached(transFence)
    BY DEF Inv, Behind
  <2>2. l.stream <= streams /\ (l.stream = streams => l.sequence <= status.latest.sequence)
    BY <1>3, <1>5
  <2> QED  BY <1>1, <1>2, <1>3, <1>5, <2>1, <2>2 DEF Reached
<1>8. Behind'
  BY <1>1, <1>4, <1>7 DEF Behind
<1>9. Fenced'
  <2> SUFFICES ASSUME live, ~ status.terminal
               PROVE  /\ status.latest # NoFrame
                      /\ status.latest.sequence <= SequenceFor(transFence)'
    BY DEF Fenced
  <2>1. status.latest # NoFrame
    BY DEF Inv, Fenced
  <2>2. CASE l # NoFence
    BY <1>1, <1>2, <1>3, <1>5, <2>1, <2>2 DEF SequenceFor
  <2>3. CASE l = NoFence
    BY <1>1, <1>2, <1>3, <1>5, <2>1, <2>3 DEF SequenceFor
  <2> QED  BY <2>1, <2>2, <2>3
<1>10. Resumed'
  BY DEF Inv, Resumed
<1> QED
  BY <1>6, <1>8, <1>9, <1>10 DEF Kept

\* The fences go with the stream.
LEMMA FencesForgotten ==
    ASSUME Inv, ClearFences, ~ live', UNCHANGED <<streams, status>>,
           observation' \in {observation, NoObservation}
    PROVE  Kept' /\ observation' \in Observation /\ postFence' \in Fence /\ transFence' \in Fence
<1>1. postFence' = NoFence /\ transFence' = NoFence
  BY DEF ClearFences
<1>2. /\ NoFence \in Fence /\ NoFence.stream = 0 /\ NoFence.sequence = 0
      /\ streams \in Nat /\ status.latest.sequence \in Nat
  BY Fences DEF Inv, TypeOK, Status, Frame
<1>3. DecisionFence' \in {DecisionFence, NoFence}
  BY DEF DecisionFence, NoObservation
<1>4. Behind'
  <2>1. PICK d : d = DecisionFence /\ Reached(d)
    BY DEF Inv, Behind
  <2>2. PICK e : e = DecisionFence'
    OBVIOUS
  <2>3. Reached(NoFence)' /\ Reached(d)'
    BY <1>2, <2>1 DEF Reached
  <2>4. Reached(e)'
    BY <1>3, <2>1, <2>2, <2>3
  <2> QED  BY <1>1, <2>2, <2>3, <2>4 DEF Behind, Reached
<1>5. Fenced' /\ Resumed'
  BY DEF Fenced, Inv, Resumed
<1> QED
  BY <1>1, <1>2, <1>4, <1>5 DEF Kept, Inv, TypeOK, Observation

(***************************************************************************)
(* The worker.                                                             *)
(***************************************************************************)
\* A step of the worker that publishes nothing.
LEMMA QuietWorker ==
    ASSUME Inv, UNCHANGED <<shutdown, status, session>>,
           worker' \in {"loop", "capturing", "ended", "failed"}, WorkerRuns' => WorkerRuns
    PROVE  Inv'
<1>1. /\ UNCHANGED <<streams, interrupted, active, live, evidence, cleanup, call>>
      /\ UNCHANGED <<observation, postFence, transFence, boundary>>
  BY DEF session, evidence
<1>2. Kept'
  BY <1>1, EvidenceKept
<1>3. TypeOK'
  BY <1>1 DEF Inv, TypeOK
<1>4. Staged' /\ First' /\ Encoded'
  BY <1>1 DEF Inv, Staged, First, Encoded
<1>5. Produced'
  BY <1>1 DEF Inv, Produced
<1> QED
  BY <1>2, <1>3, <1>4, <1>5 DEF Inv, Kept

\* A new status of a stream that has not ended before: nothing is taken back,
\* and a new frame is of the present boundary and behind the last pause.
Follows(t) ==
    ~ t.terminal =>
        /\ ~ status.terminal
        /\ t.latest.sequence >= status.latest.sequence
        /\ \/ t.latest = status.latest
           \/ t.latest # NoFrame /\ t.latest.since = boundary
        /\ ~ t.paused /\ t.latest # NoFrame => t.latest.pauses = t.pauses
        /\ t.pauseFence >= status.pauseFence
        /\ t.pauses = status.pauses \/ t.pauseFence >= status.latest.sequence

\* A step of the worker that changes the status.
LEMMA StatusFollows ==
    ASSUME Inv, UNCHANGED <<shutdown, session>>, status' \in Status, Follows(status'),
           worker' \in {"loop", "ended"}, WorkerRuns
    PROVE  Inv'
<1>1. /\ UNCHANGED <<streams, interrupted, active, live, evidence, cleanup, call>>
      /\ UNCHANGED <<observation, postFence, transFence, boundary>>
  BY DEF session, evidence
<1>2. PICK t \in Status : t = status' /\ Follows(t)
  OBVIOUS
<1>3. /\ t.latest \in Frame /\ t.latest.sequence \in Nat /\ t.pauseFence \in Nat /\ t.pauses \in Nat
      /\ status.latest.sequence \in Nat /\ status.pauseFence \in Nat /\ boundary \in Nat
  BY DEF Inv, TypeOK, Status, Frame
<1>4. TypeOK'
  BY <1>1, <1>2 DEF Inv, TypeOK
<1>5. Staged'
  BY <1>1 DEF Inv, Staged
<1>6. Produced'
  BY <1>1 DEF Inv, Produced
<1>7. Behind'
  <2>1. DecisionFence' = DecisionFence
    BY <1>1 DEF DecisionFence
  <2>2. PICK d \in Fence : d = DecisionFence
    BY Fences DEF Inv
  <2>3. \A f \in Fence : Reached(f) => Reached(f)'
    BY <1>1, <1>2, <1>3 DEF Reached, Follows, Fence
  <2>4. postFence \in Fence /\ transFence \in Fence
    BY DEF Inv, TypeOK
  <2>5. Reached(postFence) /\ Reached(transFence) /\ Reached(d)
    BY <2>2 DEF Inv, Behind
  <2> QED  BY <1>1, <2>1, <2>2, <2>3, <2>4, <2>5 DEF Behind, Reached
<1>8. Fenced'
  BY <1>1, <1>2, <1>3 DEF Inv, Fenced, Follows, SequenceFor
<1>9. First'
  BY <1>1, <1>2 DEF Inv, First, Follows
<1>10. Resumed'
  BY <1>1, <1>2 DEF Resumed, Follows
<1>11. Encoded'
  <2> SUFFICES ASSUME call.stage = "encoding"
               PROVE  /\ call.frame.since = boundary
                      /\ ~ t.terminal =>
                            /\ t.latest.since = boundary
                            /\ call.frame.sequence <= t.latest.sequence
                            /\ \/ call.frame.pauses = t.pauses
                               \/ call.frame.sequence <= t.pauseFence
    BY <1>1, <1>2 DEF Encoded
  <2>1. call.frame.sequence \in Nat
    BY CallParts DEF Inv, TypeOK, Frame
  <2> QED  BY <1>2, <1>3, <2>1 DEF Inv, Encoded, Follows
<1> QED
  BY <1>4, <1>5, <1>6, <1>7, <1>8, <1>9, <1>10, <1>11 DEF Inv

\* The worker (run_worker of live_observation.rs and windows_capture.rs).
LEMMA WorkerInv ==
    ASSUME Inv, WorkerNext
    PROVE  Inv'
<1>0. /\ status \in Status /\ boundary \in Nat
      /\ status.latest \in Frame /\ status.latest.sequence \in Nat /\ status.pauseFence \in Nat
      /\ status.pauses \in Nat
  BY DEF Inv, TypeOK, Status, Frame
<1>1. CASE WorkerCheck \/ WorkerLeaves \/ WorkerRetries \/ WorkerFails
  <2>1. /\ UNCHANGED <<shutdown, status, session>>
        /\ worker' \in {"loop", "capturing", "ended", "failed"} /\ (WorkerRuns' => WorkerRuns)
    BY <1>1 DEF WorkerCheck, WorkerLeaves, WorkerRetries, WorkerFails, WorkerRuns
  <2> QED  BY <2>1, QuietWorker
<1>2. CASE WorkerPublish
  <2>1. PICK t : t = PublishFrame(status)
    OBVIOUS
  <2>2. t \in Status /\ Follows(t)
    <3>1. CASE status.terminal
      BY <1>0, <2>1, <3>1 DEF PublishFrame, Follows
    <3>2. CASE ~ status.terminal
      <4>1. PICK f : f = [sequence |-> status.latest.sequence + 1,
                          since |-> boundary, pauses |-> status.pauses]
        OBVIOUS
      <4>2. /\ f \in Frame /\ f # NoFrame /\ f.since = boundary /\ f.pauses = status.pauses
            /\ f.sequence >= status.latest.sequence
        BY <1>0, <4>1 DEF Frame, NoFrame
      <4>3. t = [status EXCEPT !.latest = f, !.paused = FALSE]
        BY <2>1, <3>2, <4>1 DEF PublishFrame
      <4>4. t \in Status
        BY <1>0, <4>2, <4>3 DEF Status
      <4>5. t.latest = f /\ t.pauseFence = status.pauseFence /\ t.pauses = status.pauses
        BY <1>0, <4>3 DEF Status
      <4>6. Follows(t)
        BY <1>0, <3>2, <4>2, <4>5 DEF Follows
      <4> QED  BY <4>4, <4>6
    <3> QED  BY <3>1, <3>2
  <2>3. status' = t /\ worker' = "loop" /\ WorkerRuns /\ UNCHANGED <<shutdown, session>>
    BY <1>2, <2>1 DEF WorkerPublish, WorkerRuns
  <2> QED  BY <2>2, <2>3, StatusFollows
<1>3. CASE WorkerPauses
  <2>1. PICK t : t = RecordPaused(status)
    OBVIOUS
  <2>2. t \in Status /\ Follows(t)
    <3>1. CASE status.terminal
      BY <1>0, <2>1, <3>1 DEF RecordPaused, Follows
    <3>2. CASE ~ status.terminal
      <4>1. PICK n : n = Max(status.pauseFence, status.latest.sequence)
        OBVIOUS
      <4>2. n \in Nat /\ n >= status.pauseFence /\ n >= status.latest.sequence
        BY <1>0, <4>1 DEF Max
      <4>3. PICK k \in Nat : k = status.pauses + 1
        BY <1>0
      <4>4. t = [status EXCEPT !.paused = TRUE, !.pauseFence = n, !.pauses = k]
        BY <2>1, <3>2, <4>1, <4>3 DEF RecordPaused
      <4>5. t \in Status
        BY <1>0, <4>2, <4>3, <4>4 DEF Status
      <4>6. t.latest = status.latest /\ t.pauseFence = n /\ t.paused
        BY <1>0, <4>4 DEF Status
      <4>7. Follows(t)
        BY <1>0, <3>2, <4>2, <4>6 DEF Follows
      <4> QED  BY <4>5, <4>7
    <3> QED  BY <3>1, <3>2
  <2>3. status' = t /\ worker' = "loop" /\ WorkerRuns /\ UNCHANGED <<shutdown, session>>
    BY <1>3, <2>1 DEF WorkerPauses, WorkerRuns
  <2> QED  BY <2>2, <2>3, StatusFollows
<1>4. CASE WorkerTerminal
  <2>1. PICK l \in {status.latest, NoFrame} : status' = [RecordTerminal(status) EXCEPT !.latest = l]
    BY <1>4 DEF WorkerTerminal
  <2>2. l \in Frame
    BY <1>0, <2>1 DEF NoFrame, Frame
  <2>3. PICK r : r = RecordTerminal(status)
    OBVIOUS
  <2>4. r \in Status /\ r.terminal
    BY <1>0, <2>3 DEF RecordTerminal, Status
  <2>5. PICK t : t = [r EXCEPT !.latest = l]
    OBVIOUS
  <2>6. t \in Status /\ Follows(t)
    BY <2>2, <2>4, <2>5 DEF Status, Follows
  <2>7. status' = t /\ worker' = "ended" /\ WorkerRuns /\ UNCHANGED <<shutdown, session>>
    BY <1>4, <2>1, <2>3, <2>5 DEF WorkerTerminal, WorkerRuns
  <2> QED  BY <2>6, <2>7, StatusFollows
<1> QED
  BY <1>1, <1>2, <1>3, <1>4 DEF WorkerNext

(***************************************************************************)
(* The calls of the session.                                               *)
(***************************************************************************)
\* Outside a first frame and an encoding there is nothing to say of a frame.
LEMMA NoFrameInHand ==
    ASSUME TypeOK', Kept', Staged', Produced', call'.stage \notin {"first_frame", "encoding"}
    PROVE  Inv'
  BY DEF Inv, Kept, First, Encoded

\* Steps that move the call and leave everything else.
LEMMA CallMoves ==
    ASSUME Inv, UNCHANGED <<streams, channel, live, evidence, cleanup>>,
           interrupted' \in BOOLEAN, active' \in BOOLEAN, call' \in Call,
           call'.stage \in {"idle", "acting"}, call.stage # "first_frame"
    PROVE  Inv'
<1>1. UNCHANGED <<worker, shutdown, status, observation, postFence, transFence, boundary>>
  BY DEF channel, evidence
<1>2. Kept'
  BY <1>1, EvidenceKept
<1>3. TypeOK'
  BY <1>1 DEF Inv, TypeOK
<1>4. Staged' /\ Produced'
  BY <1>1 DEF Inv, Staged, Produced, WorkerRuns
<1> QED
  BY <1>2, <1>3, <1>4, NoFrameInHand

\* A shared stop, which leaves even the call.
LEMMA InterruptInv ==
    ASSUME Inv, Interrupt
    PROVE  Inv'
<1>1. /\ UNCHANGED <<streams, worker, shutdown, status, live, evidence, cleanup, call, active>>
      /\ UNCHANGED <<observation, postFence, transFence, boundary>>
      /\ interrupted' \in BOOLEAN
  BY DEF Interrupt, channel, evidence
<1>2. Kept'
  BY <1>1, EvidenceKept
<1>3. TypeOK' /\ Staged' /\ Produced'
  BY <1>1 DEF Inv, TypeOK, Staged, Produced, WorkerRuns
<1>4. First' /\ Encoded'
  BY <1>1 DEF Inv, First, Encoded
<1> QED
  BY <1>2, <1>3, <1>4 DEF Inv, Kept

\* A call that begins or ends and changes nothing else.
LEMMA CallOnlyInv ==
    ASSUME Inv, ResumeSession \/ AbandonJoin \/ ReuseExisting \/ ActBegin
    PROVE  Inv'
<1>1. /\ UNCHANGED <<streams, channel, live, evidence, cleanup, interrupted>>
      /\ active' \in BOOLEAN
      /\ call' = Idle \/ call' = [stage |-> "acting"]
      /\ call.stage # "first_frame"
  BY Calls DEF ResumeSession, AbandonJoin, ReuseExisting, ActBegin, Served, Inv, TypeOK
<1>2. call' \in Call /\ call'.stage \in {"idle", "acting"}
  BY <1>1, Calls
<1>3. interrupted' \in BOOLEAN
  BY <1>1 DEF Inv, TypeOK
<1> QED
  BY <1>1, <1>2, <1>3, CallMoves

\* stop_live_observation begins: the stream is taken, its join is owed.
LEMMA Taken ==
    ASSUME Inv, NEW then \in {"idle", "preflight", "start"}, TakeLive(then), ClearFences,
           UNCHANGED <<streams, worker, status, interrupted>>, active' \in BOOLEAN,
           observation' \in {observation, NoObservation}, boundary' \in Nat
    PROVE  Inv'
<1>1. /\ live' = FALSE /\ shutdown' = TRUE /\ cleanup' = "pending"
      /\ call' \in Call /\ call'.stage = "joining"
  BY Calls DEF TakeLive
<1>2. Kept' /\ observation' \in Observation /\ postFence' \in Fence /\ transFence' \in Fence
  BY <1>1, FencesForgotten
<1>3. TypeOK'
  BY <1>1, <1>2 DEF Inv, TypeOK, Cleanup
<1>4. Staged' /\ Produced'
  BY <1>1 DEF Staged, Produced
<1> QED
  BY <1>1, <1>2, <1>3, <1>4, NoFrameInHand

\* There is no stream to be stopped.
LEMMA NotTaken ==
    ASSUME Inv, ~ live, NothingToStop, ClearFences, call.stage # "first_frame",
           UNCHANGED <<streams, worker, status, interrupted>>, active' \in BOOLEAN,
           observation' \in {observation, NoObservation}, boundary' \in Nat
    PROVE  Inv'
<1>1. UNCHANGED <<live, shutdown, cleanup>> /\ call' \in Call /\ call'.stage = "idle"
  BY Calls DEF NothingToStop
<1>2. Kept' /\ observation' \in Observation /\ postFence' \in Fence /\ transFence' \in Fence
  BY <1>1, FencesForgotten
<1>3. TypeOK'
  BY <1>1, <1>2 DEF Inv, TypeOK
<1>4. Staged' /\ Produced'
  BY <1>1 DEF Inv, Staged, Produced, WorkerRuns
<1> QED
  BY <1>1, <1>2, <1>3, <1>4, NoFrameInHand

\* stop_live_observation and invalidate_local_session.
LEMMA StopsInv ==
    ASSUME Inv, StopLiveObservation \/ InvalidateLocalSession
    PROVE  Inv'
<1>1. /\ ClearFences /\ UNCHANGED <<streams, worker, status, interrupted>>
      /\ active' \in BOOLEAN /\ observation' \in {observation, NoObservation} /\ boundary' \in Nat
      /\ IF live THEN TakeLive("idle") ELSE NothingToStop
      /\ call.stage # "first_frame"
  <2>1. boundary \in Nat /\ active \in BOOLEAN /\ Idle.stage = "idle"
    BY Calls DEF Inv, TypeOK
  <2>2. CASE StopLiveObservation
    BY <2>1, <2>2 DEF StopLiveObservation
  <2>3. CASE InvalidateLocalSession
    <3>1. boundary' = boundary + 1 /\ active' = FALSE
      BY <2>3 DEF InvalidateLocalSession
    <3>2. boundary' \in Nat
      BY <2>1, <3>1
    <3>3. active' \in BOOLEAN
      BY <3>1
    <3> QED  BY <2>1, <2>3, <3>2, <3>3 DEF InvalidateLocalSession
  <2> QED  BY <2>2, <2>3
<1> QED
  BY <1>1, Taken, NotTaken

\* The join returns, and what was to follow follows.
LEMMA JoinInv ==
    ASSUME Inv, Join
    PROVE  Inv'
<1>1. /\ call.stage = "joining" /\ Joined(call.then)
      /\ UNCHANGED <<streams, channel, interrupted, active, live, evidence>>
      /\ UNCHANGED <<worker, shutdown, status, observation, postFence, transFence, boundary>>
  BY DEF Join, channel, evidence
<1>2. call.then \in {"idle", "preflight", "start"} /\ ~ live
  BY <1>1, CallParts DEF Inv, TypeOK, Staged
<1>3. /\ ~ WorkerRuns /\ worker \in {"ended", "failed"}
      /\ cleanup' = IF worker = "ended" THEN "clean" ELSE "pending"
  BY <1>1 DEF Joined, Inv, TypeOK, WorkerRuns
<1>4. \/ call' = Idle
      \/ worker = "ended" /\ call' = [stage |-> "preflight", reuse |-> FALSE]
      \/ worker = "ended" /\ call' = [stage |-> "starting"]
  BY <1>1, <1>2, <1>3 DEF Joined
<1>5. /\ call' \in Call /\ call'.stage \in {"idle", "preflight", "starting"}
      /\ call'.stage # "idle" => cleanup' = "clean"
  BY <1>3, <1>4, Calls
<1>6. Kept'
  BY <1>1, EvidenceKept
<1>7. TypeOK'
  BY <1>1, <1>3, <1>5 DEF Inv, TypeOK, Cleanup
<1>8. Staged' /\ Produced'
  BY <1>1, <1>2, <1>3, <1>5 DEF Staged, Produced, WorkerRuns
<1> QED
  BY <1>5, <1>6, <1>7, <1>8, NoFrameInHand

\* ensure_live_observation up to the look at the target.
LEMMA StartInv ==
    ASSUME Inv, StartLiveObservation
    PROVE  Inv'
<1>1. /\ call = Idle /\ cleanup = "clean"
      /\ UNCHANGED <<streams, worker, status, interrupted, active, observation, boundary>>
  BY DEF StartLiveObservation, Served, CleanupReusable
<1>2. CASE TakeLive("preflight") /\ ClearFences
  <2>1. active' \in BOOLEAN /\ boundary' \in Nat
    BY <1>1 DEF Inv, TypeOK
  <2> QED  BY <1>1, <1>2, <2>1, Taken
<1>3. CASE /\ call' = [stage |-> "preflight", reuse |-> live /\ WorkerRuns /\ ~status.terminal]
           /\ UNCHANGED <<live, shutdown, cleanup, postFence, transFence>>
  <2>1. PICK b \in BOOLEAN : b = (live /\ WorkerRuns /\ ~status.terminal)
    OBVIOUS
  <2>2. call' = [stage |-> "preflight", reuse |-> b]
    BY <1>3, <2>1
  <2>3. call' \in Call /\ call'.stage = "preflight"
    BY <2>2, Calls
  <2>4. Kept'
    BY <1>1, <1>3, EvidenceKept DEF evidence
  <2>5. TypeOK'
    BY <1>1, <1>3, <2>3 DEF Inv, TypeOK
  <2>6. call.stage = "idle"
    BY <1>1, Calls
  <2>7. Staged' /\ Produced'
    BY <1>1, <1>3, <2>3, <2>6 DEF Inv, Staged, Produced, WorkerRuns
  <2> QED  BY <2>3, <2>4, <2>5, <2>7, NoFrameInHand
<1> QED
  BY <1>2, <1>3 DEF StartLiveObservation

\* A stream that cannot be used again is replaced.
LEMMA ReplaceInv ==
    ASSUME Inv, ReplaceExisting
    PROVE  Inv'
<1>1. /\ call.stage = "preflight"
      /\ UNCHANGED <<streams, worker, status, interrupted, active, observation, boundary>>
  BY DEF ReplaceExisting
<1>2. CASE live
  <2>1. active' \in BOOLEAN /\ boundary' \in Nat
    BY <1>1 DEF Inv, TypeOK
  <2>2. TakeLive("start") /\ ClearFences
    BY <1>2 DEF ReplaceExisting
  <2> QED  BY <1>1, <2>1, <2>2, Taken
<1>3. CASE ~ live
  <2>1. /\ call' = [stage |-> "starting"]
        /\ UNCHANGED <<live, shutdown, cleanup, postFence, transFence>>
    BY <1>3 DEF ReplaceExisting
  <2>2. call' \in Call /\ call'.stage = "starting"
    BY <2>1, Calls
  <2>3. Kept'
    BY <1>1, <2>1, EvidenceKept DEF evidence
  <2>4. TypeOK'
    BY <1>1, <2>1, <2>2 DEF Inv, TypeOK
  <2>5. Staged' /\ Produced'
    BY <1>1, <1>3, <2>1, <2>2 DEF Inv, Staged, Produced, WorkerRuns
  <2> QED  BY <2>2, <2>3, <2>4, <2>5, NoFrameInHand
<1> QED
  BY <1>2, <1>3

\* The look at the target fails, an action ends, a snapshot fails with a closed
\* gate: the call ends and the boundary is drawn.
LEMMA InvalidatesInv ==
    ASSUME Inv, InvalidateActionObservations, call' = Idle, call.stage # "first_frame",
           UNCHANGED <<streams, channel, interrupted, active, live, cleanup>>
    PROVE  Inv'
<1>1. UNCHANGED <<worker, shutdown, status>>
  BY DEF channel
<1>2. call' \in Call /\ call'.stage = "idle"
  BY Calls
<1>3. /\ Kept' /\ observation' \in Observation /\ postFence' \in Fence /\ transFence' \in Fence
      /\ boundary' \in Nat
  BY <1>1, BoundaryDrawn
<1>4. TypeOK'
  BY <1>1, <1>2, <1>3 DEF Inv, TypeOK
<1>5. Staged' /\ Produced'
  BY <1>1, <1>2 DEF Inv, Staged, Produced, WorkerRuns
<1> QED
  BY <1>2, <1>3, <1>4, <1>5, NoFrameInHand

\* The new stream: no fence is of its number yet.
LEMMA SpawnInv ==
    ASSUME Inv, Spawn
    PROVE  Inv'
<1>1. /\ call.stage = "starting" /\ call' = [stage |-> "first_frame"]
      /\ observation' = NoObservation /\ postFence' = NoFence /\ boundary' = boundary + 1
      /\ transFence' = IF LatestFence # NoFence THEN LatestFence ELSE transFence
      /\ streams' = streams + 1 /\ worker' = "loop" /\ shutdown' = FALSE /\ status' = Fresh
      /\ UNCHANGED <<interrupted, active, live, cleanup>>
  BY DEF Spawn, InvalidateActionObservations
<1>2. call' \in Call /\ call'.stage = "first_frame"
  BY <1>1, Calls
<1>3. Fresh \in Status /\ Fresh.latest = NoFrame
  BY DEF Fresh, Status, NoFrame, Frame
<1>4. /\ NoFence \in Fence /\ NoFence.stream = 0 /\ LatestFence \in Fence
      /\ LatestFence.stream <= streams
  <2>1. streams \in Nat /\ NoFence.stream = 0 /\ NoFence \in Fence /\ LatestFence \in Fence
    BY Fences DEF Inv, TypeOK
  <2>2. LatestFence.stream \in {0, streams}
    BY <2>1, Fences DEF Inv
  <2> QED  BY <2>1, <2>2
<1>5. /\ streams \in Nat /\ boundary \in Nat /\ transFence \in Fence /\ transFence.stream <= streams
      /\ transFence.stream \in Nat /\ LatestFence.stream \in Nat
  BY <1>4 DEF Inv, TypeOK, Behind, Reached, Fence
<1>6. TypeOK'
  <2>1. streams' \in Nat /\ boundary' \in Nat
    BY <1>1, <1>5
  <2>2. transFence' \in Fence /\ postFence' \in Fence /\ observation' \in Observation
    BY <1>1, <1>4, <1>5 DEF Observation
  <2> QED  BY <1>1, <1>2, <1>3, <2>1, <2>2 DEF Inv, TypeOK
<1>7. ~ live /\ cleanup = "clean"
  BY <1>1 DEF Inv, Staged
<1>8. Staged' /\ Produced' /\ Fenced'
  BY <1>1, <1>2, <1>7 DEF Staged, Produced, Fenced
<1>9. First' /\ Resumed' /\ Encoded'
  BY <1>1, <1>2, <1>3 DEF First, Resumed, Encoded
<1>10. Behind'
  <2>1. DecisionFence' = NoFence
    BY <1>1 DEF DecisionFence, NoObservation
  <2>2. transFence'.stream <= streams /\ transFence'.stream \in Nat
    BY <1>1, <1>4, <1>5
  <2>3. Reached(transFence)' /\ Reached(NoFence)'
    BY <1>1, <1>4, <1>5, <2>2 DEF Reached
  <2> QED  BY <1>1, <2>1, <2>3 DEF Behind
<1> QED
  BY <1>6, <1>8, <1>9, <1>10 DEF Inv

\* The session takes the new stream with its first frame.
LEMMA FirstFrameInv ==
    ASSUME Inv, FirstFrame
    PROVE  Inv'
<1>1. /\ call.stage = "first_frame" /\ ~ status.terminal /\ status.latest # NoFrame
      /\ live' = TRUE /\ call' = Idle
      /\ UNCHANGED <<streams, worker, shutdown, status, interrupted, active, cleanup>>
      /\ UNCHANGED <<observation, postFence, transFence, boundary>>
  BY DEF FirstFrame, channel, evidence
<1>2. call' \in Call /\ call'.stage = "idle"
  BY <1>1, Calls
<1>3. TypeOK'
  BY <1>1, <1>2 DEF Inv, TypeOK
<1>4. Staged' /\ Produced'
  BY <1>1, <1>2 DEF Staged, Produced
<1>5. Behind'
  <2>1. DecisionFence' = DecisionFence
    BY <1>1 DEF DecisionFence
  <2> QED  BY <1>1, <2>1 DEF Inv, Behind, Reached
<1>6. Fenced' /\ Resumed'
  BY <1>1 DEF Inv, First, Fenced, Resumed
<1> QED
  BY <1>2, <1>3, <1>4, <1>5, <1>6, NoFrameInHand DEF Kept

\* The start is given up with its stream.
LEMMA StartFailsInv ==
    ASSUME Inv, StartFails
    PROVE  Inv'
<1>1. /\ worker' = "ended" /\ shutdown' = TRUE /\ call' = Idle
      /\ UNCHANGED <<streams, status, interrupted, active, live, evidence, cleanup>>
      /\ UNCHANGED <<observation, postFence, transFence, boundary>>
  BY DEF StartFails, evidence
<1>2. call' \in Call /\ call'.stage = "idle"
  BY <1>1, Calls
<1>3. Kept'
  BY <1>1, EvidenceKept
<1>4. TypeOK'
  BY <1>1, <1>2 DEF Inv, TypeOK
<1>5. Staged' /\ Produced'
  BY <1>1, <1>2 DEF Staged, Produced, WorkerRuns
<1> QED
  BY <1>2, <1>3, <1>4, <1>5, NoFrameInHand

\* A snapshot begins: the fence of a transition moves up, or a new one is drawn.
LEMMA SnapshotBeginInv ==
    ASSUME Inv, SnapshotBegin
    PROVE  Inv'
<1>1. /\ live /\ call' = [stage |-> "waiting"] /\ call = Idle
      /\ Rebaseline \/ InvalidateActionObservations
      /\ UNCHANGED <<streams, worker, shutdown, status, interrupted, active, live, cleanup>>
  BY DEF SnapshotBegin, Served, channel
<1>2. call' \in Call /\ call'.stage = "waiting" /\ call.stage = "idle"
  BY <1>1, Calls
<1>3. /\ Kept' /\ observation' \in Observation /\ postFence' \in Fence /\ transFence' \in Fence
      /\ boundary' \in Nat
  <2>1. CASE InvalidateActionObservations
    BY <1>1, <2>1, BoundaryDrawn
  <2>2. CASE Rebaseline
    <3>1. /\ UNCHANGED <<observation, postFence, boundary>>
          /\ transFence' = transFence \/ (transFence' = LatestFence /\ LatestFence # NoFence)
      BY <2>2 DEF Rebaseline
    <3>2. CASE transFence' = transFence
      BY <1>1, <3>1, <3>2, EvidenceKept DEF evidence, Inv, TypeOK
    <3>3. CASE transFence' = LatestFence /\ LatestFence # NoFence
      <4>1. PICK l \in Fence : l = LatestFence /\ l.stream = streams
                               /\ l.sequence = status.latest.sequence
        <5>1. live /\ status.latest # NoFrame
          BY <3>3 DEF LatestFence
        <5> QED  BY <5>1, Fences DEF Inv
      <4>2. transFence' = l /\ streams \in Nat /\ status.latest.sequence \in Nat
        BY <3>3, <4>1 DEF Inv, TypeOK, Status, Frame
      <4>3. DecisionFence' = DecisionFence
        BY <3>1 DEF DecisionFence
      <4>4. Behind'
        BY <1>1, <3>1, <4>1, <4>2, <4>3 DEF Inv, Behind, Reached
      <4>5. Fenced'
        BY <1>1, <3>1, <4>1, <4>2 DEF Inv, Fenced, SequenceFor
      <4>6. Resumed'
        BY <1>1 DEF Inv, Resumed
      <4> QED  BY <3>1, <4>2, <4>4, <4>5, <4>6 DEF Kept, Inv, TypeOK
    <3> QED  BY <3>1, <3>2, <3>3
  <2> QED  BY <1>1, <2>1, <2>2
<1>4. TypeOK'
  BY <1>1, <1>2, <1>3 DEF Inv, TypeOK
<1>5. Staged' /\ Produced'
  BY <1>1, <1>2 DEF Staged, Produced
<1> QED
  BY <1>2, <1>3, <1>4, <1>5, NoFrameInHand

\* latest_after: a frame beyond every fence is of the present boundary.
LEMMA SnapshotFrameInv ==
    ASSUME Inv, SnapshotFrame
    PROVE  Inv'
<1>1. /\ call.stage = "waiting" /\ ~ status.terminal /\ ~ status.paused
      /\ status.latest.sequence > ObservationSequenceFence
      /\ call' = [stage |-> "encoding", frame |-> status.latest]
      /\ UNCHANGED <<streams, worker, shutdown, status, interrupted, active, live, evidence, cleanup>>
      /\ UNCHANGED <<observation, postFence, transFence, boundary>>
  BY DEF SnapshotFrame, channel, evidence
<1>2. PICK f \in Frame : f = status.latest
  BY DEF Inv, TypeOK, Status
<1>3. call' \in Call /\ call'.stage = "encoding" /\ call'.frame = f
  BY <1>1, <1>2, Calls
<1>4. live
  BY <1>1 DEF Inv, Staged
<1>5. /\ f.sequence > SequenceFor(postFence) /\ f.sequence > SequenceFor(transFence)
      /\ f.sequence > 0
  <2>1. PICK d \in Fence : d = DecisionFence
    BY Fences DEF Inv
  <2>2. /\ SequenceFor(postFence) \in Nat /\ SequenceFor(transFence) \in Nat /\ SequenceFor(d) \in Nat
    BY DEF SequenceFor, Inv, TypeOK, Fence
  <2>3. f.sequence \in Nat
    BY DEF Frame
  <2>4. f.sequence > Max(Max(SequenceFor(d), SequenceFor(postFence)), SequenceFor(transFence))
    BY <1>1, <1>2, <2>1 DEF ObservationSequenceFence
  <2> QED  BY <2>2, <2>3, <2>4 DEF Max
<1>6. f # NoFrame /\ f.since = boundary
  <2>1. f # NoFrame
    BY <1>5 DEF NoFrame
  <2>2. /\ SequenceFor(postFence) \in Nat /\ SequenceFor(transFence) \in Nat /\ f.sequence \in Nat
    BY DEF SequenceFor, Inv, TypeOK, Fence, Frame
  <2> QED  BY <1>1, <1>2, <1>4, <1>5, <2>1, <2>2 DEF Inv, Fenced
<1>7. f.pauses = status.pauses
  BY <1>1, <1>2, <1>6 DEF Inv, Resumed
<1>8. Kept'
  BY <1>1, EvidenceKept
<1>9. TypeOK'
  BY <1>1, <1>3 DEF Inv, TypeOK
<1>10. Staged' /\ Produced' /\ First'
  BY <1>1, <1>3, <1>4 DEF Staged, Produced, First
<1>11. Encoded'
  <2>1. f.sequence <= f.sequence
    BY DEF Frame
  <2> QED  BY <1>1, <1>2, <1>3, <1>6, <1>7, <2>1 DEF Encoded
<1> QED
  BY <1>8, <1>9, <1>10, <1>11 DEF Inv, Kept

\* What is published: a frame of the present boundary, behind the last pause.
LEMMA PublishedFrame ==
    ASSUME Inv, SnapshotPublish
    PROVE  /\ call.frame \in Frame /\ call.frame.since = boundary
           /\ ~ status.terminal /\ ~ status.paused /\ status.latest.since = boundary
           /\ call.frame.sequence <= status.latest.sequence
           /\ call.frame.pauses = status.pauses
<1>1. call.stage = "encoding" /\ Eligible(call.frame)
  BY DEF SnapshotPublish
<1>2. call.frame \in Frame /\ call.frame.sequence \in Nat /\ status.pauseFence \in Nat
  BY <1>1, CallParts DEF Inv, TypeOK, Frame, Status
<1> QED
  BY <1>1, <1>2 DEF Inv, Encoded, Eligible

\* The frame becomes the observation, and the fences are not needed any more.
LEMMA SnapshotPublishInv ==
    ASSUME Inv, SnapshotPublish
    PROVE  Inv'
<1>1. /\ call' = Idle /\ observation' = [kind |-> "live", stream |-> streams, frame |-> call.frame]
      /\ postFence' = NoFence /\ transFence' = NoFence /\ call.stage = "encoding"
      /\ UNCHANGED <<streams, worker, shutdown, status, interrupted, active, live, boundary, cleanup>>
  BY DEF SnapshotPublish, ClearFences, channel
<1>2. PICK f \in Frame : /\ f = call.frame /\ status.latest.since = boundary /\ ~ status.terminal
                         /\ f.sequence <= status.latest.sequence
  BY PublishedFrame
<1>3. observation' = [kind |-> "live", stream |-> streams, frame |-> f]
  BY <1>1, <1>2
<1>4. observation' \in Observation /\ DecisionFence' = [stream |-> streams, sequence |-> f.sequence]
  <2>1. streams \in Nat
    BY DEF Inv, TypeOK
  <2>2. observation' \in Observation
    BY <1>3, <2>1 DEF Observation
  <2> QED  BY <1>3, <2>2 DEF DecisionFence
<1>5. call' \in Call /\ call'.stage = "idle"
  BY <1>1, Calls
<1>6. /\ NoFence \in Fence /\ NoFence.stream = 0 /\ NoFence.sequence = 0 /\ streams \in Nat
      /\ status.latest.sequence \in Nat
  BY Fences DEF Inv, TypeOK, Status, Frame
<1>7. TypeOK'
  BY <1>1, <1>4, <1>5, <1>6 DEF Inv, TypeOK
<1>8. live
  BY <1>1 DEF Inv, Staged
<1>9. Staged' /\ Produced'
  BY <1>1, <1>5, <1>8 DEF Staged, Produced
<1>10. Behind'
  <2>1. PICK d : d = [stream |-> streams, sequence |-> f.sequence]
    OBVIOUS
  <2>2. Reached(d)' /\ Reached(NoFence)'
    BY <1>1, <1>2, <1>6, <2>1 DEF Reached
  <2> QED  BY <1>1, <1>4, <2>1, <2>2 DEF Behind, Reached
<1>11. Fenced' /\ Resumed'
  BY <1>1, <1>2 DEF Inv, Fenced, Resumed
<1> QED
  BY <1>5, <1>7, <1>9, <1>10, <1>11, NoFrameInHand DEF Kept

\* Pixels or semantics are taken beside the stream.
LEMMA DirectInv ==
    ASSUME Inv, DirectObservation
    PROVE  Inv'
<1>1. /\ observation' = Direct /\ call = Idle
      /\ UNCHANGED <<streams, worker, shutdown, status, interrupted, active, live, postFence,
                     transFence, boundary, cleanup, call>>
  BY DEF DirectObservation, Served, channel
<1>2. call.stage = "idle"
  BY <1>1, Calls
<1>3. DecisionFence' = NoFence
  BY <1>1 DEF DecisionFence, Direct
<1>4. NoFence.stream = 0 /\ NoFence.sequence = 0 /\ streams \in Nat /\ status.latest.sequence \in Nat
  BY Fences DEF Inv, TypeOK, Status, Frame
<1>5. TypeOK'
  BY <1>1 DEF Inv, TypeOK, Observation
<1>6. Staged' /\ Produced'
  BY <1>1 DEF Inv, Staged, Produced, WorkerRuns
<1>7. Behind'
  <2>1. Reached(NoFence)'
    BY <1>1, <1>4 DEF Reached
  <2> QED  BY <1>1, <1>3, <2>1 DEF Inv, Behind, Reached
<1>8. Fenced' /\ Resumed'
  BY <1>1 DEF Inv, Fenced, Resumed, SequenceFor
<1> QED
  BY <1>1, <1>2, <1>5, <1>6, <1>7, <1>8, NoFrameInHand DEF Kept

\* complete_action: the fence of the action is the latest frame.
LEMMA CompletesInv ==
    ASSUME Inv, call.stage = "acting", call' = Idle, CompleteAction,
           observation' \in {observation, NoObservation}, transFence' \in {transFence, LatestFence},
           UNCHANGED <<streams, channel, interrupted, active, live, cleanup>>
    PROVE  Inv'
<1>1. /\ UNCHANGED <<worker, shutdown, status>>
      /\ postFence' = LatestFence /\ boundary' = boundary + 1
  BY DEF CompleteAction, channel
<1>2. call' \in Call /\ call'.stage = "idle"
  BY Calls
<1>3. PICK l \in Fence :
        /\ l = LatestFence
        /\ l = NoFence \/ l = [stream |-> streams, sequence |-> status.latest.sequence]
        /\ live /\ status.latest # NoFrame => l.stream = streams /\ l.sequence = status.latest.sequence
  BY Fences DEF Inv
<1>4. /\ NoFence \in Fence /\ NoFence.stream = 0 /\ NoFence.sequence = 0 /\ streams \in Nat
      /\ status.latest.sequence \in Nat /\ boundary \in Nat
  BY Fences DEF Inv, TypeOK, Status, Frame
<1>5. TypeOK'
  <2>1. boundary' \in Nat
    BY <1>1, <1>4
  <2>2. postFence' \in Fence /\ transFence' \in Fence /\ observation' \in Observation
    BY <1>1, <1>3 DEF Inv, TypeOK, Observation
  <2> QED  BY <1>1, <1>2, <2>1, <2>2 DEF Inv, TypeOK
<1>6. Staged' /\ Produced'
  BY <1>1, <1>2 DEF Inv, Staged, Produced, WorkerRuns
<1>7. Behind'
  <2>1. PICK d : d = DecisionFence /\ Reached(d)
    BY DEF Inv, Behind
  <2>2. PICK t : t = transFence /\ Reached(t)
    BY DEF Inv, Behind
  <2>3. Reached(l) /\ Reached(NoFence)
    BY <1>3, <1>4 DEF Reached
  <2>4. Reached(d)' /\ Reached(t)' /\ Reached(l)' /\ Reached(NoFence)'
    BY <1>1, <2>1, <2>2, <2>3 DEF Reached
  <2>5. PICK e : e = DecisionFence' /\ e \in {d, NoFence}
    BY <2>1 DEF DecisionFence, NoObservation
  <2>6. PICK u : u = transFence' /\ u \in {t, l}
    BY <1>3, <2>2
  <2>7. Reached(e)' /\ Reached(u)'
    BY <2>4, <2>5, <2>6
  <2> QED  BY <1>1, <1>3, <2>4, <2>5, <2>6, <2>7 DEF Behind, Reached
<1>8. Fenced' /\ Resumed'
  BY <1>1, <1>3, <1>4 DEF Inv, Fenced, Resumed, SequenceFor
<1> QED
  BY <1>2, <1>5, <1>6, <1>7, <1>8, NoFrameInHand DEF Kept

\* The other ends of a call.
LEMMA EndsInv ==
    ASSUME Inv, \/ PreflightFails \/ SnapshotFails \/ ActDeclined \/ ActCompletes \/ ActInvalidates
    PROVE  Inv'
<1>1. CASE PreflightFails \/ ActInvalidates
  BY <1>1, InvalidatesInv DEF PreflightFails, ActInvalidates
<1>2. CASE SnapshotFails
  <2>1. /\ call.stage \in {"waiting", "encoding"} /\ call' = Idle
        /\ UNCHANGED <<streams, channel, interrupted, active, live, cleanup>>
        /\ InvalidateActionObservations \/ UNCHANGED evidence
    BY <1>2 DEF SnapshotFails
  <2>2. CASE InvalidateActionObservations
    BY <2>1, <2>2, InvalidatesInv
  <2>3. CASE UNCHANGED evidence
    <3>1. call' \in Call /\ call'.stage = "idle" /\ interrupted' \in BOOLEAN /\ active' \in BOOLEAN
      BY <2>1, Calls DEF Inv, TypeOK
    <3> QED  BY <2>1, <2>3, <3>1, CallMoves
  <2> QED  BY <2>1, <2>2, <2>3
<1>3. CASE ActDeclined
  BY <1>3, CompletesInv DEF ActDeclined
<1>4. CASE ActCompletes
  BY <1>4, CompletesInv DEF ActCompletes
<1> QED
  BY <1>1, <1>2, <1>3, <1>4

-----------------------------------------------------------------------------
(***************************************************************************)
(* The invariant.                                                          *)
(***************************************************************************)
\* A session begins without stream, fence or observation.
LEMMA InitInv == Init => Inv
<1> SUFFICES ASSUME Init PROVE Inv
  OBVIOUS
<1> USE DEF Init
<1>1. NoFrame \in Frame /\ NoFence \in Fence /\ Fresh \in Status
  BY DEF NoFrame, Frame, NoFence, Fence, Fresh, Status
<1>2. TypeOK
  BY <1>1, Calls DEF TypeOK, Observation, Cleanup
<1>3. call.stage = "idle" /\ ~ WorkerRuns
  BY Calls DEF WorkerRuns
<1>4. Staged /\ Produced /\ Fenced /\ First /\ Encoded
  BY <1>3 DEF Staged, Produced, Fenced, First, Encoded
<1>5. status.latest = NoFrame
  BY DEF Fresh
<1>6. Resumed
  BY <1>5 DEF Resumed
<1>7. DecisionFence = NoFence
  BY DEF DecisionFence, NoObservation
<1>8. NoFence.stream = 0 /\ NoFence.sequence = 0 /\ status.latest.sequence = 0
  BY <1>5 DEF NoFence, NoFrame
<1>9. Reached(NoFence)
  BY <1>8 DEF Reached
<1>10. Behind
  BY <1>7, <1>9 DEF Behind
<1> QED
  BY <1>2, <1>4, <1>6, <1>10 DEF Inv

\* Every step of the session and of its worker keeps the invariant.
LEMMA NextInv == Inv /\ [Next]_vars => Inv'
<1> SUFFICES ASSUME Inv, [Next]_vars PROVE Inv'
  OBVIOUS
<1>1. CASE UNCHANGED vars
  <2>1. /\ UNCHANGED <<shutdown, status, session>>
        /\ UNCHANGED worker
    BY <1>1 DEF vars, channel, session
  <2>2. worker' \in {"loop", "capturing", "ended", "failed"} /\ (WorkerRuns' => WorkerRuns)
    BY <2>1 DEF Inv, TypeOK, WorkerRuns
  <2> QED  BY <2>1, <2>2, QuietWorker
<1>2. CASE SessionSteps
  BY <1>2, JoinInv, CallOnlyInv, ReplaceInv, SpawnInv, FirstFrameInv, StartFailsInv,
     SnapshotFrameInv, SnapshotPublishInv, EndsInv DEF SessionSteps
<1>3. CASE WorkerNext
  BY <1>3, WorkerInv
<1>4. CASE Interrupt \/ StopLiveObservation \/ InvalidateLocalSession \/ ResumeSession
           \/ StartLiveObservation \/ SnapshotBegin \/ DirectObservation \/ ActBegin \/ AbandonJoin
  BY <1>4, InterruptInv, StopsInv, CallOnlyInv, StartInv, SnapshotBeginInv, DirectInv
<1> QED
  BY <1>1, <1>2, <1>3, <1>4 DEF Next

\* The fences, the frames and the workers of a session always fit together.
THEOREM ObservationInvariant == Spec => []Inv
  BY InitInv, NextInv, PTL DEF Spec

\* No fence of a running stream is ahead of it.
LEMMA FencesReachable == Inv => FenceReachable
<1> SUFFICES ASSUME Inv, live, ~ status.terminal
             PROVE  ObservationSequenceFence <= status.latest.sequence
  BY DEF FenceReachable
<1>1. status.latest.sequence \in Nat
  BY DEF Inv, TypeOK, Status, Frame
<1>2. ASSUME NEW f \in Fence, Reached(f)
      PROVE  SequenceFor(f) \in Nat /\ SequenceFor(f) <= status.latest.sequence
  BY <1>1, <1>2 DEF Reached, SequenceFor, Fence
<1>3. postFence \in Fence /\ transFence \in Fence /\ DecisionFence \in Fence
  BY Fences DEF Inv, TypeOK
<1>4. Reached(postFence) /\ Reached(transFence) /\ Reached(DecisionFence)
  BY DEF Inv, Behind
<1> QED
  BY <1>1, <1>2, <1>3, <1>4 DEF ObservationSequenceFence, Max

-----------------------------------------------------------------------------
(***************************************************************************)
(* What a step may never do.                                               *)
(***************************************************************************)
\* Only the end of a snapshot makes a frame the observation.
LEMMA OnlySnapshotsShowFrames ==
    ASSUME [Next]_vars, observation' # observation, observation'.kind = "live"
    PROVE  SnapshotPublish
<1>1. observation' \notin {NoObservation, Direct, observation}
  BY DEF NoObservation, Direct
<1>2. ASSUME InvalidateActionObservations PROVE FALSE
  BY <1>1, <1>2 DEF InvalidateActionObservations
<1>3. ~ UNCHANGED vars /\ ~ UNCHANGED evidence /\ ~ UNCHANGED session
  BY <1>1 DEF vars, evidence, session
<1>4. ~ WorkerNext
  BY <1>3 DEF WorkerNext, WorkerCheck, WorkerPublish, WorkerLeaves, WorkerPauses, WorkerRetries,
             WorkerTerminal, WorkerFails
<1>5. ~ Interrupt /\ ~ StopLiveObservation /\ ~ InvalidateLocalSession /\ ~ ResumeSession
      /\ ~ StartLiveObservation /\ ~ ActBegin /\ ~ AbandonJoin /\ ~ DirectObservation
  BY <1>1, <1>3 DEF Interrupt, StopLiveObservation, InvalidateLocalSession, ResumeSession,
             StartLiveObservation, ActBegin, AbandonJoin, DirectObservation
<1>6. ~ SnapshotBegin
  BY <1>1, <1>2 DEF SnapshotBegin, Rebaseline
<1>7. ~ Join /\ ~ ReuseExisting /\ ~ ReplaceExisting /\ ~ FirstFrame /\ ~ StartFails /\ ~ SnapshotFrame
  BY <1>1, <1>3 DEF Join, ReuseExisting, ReplaceExisting, FirstFrame, StartFails, SnapshotFrame
<1>8. ~ PreflightFails /\ ~ Spawn /\ ~ SnapshotFails /\ ~ ActInvalidates
  BY <1>2, <1>3 DEF PreflightFails, Spawn, SnapshotFails, ActInvalidates
<1>9. ~ ActDeclined /\ ~ ActCompletes
  BY <1>1 DEF ActDeclined, ActCompletes
<1> QED
  BY <1>3, <1>4, <1>5, <1>6, <1>7, <1>8, <1>9 DEF Next, SessionSteps

\* Only the replacement of a stream starts one, and nothing captures by then.
LEMMA OnlySpawnStarts ==
    ASSUME Inv, [Next]_vars, streams' # streams
    PROVE  ~ WorkerRuns
<1>1. ~ UNCHANGED vars /\ ~ UNCHANGED session
  BY DEF vars, session
<1>2. ~ WorkerNext
  BY <1>1 DEF WorkerNext, WorkerCheck, WorkerPublish, WorkerLeaves, WorkerPauses, WorkerRetries,
             WorkerTerminal, WorkerFails
<1>3. ~ Interrupt /\ ~ StopLiveObservation /\ ~ InvalidateLocalSession /\ ~ ResumeSession
      /\ ~ StartLiveObservation /\ ~ ActBegin /\ ~ AbandonJoin /\ ~ DirectObservation /\ ~ SnapshotBegin
  BY DEF Interrupt, StopLiveObservation, InvalidateLocalSession, ResumeSession,
         StartLiveObservation, ActBegin, AbandonJoin, DirectObservation, SnapshotBegin
<1>4. Spawn
  BY <1>1, <1>2, <1>3 DEF Next, SessionSteps, Join, PreflightFails, ReuseExisting, ReplaceExisting,
         FirstFrame, StartFails, SnapshotFails, SnapshotFrame, SnapshotPublish, ActDeclined,
         ActCompletes, ActInvalidates
<1>5. call.stage = "starting" /\ ~ live /\ cleanup = "clean"
  BY <1>4 DEF Spawn, Inv, Staged
<1> QED
  BY <1>5 DEF Inv, Produced

\* The frame of an observation is published behind every boundary: an action, an
\* invalidation, a renewal or a replacement keeps out every frame before it, and
\* never the next one.
THEOREM FramesFencedHolds == Spec => FramesFenced
<1>1. Inv => TypeOK /\ FenceReachable
  BY FencesReachable DEF Inv
<1>2. Inv /\ [Next]_vars =>
        [observation' # observation /\ observation'.kind = "live"
            => observation'.frame.since = boundary]_vars
  <2> SUFFICES ASSUME Inv, [Next]_vars, observation' # observation, observation'.kind = "live"
               PROVE  observation'.frame.since = boundary
    OBVIOUS
  <2>1. SnapshotPublish
    BY OnlySnapshotsShowFrames
  <2>2. observation'.frame = call.frame
    BY <2>1 DEF SnapshotPublish
  <2> QED  BY <2>1, <2>2, PublishedFrame
<1> QED
  BY <1>1, <1>2, ObservationInvariant, PTL DEF Spec, FramesFenced, FrameAfterBoundary

\* Nothing of a paused or replaced stream reaches the session: a pause revokes
\* the frames before it, and no stream starts beside the worker of another.
THEOREM StreamsDoNotMixHolds == Spec => StreamsDoNotMix
<1>1. Inv /\ [Next]_vars =>
        [observation' # observation /\ observation'.kind = "live"
            => ~ status.paused /\ observation'.frame.pauses = status.pauses]_vars
  <2> SUFFICES ASSUME Inv, [Next]_vars, observation' # observation, observation'.kind = "live"
               PROVE  ~ status.paused /\ observation'.frame.pauses = status.pauses
    OBVIOUS
  <2>1. SnapshotPublish
    BY OnlySnapshotsShowFrames
  <2>2. observation'.frame = call.frame
    BY <2>1 DEF SnapshotPublish
  <2> QED  BY <2>1, <2>2, PublishedFrame
<1>2. Inv /\ [Next]_vars => [streams' # streams => ~ WorkerRuns]_vars
  BY OnlySpawnStarts
<1> QED
  BY <1>1, <1>2, ObservationInvariant, PTL DEF Spec, StreamsDoNotMix, PauseRevokes, OneProducer

=============================================================================
