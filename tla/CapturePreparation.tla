------------------------- MODULE CapturePreparation -------------------------
(***************************************************************************)
(* Temporary capture preparation: a window is raised to the topmost tier   *)
(* for passive pixels and must be put back.  The session (client) starts   *)
(* an independent supervisor process (child) per preparation; the main     *)
(* loop of the child supervises, and one worker thread does every window   *)
(* read and write and every journal record.  A preparation is stopped,     *)
(* expires or loses its parent while a window call is outstanding; the     *)
(* supervisor can be killed at any step, after which only the journal of   *)
(* the target and the abandoned gate mutex are left.                       *)
(*                                                                         *)
(* Preparations of one target, numbered in the order they are begun.       *)
(* One affected window (allowed_affected_scope is empty in every request   *)
(* of the session).  Names, nonces and handles are left out; so is the     *)
(* 500 ms pause between two probes.                                        *)
(***************************************************************************)
EXTENDS Integers, Sequences

CONSTANTS MaxPreparations,   \* how many preparations are begun
          MaxTime,           \* where the clock of the model stops
          Lifetimes,         \* the requested lifetimes (lifetime_ms)
          LeaseEnd,          \* the deadline of the task lease
          MaxFaults          \* failing calls, killed processes, user steps

ASSUME BoundsAssumption ==
    /\ MaxPreparations \in Nat \ {0} /\ MaxTime \in Nat \ {0}
    /\ LeaseEnd \in 1 .. MaxTime /\ MaxFaults \in Nat
    /\ Lifetimes \subseteq Nat \ {0}

Preps == 1 .. MaxPreparations

VARIABLES
    now,        \* GetTickCount64
    faults,     \* how many faults are left
    win,        \* the target window: tier, place in the stack, geometry, and the
                \* windows next to that place, above and below, by identity
    gate,       \* the preparation that holds the target mutex, 0 for none
    index,      \* the target-....json file: 0 for none
    settled,    \* settled.json of each preparation
    client,     \* the CapturePreparationHandle of each preparation
    wire,       \* the query or reply between client and child
    child,      \* the supervisor process
    sup,        \* its Supervisor and PreparationState
    jobs,       \* supervisor -> worker
    work,       \* the worker
    returns,    \* worker -> supervisor
    mine,       \* what is in force of the preparation's own writes
    shot        \* the passive frame being captured

vars == <<now, faults, win, gate, index, settled, client, wire,
          child, sup, jobs, work, returns, mine, shot>>
environment == <<now, faults>>
process == <<child, sup, jobs, work, returns>>

(***************************************************************************)
(* The reducer (state.rs), over the status a client is shown and the       *)
(* private fields of the supervisor.                                       *)
(***************************************************************************)
NewStatus(d) == [phase |-> "PendingPromotion", deadline |-> d, pending |-> 1,
                 revoked |-> FALSE, cleanup |-> FALSE]

NewSupervisor(d) ==
    [st |-> NewStatus(d), returned |-> FALSE, init |-> FALSE, before |-> FALSE,
     flag |-> FALSE, probing |-> FALSE, expected |-> "none", settling |-> FALSE,
     told |-> FALSE, draining |-> FALSE, orig |-> <<>>]

EffectiveDeadline(lifetime) ==
    IF now + lifetime < LeaseEnd THEN now + lifetime ELSE LeaseEnd

StateRevoke(s) ==
    [s EXCEPT !.st.revoked = TRUE,
              !.st.phase = IF s.returned /\ s.st.pending = 0 /\ ~ s.st.cleanup
                           THEN "RestorePending" ELSE @]

StateUnknown(s) ==
    [s EXCEPT !.st.revoked = TRUE, !.st.cleanup = FALSE, !.st.phase = "CleanupUnknown"]

Expire(s) == IF now >= s.st.deadline THEN StateRevoke(s) ELSE s

\* Supervisor::revoke: the promotion is told at once, by a flag.
Revoke(s) == StateRevoke([s EXCEPT !.flag = TRUE, !.before = @ \/ ~ s.init])

GeometryMatches(old, seen) == old.geo = seen.geo

RestoredMatchesGeometry(old, seen) == GeometryMatches(old, seen)

\* The tier, the geometry and both neighbours, whoever has changed them.
RestoredMatches(old, seen) == old = seen

PromotionCompleted(s, receipt) ==
    LET exact == /\ receipt.read # <<>>
                 /\ GeometryMatches(s.orig[1], receipt.read[1])
                 /\ receipt.read[1].top
        r == Expire([(IF exact THEN s ELSE StateRevoke(s))
                        EXCEPT !.returned = TRUE, !.st.pending = 0])
        done == IF receipt.ok THEN r ELSE StateRevoke(r)
    IN  [done EXCEPT !.st.phase = IF done.st.revoked THEN "RestorePending" ELSE "Active"]

AwaitSettlement(s) ==
    [s EXCEPT !.expected = s.st.phase, !.settling = TRUE, !.st.cleanup = FALSE,
              !.st.phase = IF @ = "Restored" THEN "RestorePending" ELSE @]

\* Every restore has the number 2: later numbers only keep its records apart.
\* A state of the main loop: the supervisor and the jobs it has sent.
Send(x, job) == [x EXCEPT !.jobs = Append(@, job)]

BeginSettlement(x) ==
    Send([x EXCEPT !.s = AwaitSettlement(x.s)], [kind |-> "Settle", seq |-> 0])

SettleWithoutWrite(x) ==
    BeginSettlement([x EXCEPT !.s.st.revoked = TRUE, !.s.st.phase = "Refused",
                              !.s.st.cleanup = TRUE, !.s.st.pending = 0])

RestoreCompleted(x, receipt) ==
    LET verified == /\ receipt.ok /\ receipt.read # <<>>
                    /\ RestoredMatches(x.s.orig[1], receipt.read[1])
        back == [x EXCEPT !.s.st.pending = 0]
    IN  IF verified
        THEN BeginSettlement([back EXCEPT !.s.st.cleanup = TRUE, !.s.st.phase = "Restored"])
        ELSE [back EXCEPT !.s = StateUnknown(back.s)]

DispatchRestore(x) ==
    IF ~ x.s.returned \/ x.s.st.pending # 0 \/ x.s.st.cleanup \/ ~ x.s.st.revoked
    THEN x
    ELSE Send([x EXCEPT !.s.st.pending = 2, !.s.st.phase = "RestorePending"],
              [kind |-> "Restore", seq |-> 2])

PersistedSettlement(x) ==
    [x EXCEPT !.s.st.cleanup = TRUE, !.s.st.phase = x.s.expected,
              !.s.expected = "none", !.s.settling = FALSE]

(***************************************************************************)
(* Supervisor::tick: expiry, then every return of the worker in order (one *)
(* may come in while another is handled), then the next step towards the   *)
(* original state.                                                         *)
(***************************************************************************)
HandleReturn(x, m) ==
    CASE m.kind = "Initialized" ->
            IF ~ m.ok THEN SettleWithoutWrite([x EXCEPT !.s.init = TRUE])
            ELSE LET y == [x EXCEPT !.s.init = TRUE, !.s.orig = m.read]
                 IN  IF y.s.before THEN SettleWithoutWrite(y)
                     ELSE Send(y, [kind |-> "Promote", seq |-> 1])
      [] m.kind = "Promote" -> [x EXCEPT !.s = PromotionCompleted(x.s, m)]
      [] m.kind = "Restore" -> RestoreCompleted(x, m)
      [] m.kind = "Probed" ->
            LET y == [x EXCEPT !.s.probing = FALSE]
            IN  IF m.ok /\ GeometryMatches(y.s.orig[1], m.read[1])
                THEN DispatchRestore(y) ELSE y
      [] m.kind = "Panicked" -> [x EXCEPT !.s = StateUnknown(x.s)]
      [] m.kind = "Settled" ->
            IF m.ok THEN PersistedSettlement(x)
            ELSE [x EXCEPT !.s = StateUnknown([x.s EXCEPT !.settling = FALSE])]

NextStepNoProbe(x) ==
    IF ~ x.s.st.revoked \/ ~ x.s.init \/ x.s.st.cleanup \/ x.s.expected # "none" THEN x
    ELSE IF x.s.st.phase = "RestorePending" THEN DispatchRestore(x) ELSE x

NextStep(x) ==
    IF ~ x.s.st.revoked \/ ~ x.s.init \/ x.s.st.cleanup THEN x
    ELSE IF x.s.expected # "none"
    THEN IF x.s.settling THEN x
         ELSE Send([x EXCEPT !.s.settling = TRUE], [kind |-> "Settle", seq |-> 0])
    ELSE IF x.s.st.phase = "RestorePending" THEN DispatchRestore(x)
    ELSE IF x.s.st.pending = 0 /\ ~ x.s.probing
    THEN Send([x EXCEPT !.s.probing = TRUE], [kind |-> "Probe", seq |-> 0])
    ELSE x

\* Before the returns: a dead parent, the cancel event (it stays set) and expiry
\* revoke, and the worker's flag and the early revocation follow the status.
Sense(s, ended) ==
    LET e == Expire(IF ended THEN Revoke(s) ELSE s)
    IN  [e EXCEPT !.flag = @ \/ e.st.revoked,
                  !.before = @ \/ (~ e.init /\ e.st.revoked)]

(***************************************************************************)
(* The child process (run_child).                                          *)
(***************************************************************************)
Idle == [at |-> "idle", kind |-> "", calls |-> <<>>, ok |-> TRUE]

Fault == faults > 0 /\ faults' = faults - 1

ParentGone(p) == client[p].at \in {"none", "gone"}

JournalAdmitsIndexed == index \in 0 .. MaxPreparations

\* The cancel event stays set once a handle is stopped or dropped.
Cancelled(p) == client[p].revoked \/ ParentGone(p)

\* The child waits for its bootstrap message, checks it, takes the gate of the
\* target and reads what the last preparation of the target has left.
JournalAdmits == index = 0 \/ (index \in Preps /\ settled[index] = "ok")

ChildStart(p) ==
    /\ child[p] = "boot"
    /\ \/ /\ ParentGone(p) \/ now >= sup[p].st.deadline
          /\ child' = [child EXCEPT ![p] = "exited"]
          /\ UNCHANGED <<gate, index>>
       \/ /\ ~ ParentGone(p) /\ now < sup[p].st.deadline
          /\ IF gate # 0 \/ ~ JournalAdmits
             THEN /\ child' = [child EXCEPT ![p] = "refused"]
                  /\ UNCHANGED <<gate, index>>
             ELSE /\ child' = [child EXCEPT ![p] = "indexing"]
                  /\ gate' = p
                  /\ index' = 0
    /\ UNCHANGED <<environment, win, settled, client, wire, sup, jobs, work, returns, mine, shot>>

\* Journal::prepare, from the new epoch directory to the new index file.  A
\* failed write leaves a file nobody can read (index -1) or none.
ChildIndex(p) ==
    /\ child[p] = "indexing"
    /\ \/ /\ child' = [child EXCEPT ![p] = "running"]
          /\ index' = p
          /\ jobs' = [jobs EXCEPT ![p] = <<[kind |-> "Initialize", seq |-> 0]>>]
          /\ UNCHANGED <<gate, faults>>
       \/ /\ Fault
          /\ child' = [child EXCEPT ![p] = "refused"]
          /\ index' \in {0, -1}
          /\ gate' = 0
          /\ UNCHANGED jobs
    /\ UNCHANGED <<now, win, settled, client, wire, sup, work, returns, mine, shot>>

\* One turn of the loop of run_child: the revocations, tick, then the pending
\* query is answered.  The child ends once cleanup is verified and nobody is left
\* to tell, or the terminal reply has been written.
Exits(p, s) == \/ s.st.cleanup /\ ParentGone(p)
               \/ s.told

\* The private pipes carry whole messages; one query is outstanding at a time.
Put(p, at, st) == [wire EXCEPT ![p] = [at |-> at, st |-> st]]

\* The reply thread ends the child once it has written a terminal status.
Tells(p, s) == wire[p].at = "query" /\ s.st.cleanup

Ends(p, how) ==
    /\ child' = [child EXCEPT ![p] = how]
    /\ sup' = [sup EXCEPT ![p] = NewSupervisor(0)]
    /\ gate' = IF gate = p THEN 0 ELSE gate
    /\ jobs' = [jobs EXCEPT ![p] = <<>>]
    /\ returns' = [returns EXCEPT ![p] = <<>>]
    /\ work' = [work EXCEPT ![p] = Idle]

\* One pass of the loop of tick: at the beginning of a turn the child senses, then
\* the oldest return, if there is one, is handled.
Sensed(p) == IF sup[p].draining THEN sup[p] ELSE Sense(sup[p], Cancelled(p))

Received(p, x) == IF returns[p] = <<>> THEN x ELSE HandleReturn(x, Head(returns[p]))

\* More returns are waiting: tick stays in its loop.
ChildReceive(p) ==
    /\ child[p] = "running" /\ Len(returns[p]) > 1
    /\ \E s \in {Sensed(p)} : \E x \in {Received(p, [s |-> s, jobs |-> jobs[p]])} :
          /\ sup' = [sup EXCEPT ![p] = [x.s EXCEPT !.draining = TRUE]]
          /\ jobs' = [jobs EXCEPT ![p] = x.jobs]
    /\ returns' = [returns EXCEPT ![p] = Tail(@)]
    /\ UNCHANGED <<environment, win, gate, index, settled, client, wire, child, work, mine, shot>>

ChildTurn(p) ==
    /\ child[p] = "running" /\ Len(returns[p]) < 2
    /\ \E s \in {Sensed(p)} : \E r \in {Received(p, [s |-> s, jobs |-> jobs[p]])} :
       \E x \in {NextStep(r)} :
          IF Exits(p, x.s) THEN Ends(p, "exited") /\ UNCHANGED wire
          ELSE /\ sup' = [sup EXCEPT ![p] =
                    [x.s EXCEPT !.told = Tells(p, x.s), !.draining = FALSE]]
               /\ jobs' = [jobs EXCEPT ![p] = x.jobs]
               /\ returns' = [returns EXCEPT ![p] = <<>>]
               /\ wire' = IF wire[p].at = "query" THEN Put(p, "reply", x.s.st) ELSE wire
               /\ UNCHANGED <<child, gate, work>>
    /\ UNCHANGED <<environment, win, index, settled, client, mine, shot>>

\* A child whose Supervisor::start failed answers one query with the error.
ChildRefused(p) ==
    /\ child[p] = "refused"
    /\ ParentGone(p) \/ wire[p].at = "query"
    /\ child' = [child EXCEPT ![p] = "exited"]
    /\ wire' = IF wire[p].at = "query" THEN Put(p, "error", sup[p].st) ELSE wire
    /\ UNCHANGED <<environment, win, gate, index, settled, client, sup, jobs, work, returns, mine, shot>>

\* The supervisor process is ended from outside.  The mutex is abandoned, which
\* the next holder takes for free; the journal stays.
ChildKilled(p) ==
    /\ child[p] \in {"boot", "indexing", "running", "refused"}
    /\ Fault
    /\ Ends(p, "killed")
    /\ UNCHANGED <<now, win, index, settled, client, wire, mine, shot>>

(***************************************************************************)
(* The worker thread: jobs in order, one return each.                      *)
(***************************************************************************)
Orig(p) == sup[p].orig[1]

Return(p, m) == returns' = [returns EXCEPT ![p] = Append(@, m)]

\* The windows connected to the target by ownership, read between two
\* enumerations: here the target alone, with its tier, place and geometry.
ReadScope == <<win>>

\* Initialize, Probe and Settle.  Initialize reads the scope twice and records
\* it; a refused read or record is a fault.  Settle may fail with no file or
\* leave a torn one, which no later record can replace.
WorkerRead(p) ==
    /\ child[p] = "running" /\ jobs[p] # <<>> /\ work[p].at = "idle"
    /\ Head(jobs[p]).kind \in {"Initialize", "Probe"}
    /\ LET kind == IF Head(jobs[p]).kind = "Probe" THEN "Probed" ELSE "Initialized"
       IN  \/ /\ Return(p, [kind |-> kind, ok |-> TRUE, read |-> ReadScope, seq |-> 0])
              /\ UNCHANGED faults
           \/ /\ Fault
              /\ Return(p, [kind |-> kind, ok |-> FALSE, read |-> <<>>, seq |-> 0])
    /\ jobs' = [jobs EXCEPT ![p] = Tail(@)]
    /\ UNCHANGED <<now, win, gate, index, settled, client, wire, child, sup, work, mine, shot>>

WorkerSettle(p) ==
    /\ child[p] = "running" /\ jobs[p] # <<>> /\ work[p].at = "idle"
    /\ Head(jobs[p]).kind = "Settle"
    /\ \/ /\ settled[p] # "torn"
          /\ settled' = [settled EXCEPT ![p] = "ok"]
          /\ Return(p, [kind |-> "Settled", ok |-> TRUE, read |-> <<>>, seq |-> 0])
          /\ UNCHANGED faults
       \/ /\ settled[p] = "torn"
          /\ Return(p, [kind |-> "Settled", ok |-> FALSE, read |-> <<>>, seq |-> 0])
          /\ UNCHANGED <<settled, faults>>
       \/ /\ Fault /\ settled[p] = "none"
          /\ settled' \in {settled, [settled EXCEPT ![p] = "torn"]}
          /\ Return(p, [kind |-> "Settled", ok |-> FALSE, read |-> <<>>, seq |-> 0])
    /\ jobs' = [jobs EXCEPT ![p] = Tail(@)]
    /\ UNCHANGED <<now, win, gate, index, client, wire, child, sup, work, mine, shot>>

\* Mutate: promote is one window call, restore a tier call and an anchor call.
Calls(kind) == IF kind = "Promote" THEN <<"promote">> ELSE <<"tier", "anchor">>

Mutation(p) ==
    IF work[p].at = "idle"
    THEN [at |-> "guard", kind |-> Head(jobs[p]).kind, calls |-> Calls(Head(jobs[p]).kind), ok |-> TRUE]
    ELSE work[p]

\* What write checks next to the call: permission of a promotion, geometry and
\* scope.  Another input desktop and a failed record are the fault.
Permitted(p, call) == call # "promote" \/ (~ sup[p].flag /\ now < sup[p].st.deadline)

AdjacentGuard(p) == GeometryMatches(Orig(p), win)

\* The window the target is put behind must still be the one that was above it.
Anchored(p, call) == call # "anchor" \/ win.above = Orig(p).above

WorkerGuard(p) ==
    /\ \/ work[p].at = "guard" /\ UNCHANGED jobs
       \/ /\ child[p] = "running" /\ jobs[p] # <<>> /\ work[p].at = "idle"
          /\ Head(jobs[p]).kind \in {"Promote", "Restore"}
          /\ jobs' = [jobs EXCEPT ![p] = Tail(@)]
    /\ LET m == Mutation(p)
           call == Head(m.calls)
           allowed == Permitted(p, call) /\ AdjacentGuard(p) /\ Anchored(p, call)
       IN  \/ /\ work' = [work EXCEPT ![p] = IF allowed THEN [m EXCEPT !.at = "write"]
                                          ELSE [m EXCEPT !.at = "read", !.ok = FALSE]]
              /\ UNCHANGED faults
           \/ /\ Fault
              /\ work' = [work EXCEPT ![p] = [m EXCEPT !.at = "read", !.ok = FALSE]]
    /\ UNCHANGED <<now, win, gate, index, settled, client, wire, child, sup, returns, mine, shot>>

\* A promotion is in force once it is reported, with its effect or without one
\* ("claimed": there is nothing to undo).
InForce == {"promoted", "claimed"}

Undone == {"none", "claimed"}

\* SetWindowPos: it takes effect, fails, or reports success to no effect; behind
\* a window that has gone since the guard it does not reach the place.
Moved(p, call) ==
    CASE call = "promote" -> [win EXCEPT !.top = TRUE, !.order = "raised"]
      [] call = "tier" -> [win EXCEPT !.top = Orig(p).top, !.order = "tier"]
      [] call = "anchor" -> [win EXCEPT !.order = Orig(p).order]

WorkerWrite(p) ==
    /\ work[p].at = "write"
    /\ LET call == Head(work[p].calls)
           last == Len(work[p].calls) = 1
           after(ok) == [work EXCEPT ![p] =
                [work[p] EXCEPT !.at = IF ok /\ ~ last THEN "guard" ELSE "read",
                                !.calls = Tail(@), !.ok = ok]]
       IN  \/ /\ Anchored(p, call)
              /\ win' = Moved(p, call)
              /\ mine' = [mine EXCEPT ![p] =
                    IF call = "promote" THEN "promoted"
                    ELSE IF call = "tier" THEN "restoring"
                    ELSE IF win'.top = Orig(p).top THEN "none" ELSE @]
              /\ work' = after(TRUE)
              /\ UNCHANGED faults
           \/ /\ IF Anchored(p, call) THEN Fault ELSE UNCHANGED faults
              /\ \E ok \in BOOLEAN :
                    /\ work' = after(ok)
                    /\ mine' = IF ok /\ call = "promote"
                               THEN [mine EXCEPT ![p] = "claimed"] ELSE mine
              /\ UNCHANGED win
    /\ UNCHANGED <<now, gate, index, settled, client, wire, child, sup, jobs, returns, shot>>

\* The readback after the calls, and the record of the return.
WorkerReadback(p) ==
    /\ work[p].at = "read"
    /\ \/ /\ Return(p, [kind |-> work[p].kind, ok |-> work[p].ok, read |-> ReadScope,
                        seq |-> IF work[p].kind = "Promote" THEN 1 ELSE 2])
          /\ UNCHANGED faults
       \/ /\ Fault
          /\ Return(p, [kind |-> work[p].kind, ok |-> FALSE, read |-> <<>>,
                        seq |-> IF work[p].kind = "Promote" THEN 1 ELSE 2])
    /\ work' = [work EXCEPT ![p] = Idle]
    /\ UNCHANGED <<now, win, gate, index, settled, client, wire, child, sup, jobs, mine, shot>>

\* A job that panics is caught; the sequence it was for stays in flight.
WorkerPanics(p) ==
    /\ work[p].at \in {"guard", "write", "read"}
    /\ Fault
    /\ Return(p, [kind |-> "Panicked", ok |-> FALSE, read |-> <<>>, seq |-> 0])
    /\ work' = [work EXCEPT ![p] = [Idle EXCEPT !.kind = "panicked"]]
    /\ UNCHANGED <<now, win, gate, index, settled, client, wire, child, sup, jobs, mine, shot>>

(***************************************************************************)
(* The session's side: the handle, its queries, and passive frames.        *)
(***************************************************************************)
NoClient == [at |-> "none", revoked |-> FALSE, cached |-> NewStatus(0)]

Quiet == [at |-> "none", st |-> NewStatus(0)]

\* The session holds no preparation whose cleanup is unknown; a new session may
\* begin after the old handle is gone, with the old child still at work.
SettledBefore(p) == \A q \in 1 .. p - 1 : client[q].at = "gone" \/ client[q].cached.cleanup

\* What is left of the task lease when the session samples the clock.
LeaseLeft == now < LeaseEnd

\* capture_preparation_begin up to CapturePreparationHandle::begin: the child has
\* been created and has its bootstrap message.
Begin(p) ==
    /\ client[p].at = "none" /\ SettledBefore(p) /\ LeaseLeft
    /\ \E lifetime \in Lifetimes :
          LET d == EffectiveDeadline(lifetime)
          IN  /\ client' = [client EXCEPT ![p] =
                    [at |-> "live", revoked |-> FALSE, cached |-> NewStatus(d)]]
              /\ sup' = [sup EXCEPT ![p] = NewSupervisor(d)]
    /\ child' = [child EXCEPT ![p] = "boot"]
    /\ UNCHANGED <<environment, win, gate, index, settled, wire, jobs, work, returns, mine, shot>>

\* Client::poll sends a query when none is outstanding and it is not done ...
Query(p) ==
    /\ client[p].at = "live" /\ wire[p].at = "none" /\ ~ client[p].cached.cleanup
    /\ child[p] \notin {"exited", "killed"}
    /\ wire' = Put(p, "query", NewStatus(0))
    /\ UNCHANGED <<environment, win, gate, index, settled, client, process, mine, shot>>

\* ... and takes the reply of an outstanding one, now or in a later call.
TakeReply(p) ==
    /\ client[p].at = "live" /\ wire[p].at \in {"reply", "error"}
    /\ client' = [client EXCEPT ![p].cached = IF wire[p].at = "reply" THEN wire[p].st ELSE @]
    /\ wire' = [wire EXCEPT ![p] = Quiet]
    /\ UNCHANGED <<environment, win, gate, index, settled, process, mine, shot>>

\* CapturePreparationHandle::stop, by capture_preparation_stop or by the stop
\* of the session: the handle is revoked and the cancel event stays set.
Stop(p) ==
    /\ client[p].at = "live" /\ ~ client[p].revoked /\ ~ client[p].cached.cleanup
    /\ client' = [client EXCEPT ![p].revoked = TRUE]
    /\ UNCHANGED <<environment, win, gate, index, settled, wire, process, mine, shot>>

\* The last handle is dropped, or the Host process ends.
Gone(p) ==
    /\ client[p].at = "live" /\ ~ client[p].cached.cleanup
    /\ client' = [client EXCEPT ![p] = [NoClient EXCEPT !.at = "gone"]]
    /\ wire' = [wire EXCEPT ![p] = Quiet]
    /\ shot' = [shot EXCEPT ![p] = "none"]
    /\ UNCHANGED <<environment, win, gate, index, settled, process, mine>>

StillActiveCached(p) ==
    /\ client[p].cached.phase = "Active"
    /\ ~ client[p].cached.revoked /\ ~ client[p].revoked

\* PreparedEvidenceGuard::validate, on the status the client has and on the
\* window as it is now.  A poll of a supervisor that has ended fails.
StillActive(p) ==
    /\ client[p].cached.phase = "Active"
    /\ ~ client[p].cached.revoked /\ ~ client[p].revoked
    /\ now < client[p].cached.deadline

Validates(p) ==
    /\ client[p].at = "live" /\ child[p] = "running" /\ StillActive(p)
    /\ GeometryMatches(Orig(p), win) /\ win.top

\* capture_frame: validate, take the pixels, validate again; the caller
\* validates once more before it shows them.
CaptureBegin(p) ==
    /\ shot[p] = "none" /\ Validates(p)
    /\ shot' = [shot EXCEPT ![p] = "begun"]
    /\ UNCHANGED <<environment, win, gate, index, settled, client, wire, process, mine>>

CapturePixels(p) ==
    /\ shot[p] = "begun"
    /\ shot' = [shot EXCEPT ![p] = IF mine[p] \in InForce THEN "prepared" ELSE "late"]
    /\ UNCHANGED <<environment, win, gate, index, settled, client, wire, process, mine>>

CapturePublish(p) ==
    /\ shot[p] \in {"prepared", "late"}
    /\ shot' = [shot EXCEPT ![p] = IF Validates(p) /\ @ = "late" THEN "shown late" ELSE "none"]
    /\ UNCHANGED <<environment, win, gate, index, settled, client, wire, process, mine>>

(***************************************************************************)
(* The desktop around it.                                                  *)
(***************************************************************************)
Clock ==
    /\ now < MaxTime
    /\ now' = now + 1
    /\ UNCHANGED <<faults, win, gate, index, settled, client, wire, process, mine, shot>>

\* The user moves or resizes the window.
UserMoves ==
    /\ Fault
    /\ win' = [win EXCEPT !.geo = 1 - @]
    /\ UNCHANGED <<now, gate, index, settled, client, wire, process, mine, shot>>

\* A window next to the target's place is closed, or another comes between: the
\* one that was there is not there again.  Only a restore looks at them: a change
\* at an earlier time is the same as one when the restore has begun.
NeighbourChanges ==
    /\ \E p \in Preps : work[p].kind = "Restore"
    /\ Fault
    /\ \/ win' = [win EXCEPT !.above = @ + 1]
       \/ win' = [win EXCEPT !.below = @ + 1]
    /\ UNCHANGED <<now, gate, index, settled, client, wire, process, mine, shot>>

Init ==
    /\ now = 0 /\ faults = MaxFaults
    /\ \E top \in BOOLEAN :
          win = [top |-> top, order |-> "placed", geo |-> 0, above |-> 0, below |-> 0]
    /\ gate = 0 /\ index = 0
    /\ settled = [p \in Preps |-> "none"]
    /\ client = [p \in Preps |-> NoClient]
    /\ wire = [p \in Preps |-> Quiet]
    /\ child = [p \in Preps |-> "none"]
    /\ sup = [p \in Preps |-> NewSupervisor(0)]
    /\ jobs = [p \in Preps |-> <<>>]
    /\ work = [p \in Preps |-> Idle]
    /\ returns = [p \in Preps |-> <<>>]
    /\ mine = [p \in Preps |-> "none"]
    /\ shot = [p \in Preps |-> "none"]

Child(p) == \/ ChildStart(p) \/ ChildIndex(p)
            \/ ChildReceive(p) \/ ChildTurn(p) \/ ChildRefused(p)

Worker(p) == \/ WorkerRead(p) \/ WorkerSettle(p)
             \/ WorkerGuard(p) \/ WorkerWrite(p) \/ WorkerReadback(p)

Session(p) == Query(p) \/ TakeReply(p)

Next ==
    \/ \E p \in Preps :
          \/ Child(p) \/ ChildKilled(p) \/ Worker(p) \/ WorkerPanics(p)
          \/ Begin(p) \/ Session(p) \/ Stop(p) \/ Gone(p)
          \/ CaptureBegin(p) \/ CapturePixels(p) \/ CapturePublish(p)
    \/ Clock \/ UserMoves \/ NeighbourChanges

\* The threads of the child are scheduled by the system, time passes, and a
\* session that has not gone asks for the state again.
Fairness ==
    /\ WF_vars(Clock)
    /\ \A p \in Preps : WF_vars(Child(p)) /\ WF_vars(Worker(p)) /\ WF_vars(Session(p))

Spec == Init /\ [][Next]_vars /\ Fairness

-----------------------------------------------------------------------------
\* A session that is told its preparation was cleaned up can rely on it: the
\* window writes of the preparation have been undone, and the journal says so
\* durably, whatever failed, was retried or was stopped on the way.
VerifiedIsDurable ==
    \A p \in Preps :
        client[p].cached.cleanup => settled[p] = "ok" /\ mine[p] \in Undone

\* The state a preparation will restore is the state the window had before any
\* preparation: none reads its original while the promotion of an earlier one,
\* running or killed, is still in force.
OriginalIsTrue ==
    \A p, q \in Preps :
        p # q /\ child[p] = "running" => mine[q] \in Undone

\* No pixels are shown that were taken after the window left the promoted state:
\* a stop, the deadline and the status the client has cached are looked at again
\* after the pixels.
FramesInForce == \A p \in Preps : shot[p] # "shown late"

\* A promoted window is put back, and a session that is still there is told,
\* unless something stands in the way for good: the window no longer has its
\* geometry, a window next to its place is another one (the place cannot be
\* verified, and behind a window that is gone it cannot be taken), the supervisor
\* was killed, a job panicked, or the settled record is torn.  One failed call,
\* record, readback or guard does not.
NeighboursKept(old) == old.above = win.above /\ old.below = win.below

Obstructed(p) ==
    \/ sup[p].orig # <<>> /\ ~ (GeometryMatches(Orig(p), win) /\ NeighboursKept(Orig(p)))
    \/ child[p] = "killed" \/ settled[p] = "torn" \/ work[p].kind = "panicked"

Concluded(p) ==
    /\ settled[p] = "ok" /\ child[p] = "exited"
    /\ client[p].at = "live" => client[p].cached.cleanup

RestoredInTheEnd ==
    \A p \in Preps : sup[p].orig # <<>> ~> (Concluded(p) \/ Obstructed(p))

=============================================================================
