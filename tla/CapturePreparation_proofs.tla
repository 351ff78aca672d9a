---------------------- MODULE CapturePreparation_proofs ----------------------
(***************************************************************************)
(* Proofs about CapturePreparation: its three safety properties, for every *)
(* number of preparations, clock bound and number of faults.               *)
(*                                                                         *)
(* The invariant says for a running supervisor where it stands (waiting    *)
(* for the first read, promoting, active, restoring, settling, clean) and  *)
(* what is on its way between it and the worker in each of these: never    *)
(* more than a probe followed by a restore.  Around it stand the gate and  *)
(* the journal (at most one preparation with writes in force), and what    *)
(* the client may still believe.                                           *)
(***************************************************************************)
EXTENDS CapturePreparation, SequenceTheorems, TLAPS

Scope == [top : BOOLEAN, order : {"placed", "raised", "tier"}, geo : {0, 1},
          above : Nat, below : Nat]

Reads == {<<>>} \cup {<<w>> : w \in Scope}

Phases == {"PendingPromotion", "Active", "RestorePending", "Restored", "Refused",
           "CleanupUnknown"}

Status == [phase : Phases, deadline : Nat, pending : {0, 1, 2},
           revoked : BOOLEAN, cleanup : BOOLEAN]

Supervisor == [st : Status, returned : BOOLEAN, init : BOOLEAN, before : BOOLEAN,
               flag : BOOLEAN, probing : BOOLEAN,
               expected : {"none", "Restored", "Refused"}, settling : BOOLEAN,
               told : BOOLEAN, draining : BOOLEAN, orig : Reads]

Receipt == [kind : {"Initialized", "Promote", "Restore", "Probed", "Panicked", "Settled"},
            ok : BOOLEAN, read : Reads, seq : {0, 1, 2}]

Errand == [at : {"idle", "guard", "write", "read"}, kind : {"", "Promote", "Restore", "panicked"},
           calls : Seq({"promote", "tier", "anchor"}), ok : BOOLEAN]

Types ==
    /\ now \in Nat /\ faults \in Nat /\ win \in Scope
    /\ gate \in 0 .. MaxPreparations /\ index \in -1 .. MaxPreparations
    /\ settled \in [Preps -> {"none", "ok", "torn"}]
    /\ client \in [Preps -> [at : {"none", "live", "gone"}, revoked : BOOLEAN, cached : Status]]
    /\ wire \in [Preps -> [at : {"none", "query", "reply", "error"}, st : Status]]
    /\ child \in [Preps -> {"none", "boot", "indexing", "running", "refused", "exited", "killed"}]
    /\ sup \in [Preps -> Supervisor]
    /\ DOMAIN jobs = Preps /\ jobs = [p \in Preps |-> jobs[p]]
    /\ DOMAIN returns = Preps /\ returns = [p \in Preps |-> returns[p]]
    /\ work \in [Preps -> Errand]
    /\ mine \in [Preps -> {"none", "claimed", "promoted", "restoring"}]
    /\ shot \in [Preps -> {"none", "begun", "prepared", "late", "shown late"}]

(***************************************************************************)
(* What is between the supervisor and the worker: rs the returns, w the    *)
(* worker, js the jobs.                                                    *)
(***************************************************************************)
JobOf(kind) ==
    [kind |-> kind, seq |-> IF kind = "Promote" THEN 1 ELSE IF kind = "Restore" THEN 2 ELSE 0]

Answers(kind) ==
    CASE kind = "Initialize" -> {"Initialized"}
      [] kind = "Promote" -> {"Promote", "Panicked"}
      [] kind = "Restore" -> {"Restore", "Panicked"}
      [] kind = "Probe" -> {"Probed"}
      [] kind = "Settle" -> {"Settled"}

\* A return tells the truth about the window, the writes in force (mn) and the
\* settled record (z), and will until it is handled.
Truthful(m, s, mn, z, wn) ==
    /\ m \in Receipt
    /\ m.kind = "Initialized" /\ m.ok =>
          \E o \in Scope : m.read = <<o>> /\ o.order = "placed" /\ o.top = wn.top
    /\ m.kind = "Promote" /\ m.ok => mn \in InForce
    /\ m.kind = "Restore" /\ m.ok /\ m.read # <<>> /\ m.read[1] = s.orig[1] => mn \in Undone
    /\ m.kind = "Settled" /\ m.ok => z = "ok"

Nothing(rs, w, js) == rs = <<>> /\ w.at = "idle" /\ js = <<>>

\* The worker is at a promotion, or at a restore.
Busy(w, kind, mn) ==
    /\ w.at # "idle" /\ w.kind = kind
    /\ kind = "Promote" /\ w.at \in {"guard", "write"} =>
          w.calls = <<"promote">> /\ mn = "none"
    /\ kind = "Promote" /\ w.at = "read" /\ w.ok => mn \in InForce
    /\ kind = "Restore" /\ w.at \in {"guard", "write"} =>
          w.calls \in {<<"tier", "anchor">>, <<"anchor">>}

Only(kind, s, rs, w, js, mn, z, wn) ==
    \/ /\ rs = <<>> /\ w.at = "idle" /\ js = <<JobOf(kind)>>
       /\ kind = "Promote" => mn = "none"
    \/ kind \in {"Promote", "Restore"} /\ rs = <<>> /\ Busy(w, kind, mn) /\ js = <<>>
    \/ /\ w.at = "idle" /\ js = <<>>
       /\ \E m \in Receipt : /\ rs = <<m>> /\ m.kind \in Answers(kind)
                             /\ Truthful(m, s, mn, z, wn)

ProbeThenRestore(s, rs, w, js, mn, z, wn) ==
    \/ rs = <<>> /\ w.at = "idle" /\ js = <<JobOf("Probe"), JobOf("Restore")>>
    \/ \E m \in Receipt :
          /\ m.kind = "Probed"
          /\ \/ rs = <<m>> /\ w.at = "idle" /\ js = <<JobOf("Restore")>>
             \/ rs = <<m>> /\ Busy(w, "Restore", mn) /\ js = <<>>
             \/ /\ w.at = "idle" /\ js = <<>>
                /\ \E n \in Receipt : /\ rs = <<m, n>> /\ n.kind \in Answers("Restore")
                                      /\ Truthful(n, s, mn, z, wn)

(***************************************************************************)
(* Where a running supervisor stands.                                      *)
(***************************************************************************)
Reading(s) ==
    /\ ~ s.init /\ ~ s.returned /\ s.st.pending = 1 /\ ~ s.st.cleanup /\ s.expected = "none"
    /\ ~ s.settling /\ ~ s.probing /\ s.st.phase = "PendingPromotion" /\ s.orig = <<>>

Promoting(s) ==
    /\ s.init /\ ~ s.returned /\ s.st.pending = 1 /\ ~ s.st.cleanup /\ s.expected = "none"
    /\ ~ s.settling /\ ~ s.probing /\ s.st.phase \in {"PendingPromotion", "CleanupUnknown"}
    /\ s.orig # <<>>

Promoted(s) ==
    /\ s.init /\ s.returned /\ s.st.pending = 0 /\ ~ s.st.cleanup /\ s.expected = "none"
    /\ ~ s.settling /\ ~ s.probing /\ ~ s.st.revoked /\ s.orig # <<>>

Restoring(s) ==
    /\ s.init /\ s.returned /\ s.st.pending \in {0, 2} /\ ~ s.st.cleanup /\ s.expected = "none"
    /\ ~ s.settling /\ s.st.revoked /\ s.st.phase # "Active" /\ s.orig # <<>>

Settling(s) ==
    /\ s.init /\ s.st.pending = 0 /\ ~ s.st.cleanup /\ s.expected # "none"
    /\ ~ s.probing /\ s.st.revoked /\ s.st.phase # "Active"

Clean(s) ==
    /\ s.init /\ s.st.pending = 0 /\ s.st.cleanup /\ s.expected = "none"
    /\ ~ s.settling /\ ~ s.probing /\ s.st.revoked /\ s.st.phase # "Active"

\* The window against the original: what is left to undo can be seen.
Related(s, mn, wn) ==
    /\ s.orig = <<>> => mn = "none" /\ wn.order = "placed"
    /\ s.orig # <<>> =>
          /\ s.orig[1].order = "placed"
          /\ mn \in Undone => wn.order = "placed" /\ wn.top = s.orig[1].top
          /\ mn = "promoted" => /\ wn.top
                                /\ wn.order = "raised" \/ (wn.order = "placed" /\ ~ s.orig[1].top)
          /\ mn = "restoring" => wn.order = "tier" /\ wn.top = s.orig[1].top

Stands(s, js, rs, w, mn, z, wn) ==
    \/ Reading(s) /\ Only("Initialize", s, rs, w, js, mn, z, wn)
    \/ Promoting(s) /\ (Only("Promote", s, rs, w, js, mn, z, wn) \/ Nothing(rs, w, js))
    \/ Promoted(s) /\ mn \in InForce /\ Nothing(rs, w, js)
    \/ /\ Restoring(s)
       /\ \/ s.st.pending = 0 /\ ~ s.probing /\ Nothing(rs, w, js)
          \/ s.st.pending = 0 /\ s.probing /\ Only("Probe", s, rs, w, js, mn, z, wn)
          \/ /\ s.st.pending = 2 /\ ~ s.probing
             /\ Only("Restore", s, rs, w, js, mn, z, wn) \/ Nothing(rs, w, js)
          \/ s.st.pending = 2 /\ s.probing /\ ProbeThenRestore(s, rs, w, js, mn, z, wn)
    \/ /\ Settling(s) /\ mn \in Undone
       /\ \/ s.settling /\ Only("Settle", s, rs, w, js, mn, z, wn)
          \/ ~ s.settling /\ Nothing(rs, w, js)
    \/ Clean(s) /\ mn \in Undone /\ z = "ok" /\ Nothing(rs, w, js)

Sound(s, js, rs, w, mn, z, wn) ==
    /\ Related(s, mn, wn)
    /\ s.told => s.st.cleanup
    /\ z = "ok" => Settling(s) \/ Clean(s)
    /\ Stands(s, js, rs, w, mn, z, wn)

Supervised ==
    \A p \in Preps : child[p] = "running" =>
        Sound(sup[p], jobs[p], returns[p], work[p], mine[p], settled[p], win)

\* A supervisor that is not running has nothing on its way.
Still == \A p \in Preps : child[p] # "running" => Nothing(returns[p], work[p], jobs[p])

\* One preparation at a time, and the index file names it.
Exclusive ==
    \A p \in Preps : /\ child[p] \in {"indexing", "running"} => gate = p
                     /\ child[p] = "indexing" => index = 0
                     /\ child[p] = "running" => index = p

\* Writes that are in force keep the index file from being replaced.
Journalled ==
    \A p \in Preps : /\ mine[p] \notin Undone => index = p
                     /\ settled[p] = "ok" => mine[p] \in Undone

Placed == (\A p \in Preps : mine[p] \in Undone) => win.order = "placed"

Early ==
    \A p \in Preps :
        /\ client[p].at = "none" => child[p] = "none" /\ wire[p].at = "none"
        /\ child[p] \in {"none", "boot", "indexing"} =>
              /\ settled[p] = "none" /\ mine[p] = "none" /\ shot[p] = "none"
              /\ sup[p] = NewSupervisor(sup[p].st.deadline)
              /\ client[p].cached.phase # "Active" /\ wire[p].at \in {"none", "query"}

\* What the client was told of a cleanup, and of the deadline.
Reported ==
    \A p \in Preps :
        /\ wire[p].at = "reply" /\ wire[p].st.cleanup => settled[p] = "ok"
        /\ client[p].cached.cleanup => settled[p] = "ok"
        /\ child[p] \in {"boot", "indexing", "running"} /\ client[p].at = "live" =>
              /\ client[p].cached.deadline = sup[p].st.deadline
              /\ wire[p].at = "reply" => wire[p].st.deadline = sup[p].st.deadline

\* An answer "Active" holds until the client itself has seen the reason to doubt it.
InForceFor(p) ==
    /\ client[p].at = "live" /\ child[p] = "running"
    /\ ~ client[p].revoked /\ now < sup[p].st.deadline

Believed ==
    \A p \in Preps :
        /\ InForceFor(p)
        /\ client[p].cached.phase = "Active" \/ (wire[p].at = "reply" /\ wire[p].st.phase = "Active")
        => sup[p].returned /\ ~ sup[p].st.revoked

Shots ==
    \A p \in Preps :
        /\ shot[p] # "none" /\ child[p] = "running" => sup[p].returned
        /\ shot[p] = "late" => ~ InForceFor(p) \/ sup[p].st.revoked
        /\ shot[p] # "shown late"

Inv == /\ Types /\ Supervised /\ Still /\ Exclusive /\ Journalled /\ Placed
       /\ Early /\ Reported /\ Believed /\ Shots

-----------------------------------------------------------------------------
\* Short sequences, as the channels between supervisor and worker hold them.
LEMMA Singles ==
    ASSUME NEW a
    PROVE  /\ <<a>> # <<>> /\ <<a>>[1] = a /\ Head(<<a>>) = a /\ Tail(<<a>>) = <<>>
           /\ Append(<<>>, a) = <<a>> /\ Len(<<a>>) = 1 /\ Len(<<>>) = 0
  OBVIOUS

\* The same of two items.
LEMMA Pairs ==
    ASSUME NEW a, NEW b
    PROVE  /\ <<a, b>> # <<>> /\ Head(<<a, b>>) = a /\ Tail(<<a, b>>) = <<b>>
           /\ Append(<<a>>, b) = <<a, b>> /\ Len(<<a, b>>) = 2
           /\ <<a, b>>[1] = a /\ <<a, b>>[2] = b
<1>1. /\ <<a, b>>[1] = a /\ <<a, b>>[2] = b /\ Len(<<a, b>>) = 2 /\ <<a, b>> # <<>>
      /\ Head(<<a, b>>) = a
  OBVIOUS
<1>2. Tail(<<a, b>>) = <<b>>
  OBVIOUS
<1>3. Append(<<a>>, b) = <<a, b>>
  <2> DEFINE s == <<a>>
             r == Append(s, b)
  <2>1. s \in Seq({a, b}) /\ Len(s) = 1 /\ s[1] = a
    OBVIOUS
  <2>2. r \in Seq({a, b}) /\ Len(r) = 2 /\ r[1] = a /\ r[2] = b
    <3> HIDE DEF s
    <3>1. b \in {a, b}
      OBVIOUS
    <3>2. /\ r \in Seq({a, b}) /\ Len(r) = Len(s) + 1
          /\ \A i \in 1 .. Len(s) : r[i] = s[i]
          /\ r[Len(s) + 1] = b
      BY <2>1, <3>1, AppendProperties, ZenonT(60)
    <3> HIDE DEF r
    <3>3. Len(s) + 1 = 2 /\ 1 \in 1 .. Len(s)
      BY <2>1
    <3> QED  BY <2>1, <3>2, <3>3
  <2>3. \A q \in Seq({a, b}) : Len(q) = 2 => q = <<q[1], q[2]>>
    OBVIOUS
  <2> HIDE DEF r
  <2> QED  BY <2>2, <2>3 DEF r
<1> QED
  BY <1>1, <1>2, <1>3

\* A second item is appended.
LEMMA AppendSecond ==
    \A a, b, s : s = <<a>> => Append(s, b) = <<a, b>>
  BY Pairs

\* A state of the main loop is its supervisor and its jobs.
LEMMA LoopState ==
    ASSUME NEW s, NEW js, NEW x, x \in [s : {s}, jobs : {js}]
    PROVE  x = [s |-> s, jobs |-> js]
  OBVIOUS

\* t may follow s in one supervisor without a step of the protocol.
Alike(s, t) ==
    /\ t.returned = s.returned /\ t.init = s.init /\ t.probing = s.probing
    /\ t.expected = s.expected /\ t.settling = s.settling /\ t.told = s.told /\ t.orig = s.orig
    /\ t.st.pending = s.st.pending /\ t.st.cleanup = s.st.cleanup
    /\ t.st.deadline = s.st.deadline

\* How far a supervisor has come is never taken back.
Onward(s, t) ==
    /\ t.st.deadline = s.st.deadline
    /\ s.returned => t.returned
    /\ s.st.revoked => t.st.revoked

\* t is s after a revocation (PreparationState::revoke).
RevokedFrom(s, t) ==
    /\ t \in Supervisor /\ Alike(s, t) /\ (s.st.revoked => t.st.revoked)
    /\ \/ t.st.phase = s.st.phase
       \/ t.st.phase = "RestorePending" /\ s.returned /\ t.st.revoked
    /\ t.st.revoked /\ ~ s.st.revoked /\ s.returned /\ s.st.pending = 0 /\ ~ s.st.cleanup
       => t.st.phase = "RestorePending"

\* Revoking keeps where the supervisor stands in its protocol.
LEMMA StateRevokeAlike ==
    ASSUME NEW s \in Supervisor
    PROVE  RevokedFrom(s, StateRevoke(s)) /\ StateRevoke(s).st.revoked
  BY DEF StateRevoke, RevokedFrom, Alike, Supervisor, Status, Phases

\* Revocations compose.
LEMMA RevokedTwice ==
    ASSUME NEW s, NEW t, NEW u, RevokedFrom(s, t), RevokedFrom(t, u)
    PROVE  RevokedFrom(s, u)
  BY DEF RevokedFrom, Alike

\* The beginning of a turn revokes only if the client has stopped or gone, or the
\* deadline has passed (run_child, Supervisor::tick).
LEMMA SenseAlike ==
    ASSUME NEW s \in Supervisor, NEW ended \in BOOLEAN
    PROVE  /\ RevokedFrom(s, Sense(s, ended))
           /\ Sense(s, ended).st.revoked => s.st.revoked \/ ended \/ now >= s.st.deadline
<1> DEFINE f == [s EXCEPT !.flag = TRUE, !.before = @ \/ ~ s.init]
           a == IF ended THEN Revoke(s) ELSE s
           e == Expire(a)
<1>1. f \in Supervisor /\ f.st = s.st /\ RevokedFrom(s, f)
  BY DEF Supervisor, RevokedFrom, Alike
<1>2. RevokedFrom(s, a) /\ a \in Supervisor /\ (a.st.revoked => s.st.revoked \/ ended)
  <2>1. Revoke(s) = StateRevoke(f)
    BY DEF Revoke
  <2>2. RevokedFrom(s, Revoke(s))
    <3> HIDE DEF f
    <3> QED  BY <1>1, <2>1, StateRevokeAlike, RevokedTwice
  <2>3. RevokedFrom(s, s)
    BY DEF RevokedFrom, Alike
  <2> QED  BY <2>2, <2>3 DEF RevokedFrom
<1> HIDE DEF a
<1>3. /\ RevokedFrom(s, e) /\ e \in Supervisor
      /\ e.st.revoked => s.st.revoked \/ ended \/ now >= s.st.deadline
  <2>1. RevokedFrom(a, e)
    BY <1>2, StateRevokeAlike DEF Expire, RevokedFrom, Alike
  <2>2. RevokedFrom(s, e)
    <3> HIDE DEF e
    <3> QED  BY <1>2, <2>1, RevokedTwice
  <2>3. a.st.deadline = s.st.deadline
    BY <1>2 DEF RevokedFrom, Alike
  <2> QED  BY <1>2, <2>2, <2>3 DEF RevokedFrom, Expire
<1>4. Sense(s, ended) = [e EXCEPT !.flag = @ \/ e.st.revoked,
                                  !.before = @ \/ (~ e.init /\ e.st.revoked)]
  BY DEF Sense, a
<1> HIDE DEF e
<1>5. RevokedFrom(e, Sense(s, ended)) /\ Sense(s, ended).st = e.st
  BY <1>3, <1>4 DEF RevokedFrom, Alike, Supervisor
<1> QED
  BY <1>3, <1>5, RevokedTwice

\* A revocation takes a supervisor that stood at "promoted" to "restoring", and
\* leaves every other where it stands.
LEMMA SoundRevoked ==
    ASSUME NEW s \in Supervisor, NEW t, NEW js, NEW rs, NEW w, NEW mn, NEW z, NEW wn,
           Sound(s, js, rs, w, mn, z, wn), RevokedFrom(s, t)
    PROVE  Sound(t, js, rs, w, mn, z, wn)
<1>1. Related(t, mn, wn) /\ (t.told => t.st.cleanup)
  BY DEF Sound, RevokedFrom, Alike, Related
<1>2. \A kind : Only(kind, s, rs, w, js, mn, z, wn) => Only(kind, t, rs, w, js, mn, z, wn)
  BY DEF Only, Truthful, RevokedFrom, Alike
<1>3. ProbeThenRestore(s, rs, w, js, mn, z, wn) => ProbeThenRestore(t, rs, w, js, mn, z, wn)
  BY DEF ProbeThenRestore, Truthful, RevokedFrom, Alike
<1>4. (Settling(s) => Settling(t)) /\ (Clean(s) => Clean(t)) /\ (Reading(s) => Reading(t))
      /\ (Promoting(s) => Promoting(t)) /\ (Restoring(s) => Restoring(t))
  BY DEF Settling, Clean, Reading, Promoting, Restoring, RevokedFrom, Alike
<1>5. Promoted(s) => Promoted(t) \/ (Restoring(t) /\ t.st.pending = 0 /\ ~ t.probing)
  BY DEF Promoted, Restoring, RevokedFrom, Alike, Supervisor, Status
<1>6. Stands(s, js, rs, w, mn, z, wn)
  BY DEF Sound
<1>7. /\ t.st.pending = s.st.pending /\ t.probing = s.probing /\ t.settling = s.settling
  BY DEF RevokedFrom, Alike
<1>8. Stands(t, js, rs, w, mn, z, wn)
  BY <1>2, <1>3, <1>4, <1>5, <1>6, <1>7 DEF Stands
<1> QED
  BY <1>1, <1>4, <1>8 DEF Sound

\* What is asked of one pass over the returns, from s and js to x.
Handled(s, x, rs, w, mn, z, wn) ==
    /\ x = [s |-> x.s, jobs |-> x.jobs]
    /\ x.s \in Supervisor /\ Onward(s, x.s)
    /\ Sound(x.s, x.jobs, rs, w, mn, z, wn)

\* Settling begins: the outcome is kept back until the record is written.
LEMMA SettlementBegun ==
    ASSUME NEW s \in Supervisor, NEW w, NEW mn, NEW z, NEW wn,
           s.init, s.st.revoked, s.st.pending = 0, ~ s.probing, ~ s.told,
           s.st.phase \in {"Restored", "Refused"}, w.at = "idle",
           Related(s, mn, wn), mn \in Undone
    PROVE  Handled(s, BeginSettlement([s |-> s, jobs |-> <<>>]), <<>>, w, mn, z, wn)
<1> DEFINE a == AwaitSettlement(s)
           y == BeginSettlement([s |-> s, jobs |-> <<>>])
<1>1. a \in Supervisor /\ Onward(s, a) /\ Settling(a) /\ a.settling /\ a.orig = s.orig /\ ~ a.told
  BY DEF AwaitSettlement, Supervisor, Status, Phases, Onward, Settling
<1>2. y = [s |-> a, jobs |-> <<JobOf("Settle")>>]
  <2>1. Append(<<>>, [kind |-> "Settle", seq |-> 0]) = <<[kind |-> "Settle", seq |-> 0]>>
    BY Singles
  <2> DEFINE v == [s |-> s, jobs |-> <<>>]
  <2>2. v.s = s /\ [v EXCEPT !.s = a] = [s |-> a, jobs |-> <<>>]
    OBVIOUS
  <2>3. [[s |-> a, jobs |-> <<>>] EXCEPT !.jobs = <<[kind |-> "Settle", seq |-> 0]>>]
           = [s |-> a, jobs |-> <<[kind |-> "Settle", seq |-> 0]>>]
    OBVIOUS
  <2> HIDE DEF v
  <2>4. BeginSettlement(v) = Send([s |-> a, jobs |-> <<>>], [kind |-> "Settle", seq |-> 0])
    BY <2>2 DEF BeginSettlement
  <2> QED  BY <2>1, <2>3, <2>4 DEF Send, JobOf, v
<1> HIDE DEF a, y
<1>3. Only("Settle", a, <<>>, w, y.jobs, mn, z, wn)
  BY <1>2 DEF Only
<1>4. Sound(a, y.jobs, <<>>, w, mn, z, wn)
  BY <1>1, <1>3 DEF Sound, Stands, Related
<1> QED
  BY <1>1, <1>2, <1>4 DEF Handled, y

\* The preparation ends before anything was written.
LEMMA SettledWithoutWrite ==
    ASSUME NEW s \in Supervisor, NEW w, NEW mn, NEW z, NEW wn,
           s.init, ~ s.probing, ~ s.told, w.at = "idle", Related(s, mn, wn), mn = "none"
    PROVE  Handled(s, SettleWithoutWrite([s |-> s, jobs |-> <<>>]), <<>>, w, mn, z, wn)
<1> DEFINE r == [s EXCEPT !.st.revoked = TRUE, !.st.phase = "Refused",
                          !.st.cleanup = TRUE, !.st.pending = 0]
<1>1. /\ r \in Supervisor /\ Onward(s, r) /\ r.orig = s.orig /\ r.init /\ ~ r.probing /\ ~ r.told
      /\ r.st.revoked /\ r.st.pending = 0 /\ r.st.phase = "Refused"
  BY DEF Supervisor, Status, Phases, Onward
<1>2. SettleWithoutWrite([s |-> s, jobs |-> <<>>]) = BeginSettlement([s |-> r, jobs |-> <<>>])
  <2>1. PICK v : v = [s |-> s, jobs |-> <<>>]
    OBVIOUS
  <2> DEFINE y == [v EXCEPT !.s.st.revoked = TRUE, !.s.st.phase = "Refused",
                            !.s.st.cleanup = TRUE, !.s.st.pending = 0]
  <2>2. y \in [s : {r}, jobs : {<<>>}]
    BY <2>1
  <2>3. SettleWithoutWrite(v) = BeginSettlement(y)
    BY DEF SettleWithoutWrite
  <2> HIDE DEF r, y
  <2> QED  BY <2>1, <2>2, <2>3, LoopState
<1> HIDE DEF r
<1>3. Related(r, mn, wn) /\ mn \in Undone
  BY <1>1 DEF Related, Undone
<1>4. Handled(r, BeginSettlement([s |-> r, jobs |-> <<>>]), <<>>, w, mn, z, wn)
  BY <1>1, <1>3, SettlementBegun
<1> QED
  BY <1>1, <1>2, <1>4 DEF Handled, Onward

\* The first read is back: the promotion is sent, or the preparation is settled
\* with nothing written.
LEMMA HandleInitialized ==
    ASSUME NEW s \in Supervisor, NEW m \in Receipt, NEW js, NEW w, NEW mn, NEW z, NEW wn,
           m.kind = "Initialized", Sound(s, js, <<m>>, w, mn, z, wn)
    PROVE  Handled(s, HandleReturn([s |-> s, jobs |-> js], m), <<>>, w, mn, z, wn)
<1>0. PICK x : x = [s |-> s, jobs |-> js]
  OBVIOUS
<1>1. /\ Reading(s) /\ w.at = "idle" /\ js = <<>> /\ Truthful(m, s, mn, z, wn)
  <2>1. Reading(s) /\ Only("Initialize", s, <<m>>, w, js, mn, z, wn)
    BY Singles, Pairs DEF Sound, Stands, Only, ProbeThenRestore, Nothing, Answers
  <2> QED  BY <2>1, Singles DEF Only
<1>2. mn = "none" /\ wn.order = "placed" /\ z # "ok" /\ ~ s.told
  BY <1>1 DEF Sound, Related, Reading, Settling, Clean
<1> DEFINE i == [s EXCEPT !.init = TRUE]
           o == [s EXCEPT !.init = TRUE, !.orig = m.read]
<1>3. CASE ~ m.ok
  <2>1. /\ i \in Supervisor /\ Onward(s, i) /\ i.init /\ ~ i.probing /\ ~ i.told
        /\ i.orig = s.orig
    BY <1>1, <1>2 DEF Supervisor, Onward, Reading
  <2>2. HandleReturn(x, m) = SettleWithoutWrite([s |-> i, jobs |-> <<>>])
    <3>1. [x EXCEPT !.s.init = TRUE] \in [s : {i}, jobs : {<<>>}]
      BY <1>0, <1>1
    <3> HIDE DEF i
    <3> QED  BY <1>3, <3>1, LoopState DEF HandleReturn
  <2> HIDE DEF i
  <2>3. Related(i, mn, wn)
    BY <2>1 DEF Sound, Related
  <2>4. Handled(i, SettleWithoutWrite([s |-> i, jobs |-> <<>>]), <<>>, w, mn, z, wn)
    BY <1>1, <1>2, <2>1, <2>3, SettledWithoutWrite
  <2> QED  BY <1>0, <2>1, <2>2, <2>4 DEF Handled, Onward
<1>4. ASSUME m.ok
      PROVE  /\ o \in Supervisor /\ Onward(s, o) /\ o.init /\ ~ o.probing /\ ~ o.told
             /\ ~ o.returned /\ o.st = s.st /\ o.expected = "none" /\ ~ o.settling
             /\ o.orig # <<>> /\ o.orig[1].order = "placed" /\ o.orig[1].top = wn.top
  <2>1. PICK u \in Scope : m.read = <<u>> /\ u.order = "placed" /\ u.top = wn.top
    BY <1>1, <1>4 DEF Truthful
  <2>2. o.orig # <<>> /\ o.orig[1] = u
    BY <2>1, Singles DEF Supervisor
  <2> QED  BY <1>1, <1>2, <2>1, <2>2 DEF Supervisor, Onward, Reading, Receipt
<1>5. CASE m.ok /\ s.before
  <2>1. HandleReturn(x, m) = SettleWithoutWrite([s |-> o, jobs |-> <<>>])
    <3> DEFINE y == [x EXCEPT !.s.init = TRUE, !.s.orig = m.read]
    <3>1. y \in [s : {o}, jobs : {<<>>}] /\ y.s.before
      BY <1>0, <1>1, <1>5 DEF Supervisor
    <3>2. HandleReturn(x, m) = SettleWithoutWrite(y)
      BY <1>5, <3>1 DEF HandleReturn
    <3> HIDE DEF o, y
    <3> QED  BY <3>1, <3>2, LoopState
  <2> HIDE DEF o
  <2>2. Related(o, mn, wn)
    BY <1>2, <1>4, <1>5 DEF Related, Undone
  <2>3. Handled(o, SettleWithoutWrite([s |-> o, jobs |-> <<>>]), <<>>, w, mn, z, wn)
    BY <1>1, <1>2, <1>4, <1>5, <2>2, SettledWithoutWrite
  <2> QED  BY <1>0, <1>4, <1>5, <2>1, <2>3 DEF Handled, Onward
<1>6. CASE m.ok /\ ~ s.before
  <2>1. HandleReturn(x, m) = [s |-> o, jobs |-> <<JobOf("Promote")>>]
    <3>1. Append(<<>>, [kind |-> "Promote", seq |-> 1]) = <<[kind |-> "Promote", seq |-> 1]>>
      BY Singles
    <3> QED  BY <1>0, <1>1, <1>6, <3>1 DEF HandleReturn, Supervisor, Send, JobOf
  <2> HIDE DEF o
  <2>2. Related(o, mn, wn)
    BY <1>2, <1>4, <1>6 DEF Related, Undone
  <2>3. Promoting(o)
    BY <1>1, <1>4, <1>6 DEF Promoting, Reading
  <2>4. Only("Promote", o, <<>>, w, <<JobOf("Promote")>>, mn, z, wn)
    BY <1>1, <1>2 DEF Only
  <2>5. Sound(o, <<JobOf("Promote")>>, <<>>, w, mn, z, wn)
    BY <1>2, <1>4, <1>6, <2>2, <2>3, <2>4 DEF Sound, Stands
  <2> QED  BY <1>0, <1>4, <1>6, <2>1, <2>5 DEF Handled
<1> QED
  BY <1>0, <1>3, <1>5, <1>6 DEF Receipt, Supervisor

\* The promotion is back: it is in force, or the window is to be put back.
LEMMA HandlePromote ==
    ASSUME NEW s \in Supervisor, NEW m \in Receipt, NEW js, NEW w, NEW mn, NEW z, NEW wn,
           m.kind = "Promote", Sound(s, js, <<m>>, w, mn, z, wn)
    PROVE  Handled(s, HandleReturn([s |-> s, jobs |-> js], m), <<>>, w, mn, z, wn)
<1>0. PICK x : x = [s |-> s, jobs |-> js]
  OBVIOUS
<1>1. /\ Promoting(s) /\ w.at = "idle" /\ js = <<>> /\ Truthful(m, s, mn, z, wn)
  <2>1. Promoting(s) /\ Only("Promote", s, <<m>>, w, js, mn, z, wn)
    BY Singles, Pairs DEF Sound, Stands, Only, ProbeThenRestore, Nothing, Answers
  <2> QED  BY <2>1, Singles DEF Only
<1> DEFINE exact == /\ m.read # <<>>
                    /\ GeometryMatches(s.orig[1], m.read[1])
                    /\ m.read[1].top
           a == IF exact THEN s ELSE StateRevoke(s)
           b == [a EXCEPT !.returned = TRUE, !.st.pending = 0]
           r == Expire(b)
           d == IF m.ok THEN r ELSE StateRevoke(r)
           f == [d EXCEPT !.st.phase = IF d.st.revoked THEN "RestorePending" ELSE "Active"]
<1>2. HandleReturn(x, m) = [s |-> f, jobs |-> <<>>]
  <2>1. HandleReturn(x, m) = [x EXCEPT !.s = PromotionCompleted(x.s, m)]
    BY DEF HandleReturn
  <2>2. PromotionCompleted(s, m) = f
    BY DEF PromotionCompleted
  <2> HIDE DEF f
  <2> QED  BY <1>0, <1>1, <2>1, <2>2
<1> HIDE DEF exact
<1>3. RevokedFrom(s, a) /\ a \in Supervisor
  <2>1. RevokedFrom(s, s)
    BY DEF RevokedFrom, Alike
  <2> QED  BY <2>1, StateRevokeAlike DEF RevokedFrom
<1> HIDE DEF a
<1>4. /\ b \in Supervisor /\ b.returned /\ b.st.pending = 0 /\ b.init = s.init
      /\ b.probing = s.probing /\ b.expected = s.expected /\ b.settling = s.settling
      /\ b.told = s.told /\ b.orig = s.orig /\ b.st.cleanup = s.st.cleanup
      /\ b.st.deadline = s.st.deadline /\ (s.st.revoked => b.st.revoked)
  BY <1>3 DEF RevokedFrom, Alike, Supervisor, Status
<1> HIDE DEF b
<1>5. RevokedFrom(b, r) /\ r \in Supervisor
  BY <1>4, StateRevokeAlike DEF Expire, RevokedFrom, Alike
<1> HIDE DEF r
<1>6. RevokedFrom(b, d) /\ d \in Supervisor /\ (~ d.st.revoked => m.ok)
  BY <1>5, StateRevokeAlike, RevokedTwice DEF RevokedFrom
<1> HIDE DEF d
<1>7. /\ f \in Supervisor /\ f.returned /\ f.st.pending = 0 /\ f.init = s.init
      /\ f.probing = s.probing /\ f.expected = s.expected /\ f.settling = s.settling
      /\ f.told = s.told /\ f.orig = s.orig /\ f.st.cleanup = s.st.cleanup
      /\ f.st.deadline = s.st.deadline /\ (s.st.revoked => f.st.revoked)
      /\ (f.st.revoked => f.st.phase # "Active") /\ (~ f.st.revoked => m.ok)
  <2>1. /\ d.returned /\ d.st.pending = 0 /\ d.init = s.init
        /\ d.probing = s.probing /\ d.expected = s.expected /\ d.settling = s.settling
        /\ d.told = s.told /\ d.orig = s.orig /\ d.st.cleanup = s.st.cleanup
        /\ d.st.deadline = s.st.deadline /\ (s.st.revoked => d.st.revoked)
    BY <1>4, <1>6 DEF RevokedFrom, Alike
  <2>2. /\ f \in Supervisor /\ f.returned = d.returned /\ f.init = d.init
        /\ f.probing = d.probing /\ f.expected = d.expected /\ f.settling = d.settling
        /\ f.told = d.told /\ f.orig = d.orig /\ f.st.cleanup = d.st.cleanup
        /\ f.st.deadline = d.st.deadline /\ f.st.revoked = d.st.revoked
        /\ f.st.pending = d.st.pending /\ (f.st.revoked => f.st.phase # "Active")
    BY <1>6 DEF Supervisor, Status, Phases
  <2> QED  BY <1>6, <2>1, <2>2
<1> HIDE DEF f
<1>8. \/ Promoted(f) /\ mn \in InForce
      \/ Restoring(f) /\ f.st.pending = 0 /\ ~ f.probing
  BY <1>1, <1>7 DEF Promoted, Restoring, Promoting, Truthful
<1>9. Related(f, mn, wn) /\ ~ f.told /\ z # "ok"
  BY <1>1, <1>7 DEF Sound, Related, Promoting, Settling, Clean
<1>10. Sound(f, <<>>, <<>>, w, mn, z, wn)
  BY <1>1, <1>8, <1>9 DEF Sound, Stands, Nothing
<1> QED
  BY <1>0, <1>2, <1>7, <1>10 DEF Handled, Onward

\* A restore is back: verified against the original, or in doubt.
LEMMA HandleRestore ==
    ASSUME NEW s \in Supervisor, NEW m \in Receipt, NEW js, NEW w, NEW mn, NEW z, NEW wn,
           m.kind = "Restore", Sound(s, js, <<m>>, w, mn, z, wn)
    PROVE  Handled(s, HandleReturn([s |-> s, jobs |-> js], m), <<>>, w, mn, z, wn)
<1>0. PICK x : x = [s |-> s, jobs |-> js]
  OBVIOUS
<1>1. /\ Restoring(s) /\ ~ s.probing
      /\ w.at = "idle" /\ js = <<>> /\ Truthful(m, s, mn, z, wn)
  <2>1. Restoring(s) /\ ~ s.probing /\ Only("Restore", s, <<m>>, w, js, mn, z, wn)
    BY Singles, Pairs DEF Sound, Stands, Only, ProbeThenRestore, Nothing, Answers
  <2> QED  BY <2>1, Singles DEF Only
<1>2. Related(s, mn, wn) /\ ~ s.told /\ z # "ok"
  BY <1>1 DEF Sound, Restoring, Settling, Clean
<1> DEFINE c == [s EXCEPT !.st.pending = 0]
           v == [s EXCEPT !.st.pending = 0, !.st.cleanup = TRUE, !.st.phase = "Restored"]
           u == StateUnknown(c)
           back == [x EXCEPT !.s.st.pending = 0]
           y == [back EXCEPT !.s.st.cleanup = TRUE, !.s.st.phase = "Restored"]
           verified == m.ok /\ m.read # <<>> /\ RestoredMatches(s.orig[1], m.read[1])
<1>3. HandleReturn(x, m) = IF verified THEN BeginSettlement(y) ELSE [back EXCEPT !.s = StateUnknown(back.s)]
  <2>1. HandleReturn(x, m) = RestoreCompleted(x, m)
    BY DEF HandleReturn
  <2> QED  BY <1>0, <2>1 DEF RestoreCompleted
<1>4. back = [s |-> c, jobs |-> <<>>]
  <2>1. back \in [s : {c}, jobs : {<<>>}]
    BY <1>0, <1>1
  <2> QED  BY <2>1, LoopState
<1>5. y = [s |-> v, jobs |-> <<>>]
  <2>1. y \in [s : {v}, jobs : {<<>>}]
    BY <1>0, <1>1
  <2> QED  BY <2>1, LoopState
<1>6. CASE verified
  <2>1. /\ v \in Supervisor /\ Onward(s, v) /\ v.init /\ v.st.revoked /\ v.st.pending = 0
        /\ ~ v.probing /\ ~ v.told /\ v.st.phase = "Restored" /\ v.orig = s.orig
    BY <1>1, <1>2 DEF Supervisor, Status, Phases, Onward, Restoring
  <2>2. mn \in Undone
    BY <1>1, <1>6 DEF Truthful, RestoredMatches
  <2>3. HandleReturn(x, m) = BeginSettlement([s |-> v, jobs |-> <<>>])
    <3> HIDE DEF y, v
    <3> QED  BY <1>3, <1>5, <1>6
  <2> HIDE DEF v
  <2>4. Related(v, mn, wn)
    BY <1>2, <2>1 DEF Related
  <2>5. Handled(v, BeginSettlement([s |-> v, jobs |-> <<>>]), <<>>, w, mn, z, wn)
    BY <1>1, <2>1, <2>2, <2>4, SettlementBegun
  <2> QED  BY <1>0, <2>1, <2>3, <2>5 DEF Handled, Onward
<1>7. CASE ~ verified
  <2>1. /\ u \in Supervisor /\ Onward(s, u) /\ u.orig = s.orig /\ ~ u.told
        /\ Restoring(u) /\ u.st.pending = 0 /\ ~ u.probing
    BY <1>1, <1>2 DEF StateUnknown, Supervisor, Status, Phases, Onward, Restoring
  <2>2. HandleReturn(x, m) = [s |-> u, jobs |-> <<>>]
    <3> HIDE DEF back, c, verified
    <3> QED  BY <1>3, <1>4, <1>7
  <2> HIDE DEF u
  <2>3. Sound(u, <<>>, <<>>, w, mn, z, wn)
    BY <1>1, <1>2, <2>1 DEF Sound, Stands, Nothing, Related
  <2> QED  BY <1>0, <2>1, <2>2, <2>3 DEF Handled
<1> QED
  BY <1>6, <1>7

\* A supervisor that is restoring, with nothing on its way or with a probe that has
\* not been read, sends the restore, unless one is in flight.
LEMMA RestoreDispatched ==
    ASSUME NEW s \in Supervisor, NEW js, NEW w, NEW mn, NEW z, NEW wn,
           Sound(s, js, <<>>, w, mn, z, wn), Restoring(s)
    PROVE  Handled(s, DispatchRestore([s |-> s, jobs |-> js]), <<>>, w, mn, z, wn)
<1>0. PICK x : x = [s |-> s, jobs |-> js]
  OBVIOUS
<1>1. Related(s, mn, wn) /\ ~ s.told /\ z # "ok"
  BY DEF Sound, Restoring, Settling, Clean
<1>2. CASE s.st.pending # 0
  <2>1. DispatchRestore(x) = x
    BY <1>0, <1>2 DEF DispatchRestore
  <2> QED  BY <1>0, <2>1 DEF Handled, Onward
<1>3. CASE s.st.pending = 0
  <2> DEFINE r == [s EXCEPT !.st.pending = 2, !.st.phase = "RestorePending"]
             y == [x EXCEPT !.s.st.pending = 2, !.s.st.phase = "RestorePending"]
  <2>1. /\ r \in Supervisor /\ Onward(s, r) /\ Restoring(r) /\ r.st.pending = 2
        /\ r.probing = s.probing /\ ~ r.told /\ r.orig = s.orig
    BY <1>1 DEF Supervisor, Status, Phases, Onward, Restoring
  <2>2. y = [s |-> r, jobs |-> js]
    <3>1. y \in [s : {r}, jobs : {js}]
      BY <1>0
    <3> QED  BY <3>1, LoopState
  <2>3. DispatchRestore(x) = Send(y, JobOf("Restore"))
    BY <1>0, <1>3 DEF DispatchRestore, Restoring, JobOf
  <2>4. DispatchRestore(x) = [s |-> r, jobs |-> Append(js, JobOf("Restore"))]
    <3> HIDE DEF r, y
    <3> QED  BY <2>2, <2>3 DEF Send
  <2> HIDE DEF r
  <2>5. Related(r, mn, wn)
    BY <1>1, <2>1 DEF Related
  <2>6. CASE ~ s.probing
    <3>1. Nothing(<<>>, w, js)
      BY <1>3, <2>6 DEF Sound, Stands, Restoring, Reading, Promoting, Promoted, Settling, Clean
    <3>2. Append(js, JobOf("Restore")) = <<JobOf("Restore")>>
      BY <3>1, Singles DEF Nothing
    <3>3. Only("Restore", r, <<>>, w, <<JobOf("Restore")>>, mn, z, wn)
      BY <3>1 DEF Only, Nothing
    <3>4. Sound(r, <<JobOf("Restore")>>, <<>>, w, mn, z, wn)
      BY <1>1, <2>1, <2>5, <2>6, <3>3 DEF Sound, Stands
    <3> QED  BY <1>0, <2>1, <2>4, <3>2, <3>4 DEF Handled
  <2>7. CASE s.probing
    <3>1. Only("Probe", s, <<>>, w, js, mn, z, wn)
      BY <1>3, <2>7 DEF Sound, Stands, Restoring, Reading, Promoting, Promoted, Settling, Clean
    <3>2. w.at = "idle" /\ js = <<JobOf("Probe")>>
      BY <3>1, Singles DEF Only
    <3>3. Append(js, JobOf("Restore")) = <<JobOf("Probe"), JobOf("Restore")>>
      BY <3>2, Pairs
    <3>4. ProbeThenRestore(r, <<>>, w, <<JobOf("Probe"), JobOf("Restore")>>, mn, z, wn)
      BY <3>2 DEF ProbeThenRestore
    <3>5. Sound(r, <<JobOf("Probe"), JobOf("Restore")>>, <<>>, w, mn, z, wn)
      BY <1>1, <2>1, <2>5, <2>7, <3>4 DEF Sound, Stands
    <3>6. Sound(r, Append(js, JobOf("Restore")), <<>>, w, mn, z, wn)
      BY <3>3, <3>5
    <3>7. PICK ja : ja = Append(js, JobOf("Restore"))
      OBVIOUS
    <3>8. DispatchRestore(x) = [s |-> r, jobs |-> ja] /\ Sound(r, ja, <<>>, w, mn, z, wn)
      BY <2>4, <3>6, <3>7
    <3> QED  BY <1>0, <2>1, <3>8 DEF Handled
  <2> QED  BY <2>6, <2>7
<1> QED
  BY <1>2, <1>3

\* The step of tick after the returns (Supervisor::tick).
LEMMA NextStepSound ==
    ASSUME NEW s \in Supervisor, NEW js, NEW w, NEW mn, NEW z, NEW wn,
           Sound(s, js, <<>>, w, mn, z, wn)
    PROVE  Handled(s, NextStep([s |-> s, jobs |-> js]), <<>>, w, mn, z, wn)
<1>0. PICK x : x = [s |-> s, jobs |-> js]
  OBVIOUS
<1>1. CASE NextStep(x) = x
  BY <1>0, <1>1 DEF Handled, Onward
<1>2. CASE /\ s.st.revoked /\ s.init /\ ~ s.st.cleanup
           /\ s.expected # "none" /\ ~ s.settling
  <2> DEFINE r == [s EXCEPT !.settling = TRUE]
             y == [x EXCEPT !.s.settling = TRUE]
  <2>1. Settling(s) /\ mn \in Undone /\ Nothing(<<>>, w, js) /\ Related(s, mn, wn) /\ ~ s.told
    BY <1>2 DEF Sound, Stands, Restoring, Reading, Promoting, Promoted, Settling, Clean
  <2>2. /\ r \in Supervisor /\ Onward(s, r) /\ Settling(r) /\ r.settling /\ ~ r.told
        /\ r.orig = s.orig
    BY <2>1 DEF Supervisor, Onward, Settling
  <2>3. y = [s |-> r, jobs |-> js]
    <3>1. y \in [s : {r}, jobs : {js}]
      BY <1>0
    <3> QED  BY <3>1, LoopState
  <2>4. NextStep(x) = Send(y, JobOf("Settle"))
    BY <1>0, <1>2 DEF NextStep, JobOf
  <2>5. NextStep(x) = [s |-> r, jobs |-> <<JobOf("Settle")>>]
    <3>1. Append(js, JobOf("Settle")) = <<JobOf("Settle")>>
      BY <2>1, Singles DEF Nothing
    <3> HIDE DEF r, y
    <3> QED  BY <2>3, <2>4, <3>1 DEF Send
  <2> HIDE DEF r
  <2>6. Only("Settle", r, <<>>, w, <<JobOf("Settle")>>, mn, z, wn)
    BY <2>1 DEF Only, Nothing
  <2>7. Sound(r, <<JobOf("Settle")>>, <<>>, w, mn, z, wn)
    BY <2>1, <2>2, <2>6 DEF Sound, Stands, Related
  <2> QED  BY <1>0, <2>2, <2>5, <2>7 DEF Handled
<1>3. CASE /\ s.st.revoked /\ s.init /\ ~ s.st.cleanup /\ s.expected = "none"
           /\ s.st.phase = "RestorePending"
  <2>1. Restoring(s)
    BY <1>3 DEF Sound, Stands, Restoring, Reading, Promoting, Promoted, Settling, Clean
  <2>2. NextStep(x) = DispatchRestore(x)
    BY <1>0, <1>3 DEF NextStep
  <2> QED  BY <1>0, <2>1, <2>2, RestoreDispatched
<1>4. CASE /\ s.st.revoked /\ s.init /\ ~ s.st.cleanup /\ s.expected = "none"
           /\ s.st.phase # "RestorePending" /\ s.st.pending = 0 /\ ~ s.probing
  <2> DEFINE r == [s EXCEPT !.probing = TRUE]
             y == [x EXCEPT !.s.probing = TRUE]
  <2>1. /\ Restoring(s) /\ Nothing(<<>>, w, js) /\ Related(s, mn, wn) /\ ~ s.told /\ z # "ok"
    BY <1>4 DEF Sound, Stands, Restoring, Reading, Promoting, Promoted, Settling, Clean
  <2>2. /\ r \in Supervisor /\ Onward(s, r) /\ Restoring(r) /\ r.probing /\ ~ r.told
        /\ r.orig = s.orig /\ r.st.pending = 0
    BY <1>4, <2>1 DEF Supervisor, Onward, Restoring
  <2>3. y = [s |-> r, jobs |-> js]
    <3>1. y \in [s : {r}, jobs : {js}]
      BY <1>0
    <3> QED  BY <3>1, LoopState
  <2>4. NextStep(x) = Send(y, JobOf("Probe"))
    BY <1>0, <1>4 DEF NextStep, JobOf
  <2>5. NextStep(x) = [s |-> r, jobs |-> <<JobOf("Probe")>>]
    <3>1. Append(js, JobOf("Probe")) = <<JobOf("Probe")>>
      BY <2>1, Singles DEF Nothing
    <3> HIDE DEF r, y
    <3> QED  BY <2>3, <2>4, <3>1 DEF Send
  <2> HIDE DEF r
  <2>6. Only("Probe", r, <<>>, w, <<JobOf("Probe")>>, mn, z, wn)
    BY <2>1 DEF Only, Nothing
  <2>7. Sound(r, <<JobOf("Probe")>>, <<>>, w, mn, z, wn)
    BY <2>1, <2>2, <2>6 DEF Sound, Stands, Related
  <2> QED  BY <1>0, <2>2, <2>5, <2>7 DEF Handled
<1> QED
  BY <1>0, <1>1, <1>2, <1>3, <1>4 DEF NextStep

\* A probe is back, behind it nothing, a restore that is not back, or one that is.
LEMMA HandleProbed ==
    ASSUME NEW s \in Supervisor, NEW m \in Receipt, NEW js, NEW rest, NEW w,
           NEW mn, NEW z, NEW wn, NEW rs, m.kind = "Probed", Sound(s, js, rs, w, mn, z, wn),
           \/ rs = <<m>> /\ rest = <<>>
           \/ \E n \in Receipt : rs = <<m, n>> /\ rest = <<n>>
    PROVE  Handled(s, HandleReturn([s |-> s, jobs |-> js], m), rest, w, mn, z, wn)
<1>0. PICK x : x = [s |-> s, jobs |-> js]
  OBVIOUS
<1> DEFINE r == [s EXCEPT !.probing = FALSE]
           y == [x EXCEPT !.s.probing = FALSE]
<1>1. y = [s |-> r, jobs |-> js]
  <2>1. y \in [s : {r}, jobs : {js}]
    BY <1>0
  <2> QED  BY <2>1, LoopState
<1>2. HandleReturn(x, m) = y \/ HandleReturn(x, m) = DispatchRestore(y)
  BY DEF HandleReturn
<1>3. /\ Restoring(s) /\ s.probing
      /\ \/ s.st.pending = 0 /\ Only("Probe", s, rs, w, js, mn, z, wn)
         \/ s.st.pending = 2 /\ ProbeThenRestore(s, rs, w, js, mn, z, wn)
  <2>1. rs # <<>> /\ rs[1] = m
    BY Singles, Pairs
  <2>2. ASSUME NEW kind \in {"Initialize", "Promote", "Restore", "Settle"}
        PROVE  ~ Only(kind, s, rs, w, js, mn, z, wn)
    <3> SUFFICES ASSUME Only(kind, s, rs, w, js, mn, z, wn) PROVE FALSE
      OBVIOUS
    <3>1. PICK n \in Receipt : rs = <<n>> /\ n.kind \in Answers(kind)
      BY <2>1 DEF Only
    <3>2. n = m
      BY <2>1, <3>1, Singles
    <3> QED  BY <3>1, <3>2 DEF Answers
  <2>3. ~ Nothing(rs, w, js)
    BY <2>1 DEF Nothing
  <2> QED  BY <2>2, <2>3 DEF Sound, Stands
<1>4. Related(s, mn, wn) /\ ~ s.told /\ z # "ok"
  BY <1>3 DEF Sound, Restoring, Settling, Clean
<1>5. /\ r \in Supervisor /\ Onward(s, r) /\ Restoring(r) /\ ~ r.probing
      /\ r.st.pending = s.st.pending /\ ~ r.told /\ r.orig = s.orig
  BY <1>3, <1>4 DEF Supervisor, Onward, Restoring
<1> HIDE DEF r, y
<1>6. Related(r, mn, wn)
  BY <1>4, <1>5 DEF Related
<1>7. CASE s.st.pending = 0
  <2>1. Only("Probe", s, rs, w, js, mn, z, wn)
    BY <1>3, <1>7
  <2>2. rs = <<m>> /\ rest = <<>> /\ w.at = "idle" /\ js = <<>>
    <3>1. PICK n \in Receipt : rs = <<n>> /\ w.at = "idle" /\ js = <<>>
      BY <2>1, Singles, Pairs DEF Only
    <3>2. \A k, n2 : <<m, k>> # <<n2>>
      BY Singles, Pairs
    <3> QED  BY <3>1, <3>2, Singles
  <2>3. Sound(r, js, <<>>, w, mn, z, wn)
    BY <1>4, <1>5, <1>6, <1>7, <2>2 DEF Sound, Stands, Nothing
  <2>4. Handled(r, DispatchRestore(y), rest, w, mn, z, wn)
    BY <1>1, <1>5, <2>2, <2>3, RestoreDispatched
  <2> QED  BY <1>0, <1>1, <1>2, <1>5, <2>2, <2>3, <2>4 DEF Handled, Onward
<1>8. CASE s.st.pending = 2
  <2>1. ProbeThenRestore(s, rs, w, js, mn, z, wn)
    BY <1>3, <1>8
  <2>2. y.s = r
    BY <1>1
  <2>3. HandleReturn(x, m) = y
    BY <1>2, <1>5, <1>8, <2>2 DEF DispatchRestore
  <2>4. Only("Restore", r, rest, w, js, mn, z, wn)
    <3>1. rs # <<>>
      BY Singles, Pairs
    <3>2. \A k, n2 : <<m, k>> # <<n2>> /\ <<n2>> # <<m, k>>
      BY Singles, Pairs
    <3>3. \A n \in Receipt : Truthful(n, s, mn, z, wn) => Truthful(n, r, mn, z, wn)
      BY <1>5 DEF Truthful
    <3>4. PICK m2 \in Receipt :
            \/ rs = <<m2>> /\ w.at = "idle" /\ js = <<JobOf("Restore")>>
            \/ rs = <<m2>> /\ Busy(w, "Restore", mn) /\ js = <<>>
            \/ /\ w.at = "idle" /\ js = <<>>
               /\ \E n \in Receipt : /\ rs = <<m2, n>> /\ n.kind \in Answers("Restore")
                                     /\ Truthful(n, s, mn, z, wn)
      BY <2>1, <3>1 DEF ProbeThenRestore
    <3>5. CASE rs = <<m2>> /\ w.at = "idle" /\ js = <<JobOf("Restore")>>
      BY <3>2, <3>5 DEF Only
    <3>6. CASE rs = <<m2>> /\ Busy(w, "Restore", mn) /\ js = <<>>
      BY <3>2, <3>6 DEF Only
    <3>7. CASE /\ w.at = "idle" /\ js = <<>>
               /\ \E n \in Receipt : /\ rs = <<m2, n>> /\ n.kind \in Answers("Restore")
                                     /\ Truthful(n, s, mn, z, wn)
      <4>1. PICK n \in Receipt : /\ rs = <<m2, n>> /\ n.kind \in Answers("Restore")
                                 /\ Truthful(n, s, mn, z, wn)
        BY <3>7
      <4>2. rest = <<n>>
        <5>1. rs # <<m>>
          BY <4>1, Singles, Pairs
        <5>2. PICK k \in Receipt : rs = <<m, k>> /\ rest = <<k>>
          BY <5>1
        <5> QED  BY <4>1, <5>2, Pairs
      <4> QED  BY <3>3, <3>7, <4>1, <4>2 DEF Only
    <3> QED  BY <3>4, <3>5, <3>6, <3>7
  <2>5. Sound(r, js, rest, w, mn, z, wn)
    BY <1>4, <1>5, <1>6, <1>8, <2>4 DEF Sound, Stands
  <2> QED  BY <1>0, <1>1, <1>5, <2>3, <2>5 DEF Handled
<1> QED
  BY <1>3, <1>7, <1>8

\* A job has panicked: its sequence stays in flight, and nothing more is sent.
LEMMA HandlePanicked ==
    ASSUME NEW s \in Supervisor, NEW m \in Receipt, NEW js, NEW w, NEW mn, NEW z, NEW wn,
           m.kind = "Panicked", Sound(s, js, <<m>>, w, mn, z, wn)
    PROVE  Handled(s, HandleReturn([s |-> s, jobs |-> js], m), <<>>, w, mn, z, wn)
<1>0. PICK x : x = [s |-> s, jobs |-> js]
  OBVIOUS
<1> DEFINE u == StateUnknown(s)
<1>1. /\ Promoting(s) \/ (Restoring(s) /\ s.st.pending = 2 /\ ~ s.probing)
      /\ w.at = "idle" /\ js = <<>>
  <2>1. \/ Promoting(s) /\ Only("Promote", s, <<m>>, w, js, mn, z, wn)
        \/ /\ Restoring(s) /\ s.st.pending = 2 /\ ~ s.probing
           /\ Only("Restore", s, <<m>>, w, js, mn, z, wn)
    BY Singles, Pairs DEF Sound, Stands, Only, ProbeThenRestore, Nothing, Answers
  <2> QED  BY <2>1, Singles DEF Only
<1>2. Related(s, mn, wn) /\ ~ s.told /\ z # "ok"
  BY <1>1 DEF Sound, Restoring, Promoting, Settling, Clean
<1>3. /\ u \in Supervisor /\ Onward(s, u) /\ u.orig = s.orig /\ ~ u.told
      /\ Promoting(u) \/ (Restoring(u) /\ u.st.pending = 2 /\ ~ u.probing)
  BY <1>1, <1>2 DEF StateUnknown, Supervisor, Status, Phases, Onward, Restoring, Promoting
<1>4. HandleReturn(x, m) = [s |-> u, jobs |-> <<>>]
  <2>1. HandleReturn(x, m) = [x EXCEPT !.s = StateUnknown(x.s)]
    BY DEF HandleReturn
  <2> QED  BY <1>0, <1>1, <2>1
<1> HIDE DEF u
<1>5. Sound(u, <<>>, <<>>, w, mn, z, wn)
  BY <1>1, <1>2, <1>3 DEF Sound, Stands, Nothing, Related
<1> QED
  BY <1>0, <1>3, <1>4, <1>5 DEF Handled

\* The settled record is written, or it is in doubt and will be written again.
LEMMA HandleSettled ==
    ASSUME NEW s \in Supervisor, NEW m \in Receipt, NEW js, NEW w, NEW mn, NEW z, NEW wn,
           m.kind = "Settled", Sound(s, js, <<m>>, w, mn, z, wn)
    PROVE  Handled(s, HandleReturn([s |-> s, jobs |-> js], m), <<>>, w, mn, z, wn)
<1>0. PICK x : x = [s |-> s, jobs |-> js]
  OBVIOUS
<1>1. /\ Settling(s) /\ mn \in Undone /\ w.at = "idle" /\ js = <<>>
      /\ Truthful(m, s, mn, z, wn)
  <2>1. Settling(s) /\ mn \in Undone /\ Only("Settle", s, <<m>>, w, js, mn, z, wn)
    BY Singles, Pairs DEF Sound, Stands, Only, ProbeThenRestore, Nothing, Answers
  <2> QED  BY <2>1, Singles DEF Only
<1>2. Related(s, mn, wn) /\ ~ s.told
  BY <1>1 DEF Sound, Settling
<1>3. CASE m.ok
  <2> DEFINE c == [s EXCEPT !.st.cleanup = TRUE, !.st.phase = s.expected,
                            !.expected = "none", !.settling = FALSE]
             y == [x EXCEPT !.s.st.cleanup = TRUE, !.s.st.phase = x.s.expected,
                            !.s.expected = "none", !.s.settling = FALSE]
  <2>1. /\ c \in Supervisor /\ Onward(s, c) /\ c.orig = s.orig /\ ~ c.told /\ Clean(c)
    BY <1>1, <1>2 DEF Supervisor, Status, Phases, Onward, Settling, Clean
  <2>2. y = [s |-> c, jobs |-> <<>>]
    <3>1. y \in [s : {c}, jobs : {<<>>}]
      BY <1>0, <1>1
    <3> QED  BY <3>1, LoopState
  <2>3. HandleReturn(x, m) = y
    BY <1>3 DEF HandleReturn, PersistedSettlement
  <2> HIDE DEF c, y
  <2>4. Sound(c, <<>>, <<>>, w, mn, z, wn)
    BY <1>1, <1>2, <1>3, <2>1 DEF Sound, Stands, Nothing, Related, Truthful
  <2> QED  BY <1>0, <2>1, <2>2, <2>3, <2>4 DEF Handled
<1>4. CASE ~ m.ok
  <2> DEFINE u == StateUnknown([s EXCEPT !.settling = FALSE])
  <2>1. /\ u \in Supervisor /\ Onward(s, u) /\ u.orig = s.orig /\ ~ u.told
        /\ Settling(u) /\ ~ u.settling
    BY <1>1, <1>2 DEF StateUnknown, Supervisor, Status, Phases, Onward, Settling
  <2>2. HandleReturn(x, m) = [s |-> u, jobs |-> <<>>]
    <3>1. HandleReturn(x, m) = [x EXCEPT !.s = StateUnknown([x.s EXCEPT !.settling = FALSE])]
      BY <1>4 DEF HandleReturn
    <3>2. x.s = s /\ x.jobs = <<>>
      BY <1>0, <1>1
    <3> HIDE DEF u
    <3> QED  BY <1>0, <1>1, <3>1, <3>2 DEF u
  <2> HIDE DEF u
  <2>3. Sound(u, <<>>, <<>>, w, mn, z, wn)
    BY <1>1, <1>2, <2>1 DEF Sound, Stands, Nothing, Related
  <2> QED  BY <1>0, <2>1, <2>2, <2>3 DEF Handled
<1> QED
  BY <1>3, <1>4

\* Every return, whatever it says (Supervisor::tick).
LEMMA HandleReturnSound ==
    ASSUME NEW s \in Supervisor, NEW m \in Receipt, NEW js, NEW rest, NEW w,
           NEW mn, NEW z, NEW wn, NEW rs, Sound(s, js, rs, w, mn, z, wn),
           \/ rs = <<m>> /\ rest = <<>>
           \/ \E n \in Receipt : rs = <<m, n>> /\ rest = <<n>>
    PROVE  Handled(s, HandleReturn([s |-> s, jobs |-> js], m), rest, w, mn, z, wn)
<1>1. CASE m.kind = "Probed"
  BY <1>1, HandleProbed
<1>2. CASE m.kind # "Probed" /\ rs = <<m>> /\ rest = <<>>
  BY <1>2, HandleInitialized, HandlePromote, HandleRestore, HandlePanicked, HandleSettled
     DEF Receipt
<1>3. ASSUME m.kind # "Probed", NEW n \in Receipt, rs = <<m, n>>
      PROVE  FALSE
  <2>1. \A k : rs # <<k>> /\ rs # <<>>
    BY <1>3, Singles, Pairs
  <2>2. \A k, l : rs = <<k, l>> => k = m
    BY <1>3, Pairs
  <2>3. \A kind : ~ Only(kind, s, rs, w, js, mn, z, wn)
    BY <2>1 DEF Only
  <2> QED  BY <1>3, <2>1, <2>2, <2>3 DEF Sound, Stands, Nothing, ProbeThenRestore
<1> QED
  BY <1>1, <1>2, <1>3

\* What is waiting to be received.
LEMMA ReturnShapes ==
    ASSUME NEW s, NEW js, NEW rs, NEW w, NEW mn, NEW z, NEW wn,
           Sound(s, js, rs, w, mn, z, wn)
    PROVE  \/ rs = <<>>
           \/ \E m \in Receipt : rs = <<m>>
           \/ \E m, n \in Receipt : rs = <<m, n>>
  BY DEF Sound, Stands, Only, ProbeThenRestore, Nothing

\* One pass of the loop of tick keeps the supervisor sound, and does not revoke a
\* promotion the client has no reason to doubt.
LEMMA ReceivedSound ==
    ASSUME Types, NEW p \in Preps, child[p] = "running",
           Sound(sup[p], jobs[p], returns[p], work[p], mine[p], settled[p], win),
           NEW x, x = Received(p, [s |-> Sensed(p), jobs |-> jobs[p]]),
           NEW rest, rest = IF returns[p] = <<>> THEN <<>> ELSE Tail(returns[p])
    PROVE  /\ Handled(sup[p], x, rest, work[p], mine[p], settled[p], win)
           /\ sup[p].returned /\ ~ sup[p].st.revoked /\ InForceFor(p) => ~ x.s.st.revoked
<1>1. PICK t : t = Sensed(p)
  OBVIOUS
<1>2. sup[p] \in Supervisor /\ Cancelled(p) \in BOOLEAN
  BY DEF Types, Cancelled, ParentGone
<1>3. /\ RevokedFrom(sup[p], t)
      /\ t.st.revoked => sup[p].st.revoked \/ Cancelled(p) \/ now >= sup[p].st.deadline
  <2>1. RevokedFrom(sup[p], sup[p])
    BY <1>2 DEF RevokedFrom, Alike
  <2> QED  BY <1>1, <1>2, <2>1, SenseAlike DEF Sensed
<1>4. t \in Supervisor /\ Onward(sup[p], t)
  BY <1>3 DEF RevokedFrom, Alike, Onward
<1>5. Sound(t, jobs[p], returns[p], work[p], mine[p], settled[p], win)
  BY <1>2, <1>3, SoundRevoked
<1>6. x = IF returns[p] = <<>> THEN [s |-> t, jobs |-> jobs[p]]
          ELSE HandleReturn([s |-> t, jobs |-> jobs[p]], Head(returns[p]))
  BY <1>1 DEF Received
<1>7. Handled(t, x, rest, work[p], mine[p], settled[p], win)
  <2>1. CASE returns[p] = <<>>
    BY <1>4, <1>5, <1>6, <2>1 DEF Handled, Onward
  <2>2. ASSUME NEW m \in Receipt, returns[p] = <<m>>
        PROVE  Handled(t, x, rest, work[p], mine[p], settled[p], win)
    <3>1. rest = <<>> /\ Head(returns[p]) = m /\ returns[p] # <<>>
      BY <2>2, Singles
    <3>2. x = HandleReturn([s |-> t, jobs |-> jobs[p]], m)
      BY <1>6, <3>1
    <3> QED  BY <1>4, <1>5, <2>2, <3>1, <3>2, HandleReturnSound
  <2>3. ASSUME NEW m \in Receipt, NEW n \in Receipt, returns[p] = <<m, n>>
        PROVE  Handled(t, x, rest, work[p], mine[p], settled[p], win)
    <3>1. rest = <<n>> /\ Head(returns[p]) = m /\ returns[p] # <<>>
      BY <2>3, Pairs
    <3>2. x = HandleReturn([s |-> t, jobs |-> jobs[p]], m)
      BY <1>6, <3>1
    <3> QED  BY <1>4, <1>5, <2>3, <3>1, <3>2, HandleReturnSound
  <2> QED  BY <1>5, <2>1, <2>2, <2>3, ReturnShapes
<1>8. ASSUME sup[p].returned, ~ sup[p].st.revoked, InForceFor(p)
      PROVE  ~ x.s.st.revoked
  <2>1. ~ t.st.revoked
    <3>1. ~ Cancelled(p)
      BY <1>8 DEF InForceFor, Cancelled, ParentGone
    <3>2. ~ (now >= sup[p].st.deadline)
      <4>1. now \in Nat /\ sup[p].st.deadline \in Nat
        BY <1>2 DEF Types, Supervisor, Status
      <4> QED  BY <1>8, <4>1 DEF InForceFor
    <3> QED  BY <1>3, <1>8, <3>1, <3>2
  <2>2. returns[p] = <<>>
    BY <1>8 DEF Sound, Stands, Reading, Promoting, Restoring, Settling, Clean, Nothing
  <2> QED  BY <1>6, <2>1, <2>2
<1> QED
  BY <1>4, <1>7, <1>8 DEF Handled, Onward

\* A supervisor that is not revoked does nothing more in its turn.
LEMMA NextStepIdle ==
    ASSUME NEW x, ~ x.s.st.revoked
    PROVE  NextStep(x) = x
  BY DEF NextStep

\* Being told, and the state of the loop, are beside the protocol.
LEMMA SoundTold ==
    ASSUME NEW s \in Supervisor, NEW js, NEW rs, NEW w, NEW mn, NEW z, NEW wn,
           Sound(s, js, rs, w, mn, z, wn), NEW t \in Supervisor,
           t.returned = s.returned, t.init = s.init, t.probing = s.probing,
           t.expected = s.expected, t.settling = s.settling, t.orig = s.orig, t.st = s.st,
           t.told => s.st.cleanup
    PROVE  Sound(t, js, rs, w, mn, z, wn)
<1>1. \A kind : Only(kind, s, rs, w, js, mn, z, wn) => Only(kind, t, rs, w, js, mn, z, wn)
  BY DEF Only, Truthful
<1>2. ProbeThenRestore(s, rs, w, js, mn, z, wn) => ProbeThenRestore(t, rs, w, js, mn, z, wn)
  BY DEF ProbeThenRestore, Truthful
<1>3. (Settling(s) => Settling(t)) /\ (Clean(s) => Clean(t)) /\ (Reading(s) => Reading(t))
      /\ (Promoting(s) => Promoting(t)) /\ (Restoring(s) => Restoring(t))
      /\ (Promoted(s) => Promoted(t))
  BY DEF Settling, Clean, Reading, Promoting, Restoring, Promoted
<1>4. Stands(t, js, rs, w, mn, z, wn)
  BY <1>1, <1>2, <1>3 DEF Stands, Sound
<1> QED
  BY <1>3, <1>4 DEF Sound, Related

(***************************************************************************)
(* One lemma per step.                                                     *)
(***************************************************************************)
\* A pass of the loop of tick with more returns waiting.
LEMMA ChildReceiveInv ==
    ASSUME Inv, NEW p \in Preps, ChildReceive(p)
    PROVE  Inv'
<1> USE DEF Inv
<1>1. PICK x : /\ x = Received(p, [s |-> Sensed(p), jobs |-> jobs[p]])
               /\ sup' = [sup EXCEPT ![p] = [x.s EXCEPT !.draining = TRUE]]
               /\ jobs' = [jobs EXCEPT ![p] = x.jobs]
  BY DEF ChildReceive
<1>2. /\ child[p] = "running" /\ Len(returns[p]) > 1
      /\ returns' = [returns EXCEPT ![p] = Tail(@)]
      /\ UNCHANGED <<now, faults, win, gate, index, settled, client, wire, child, work, mine, shot>>
  BY DEF ChildReceive, environment
<1>3. Sound(sup[p], jobs[p], returns[p], work[p], mine[p], settled[p], win)
  BY <1>2 DEF Supervised
<1>4. PICK m \in Receipt, n \in Receipt : returns[p] = <<m, n>>
  <2>1. \A m : returns[p] # <<m>>
    <3> SUFFICES ASSUME NEW m, returns[p] = <<m>> PROVE FALSE
      OBVIOUS
    <3>1. Len(returns[p]) = 1
      BY Singles
    <3> QED  BY <1>2, <3>1
  <2>2. returns[p] # <<>>
    <3> SUFFICES ASSUME returns[p] = <<>> PROVE FALSE
      OBVIOUS
    <3>1. Len(returns[p]) = 0
      BY Singles
    <3> QED  BY <1>2, <3>1
  <2> QED  BY <1>3, <2>1, <2>2, ReturnShapes
<1>5. PICK rest : rest = <<n>> /\ Tail(returns[p]) = rest /\ returns[p] # <<>>
  BY <1>4, Pairs, ZenonT(60)
<1>6. /\ Handled(sup[p], x, rest, work[p], mine[p], settled[p], win)
      /\ sup[p].returned /\ ~ sup[p].st.revoked /\ InForceFor(p) => ~ x.s.st.revoked
  BY <1>1, <1>2, <1>3, <1>5, ReceivedSound
<1>7. PICK t : t = [x.s EXCEPT !.draining = TRUE]
  OBVIOUS
<1>8. /\ t \in Supervisor /\ Onward(sup[p], t) /\ t.st = x.s.st
      /\ Sound(t, x.jobs, rest, work[p], mine[p], settled[p], win)
  <2>1. x.s \in Supervisor /\ Onward(sup[p], x.s)
        /\ Sound(x.s, x.jobs, rest, work[p], mine[p], settled[p], win)
    BY <1>6 DEF Handled
  <2>2. /\ t \in Supervisor /\ t.returned = x.s.returned /\ t.init = x.s.init
        /\ t.probing = x.s.probing /\ t.expected = x.s.expected /\ t.settling = x.s.settling
        /\ t.orig = x.s.orig /\ t.st = x.s.st /\ t.told = x.s.told
    BY <1>7, <2>1 DEF Supervisor
  <2>3. Sound(t, x.jobs, rest, work[p], mine[p], settled[p], win)
    <3>1. t.told => x.s.st.cleanup
      BY <2>1, <2>2 DEF Sound
    <3> QED  BY <2>1, <2>2, <3>1, SoundTold
  <2> QED  BY <2>1, <2>2, <2>3 DEF Onward
<1>9. /\ sup' = [sup EXCEPT ![p] = t] /\ jobs' = [jobs EXCEPT ![p] = x.jobs]
      /\ returns' = [returns EXCEPT ![p] = rest]
  BY <1>1, <1>2, <1>5, <1>7
<1>10. Types'
  BY <1>2, <1>8, <1>9 DEF Types
<1>11. Supervised'
  <2> SUFFICES ASSUME NEW q \in Preps, child'[q] = "running"
               PROVE  Sound(sup'[q], jobs'[q], returns'[q], work'[q], mine'[q], settled'[q], win')
    BY DEF Supervised
  <2>1. CASE q = p
    BY <1>2, <1>8, <1>9, <2>1 DEF Types
  <2>2. CASE q # p
    BY <1>2, <1>9, <2>2 DEF Types, Supervised
  <2> QED  BY <2>1, <2>2
<1>12. Still' /\ Exclusive' /\ Journalled' /\ Placed'
  BY <1>2, <1>9 DEF Still, Exclusive, Journalled, Placed, Types, Nothing
<1>13. Early'
  BY <1>2, <1>9 DEF Early, Types
<1>14. Reported'
  <2>1. \A q \in Preps : sup'[q].st.deadline = sup[q].st.deadline
    BY <1>8, <1>9 DEF Types, Onward
  <2> QED  BY <1>2, <2>1 DEF Reported
<1>15. Believed'
  BY <1>2, <1>6, <1>8, <1>9, ZenonT(60) DEF Believed, InForceFor, Types, Onward
<1>16. Shots'
  BY <1>2, <1>8, <1>9, ZenonT(60) DEF Shots, InForceFor, Types, Onward
<1> QED
  BY <1>10, <1>11, <1>12, <1>13, <1>14, <1>15, <1>16

\* A fault uses up one of those that are left.
LEMMA FaultCounts ==
    ASSUME Types, Fault
    PROVE  faults' \in Nat
<1>1. faults \in Nat
  BY DEF Types
<1> QED
  BY <1>1 DEF Fault

\* A child that ends, by itself or from outside, leaves the window, the journal
\* and what its client was told.
LEMMA EndsInv ==
    ASSUME Inv, NEW p \in Preps, child[p] \in {"boot", "indexing", "running", "refused"},
           NEW how \in {"exited", "killed"}, Ends(p, how), faults' \in Nat,
           UNCHANGED <<now, win, index, settled, client, wire, mine, shot>>
    PROVE  Inv'
<1> USE DEF Inv
<1>1. /\ child' = [child EXCEPT ![p] = how]
      /\ sup' = [sup EXCEPT ![p] = NewSupervisor(0)]
      /\ gate' = IF gate = p THEN 0 ELSE gate
      /\ jobs' = [jobs EXCEPT ![p] = <<>>]
      /\ returns' = [returns EXCEPT ![p] = <<>>]
      /\ work' = [work EXCEPT ![p] = Idle]
  BY DEF Ends
<1>2. NewSupervisor(0) \in Supervisor /\ Idle \in Errand /\ Idle.at = "idle"
  <2>1. <<>> \in Seq({"promote", "tier", "anchor"})
    OBVIOUS
  <2> QED  BY <2>1 DEF NewSupervisor, NewStatus, Supervisor, Status, Phases, Reads, Idle, Errand
<1>3. Types'
  <2>1. gate' \in 0 .. MaxPreparations
    <3>1. gate \in 0 .. MaxPreparations /\ MaxPreparations \in Nat
      BY BoundsAssumption DEF Types
    <3>2. gate' = 0 \/ gate' = gate
      BY <1>1
    <3> QED  BY <3>1, <3>2
  <2>2. PICK e : e = <<>>
    OBVIOUS
  <2>3. jobs' = [jobs EXCEPT ![p] = e] /\ returns' = [returns EXCEPT ![p] = e]
    BY <1>1, <2>2
  <2>4. /\ DOMAIN jobs' = Preps /\ jobs' = [q \in Preps |-> jobs'[q]]
        /\ DOMAIN returns' = Preps /\ returns' = [q \in Preps |-> returns'[q]]
    BY <2>3 DEF Types
  <2>5. child' \in [Preps -> {"none", "boot", "indexing", "running", "refused", "exited", "killed"}]
    BY <1>1 DEF Types
  <2>6. sup' \in [Preps -> Supervisor] /\ work' \in [Preps -> Errand]
    BY <1>1, <1>2 DEF Types
  <2> QED  BY <2>1, <2>4, <2>5, <2>6 DEF Types
<1>4. Supervised'
  <2> SUFFICES ASSUME NEW q \in Preps, child'[q] = "running"
               PROVE  Sound(sup'[q], jobs'[q], returns'[q], work'[q], mine'[q], settled'[q], win')
    BY DEF Supervised
  <2>1. q # p
    BY <1>1 DEF Types
  <2> QED  BY <1>1, <2>1 DEF Types, Supervised
<1>5. Still'
  BY <1>1, <1>2 DEF Still, Types, Nothing
<1>6. Exclusive'
  BY <1>1 DEF Exclusive, Types
<1>7. Journalled' /\ Placed'
  BY DEF Journalled, Placed
<1>8. Early'
  BY <1>1 DEF Early, Types
<1>9. Reported'
  BY <1>1 DEF Reported, Types
<1>10. Believed'
  BY <1>1 DEF Believed, InForceFor, Types
<1>11. Shots'
  BY <1>1 DEF Shots, InForceFor, Types
<1> QED
  BY <1>3, <1>4, <1>5, <1>6, <1>7, <1>8, <1>9, <1>10, <1>11

\* The supervisor process is killed.
LEMMA ChildKilledInv ==
    ASSUME Inv, NEW p \in Preps, ChildKilled(p)
    PROVE  Inv'
<1>1. faults' \in Nat
  BY FaultCounts DEF ChildKilled, Inv
<1> QED
  BY <1>1, EndsInv DEF ChildKilled

\* The last pass of tick, its next step, and the answer to the client.
LEMMA ChildTurnInv ==
    ASSUME Inv, NEW p \in Preps, ChildTurn(p)
    PROVE  Inv'
<1> USE DEF Inv
<1>1. PICK r : /\ r = Received(p, [s |-> Sensed(p), jobs |-> jobs[p]])
               /\ IF Exits(p, NextStep(r).s) THEN Ends(p, "exited") /\ UNCHANGED wire
                  ELSE /\ sup' = [sup EXCEPT ![p] = [NextStep(r).s EXCEPT
                                    !.told = Tells(p, NextStep(r).s), !.draining = FALSE]]
                       /\ jobs' = [jobs EXCEPT ![p] = NextStep(r).jobs]
                       /\ returns' = [returns EXCEPT ![p] = <<>>]
                       /\ wire' = IF wire[p].at = "query"
                                  THEN Put(p, "reply", NextStep(r).s.st) ELSE wire
                       /\ UNCHANGED <<child, gate, work>>
  BY DEF ChildTurn
<1>2. /\ child[p] = "running" /\ Len(returns[p]) < 2
      /\ UNCHANGED <<now, faults, win, index, settled, client, mine, shot>>
  BY DEF ChildTurn, environment
<1>3. CASE Exits(p, NextStep(r).s)
  BY <1>1, <1>2, <1>3, EndsInv DEF Types
<1>4. CASE ~ Exits(p, NextStep(r).s)
  <2>1. Sound(sup[p], jobs[p], returns[p], work[p], mine[p], settled[p], win)
    BY <1>2 DEF Supervised
  <2>2. returns[p] = <<>> \/ \E m \in Receipt : returns[p] = <<m>>
    <3>1. ASSUME NEW m, NEW n, returns[p] = <<m, n>> PROVE FALSE
      <4>1. Len(returns[p]) = 2
        BY <3>1, Pairs
      <4> QED  BY <1>2, <4>1
    <3> QED  BY <2>1, <3>1, ReturnShapes
  <2>3. (IF returns[p] = <<>> THEN <<>> ELSE Tail(returns[p])) = <<>>
    BY <2>2, Singles
  <2>4. /\ Handled(sup[p], r, <<>>, work[p], mine[p], settled[p], win)
        /\ sup[p].returned /\ ~ sup[p].st.revoked /\ InForceFor(p) => ~ r.s.st.revoked
    BY <1>1, <1>2, <2>1, <2>3, ReceivedSound
  <2>5. PICK y : y = NextStep(r)
    OBVIOUS
  <2>6. /\ Handled(sup[p], y, <<>>, work[p], mine[p], settled[p], win)
        /\ sup[p].returned /\ ~ sup[p].st.revoked /\ InForceFor(p) => ~ y.s.st.revoked
    <3>1. Handled(r.s, NextStep([s |-> r.s, jobs |-> r.jobs]), <<>>,
                  work[p], mine[p], settled[p], win)
      BY <2>4, NextStepSound DEF Handled
    <3>2. Handled(r.s, y, <<>>, work[p], mine[p], settled[p], win)
      BY <2>4, <2>5, <3>1 DEF Handled
    <3> QED  BY <2>4, <2>5, <3>2, NextStepIdle DEF Handled, Onward
  <2>7. PICK t : t = [y.s EXCEPT !.told = Tells(p, y.s), !.draining = FALSE]
    OBVIOUS
  <2>8. /\ y.s \in Supervisor /\ Onward(sup[p], y.s)
        /\ Sound(y.s, y.jobs, <<>>, work[p], mine[p], settled[p], win)
    BY <2>6 DEF Handled
  <2>9. /\ t \in Supervisor /\ t.returned = y.s.returned /\ t.init = y.s.init
        /\ t.probing = y.s.probing /\ t.expected = y.s.expected /\ t.settling = y.s.settling
        /\ t.orig = y.s.orig /\ t.st = y.s.st /\ (t.told => y.s.st.cleanup)
    BY <2>7, <2>8 DEF Supervisor, Status, Tells
  <2>10. /\ Sound(t, y.jobs, <<>>, work[p], mine[p], settled[p], win) /\ Onward(sup[p], t)
    BY <2>8, <2>9, SoundTold DEF Onward
  <2>11. /\ sup' = [sup EXCEPT ![p] = t] /\ jobs' = [jobs EXCEPT ![p] = y.jobs]
         /\ returns' = [returns EXCEPT ![p] = <<>>]
         /\ wire' = (IF wire[p].at = "query"
                     THEN [wire EXCEPT ![p] = [at |-> "reply", st |-> t.st]] ELSE wire)
         /\ UNCHANGED <<child, gate, work>>
    BY <1>1, <1>4, <2>5, <2>7, <2>9 DEF Put
  <2>12. Types'
    BY <1>2, <2>9, <2>11 DEF Types, Supervisor
  <2>13. Supervised'
    <3> SUFFICES ASSUME NEW q \in Preps, child'[q] = "running"
                 PROVE  Sound(sup'[q], jobs'[q], returns'[q], work'[q], mine'[q], settled'[q], win')
      BY DEF Supervised
    <3>1. CASE q = p
      BY <1>2, <2>10, <2>11, <3>1 DEF Types
    <3>2. CASE q # p
      BY <1>2, <2>11, <3>2 DEF Types, Supervised
    <3> QED  BY <3>1, <3>2
  <2>14. Still' /\ Exclusive' /\ Journalled' /\ Placed'
    BY <1>2, <2>11 DEF Still, Exclusive, Journalled, Placed, Types, Nothing
  <2>15. Early'
    BY <1>2, <2>11 DEF Early, Types
  <2>16. /\ t.st.cleanup => settled[p] = "ok"
         /\ t.st.phase = "Active" => t.returned /\ ~ t.st.revoked
    BY <2>10 DEF Sound, Stands, Reading, Promoting, Promoted, Restoring, Settling, Clean
  <2>17. Reported'
    <3>1. \A q \in Preps : sup'[q].st.deadline = sup[q].st.deadline
      BY <2>10, <2>11 DEF Types, Onward
    <3>2. \A q \in Preps : \/ wire'[q] = wire[q]
                           \/ q = p /\ wire'[q].st = t.st
      BY <2>11 DEF Types
    <3>3. sup'[p] = t
      BY <2>11 DEF Types
    <3> QED  BY <1>2, <2>11, <2>16, <3>1, <3>2, <3>3 DEF Reported
  <2>18. Believed'
    <3> SUFFICES ASSUME NEW q \in Preps, InForceFor(q)',
                        \/ client'[q].cached.phase = "Active"
                        \/ wire'[q].at = "reply" /\ wire'[q].st.phase = "Active"
                 PROVE  sup'[q].returned /\ ~ sup'[q].st.revoked
      BY DEF Believed
    <3>1. CASE q = p
      <4>1. InForceFor(p) /\ sup'[p] = t
        BY <1>2, <2>10, <2>11, <3>1 DEF InForceFor, Types, Onward
      <4>2. CASE t.st.phase = "Active"
        BY <2>16, <3>1, <4>1, <4>2
      <4>3. CASE t.st.phase # "Active"
        <5>1. \/ client[p].cached.phase = "Active"
              \/ wire[p].at = "reply" /\ wire[p].st.phase = "Active"
          BY <1>2, <2>11, <3>1, <4>3 DEF Types
        <5>2. sup[p].returned /\ ~ sup[p].st.revoked
          BY <4>1, <5>1 DEF Believed
        <5> QED  BY <2>6, <2>9, <2>10, <3>1, <4>1, <5>2 DEF Onward
      <4> QED  BY <4>2, <4>3
    <3>2. CASE q # p
      <4>1. sup'[q] = sup[q] /\ wire'[q] = wire[q] /\ client'[q] = client[q] /\ InForceFor(q)
        BY <1>2, <2>11, <3>2 DEF InForceFor, Types
      <4> QED  BY <4>1 DEF Believed
    <3> QED  BY <3>1, <3>2
  <2>19. Shots'
    BY <1>2, <2>10, <2>11 DEF Shots, InForceFor, Types, Onward
  <2> QED
    BY <2>12, <2>13, <2>14, <2>15, <2>17, <2>18, <2>19
<1> QED
  BY <1>3, <1>4

\* Steps of the session leave the process, the window and the journal alone.
LEMMA ProcessFrame ==
    ASSUME Supervised, Still, Exclusive, Journalled, Placed,
           UNCHANGED <<win, gate, index, settled, child, sup, jobs, work, returns, mine>>
    PROVE  Supervised' /\ Still' /\ Exclusive' /\ Journalled' /\ Placed'
<1>1. Supervised'
  <2> SUFFICES ASSUME NEW q \in Preps, child'[q] = "running"
               PROVE  Sound(sup'[q], jobs'[q], returns'[q], work'[q], mine'[q], settled'[q], win')
    BY DEF Supervised
  <2> QED  BY DEF Supervised
<1>2. Still' /\ Exclusive' /\ Journalled' /\ Placed'
  BY DEF Still, Exclusive, Journalled, Placed, Nothing
<1> QED
  BY <1>1, <1>2

\* A status with its deadline.
LEMMA NewStatusType ==
    ASSUME NEW d \in Nat
    PROVE  /\ NewStatus(d) \in Status /\ NewSupervisor(d) \in Supervisor
           /\ ~ NewStatus(d).cleanup /\ NewStatus(d).phase # "Active"
           /\ NewStatus(d).deadline = d /\ NewSupervisor(d).st.deadline = d
  BY DEF NewStatus, NewSupervisor, Status, Supervisor, Phases, Reads

\* The client asks for the status.
LEMMA QueryInv ==
    ASSUME Inv, NEW p \in Preps, Query(p)
    PROVE  Inv'
<1> USE DEF Inv
<1>1. /\ client[p].at = "live" /\ wire[p].at = "none"
      /\ UNCHANGED <<now, faults, win, gate, index, settled, client, child, sup, jobs, work,
                     returns, mine, shot>>
  BY DEF Query, environment, process
<1>2. PICK m : m = [at |-> "query", st |-> NewStatus(0)]
  OBVIOUS
<1>3. wire' = [wire EXCEPT ![p] = m]
  BY <1>2 DEF Query, Put
<1>4. m \in [at : {"none", "query", "reply", "error"}, st : Status] /\ m.at = "query"
  BY <1>2, NewStatusType
<1>5. Types'
  BY <1>1, <1>3, <1>4 DEF Types
<1>6. Supervised' /\ Still' /\ Exclusive' /\ Journalled' /\ Placed'
  BY <1>1, ProcessFrame
<1>7. Early'
  BY <1>1, <1>3, <1>4 DEF Early, Types
<1>8. Reported'
  BY <1>1, <1>3, <1>4 DEF Reported, Types
<1>9. Believed'
  BY <1>1, <1>3, <1>4 DEF Believed, InForceFor, Types
<1>10. Shots'
  BY <1>1 DEF Shots, InForceFor
<1> QED
  BY <1>5, <1>6, <1>7, <1>8, <1>9, <1>10

\* The client takes the answer.
LEMMA TakeReplyInv ==
    ASSUME Inv, NEW p \in Preps, TakeReply(p)
    PROVE  Inv'
<1> USE DEF Inv
<1>1. /\ client[p].at = "live" /\ wire[p].at \in {"reply", "error"}
      /\ UNCHANGED <<now, faults, win, gate, index, settled, child, sup, jobs, work,
                     returns, mine, shot>>
  BY DEF TakeReply, environment, process
<1>2. PICK c : c = IF wire[p].at = "reply" THEN wire[p].st ELSE client[p].cached
  OBVIOUS
<1> DEFINE Clients == [at : {"none", "live", "gone"}, revoked : BOOLEAN, cached : Status]
<1>3. PICK h \in Clients :
         /\ client' = [client EXCEPT ![p] = h]
         /\ h.at = "live" /\ h.revoked = client[p].revoked /\ h.cached = c
  <2>1. client[p] \in Clients /\ wire[p].st \in Status
    BY DEF Types
  <2>2. c \in Status
    BY <1>2, <2>1
  <2>3. PICK h : h = [client[p] EXCEPT !.cached = c]
    OBVIOUS
  <2>4. /\ h \in Clients /\ h.at = "live" /\ h.revoked = client[p].revoked /\ h.cached = c
    BY <1>1, <2>1, <2>2, <2>3
  <2>5. client' = [client EXCEPT ![p] = h]
    BY <1>2, <2>3 DEF TakeReply
  <2> QED  BY <2>4, <2>5
<1>4. /\ client'[p].at = "live" /\ client'[p].revoked = client[p].revoked
      /\ client'[p].cached = c
      /\ \A q \in Preps \ {p} : client'[q] = client[q]
  BY <1>1, <1>3 DEF Types
<1>5. PICK m : m = Quiet
  OBVIOUS
<1>6. m \in [at : {"none", "query", "reply", "error"}, st : Status] /\ m.at = "none"
  BY <1>5, NewStatusType DEF Quiet
<1>7. wire' = [wire EXCEPT ![p] = m]
  BY <1>5 DEF TakeReply
<1>8. wire'[p].at = "none" /\ \A q \in Preps \ {p} : wire'[q] = wire[q]
  BY <1>6, <1>7 DEF Types
<1>9. Types'
  BY <1>1, <1>3, <1>4, <1>6, <1>7 DEF Types
<1>10. Supervised' /\ Still' /\ Exclusive' /\ Journalled' /\ Placed'
  BY <1>1, ProcessFrame
<1>11. Early'
  BY <1>1, <1>4, <1>8 DEF Early
<1>12. Reported'
  BY <1>1, <1>2, <1>4, <1>8 DEF Reported
<1>13. Believed'
  BY <1>1, <1>2, <1>4, <1>8 DEF Believed, InForceFor
<1>14. Shots'
  BY <1>1, <1>4 DEF Shots, InForceFor
<1> QED
  BY <1>9, <1>10, <1>11, <1>12, <1>13, <1>14

\* The handle is stopped.
LEMMA StopInv ==
    ASSUME Inv, NEW p \in Preps, Stop(p)
    PROVE  Inv'
<1> USE DEF Inv
<1>1. /\ client[p].at = "live" /\ client' = [client EXCEPT ![p].revoked = TRUE]
      /\ UNCHANGED <<now, faults, win, gate, index, settled, wire, child, sup, jobs, work,
                     returns, mine, shot>>
  BY DEF Stop, environment, process
<1>2. /\ client'[p].at = "live" /\ client'[p].revoked /\ client'[p].cached = client[p].cached
      /\ \A q \in Preps \ {p} : client'[q] = client[q]
  BY <1>1, ZenonT(60) DEF Types
<1>3. Types'
  <2> DEFINE Clients == [at : {"none", "live", "gone"}, revoked : BOOLEAN, cached : Status]
  <2>1. client \in [Preps -> Clients]
    BY DEF Types
  <2>2. PICK h : h = [client[p] EXCEPT !.revoked = TRUE]
    OBVIOUS
  <2>3. h \in Clients /\ client' = [client EXCEPT ![p] = h]
    BY <1>1, <2>1, <2>2
  <2>4. client' \in [Preps -> Clients]
    BY <2>1, <2>3
  <2> QED  BY <1>1, <2>4 DEF Types
<1>4. Supervised' /\ Still' /\ Exclusive' /\ Journalled' /\ Placed'
  BY <1>1, ProcessFrame
<1>5. Early'
  BY <1>1, <1>2 DEF Early
<1>6. Reported'
  BY <1>1, <1>2 DEF Reported
<1>7. Believed' /\ Shots'
  BY <1>1, <1>2, ZenonT(60) DEF Believed, Shots, InForceFor
<1> QED
  BY <1>3, <1>4, <1>5, <1>6, <1>7

\* The handle is dropped, or its process ends.
LEMMA GoneInv ==
    ASSUME Inv, NEW p \in Preps, Gone(p)
    PROVE  Inv'
<1> USE DEF Inv
<1>1. /\ client[p].at = "live" /\ shot' = [shot EXCEPT ![p] = "none"]
      /\ UNCHANGED <<now, faults, win, gate, index, settled, child, sup, jobs, work,
                     returns, mine>>
  BY DEF Gone, environment, process
<1>2. PICK c : c = [NoClient EXCEPT !.at = "gone"]
  OBVIOUS
<1>3. /\ c \in [at : {"none", "live", "gone"}, revoked : BOOLEAN, cached : Status]
      /\ c.at = "gone" /\ ~ c.cached.cleanup /\ c.cached.phase # "Active"
  BY <1>2, NewStatusType DEF NoClient
<1>4. client' = [client EXCEPT ![p] = c]
  BY <1>2 DEF Gone
<1>5. client'[p] = c /\ \A q \in Preps \ {p} : client'[q] = client[q]
  BY <1>4 DEF Types
<1>6. PICK m : m = Quiet
  OBVIOUS
<1>7. m \in [at : {"none", "query", "reply", "error"}, st : Status] /\ m.at = "none"
  BY <1>6, NewStatusType DEF Quiet
<1>8. wire' = [wire EXCEPT ![p] = m]
  BY <1>6 DEF Gone
<1>9. wire'[p] = m /\ \A q \in Preps \ {p} : wire'[q] = wire[q]
  BY <1>8 DEF Types
<1>10. shot'[p] = "none" /\ \A q \in Preps \ {p} : shot'[q] = shot[q]
  BY <1>1 DEF Types
<1>11. Types'
  BY <1>1, <1>3, <1>4, <1>7, <1>8 DEF Types
<1>12. Supervised' /\ Still' /\ Exclusive' /\ Journalled' /\ Placed'
  BY <1>1, ProcessFrame
<1>13. Early'
  BY <1>1, <1>3, <1>5, <1>7, <1>9, <1>10 DEF Early
<1>14. Reported'
  BY <1>1, <1>3, <1>5, <1>7, <1>9 DEF Reported
<1>15. Believed'
  BY <1>1, <1>3, <1>5, <1>7, <1>9 DEF Believed, InForceFor
<1>16. Shots'
  BY <1>1, <1>3, <1>5, <1>10 DEF Shots, InForceFor
<1> QED
  BY <1>11, <1>12, <1>13, <1>14, <1>15, <1>16

\* Where validate agrees, the client has no reason to doubt, and no reason exists.
LEMMA ValidatesMeans ==
    ASSUME Inv, NEW p \in Preps, Validates(p)
    PROVE  /\ InForceFor(p) /\ child[p] = "running"
           /\ sup[p].returned /\ ~ sup[p].st.revoked
<1>1. /\ client[p].at = "live" /\ child[p] = "running" /\ client[p].cached.phase = "Active"
      /\ ~ client[p].revoked /\ now < client[p].cached.deadline
  BY DEF Validates, StillActive
<1>2. client[p].cached.deadline = sup[p].st.deadline
  BY <1>1 DEF Inv, Reported
<1>3. InForceFor(p)
  BY <1>1, <1>2 DEF InForceFor
<1> QED
  BY <1>1, <1>3 DEF Inv, Believed

\* The steps that only change the frame being captured.
LEMMA ShotFrame ==
    ASSUME Inv, NEW p \in Preps, NEW what \in {"none", "begun", "prepared", "late", "shown late"},
           shot' = [shot EXCEPT ![p] = what],
           UNCHANGED <<environment, win, gate, index, settled, client, wire, process, mine>>,
           child[p] \in {"none", "boot", "indexing"} => what = "none",
           what # "none" /\ child[p] = "running" => sup[p].returned,
           what = "late" => ~ InForceFor(p) \/ sup[p].st.revoked,
           what # "shown late"
    PROVE  Inv'
<1> USE DEF Inv
<1>1. UNCHANGED <<now, faults, win, gate, index, settled, client, wire, child, sup, jobs, work,
                  returns, mine>>
  BY DEF environment, process
<1>2. shot'[p] = what /\ \A q \in Preps \ {p} : shot'[q] = shot[q]
  BY DEF Types
<1>3. Types'
  BY <1>1, ZenonT(60) DEF Types
<1>4. Supervised' /\ Still' /\ Exclusive' /\ Journalled' /\ Placed'
  BY <1>1, ProcessFrame
<1>5. Early'
  BY <1>1, <1>2 DEF Early
<1>6. Reported' /\ Believed'
  BY <1>1, ZenonT(60) DEF Reported, Believed, InForceFor
<1>7. Shots'
  BY <1>1, <1>2 DEF Shots, InForceFor
<1> QED
  BY <1>3, <1>4, <1>5, <1>6, <1>7

\* capture_frame validates and begins.
LEMMA CaptureBeginInv ==
    ASSUME Inv, NEW p \in Preps, CaptureBegin(p)
    PROVE  Inv'
  BY ValidatesMeans, ShotFrame DEF CaptureBegin

\* The pixels are taken: if the promotion is no longer in force, the client will
\* see the reason.
LEMMA CapturePixelsInv ==
    ASSUME Inv, NEW p \in Preps, CapturePixels(p)
    PROVE  Inv'
<1>1. PICK what : what = IF mine[p] \in InForce THEN "prepared" ELSE "late"
  OBVIOUS
<1>2. /\ shot[p] = "begun" /\ shot' = [shot EXCEPT ![p] = what]
      /\ UNCHANGED <<environment, win, gate, index, settled, client, wire, process, mine>>
  BY <1>1 DEF CapturePixels
<1>3. /\ child[p] \notin {"none", "boot", "indexing"}
      /\ child[p] = "running" => sup[p].returned
  BY <1>2 DEF Inv, Early, Shots
<1>4. what = "late" => ~ InForceFor(p) \/ sup[p].st.revoked
  <2> SUFFICES ASSUME mine[p] \notin InForce, child[p] = "running" PROVE sup[p].st.revoked
    BY <1>1 DEF InForceFor
  <2>1. Sound(sup[p], jobs[p], returns[p], work[p], mine[p], settled[p], win)
    BY DEF Inv, Supervised
  <2> QED
    BY <1>3, <2>1 DEF Sound, Stands, Reading, Promoting, Promoted, Restoring, Settling, Clean
<1> QED
  BY <1>1, <1>2, <1>3, <1>4, ShotFrame

\* The frame is shown only if validate agrees once more.
LEMMA CapturePublishInv ==
    ASSUME Inv, NEW p \in Preps, CapturePublish(p)
    PROVE  Inv'
<1>1. ~ (Validates(p) /\ shot[p] = "late")
  BY ValidatesMeans DEF Inv, Shots
<1>2. shot' = [shot EXCEPT ![p] = "none"]
  BY <1>1 DEF CapturePublish
<1> QED
  BY <1>2, ShotFrame DEF CapturePublish

\* Time passes.
LEMMA ClockInv ==
    ASSUME Inv, Clock
    PROVE  Inv'
<1> USE DEF Inv
<1>1. /\ now' = now + 1
      /\ UNCHANGED <<faults, win, gate, index, settled, client, wire, child, sup, jobs, work,
                     returns, mine, shot>>
  BY DEF Clock, process
<1>2. now \in Nat /\ now' \in Nat
  <2>1. now \in Nat
    BY DEF Types
  <2>2. ASSUME NEW n \in Nat PROVE n + 1 \in Nat
    OBVIOUS
  <2> QED  BY <1>1, <2>1, <2>2
<1>3. Types'
  BY <1>1, <1>2 DEF Types
<1>4. Supervised' /\ Still' /\ Exclusive' /\ Journalled' /\ Placed'
  BY <1>1, ProcessFrame
<1>5. Early' /\ Reported'
  BY <1>1 DEF Early, Reported
<1>6. \A q \in Preps : InForceFor(q)' => InForceFor(q)
  <2> SUFFICES ASSUME NEW q \in Preps, InForceFor(q)' PROVE InForceFor(q)
    OBVIOUS
  <2>1. PICK d \in Nat : d = sup[q].st.deadline
    BY DEF Types, Supervisor, Status
  <2>2. now' < d
    BY <1>1, <2>1 DEF InForceFor
  <2>3. now < d
    BY <1>1, <1>2, <2>2
  <2> QED  BY <1>1, <2>1, <2>3 DEF InForceFor
<1>7. Believed'
  <2> SUFFICES ASSUME NEW q \in Preps, InForceFor(q)',
                      \/ client'[q].cached.phase = "Active"
                      \/ wire'[q].at = "reply" /\ wire'[q].st.phase = "Active"
               PROVE  sup'[q].returned /\ ~ sup'[q].st.revoked
    BY DEF Believed
  <2> QED  BY <1>1, <1>6 DEF Believed
<1>8. Shots'
  <2> SUFFICES ASSUME NEW q \in Preps
               PROVE  /\ shot'[q] # "none" /\ child'[q] = "running" => sup'[q].returned
                      /\ shot'[q] = "late" => ~ InForceFor(q)' \/ sup'[q].st.revoked
                      /\ shot'[q] # "shown late"
    BY DEF Shots
  <2> QED  BY <1>1, <1>6 DEF Shots
<1> QED
  BY <1>3, <1>4, <1>5, <1>7, <1>8

\* A step that leaves the window its tier and its place and changes nothing else
\* but the number of faults.
LEMMA PlaceKept ==
    ASSUME Inv, faults' \in Nat, win' \in Scope, win'.top = win.top, win'.order = win.order,
           UNCHANGED <<now, gate, index, settled, client, wire, process, mine, shot>>
    PROVE  Inv'
<1> USE DEF Inv
<1>1. UNCHANGED <<now, gate, index, settled, client, wire, child, sup, jobs, work,
                  returns, mine, shot>>
  BY DEF process
<1>3. Types'
  <2>1. /\ DOMAIN jobs' = Preps /\ jobs' = [p \in Preps |-> jobs'[p]]
        /\ DOMAIN returns' = Preps /\ returns' = [p \in Preps |-> returns'[p]]
    BY <1>1 DEF Types
  <2>2. /\ now' \in Nat /\ gate' \in 0 .. MaxPreparations /\ index' \in -1 .. MaxPreparations
    BY <1>1 DEF Types
  <2>3. (settled \in [Preps -> {"none", "ok", "torn"}])'
    BY <1>1 DEF Types
  <2>4. (client \in [Preps -> [at : {"none", "live", "gone"}, revoked : BOOLEAN, cached : Status]])'
    BY <1>1 DEF Types
  <2>5. (wire \in [Preps -> [at : {"none", "query", "reply", "error"}, st : Status]])'
    BY <1>1 DEF Types
  <2>6. (child \in [Preps -> {"none", "boot", "indexing", "running", "refused", "exited", "killed"}])'
    BY <1>1 DEF Types
  <2>7. sup' \in [Preps -> Supervisor] /\ work' \in [Preps -> Errand]
    BY <1>1 DEF Types
  <2>8. (mine \in [Preps -> {"none", "claimed", "promoted", "restoring"}])'
    BY <1>1 DEF Types
  <2>9. (shot \in [Preps -> {"none", "begun", "prepared", "late", "shown late"}])'
    BY <1>1 DEF Types
  <2> QED  BY <2>1, <2>2, <2>3, <2>4, <2>5, <2>6, <2>7, <2>8, <2>9 DEF Types
<1>4. Supervised'
  <2> SUFFICES ASSUME NEW q \in Preps, child'[q] = "running"
               PROVE  Sound(sup'[q], jobs'[q], returns'[q], work'[q], mine'[q], settled'[q], win')
    BY DEF Supervised
  <2>1. Sound(sup[q], jobs[q], returns[q], work[q], mine[q], settled[q], win)
    BY <1>1 DEF Supervised
  <2>2. ASSUME NEW s, NEW js, NEW rs, NEW w, NEW mn, NEW z, NEW wn, NEW wo,
               Sound(s, js, rs, w, mn, z, wn), wo.top = wn.top, wo.order = wn.order
        PROVE  Sound(s, js, rs, w, mn, z, wo)
    <3>1. \A kind : Only(kind, s, rs, w, js, mn, z, wn) => Only(kind, s, rs, w, js, mn, z, wo)
      BY <2>2 DEF Only, Truthful
    <3>2. ProbeThenRestore(s, rs, w, js, mn, z, wn) => ProbeThenRestore(s, rs, w, js, mn, z, wo)
      BY <2>2 DEF ProbeThenRestore, Truthful
    <3>3. Stands(s, js, rs, w, mn, z, wo)
      BY <2>2, <3>1, <3>2 DEF Stands, Sound
    <3> QED  BY <2>2, <3>3 DEF Sound, Related
  <2> QED  BY <1>1, <2>1, <2>2
<1>5. Still' /\ Exclusive' /\ Journalled' /\ Placed'
  <2>1. Still'
    BY <1>1 DEF Still, Nothing
  <2>2. Exclusive' /\ Journalled'
    BY <1>1 DEF Exclusive, Journalled
  <2>3. Placed'
    BY <1>1 DEF Placed
  <2> QED  BY <2>1, <2>2, <2>3
<1>6. Early' /\ Reported'
  <2>1. Early'
    BY <1>1 DEF Early
  <2>2. Reported'
    BY <1>1 DEF Reported
  <2> QED  BY <2>1, <2>2
<1>7. Believed'
  <2>1. \A q \in Preps : InForceFor(q)' => InForceFor(q)
    BY <1>1, Zenon DEF InForceFor
  <2>2. ASSUME NEW q \in Preps, InForceFor(q)',
               \/ client'[q].cached.phase = "Active"
               \/ wire'[q].at = "reply" /\ wire'[q].st.phase = "Active"
        PROVE  sup'[q].returned /\ ~ sup'[q].st.revoked
    BY <1>1, <2>1, <2>2, Zenon DEF Believed
  <2> QED  BY <2>2, Zenon DEF Believed
<1>8. Shots'
  BY <1>1 DEF Shots, InForceFor
<1> QED
  BY <1>3, <1>4, <1>5, <1>6, <1>7, <1>8

\* The user moves the window.
LEMMA UserMovesInv ==
    ASSUME Inv, UserMoves
    PROVE  Inv'
<1>1. faults' \in Nat
  BY FaultCounts DEF UserMoves, Inv
<1>2. PICK w \in Scope : w = win
  BY DEF Inv, Types
<1>3. w.geo \in {0, 1} /\ 1 - w.geo \in {0, 1}
  BY DEF Scope
<1>4. win' = [w EXCEPT !.geo = 1 - w.geo]
  BY <1>2 DEF UserMoves
<1>5. win' \in Scope /\ win'.top = win.top /\ win'.order = win.order
  BY <1>2, <1>3, <1>4 DEF Scope
<1> QED
  BY <1>1, <1>5, PlaceKept DEF UserMoves

\* Another window comes next to the place of the target.
LEMMA NeighbourChangesInv ==
    ASSUME Inv, NeighbourChanges
    PROVE  Inv'
<1>1. faults' \in Nat
  BY FaultCounts DEF NeighbourChanges, Inv
<1>2. PICK w \in Scope : w = win
  BY DEF Inv, Types
<1>3. w.above + 1 \in Nat /\ w.below + 1 \in Nat
  BY DEF Scope
<1>4. win' = [w EXCEPT !.above = w.above + 1] \/ win' = [w EXCEPT !.below = w.below + 1]
  BY <1>2 DEF NeighbourChanges
<1>5. win' \in Scope /\ win'.top = win.top /\ win'.order = win.order
  BY <1>2, <1>3, <1>4 DEF Scope
<1> QED
  BY <1>1, <1>5, PlaceKept DEF NeighbourChanges

\* A preparation is begun.
LEMMA BeginInv ==
    ASSUME Inv, NEW p \in Preps, Begin(p)
    PROVE  Inv'
<1> USE DEF Inv
<1> DEFINE Clients == [at : {"none", "live", "gone"}, revoked : BOOLEAN, cached : Status]
<1>1. /\ client[p].at = "none" /\ child' = [child EXCEPT ![p] = "boot"]
      /\ UNCHANGED <<now, faults, win, gate, index, settled, wire, jobs, work, returns, mine, shot>>
  BY DEF Begin, environment
<1>2. PICK d \in Nat :
        /\ client' = [client EXCEPT ![p] = [at |-> "live", revoked |-> FALSE, cached |-> NewStatus(d)]]
        /\ sup' = [sup EXCEPT ![p] = NewSupervisor(d)]
  <2>1. PICK lifetime \in Lifetimes :
          /\ client' = [client EXCEPT ![p] = [at |-> "live", revoked |-> FALSE,
                                              cached |-> NewStatus(EffectiveDeadline(lifetime))]]
          /\ sup' = [sup EXCEPT ![p] = NewSupervisor(EffectiveDeadline(lifetime))]
    BY DEF Begin
  <2>2. EffectiveDeadline(lifetime) \in Nat
    <3>1. now \in Nat
      BY DEF Types
    <3>2. lifetime \in Nat /\ LeaseEnd \in Nat
      BY BoundsAssumption
    <3> QED  BY <3>1, <3>2 DEF EffectiveDeadline
  <2> QED  BY <2>1, <2>2
<1>3. PICK h : h = [at |-> "live", revoked |-> FALSE, cached |-> NewStatus(d)]
  OBVIOUS
<1>4. PICK s : s = NewSupervisor(d)
  OBVIOUS
<1>5. /\ h \in Clients /\ h.at = "live" /\ h.cached.phase # "Active" /\ ~ h.cached.cleanup
      /\ s \in Supervisor /\ h.cached.deadline = d /\ s.st.deadline = d
      /\ s = NewSupervisor(s.st.deadline)
  BY <1>3, <1>4, NewStatusType
<1>6. client' = [client EXCEPT ![p] = h] /\ sup' = [sup EXCEPT ![p] = s]
  BY <1>2, <1>3, <1>4
<1>7. /\ child[p] = "none" /\ wire[p].at = "none" /\ settled[p] = "none" /\ mine[p] = "none"
      /\ shot[p] = "none"
  BY <1>1 DEF Early
<1>8. /\ child'[p] = "boot" /\ \A q \in Preps \ {p} : child'[q] = child[q]
      /\ client'[p] = h /\ \A q \in Preps \ {p} : client'[q] = client[q]
      /\ sup'[p] = s /\ \A q \in Preps \ {p} : sup'[q] = sup[q]
  BY <1>1, <1>6 DEF Types
<1>9. Types'
  BY <1>1, <1>5, <1>6 DEF Types
<1>10. Supervised'
  <2> SUFFICES ASSUME NEW q \in Preps, child'[q] = "running"
               PROVE  Sound(sup'[q], jobs'[q], returns'[q], work'[q], mine'[q], settled'[q], win')
    BY DEF Supervised
  <2> QED  BY <1>1, <1>8 DEF Supervised
<1>11. Still' /\ Exclusive' /\ Journalled' /\ Placed'
  BY <1>1, <1>7, <1>8 DEF Still, Exclusive, Journalled, Placed, Nothing
<1>12. Early'
  BY <1>1, <1>5, <1>7, <1>8 DEF Early
<1>13. Reported'
  BY <1>1, <1>5, <1>7, <1>8 DEF Reported
<1>14. Believed'
  BY <1>1, <1>8 DEF Believed, InForceFor
<1>15. Shots'
  BY <1>1, <1>7, <1>8, ZenonT(60) DEF Shots, InForceFor
<1> QED
  BY <1>9, <1>10, <1>11, <1>12, <1>13, <1>14, <1>15

\* The child takes the gate, unless a preparation runs or has left its writes.
LEMMA ChildStartInv ==
    ASSUME Inv, NEW p \in Preps, ChildStart(p)
    PROVE  Inv'
<1> USE DEF Inv
<1>1. /\ child[p] = "boot"
      /\ UNCHANGED <<now, faults, win, settled, client, wire, sup, jobs, work, returns, mine, shot>>
  BY DEF ChildStart, environment
<1>2. \/ /\ child' = [child EXCEPT ![p] = "exited"] \/ child' = [child EXCEPT ![p] = "refused"]
         /\ UNCHANGED <<gate, index>>
      \/ /\ gate = 0 /\ JournalAdmits
         /\ child' = [child EXCEPT ![p] = "indexing"] /\ gate' = p /\ index' = 0
  BY DEF ChildStart
<1>3. /\ child'[p] \in {"exited", "refused", "indexing"}
      /\ \A q \in Preps \ {p} : child'[q] = child[q]
  BY <1>2 DEF Types
<1>4. Types'
  <2>1. gate' \in 0 .. MaxPreparations /\ index' \in -1 .. MaxPreparations
    <3>1. MaxPreparations \in Nat /\ gate \in 0 .. MaxPreparations /\ index \in -1 .. MaxPreparations
      BY BoundsAssumption DEF Types
    <3>2. p \in 1 .. MaxPreparations
      BY DEF Preps
    <3> QED  BY <1>2, <3>1, <3>2
  <2>2. child' \in [Preps -> {"none", "boot", "indexing", "running", "refused", "exited", "killed"}]
    BY <1>2 DEF Types
  <2> QED  BY <1>1, <2>1, <2>2 DEF Types
<1>5. Supervised'
  <2> SUFFICES ASSUME NEW q \in Preps, child'[q] = "running"
               PROVE  Sound(sup'[q], jobs'[q], returns'[q], work'[q], mine'[q], settled'[q], win')
    BY DEF Supervised
  <2> QED  BY <1>1, <1>3 DEF Supervised
<1>6. Still' /\ Placed'
  BY <1>1, <1>3 DEF Still, Placed, Nothing
<1>7. 0 \notin Preps
  BY DEF Preps
<1>8. Exclusive'
  <2>1. CASE UNCHANGED <<gate, index>> /\ child'[p] \in {"exited", "refused"}
    BY <1>3, <2>1 DEF Exclusive
  <2>2. CASE gate = 0 /\ gate' = p /\ index' = 0
    <3>1. \A q \in Preps : child[q] \notin {"indexing", "running"}
      BY <1>7, <2>2 DEF Exclusive
    <3> QED  BY <1>3, <2>2, <3>1 DEF Exclusive
  <2> QED  BY <1>2, <2>1, <2>2 DEF Types
<1>9. Journalled'
  <2>1. JournalAdmits => \A q \in Preps : mine[q] \in Undone
    BY <1>7 DEF Journalled, JournalAdmits
  <2> QED  BY <1>1, <1>2, <2>1 DEF Journalled
<1>10. Early'
  BY <1>1, <1>3 DEF Early
<1>11. Reported'
  BY <1>1, <1>3 DEF Reported
<1>12. Believed' /\ Shots'
  BY <1>1, <1>3 DEF Believed, Shots, InForceFor
<1> QED
  BY <1>4, <1>5, <1>6, <1>8, <1>9, <1>10, <1>11, <1>12

\* The index file is written and the worker is given its first job.
LEMMA ChildIndexInv ==
    ASSUME Inv, NEW p \in Preps, ChildIndex(p)
    PROVE  Inv'
<1> USE DEF Inv
<1>1. /\ child[p] = "indexing"
      /\ UNCHANGED <<now, win, settled, client, wire, sup, work, returns, mine, shot>>
  BY DEF ChildIndex
<1>2. /\ gate = p /\ index = 0 /\ settled[p] = "none" /\ mine[p] = "none" /\ shot[p] = "none"
      /\ sup[p] = NewSupervisor(sup[p].st.deadline)
      /\ client[p].cached.phase # "Active" /\ wire[p].at \in {"none", "query"}
      /\ Nothing(returns[p], work[p], jobs[p])
  BY <1>1 DEF Exclusive, Early, Still
<1>3. 0 \notin Preps /\ -1 \notin Preps
  BY DEF Preps
<1>4. \A q \in Preps : mine[q] \in Undone
  BY <1>2, <1>3 DEF Journalled
<1>5. win.order = "placed"
  BY <1>4 DEF Placed
<1>6. PICK j : j = <<JobOf("Initialize")>>
  OBVIOUS
<1>7. \/ /\ child' = [child EXCEPT ![p] = "running"] /\ index' = p
         /\ jobs' = [jobs EXCEPT ![p] = j] /\ UNCHANGED <<gate, faults>>
      \/ /\ Fault /\ child' = [child EXCEPT ![p] = "refused"] /\ index' \in {0, -1} /\ gate' = 0
         /\ UNCHANGED jobs
  BY <1>6 DEF ChildIndex, JobOf
<1>8. /\ child'[p] \in {"running", "refused"}
      /\ \A q \in Preps \ {p} : child'[q] = child[q] /\ jobs'[q] = jobs[q]
      /\ child'[p] = "running" => index' = p /\ gate' = p /\ jobs'[p] = j
      /\ child'[p] = "refused" => jobs'[p] = jobs[p]
  BY <1>2, <1>7 DEF Types
<1>9. Types'
  <2>1. gate' \in 0 .. MaxPreparations /\ index' \in -1 .. MaxPreparations
    <3>1. MaxPreparations \in Nat /\ gate \in 0 .. MaxPreparations /\ index \in -1 .. MaxPreparations
      BY BoundsAssumption DEF Types
    <3>2. p \in 1 .. MaxPreparations
      BY DEF Preps
    <3> QED  BY <1>7, <3>1, <3>2
  <2>2. child' \in [Preps -> {"none", "boot", "indexing", "running", "refused", "exited", "killed"}]
    BY <1>7 DEF Types
  <2>3. DOMAIN jobs' = Preps /\ jobs' = [q \in Preps |-> jobs'[q]]
    BY <1>7 DEF Types
  <2>4. faults' \in Nat
    BY <1>7, FaultCounts DEF Types
  <2> QED  BY <1>1, <2>1, <2>2, <2>3, <2>4 DEF Types
<1>10. Sound(sup[p], j, returns[p], work[p], mine[p], settled[p], win)
  <2>1. PICK d : sup[p] = NewSupervisor(d)
    BY <1>2
  <2>2. Reading(sup[p]) /\ ~ sup[p].told /\ sup[p].orig = <<>>
    BY <2>1 DEF NewSupervisor, NewStatus, Reading
  <2>3. Only("Initialize", sup[p], returns[p], work[p], j, mine[p], settled[p], win)
    BY <1>2, <1>6 DEF Only, Nothing
  <2> QED  BY <1>2, <1>5, <2>2, <2>3 DEF Sound, Stands, Related
<1>11. Supervised'
  <2> SUFFICES ASSUME NEW q \in Preps, child'[q] = "running"
               PROVE  Sound(sup'[q], jobs'[q], returns'[q], work'[q], mine'[q], settled'[q], win')
    BY DEF Supervised
  <2>1. CASE q = p
    BY <1>1, <1>8, <1>10, <2>1
  <2>2. CASE q # p
    BY <1>1, <1>8, <2>2 DEF Supervised
  <2> QED  BY <2>1, <2>2
<1>12. Still'
  BY <1>1, <1>2, <1>8 DEF Still, Nothing
<1>13. Exclusive'
  BY <1>1, <1>2, <1>8 DEF Exclusive
<1>14. Journalled' /\ Placed'
  BY <1>1, <1>4, <1>5 DEF Journalled, Placed
<1>15. Early'
  BY <1>1, <1>8 DEF Early
<1>16. Reported'
  BY <1>1, <1>8 DEF Reported
<1>17. Believed' /\ Shots'
  BY <1>1, <1>2, <1>8, ZenonT(60) DEF Believed, Shots, InForceFor
<1> QED
  BY <1>9, <1>11, <1>12, <1>13, <1>14, <1>15, <1>16, <1>17

\* A child that could not start answers with its error.
LEMMA ChildRefusedInv ==
    ASSUME Inv, NEW p \in Preps, ChildRefused(p)
    PROVE  Inv'
<1> USE DEF Inv
<1>1. /\ child[p] = "refused" /\ child' = [child EXCEPT ![p] = "exited"]
      /\ UNCHANGED <<now, faults, win, gate, index, settled, client, sup, jobs, work, returns,
                     mine, shot>>
  BY DEF ChildRefused, environment
<1>2. PICK m : m = [at |-> "error", st |-> sup[p].st]
  OBVIOUS
<1>3. wire' = [wire EXCEPT ![p] = m] \/ wire' = wire
  BY <1>2 DEF ChildRefused, Put
<1>4. m \in [at : {"none", "query", "reply", "error"}, st : Status] /\ m.at = "error"
  BY <1>2 DEF Types, Supervisor
<1>5. /\ child'[p] = "exited" /\ \A q \in Preps \ {p} : child'[q] = child[q] /\ wire'[q] = wire[q]
      /\ wire'[p] = wire[p] \/ wire'[p].at = "error"
  BY <1>1, <1>3, <1>4 DEF Types
<1>6. client[p].at # "none"
  BY <1>1 DEF Early
<1>7. Types'
  BY <1>1, <1>3, <1>4, ZenonT(60) DEF Types
<1>8. Supervised'
  <2> SUFFICES ASSUME NEW q \in Preps, child'[q] = "running"
               PROVE  Sound(sup'[q], jobs'[q], returns'[q], work'[q], mine'[q], settled'[q], win')
    BY DEF Supervised
  <2> QED  BY <1>1, <1>5 DEF Supervised
<1>9. Still' /\ Exclusive' /\ Journalled' /\ Placed'
  BY <1>1, <1>5 DEF Still, Exclusive, Journalled, Placed, Nothing
<1>10. Early'
  BY <1>1, <1>5, <1>6 DEF Early
<1>11. Reported'
  BY <1>1, <1>5 DEF Reported
<1>12. Believed' /\ Shots'
  BY <1>1, <1>5 DEF Believed, Shots, InForceFor
<1> QED
  BY <1>7, <1>8, <1>9, <1>10, <1>11, <1>12

\* A step of the worker changes the channels, the window, what is in force and the
\* settled record of its own preparation, and nothing else.
LEMMA WorkerStep ==
    ASSUME Inv, NEW p \in Preps, child[p] = "running",
           jobs' = [jobs EXCEPT ![p] = jobs'[p]], returns' = [returns EXCEPT ![p] = returns'[p]],
           work' = [work EXCEPT ![p] = work'[p]], work'[p] \in Errand,
           mine' = [mine EXCEPT ![p] = mine'[p]],
           mine'[p] \in {"none", "claimed", "promoted", "restoring"},
           settled' = [settled EXCEPT ![p] = settled'[p]],
           settled'[p] \in {"none", "ok", "torn"}, settled[p] = "ok" => settled'[p] = "ok",
           win' \in Scope, faults' \in Nat,
           UNCHANGED <<now, gate, index, client, wire, child, sup, shot>>,
           Sound(sup[p], jobs'[p], returns'[p], work'[p], mine'[p], settled'[p], win')
    PROVE  Inv'
<1> USE DEF Inv
<1>0. PICK js, rs, w, mn, z, wn :
        /\ js = jobs'[p] /\ rs = returns'[p] /\ w = work'[p] /\ mn = mine'[p] /\ z = settled'[p]
        /\ wn = win' /\ Sound(sup[p], js, rs, w, mn, z, wn)
  OBVIOUS
<1>1. /\ jobs'[p] = js /\ returns'[p] = rs /\ work'[p] = w /\ mine'[p] = mn /\ settled'[p] = z
      /\ win' = wn /\ (settled[p] = "ok" => z = "ok")
      /\ \A q \in Preps \ {p} : /\ jobs'[q] = jobs[q] /\ returns'[q] = returns[q]
                                /\ work'[q] = work[q] /\ mine'[q] = mine[q]
                                /\ settled'[q] = settled[q]
  BY <1>0 DEF Types
<1>2. gate = p /\ index = p /\ \A q \in Preps \ {p} : child[q] # "running"
  BY DEF Exclusive
<1>3. /\ mn \in Undone => wn.order = "placed"
      /\ z = "ok" => mn \in Undone
  BY <1>0 DEF Sound, Stands, Related, Undone, Reading, Promoting, Promoted, Restoring, Settling, Clean
<1>4. Types'
  <2>1. /\ DOMAIN jobs' = Preps /\ jobs' = [q \in Preps |-> jobs'[q]]
        /\ DOMAIN returns' = Preps /\ returns' = [q \in Preps |-> returns'[q]]
    BY DEF Types
  <2>2. work' \in [Preps -> Errand] /\ settled' \in [Preps -> {"none", "ok", "torn"}]
    BY DEF Types
  <2>3. mine' \in [Preps -> {"none", "claimed", "promoted", "restoring"}]
    BY DEF Types
  <2> QED  BY <2>1, <2>2, <2>3 DEF Types
<1>5. Supervised'
  <2> SUFFICES ASSUME NEW q \in Preps, child'[q] = "running"
               PROVE  Sound(sup'[q], jobs'[q], returns'[q], work'[q], mine'[q], settled'[q], win')
    BY DEF Supervised
  <2>1. q = p
    BY <1>2
  <2> QED  BY <2>1
<1>6. Still'
  BY <1>1 DEF Still, Nothing
<1>7. Exclusive'
  BY DEF Exclusive
<1>8. Journalled' /\ Placed'
  BY <1>1, <1>2, <1>3 DEF Journalled, Placed
<1>9. Early'
  BY <1>1 DEF Early
<1>10. Reported'
  BY <1>1 DEF Reported
<1>11. Believed' /\ Shots'
  BY DEF Believed, Shots, InForceFor
<1> QED
  BY <1>4, <1>5, <1>6, <1>7, <1>8, <1>9, <1>10, <1>11

\* What the worker finds at the head of its queue.
LEMMA JobShapes ==
    ASSUME NEW s, NEW js, NEW rs, NEW w, NEW mn, NEW z, NEW wn,
           Sound(s, js, rs, w, mn, z, wn), js # <<>>
    PROVE  \/ Reading(s) /\ rs = <<>> /\ js = <<JobOf("Initialize")>>
           \/ Promoting(s) /\ rs = <<>> /\ js = <<JobOf("Promote")>> /\ mn = "none"
           \/ /\ Restoring(s) /\ s.st.pending = 0 /\ s.probing
              /\ rs = <<>> /\ js = <<JobOf("Probe")>>
           \/ /\ Restoring(s) /\ s.st.pending = 2 /\ ~ s.probing
              /\ rs = <<>> /\ js = <<JobOf("Restore")>>
           \/ /\ Restoring(s) /\ s.st.pending = 2 /\ s.probing
              /\ rs = <<>> /\ js = <<JobOf("Probe"), JobOf("Restore")>>
           \/ /\ Restoring(s) /\ s.st.pending = 2 /\ s.probing /\ js = <<JobOf("Restore")>>
              /\ \E m \in Receipt : m.kind = "Probed" /\ rs = <<m>>
           \/ /\ Settling(s) /\ s.settling /\ mn \in Undone
              /\ rs = <<>> /\ js = <<JobOf("Settle")>>
  BY DEF Sound, Stands, Only, ProbeThenRestore, Nothing

\* What the worker is at when it is busy.
LEMMA WorkShapes ==
    ASSUME NEW s, NEW js, NEW rs, NEW w, NEW mn, NEW z, NEW wn,
           Sound(s, js, rs, w, mn, z, wn), w.at # "idle"
    PROVE  /\ js = <<>>
           /\ \/ Promoting(s) /\ Busy(w, "Promote", mn) /\ rs = <<>>
              \/ /\ Restoring(s) /\ s.st.pending = 2 /\ Busy(w, "Restore", mn)
                 /\ \/ ~ s.probing /\ rs = <<>>
                    \/ s.probing /\ \E m \in Receipt : m.kind = "Probed" /\ rs = <<m>>
  BY DEF Sound, Stands, Only, ProbeThenRestore, Nothing

\* The sequences of calls a mutation goes through.
LEMMA CallLists ==
    /\ {<<>>, <<"promote">>, <<"tier", "anchor">>, <<"anchor">>} \subseteq Seq({"promote", "tier", "anchor"})
    /\ Head(<<"promote">>) = "promote" /\ Tail(<<"promote">>) = <<>> /\ Len(<<"promote">>) = 1
    /\ Head(<<"anchor">>) = "anchor" /\ Tail(<<"anchor">>) = <<>> /\ Len(<<"anchor">>) = 1
    /\ Head(<<"tier", "anchor">>) = "tier" /\ Tail(<<"tier", "anchor">>) = <<"anchor">>
    /\ Len(<<"tier", "anchor">>) # 1
<1>1. {<<>>, <<"promote">>, <<"tier", "anchor">>, <<"anchor">>} \subseteq Seq({"promote", "tier", "anchor"})
  OBVIOUS
<1>2. Len(<<"tier", "anchor">>) # 1
  <2>1. Len(<<"tier", "anchor">>) = 2
    BY Pairs
  <2> QED  BY <2>1
<1> QED
  BY <1>1, <1>2, Singles, Pairs

\* A mutation comes back: its answer stands behind what is still waiting.
LEMMA AnswerSound ==
    ASSUME NEW s, NEW js, NEW rs, NEW w, NEW mn, NEW z, NEW wn,
           Sound(s, js, rs, w, mn, z, wn), w.at # "idle",
           NEW m \in Receipt, Truthful(m, s, mn, z, wn), m.kind \in {w.kind, "Panicked"},
           NEW e, e.at = "idle"
    PROVE  Sound(s, js, Append(rs, m), e, mn, z, wn)
<1>1. PICK ra : ra = Append(rs, m)
  OBVIOUS
<1>2. Related(s, mn, wn) /\ (s.told => s.st.cleanup) /\ (z = "ok" => Settling(s) \/ Clean(s))
  BY DEF Sound
<1>3. /\ js = <<>>
      /\ \/ Promoting(s) /\ Busy(w, "Promote", mn) /\ rs = <<>>
         \/ /\ Restoring(s) /\ s.st.pending = 2 /\ Busy(w, "Restore", mn)
            /\ \/ ~ s.probing /\ rs = <<>>
               \/ s.probing /\ \E k \in Receipt : k.kind = "Probed" /\ rs = <<k>>
  BY WorkShapes
<1>4. rs = <<>> => ra = <<m>>
  BY <1>1, Singles
<1>5. \A k : rs = <<k>> => ra = <<k, m>>
  BY <1>1, AppendSecond
<1>6. CASE Promoting(s) /\ Busy(w, "Promote", mn) /\ rs = <<>>
  <2>1. Only("Promote", s, ra, e, js, mn, z, wn)
    BY <1>3, <1>4, <1>6 DEF Only, Answers, Busy
  <2> QED  BY <1>1, <1>2, <1>6, <2>1 DEF Sound, Stands
<1>7. CASE /\ Restoring(s) /\ s.st.pending = 2 /\ Busy(w, "Restore", mn)
           /\ ~ s.probing /\ rs = <<>>
  <2>1. Only("Restore", s, ra, e, js, mn, z, wn)
    BY <1>3, <1>4, <1>7 DEF Only, Answers, Busy
  <2> QED  BY <1>1, <1>2, <1>7, <2>1 DEF Sound, Stands
<1>8. CASE /\ Restoring(s) /\ s.st.pending = 2 /\ Busy(w, "Restore", mn)
           /\ s.probing /\ \E k \in Receipt : k.kind = "Probed" /\ rs = <<k>>
  <2>1. PICK k \in Receipt : k.kind = "Probed" /\ rs = <<k>>
    BY <1>8
  <2>2. m.kind \in Answers("Restore")
    BY <1>8 DEF Answers, Busy
  <2>3. ProbeThenRestore(s, ra, e, js, mn, z, wn)
    BY <1>3, <1>5, <2>1, <2>2 DEF ProbeThenRestore
  <2> QED  BY <1>1, <1>2, <1>8, <2>3 DEF Sound, Stands
<1> QED
  BY <1>3, <1>6, <1>7, <1>8

\* The worker goes on with a mutation, which it may have taken from its queue.
LEMMA BusySound ==
    ASSUME NEW s, NEW rs, NEW w, NEW mn, NEW z, NEW wn,
           Related(s, mn, wn), ~ s.told, z # "ok",
           \/ Promoting(s) /\ Busy(w, "Promote", mn) /\ rs = <<>>
           \/ /\ Restoring(s) /\ s.st.pending = 2 /\ Busy(w, "Restore", mn)
              /\ \/ ~ s.probing /\ rs = <<>>
                 \/ s.probing /\ \E m \in Receipt : m.kind = "Probed" /\ rs = <<m>>
    PROVE  Sound(s, <<>>, rs, w, mn, z, wn)
<1>1. CASE Promoting(s) /\ Busy(w, "Promote", mn) /\ rs = <<>>
  <2>1. Only("Promote", s, rs, w, <<>>, mn, z, wn)
    BY <1>1 DEF Only
  <2> QED  BY <1>1, <2>1 DEF Sound, Stands
<1>2. CASE /\ Restoring(s) /\ s.st.pending = 2 /\ Busy(w, "Restore", mn)
           /\ ~ s.probing /\ rs = <<>>
  <2>1. Only("Restore", s, rs, w, <<>>, mn, z, wn)
    BY <1>2 DEF Only
  <2> QED  BY <1>2, <2>1 DEF Sound, Stands
<1>3. CASE /\ Restoring(s) /\ s.st.pending = 2 /\ Busy(w, "Restore", mn)
           /\ s.probing /\ \E m \in Receipt : m.kind = "Probed" /\ rs = <<m>>
  <2>1. ProbeThenRestore(s, rs, w, <<>>, mn, z, wn)
    BY <1>3 DEF ProbeThenRestore
  <2> QED  BY <1>3, <2>1 DEF Sound, Stands
<1> QED
  BY <1>1, <1>2, <1>3

\* Reading a scope: what the worker returns of it is the window as it is.
LEMMA ScopeRead ==
    ASSUME Types
    PROVE  ReadScope \in Reads /\ ReadScope # <<>> /\ ReadScope[1] = win /\ <<>> \in Reads
  BY Singles DEF ReadScope, Reads, Types

\* What the worker puts into a return.
LEMMA MakeReceipt ==
    ASSUME NEW k \in {"Initialized", "Promote", "Restore", "Probed", "Panicked", "Settled"},
           NEW b \in BOOLEAN, NEW rd \in Reads, NEW n \in {0, 1, 2}, NEW m,
           m = [kind |-> k, ok |-> b, read |-> rd, seq |-> n]
    PROVE  m \in Receipt /\ m.kind = k /\ m.ok = b /\ m.read = rd
  BY DEF Receipt

\* The return of a job that succeeded.
LEMMA GoodReceipt ==
    ASSUME NEW k \in {"Initialized", "Promote", "Restore", "Probed", "Panicked", "Settled"},
           NEW rd \in Reads, NEW n \in {0, 1, 2}, NEW m,
           m = [kind |-> k, ok |-> TRUE, read |-> rd, seq |-> n]
    PROVE  m \in Receipt /\ m.kind = k /\ m.ok /\ m.read = rd
  BY Zenon DEF Receipt

\* The return of a job that failed: nothing was read.
LEMMA BadReceipt ==
    ASSUME NEW k \in {"Initialized", "Promote", "Restore", "Probed", "Panicked", "Settled"},
           NEW n \in {0, 1, 2}, NEW m,
           m = [kind |-> k, ok |-> FALSE, read |-> <<>>, seq |-> n]
    PROVE  m \in Receipt /\ m.kind = k /\ ~ m.ok
<1>1. <<>> \in Reads
  BY DEF Reads
<1> QED
  BY <1>1, Zenon DEF Receipt

\* The worker reads the scope for the first time, or probes it.
LEMMA WorkerReadInv ==
    ASSUME Inv, NEW p \in Preps, WorkerRead(p)
    PROVE  Inv'
<1>1. /\ child[p] = "running" /\ jobs[p] # <<>> /\ work[p].at = "idle"
      /\ Head(jobs[p]).kind \in {"Initialize", "Probe"}
      /\ jobs' = [jobs EXCEPT ![p] = Tail(@)]
      /\ UNCHANGED <<now, win, gate, index, settled, client, wire, child, sup, work, mine, shot>>
  BY DEF WorkerRead
<1>2. PICK m :
        /\ \/ m = [kind |-> IF Head(jobs[p]).kind = "Probe" THEN "Probed" ELSE "Initialized",
                   ok |-> TRUE, read |-> ReadScope, seq |-> 0] /\ UNCHANGED faults
           \/ m = [kind |-> IF Head(jobs[p]).kind = "Probe" THEN "Probed" ELSE "Initialized",
                   ok |-> FALSE, read |-> <<>>, seq |-> 0] /\ Fault
        /\ returns' = [returns EXCEPT ![p] = Append(@, m)]
  BY DEF WorkerRead, Return
<1>3. /\ m \in Receipt /\ m.kind = (IF Head(jobs[p]).kind = "Probe" THEN "Probed" ELSE "Initialized")
      /\ m.ok => m.read = <<win>>
      /\ faults' \in Nat
  <2>1. faults' \in Nat
    BY <1>2, FaultCounts DEF Inv, Types
  <2>2. ReadScope \in Reads /\ <<>> \in Reads
    BY ScopeRead DEF Inv
  <2>3. PICK k : k = IF Head(jobs[p]).kind = "Probe" THEN "Probed" ELSE "Initialized"
    OBVIOUS
  <2>4. \/ m = [kind |-> k, ok |-> TRUE, read |-> ReadScope, seq |-> 0]
        \/ m = [kind |-> k, ok |-> FALSE, read |-> <<>>, seq |-> 0]
    BY <1>2, <2>3
  <2>5. k \in {"Probed", "Initialized"}
    BY <2>3
  <2>6. m \in Receipt /\ m.kind = k /\ (m.ok => m.read = ReadScope)
    <3>1. CASE m = [kind |-> k, ok |-> TRUE, read |-> ReadScope, seq |-> 0]
      BY <2>2, <2>5, <3>1, GoodReceipt
    <3>2. CASE m = [kind |-> k, ok |-> FALSE, read |-> <<>>, seq |-> 0]
      BY <2>5, <3>2, BadReceipt
    <3> QED  BY <2>4, <3>1, <3>2
  <2> QED  BY <2>1, <2>3, <2>6 DEF ReadScope
<1>4. Sound(sup[p], jobs[p], returns[p], work[p], mine[p], settled[p], win)
  BY <1>1 DEF Inv, Supervised
<1>5. PICK ra : ra = Append(returns[p], m)
  OBVIOUS
<1>6. PICK jt : jt = Tail(jobs[p])
  OBVIOUS
<1>7. /\ Related(sup[p], mine[p], win) /\ (sup[p].told => sup[p].st.cleanup)
      /\ (settled[p] = "ok" => Settling(sup[p]) \/ Clean(sup[p]))
  BY <1>4 DEF Sound
<1>8. Sound(sup[p], jt, ra, work[p], mine[p], settled[p], win)
  <2>1. \A k : Head(<<JobOf(k)>>).kind = k
    BY Singles DEF JobOf
  <2>2. \/ Reading(sup[p]) /\ returns[p] = <<>> /\ jobs[p] = <<JobOf("Initialize")>>
        \/ /\ Restoring(sup[p]) /\ sup[p].st.pending = 0 /\ sup[p].probing
           /\ returns[p] = <<>> /\ jobs[p] = <<JobOf("Probe")>>
        \/ /\ Restoring(sup[p]) /\ sup[p].st.pending = 2 /\ sup[p].probing
           /\ returns[p] = <<>> /\ jobs[p] = <<JobOf("Probe"), JobOf("Restore")>>
    BY <1>1, <1>4, <2>1, JobShapes
  <2>3. ra = <<m>>
    BY <1>5, <2>2, Singles
  <2>4. CASE Reading(sup[p]) /\ jobs[p] = <<JobOf("Initialize")>>
    <3>1. m.kind = "Initialized" /\ jt = <<>>
      BY <1>3, <1>6, <2>1, <2>4, Singles
    <3>2. Truthful(m, sup[p], mine[p], settled[p], win)
      BY <1>3, <1>7, <2>4, <3>1 DEF Truthful, Related, Reading, Inv, Types
    <3>3. Only("Initialize", sup[p], ra, work[p], jt, mine[p], settled[p], win)
      BY <1>1, <1>3, <2>3, <3>1, <3>2 DEF Only, Answers
    <3> QED  BY <1>7, <2>4, <3>3 DEF Sound, Stands
  <2>5. CASE /\ Restoring(sup[p]) /\ sup[p].st.pending = 0 /\ sup[p].probing
             /\ jobs[p] = <<JobOf("Probe")>>
    <3>1. m.kind = "Probed" /\ jt = <<>>
      BY <1>3, <1>6, <2>1, <2>5, Singles
    <3>2. Truthful(m, sup[p], mine[p], settled[p], win)
      BY <1>3, <3>1 DEF Truthful
    <3>3. Only("Probe", sup[p], ra, work[p], jt, mine[p], settled[p], win)
      BY <1>1, <1>3, <2>3, <3>1, <3>2 DEF Only, Answers
    <3> QED  BY <1>7, <2>5, <3>3 DEF Sound, Stands
  <2>6. CASE /\ Restoring(sup[p]) /\ sup[p].st.pending = 2 /\ sup[p].probing
             /\ jobs[p] = <<JobOf("Probe"), JobOf("Restore")>>
    <3>1. Head(jobs[p]) = JobOf("Probe") /\ jt = <<JobOf("Restore")>>
      BY <1>6, <2>6, Pairs
    <3>2. m.kind = "Probed"
      BY <1>3, <3>1 DEF JobOf
    <3>3. ProbeThenRestore(sup[p], ra, work[p], jt, mine[p], settled[p], win)
      BY <1>1, <1>3, <2>3, <3>1, <3>2 DEF ProbeThenRestore
    <3> QED  BY <1>7, <2>6, <3>3 DEF Sound, Stands
  <2> QED  BY <2>2, <2>4, <2>5, <2>6
<1>9. /\ jobs' = [jobs EXCEPT ![p] = jobs'[p]] /\ jobs'[p] = jt
      /\ returns' = [returns EXCEPT ![p] = returns'[p]] /\ returns'[p] = ra
      /\ work' = [work EXCEPT ![p] = work'[p]] /\ mine' = [mine EXCEPT ![p] = mine'[p]]
      /\ settled' = [settled EXCEPT ![p] = settled'[p]]
  BY <1>1, <1>2, <1>5, <1>6 DEF Inv, Types
<1>10. /\ work[p] \in Errand /\ mine[p] \in {"none", "claimed", "promoted", "restoring"}
       /\ settled[p] \in {"none", "ok", "torn"} /\ win \in Scope
  BY DEF Inv, Types
<1> QED
  BY <1>1, <1>3, <1>8, <1>9, <1>10, WorkerStep

\* The worker writes the settled record, or fails to.
LEMMA WorkerSettleInv ==
    ASSUME Inv, NEW p \in Preps, WorkerSettle(p)
    PROVE  Inv'
<1>1. /\ child[p] = "running" /\ jobs[p] # <<>> /\ work[p].at = "idle"
      /\ Head(jobs[p]).kind = "Settle"
      /\ jobs' = [jobs EXCEPT ![p] = Tail(@)]
      /\ UNCHANGED <<now, win, gate, index, client, wire, child, sup, work, mine, shot>>
  BY DEF WorkerSettle
<1>2. PICK m :
        /\ m \in Receipt /\ m.kind = "Settled" /\ (m.ok => settled'[p] = "ok")
        /\ returns' = [returns EXCEPT ![p] = Append(@, m)]
  <2>1. settled \in [Preps -> {"none", "ok", "torn"}]
    BY DEF Inv, Types
  <2>2. PICK m : /\ returns' = [returns EXCEPT ![p] = Append(@, m)]
                 /\ \/ /\ m = [kind |-> "Settled", ok |-> TRUE, read |-> <<>>, seq |-> 0]
                       /\ settled' = [settled EXCEPT ![p] = "ok"]
                    \/ m = [kind |-> "Settled", ok |-> FALSE, read |-> <<>>, seq |-> 0]
    BY DEF WorkerSettle, Return
  <2>3. m \in Receipt /\ m.kind = "Settled"
    <3>1. <<>> \in Reads
      BY DEF Reads
    <3>2. CASE m = [kind |-> "Settled", ok |-> TRUE, read |-> <<>>, seq |-> 0]
      BY <3>1, <3>2, GoodReceipt
    <3>3. CASE m = [kind |-> "Settled", ok |-> FALSE, read |-> <<>>, seq |-> 0]
      BY <3>3, BadReceipt
    <3> QED  BY <2>2, <3>2, <3>3
  <2>4. m.ok => settled'[p] = "ok"
    BY <2>1, <2>2
  <2> QED  BY <2>2, <2>3, <2>4
<1>0. /\ settled'[p] \in {"none", "ok", "torn"} /\ (settled[p] = "ok" => settled'[p] = "ok")
      /\ settled' = [settled EXCEPT ![p] = settled'[p]]
      /\ faults' \in Nat
  <2>1. settled \in [Preps -> {"none", "ok", "torn"}] /\ faults \in Nat
    BY DEF Inv, Types
  <2>2. Fault => faults' \in Nat
    BY FaultCounts DEF Inv
  <2>3. /\ UNCHANGED faults \/ Fault
        /\ \/ settled' = [settled EXCEPT ![p] = "ok"] \/ settled' = settled
           \/ settled[p] = "none" /\ settled' = [settled EXCEPT ![p] = "torn"]
    BY DEF WorkerSettle
  <2> QED  BY <2>1, <2>2, <2>3
<1>3. Sound(sup[p], jobs[p], returns[p], work[p], mine[p], settled[p], win)
  BY <1>1 DEF Inv, Supervised
<1>4. /\ Settling(sup[p]) /\ sup[p].settling /\ mine[p] \in Undone
      /\ returns[p] = <<>> /\ jobs[p] = <<JobOf("Settle")>>
  <2>1. \A k : Head(<<JobOf(k)>>).kind = k
    BY Singles DEF JobOf
  <2>2. Head(<<JobOf("Probe"), JobOf("Restore")>>).kind = "Probe"
    BY Pairs DEF JobOf
  <2> QED  BY <1>1, <1>3, <2>1, <2>2, JobShapes
<1>5. PICK ra : ra = Append(returns[p], m)
  OBVIOUS
<1>6. PICK jt : jt = Tail(jobs[p])
  OBVIOUS
<1>7. ra = <<m>> /\ jt = <<>>
  BY <1>4, <1>5, <1>6, Singles
<1>8. Sound(sup[p], jt, ra, work[p], mine[p], settled'[p], win)
  <2>1. Truthful(m, sup[p], mine[p], settled'[p], win)
    BY <1>2 DEF Truthful
  <2>2. Only("Settle", sup[p], ra, work[p], jt, mine[p], settled'[p], win)
    BY <1>1, <1>2, <1>7, <2>1 DEF Only, Answers
  <2> QED  BY <1>3, <1>4, <2>2 DEF Sound, Stands
<1>9. /\ jobs' = [jobs EXCEPT ![p] = jobs'[p]] /\ jobs'[p] = jt
      /\ returns' = [returns EXCEPT ![p] = returns'[p]] /\ returns'[p] = ra
      /\ work' = [work EXCEPT ![p] = work'[p]] /\ mine' = [mine EXCEPT ![p] = mine'[p]]
  BY <1>1, <1>2, <1>5, <1>6 DEF Inv, Types
<1>10. /\ work[p] \in Errand /\ mine[p] \in {"none", "claimed", "promoted", "restoring"}
       /\ win \in Scope
  BY DEF Inv, Types
<1> QED
  BY <1>0, <1>1, <1>8, <1>9, <1>10, WorkerStep

\* The mutation is read back and returned.
LEMMA WorkerReadbackInv ==
    ASSUME Inv, NEW p \in Preps, WorkerReadback(p)
    PROVE  Inv'
<1>1. /\ work[p].at = "read" /\ work' = [work EXCEPT ![p] = Idle]
      /\ UNCHANGED <<now, win, gate, index, settled, client, wire, child, sup, jobs, mine, shot>>
  BY DEF WorkerReadback
<1>2. child[p] = "running"
  BY <1>1 DEF Inv, Still, Nothing, Types
<1>3. Sound(sup[p], jobs[p], returns[p], work[p], mine[p], settled[p], win)
  BY <1>2 DEF Inv, Supervised
<1>4. /\ Promoting(sup[p]) \/ Restoring(sup[p])
      /\ work[p].kind = (IF Promoting(sup[p]) THEN "Promote" ELSE "Restore")
      /\ Promoting(sup[p]) /\ work[p].ok => mine[p] \in InForce
      /\ sup[p].orig # <<>>
  <2>1. \/ Promoting(sup[p]) /\ Busy(work[p], "Promote", mine[p])
        \/ Restoring(sup[p]) /\ Busy(work[p], "Restore", mine[p])
    BY <1>1, <1>3, WorkShapes
  <2> QED  BY <1>1, <2>1 DEF Busy, Promoting, Restoring
<1>5. PICK m :
        /\ returns' = [returns EXCEPT ![p] = Append(@, m)]
        /\ \/ /\ m = [kind |-> work[p].kind, ok |-> work[p].ok, read |-> ReadScope,
                      seq |-> IF work[p].kind = "Promote" THEN 1 ELSE 2]
              /\ UNCHANGED faults
           \/ /\ m = [kind |-> work[p].kind, ok |-> FALSE, read |-> <<>>,
                      seq |-> IF work[p].kind = "Promote" THEN 1 ELSE 2]
              /\ Fault
  BY DEF WorkerReadback, Return
<1>6. faults' \in Nat
  BY <1>5, FaultCounts DEF Inv, Types
<1>7. /\ m \in Receipt /\ m.kind = work[p].kind
      /\ m.ok => work[p].ok /\ m.read # <<>> /\ m.read[1] = win
  <2>1. /\ ReadScope \in Reads /\ <<>> \in Reads /\ ReadScope # <<>> /\ ReadScope[1] = win
    BY ScopeRead DEF Inv
  <2>2. PICK n \in {0, 1, 2} : n = IF work[p].kind = "Promote" THEN 1 ELSE 2
    OBVIOUS
  <2>3. PICK k \in {"Promote", "Restore"} : k = work[p].kind
    BY <1>4
  <2>4. work[p].ok \in BOOLEAN
    BY DEF Inv, Types, Errand
  <2>5. CASE m = [kind |-> k, ok |-> work[p].ok, read |-> ReadScope, seq |-> n]
    BY <2>1, <2>3, <2>4, <2>5, MakeReceipt
  <2>6. CASE m = [kind |-> k, ok |-> FALSE, read |-> <<>>, seq |-> n]
    BY <2>3, <2>6, BadReceipt
  <2> QED  BY <1>5, <2>2, <2>3, <2>5, <2>6
<1>8. Truthful(m, sup[p], mine[p], settled[p], win)
  <2>1. CASE Promoting(sup[p])
    BY <1>4, <1>7, <2>1 DEF Truthful
  <2>2. CASE ~ Promoting(sup[p])
    <3>1. m.kind = "Restore"
      BY <1>4, <1>7, <2>2
    <3>2. m.ok /\ m.read # <<>> /\ m.read[1] = sup[p].orig[1] => mine[p] \in Undone
      <4> SUFFICES ASSUME win = sup[p].orig[1] PROVE mine[p] \in Undone
        BY <1>7
      <4>1. mine[p] \in {"none", "claimed", "promoted", "restoring"}
        BY DEF Inv, Types
      <4>2. Related(sup[p], mine[p], win)
        BY <1>3 DEF Sound
      <4> QED  BY <1>4, <4>1, <4>2 DEF Related, Undone
    <3> QED  BY <1>7, <3>1, <3>2 DEF Truthful
  <2> QED  BY <2>1, <2>2
<1>9. PICK e : e = Idle
  OBVIOUS
<1>10. e \in Errand /\ e.at = "idle"
  BY <1>9, CallLists DEF Idle, Errand
<1>11. PICK ra : ra = Append(returns[p], m)
  OBVIOUS
<1>12. Sound(sup[p], jobs[p], ra, e, mine[p], settled[p], win)
  BY <1>1, <1>3, <1>7, <1>8, <1>10, <1>11, AnswerSound
<1>13. /\ jobs' = [jobs EXCEPT ![p] = jobs'[p]] /\ jobs'[p] = jobs[p]
       /\ returns' = [returns EXCEPT ![p] = returns'[p]] /\ returns'[p] = ra
       /\ work' = [work EXCEPT ![p] = work'[p]] /\ work'[p] = e
       /\ mine' = [mine EXCEPT ![p] = mine'[p]]
       /\ settled' = [settled EXCEPT ![p] = settled'[p]]
  BY <1>1, <1>5, <1>9, <1>11 DEF Inv, Types
<1>14. /\ mine[p] \in {"none", "claimed", "promoted", "restoring"}
       /\ settled[p] \in {"none", "ok", "torn"} /\ win \in Scope
  BY DEF Inv, Types
<1> QED
  BY <1>1, <1>2, <1>6, <1>10, <1>12, <1>13, <1>14, WorkerStep

\* A mutation panics.
LEMMA WorkerPanicsInv ==
    ASSUME Inv, NEW p \in Preps, WorkerPanics(p)
    PROVE  Inv'
<1>1. /\ work[p].at # "idle" /\ work' = [work EXCEPT ![p] = [Idle EXCEPT !.kind = "panicked"]]
      /\ UNCHANGED <<now, win, gate, index, settled, client, wire, child, sup, jobs, mine, shot>>
  BY DEF WorkerPanics
<1>2. child[p] = "running"
  BY <1>1 DEF Inv, Still, Nothing, Types
<1>3. Sound(sup[p], jobs[p], returns[p], work[p], mine[p], settled[p], win)
  BY <1>2 DEF Inv, Supervised
<1>4. PICK m : /\ returns' = [returns EXCEPT ![p] = Append(@, m)]
               /\ m = [kind |-> "Panicked", ok |-> FALSE, read |-> <<>>, seq |-> 0]
  BY DEF WorkerPanics, Return
<1>5. faults' \in Nat
  BY FaultCounts DEF Inv, WorkerPanics
<1>6. m \in Receipt /\ m.kind = "Panicked"
  BY <1>4, BadReceipt
<1>7. Truthful(m, sup[p], mine[p], settled[p], win)
  BY <1>6 DEF Truthful
<1>8. PICK e : e = [Idle EXCEPT !.kind = "panicked"]
  OBVIOUS
<1>9. e \in Errand /\ e.at = "idle"
  BY <1>8, CallLists DEF Idle, Errand
<1>10. PICK ra : ra = Append(returns[p], m)
  OBVIOUS
<1>11. Sound(sup[p], jobs[p], ra, e, mine[p], settled[p], win)
  BY <1>1, <1>3, <1>6, <1>7, <1>9, <1>10, AnswerSound
<1>12. /\ jobs' = [jobs EXCEPT ![p] = jobs'[p]] /\ jobs'[p] = jobs[p]
       /\ returns' = [returns EXCEPT ![p] = returns'[p]] /\ returns'[p] = ra
       /\ work' = [work EXCEPT ![p] = work'[p]] /\ work'[p] = e
       /\ mine' = [mine EXCEPT ![p] = mine'[p]]
       /\ settled' = [settled EXCEPT ![p] = settled'[p]]
  BY <1>1, <1>4, <1>8, <1>10 DEF Inv, Types
<1>13. /\ mine[p] \in {"none", "claimed", "promoted", "restoring"}
       /\ settled[p] \in {"none", "ok", "torn"} /\ win \in Scope
  BY DEF Inv, Types
<1> QED
  BY <1>1, <1>2, <1>5, <1>9, <1>11, <1>12, <1>13, WorkerStep

\* Between its promotion and the end of its restore nothing is told and nothing settled.
LEMMA MutatingSound ==
    ASSUME NEW s, NEW js, NEW rs, NEW w, NEW mn, NEW z, NEW wn,
           Sound(s, js, rs, w, mn, z, wn), Promoting(s) \/ Restoring(s)
    PROVE  ~ s.told /\ z # "ok" /\ Related(s, mn, wn) /\ s.orig # <<>>
  BY DEF Sound, Promoting, Restoring, Settling, Clean

\* A mutation that is taken from the queue.
LEMMA NewErrand ==
    ASSUME NEW k \in {"Promote", "Restore"}, NEW m,
           m = [at |-> "guard", kind |-> k, calls |-> Calls(k), ok |-> TRUE]
    PROVE  m \in Errand /\ m.at = "guard" /\ m.kind = k /\ m.calls = Calls(k)
<1>1. CASE k = "Promote"
  <2>1. m = [at |-> "guard", kind |-> "Promote", calls |-> <<"promote">>, ok |-> TRUE]
    BY <1>1 DEF Calls
  <2> QED  BY <1>1, <2>1, CallLists DEF Errand, Calls
<1>2. CASE k = "Restore"
  <2>1. m = [at |-> "guard", kind |-> "Restore", calls |-> <<"tier", "anchor">>, ok |-> TRUE]
    BY <1>2 DEF Calls
  <2> QED  BY <1>2, <2>1, CallLists DEF Errand, Calls
<1> QED
  BY <1>1, <1>2

\* The checks next to a window call.
LEMMA WorkerGuardInv ==
    ASSUME Inv, NEW p \in Preps, WorkerGuard(p)
    PROVE  Inv'
<1>1. /\ \/ work[p].at = "guard" /\ jobs' = jobs
         \/ /\ child[p] = "running" /\ jobs[p] # <<>> /\ work[p].at = "idle"
            /\ Head(jobs[p]).kind \in {"Promote", "Restore"}
            /\ jobs' = [jobs EXCEPT ![p] = Tail(@)]
      /\ UNCHANGED <<now, win, gate, index, settled, client, wire, child, sup, returns, mine, shot>>
  BY DEF WorkerGuard
<1>2. PICK m : m = Mutation(p)
  OBVIOUS
<1>3. PICK w : /\ work' = [work EXCEPT ![p] = w]
               /\ w \in {[m EXCEPT !.at = "write"], [m EXCEPT !.at = "read", !.ok = FALSE]}
  BY <1>2 DEF WorkerGuard
<1>4. faults' \in Nat
  <2>1. UNCHANGED faults \/ Fault
    BY DEF WorkerGuard
  <2> QED  BY <2>1, FaultCounts DEF Inv, Types
<1>5. child[p] = "running"
  BY <1>1 DEF Inv, Still, Nothing, Types
<1>6. Sound(sup[p], jobs[p], returns[p], work[p], mine[p], settled[p], win)
  BY <1>5 DEF Inv, Supervised
<1>7. /\ jobs' = [jobs EXCEPT ![p] = jobs'[p]] /\ jobs'[p] = <<>>
      /\ m \in Errand
      /\ \/ Promoting(sup[p]) /\ Busy(m, "Promote", mine[p]) /\ returns[p] = <<>> /\ m.at = "guard"
         \/ /\ Restoring(sup[p]) /\ sup[p].st.pending = 2 /\ Busy(m, "Restore", mine[p])
            /\ m.at = "guard"
            /\ \/ ~ sup[p].probing /\ returns[p] = <<>>
               \/ sup[p].probing /\ \E n \in Receipt : n.kind = "Probed" /\ returns[p] = <<n>>
  <2>1. CASE work[p].at = "guard" /\ jobs' = jobs
    <3>1. m = work[p]
      BY <1>2, <2>1 DEF Mutation
    <3>2. /\ jobs[p] = <<>>
          /\ \/ Promoting(sup[p]) /\ Busy(m, "Promote", mine[p]) /\ returns[p] = <<>>
             \/ /\ Restoring(sup[p]) /\ sup[p].st.pending = 2 /\ Busy(m, "Restore", mine[p])
                /\ \/ ~ sup[p].probing /\ returns[p] = <<>>
                   \/ sup[p].probing /\ \E n \in Receipt : n.kind = "Probed" /\ returns[p] = <<n>>
      BY <1>6, <2>1, <3>1, WorkShapes
    <3>3. jobs' = [jobs EXCEPT ![p] = jobs'[p]] /\ jobs'[p] = jobs[p] /\ m \in Errand
      BY <2>1, <3>1 DEF Inv, Types
    <3> QED  BY <2>1, <3>1, <3>2, <3>3
  <2>2. CASE /\ jobs[p] # <<>> /\ work[p].at = "idle"
             /\ Head(jobs[p]).kind \in {"Promote", "Restore"}
             /\ jobs' = [jobs EXCEPT ![p] = Tail(@)]
    <3>1. PICK k \in {"Promote", "Restore"} : k = Head(jobs[p]).kind
      BY <2>2
    <3>2. m = [at |-> "guard", kind |-> k, calls |-> Calls(k), ok |-> TRUE]
      BY <1>2, <2>2, <3>1 DEF Mutation
    <3>3. m \in Errand /\ m.at = "guard" /\ m.kind = k /\ m.calls = Calls(k)
      BY <3>2, NewErrand
    <3>4. \A n : Head(<<JobOf(n)>>).kind = n
      BY Singles DEF JobOf
    <3>5. Head(<<JobOf("Probe"), JobOf("Restore")>>).kind = "Probe"
      BY Pairs DEF JobOf
    <3>6. /\ jobs[p] = <<JobOf(k)>>
          /\ \/ Promoting(sup[p]) /\ k = "Promote" /\ returns[p] = <<>> /\ mine[p] = "none"
             \/ /\ Restoring(sup[p]) /\ sup[p].st.pending = 2 /\ k = "Restore"
                /\ \/ ~ sup[p].probing /\ returns[p] = <<>>
                   \/ sup[p].probing /\ \E n \in Receipt : n.kind = "Probed" /\ returns[p] = <<n>>
      BY <1>6, <2>2, <3>1, <3>4, <3>5, JobShapes
    <3>7. Tail(jobs[p]) = <<>>
      BY <3>6, Singles
    <3>8. jobs' = [jobs EXCEPT ![p] = jobs'[p]] /\ jobs'[p] = Tail(jobs[p])
      BY <2>2 DEF Inv, Types
    <3>9. k = "Promote" => m.calls = <<"promote">>
      BY <3>3 DEF Calls
    <3>10. k = "Restore" => m.calls = <<"tier", "anchor">>
      BY <3>3 DEF Calls
    <3>11. CASE Promoting(sup[p]) /\ k = "Promote" /\ returns[p] = <<>> /\ mine[p] = "none"
      BY <3>3, <3>7, <3>8, <3>9, <3>11 DEF Busy
    <3>12. CASE /\ Restoring(sup[p]) /\ sup[p].st.pending = 2 /\ k = "Restore"
                /\ \/ ~ sup[p].probing /\ returns[p] = <<>>
                   \/ sup[p].probing /\ \E n \in Receipt : n.kind = "Probed" /\ returns[p] = <<n>>
      <4>1. Busy(m, "Restore", mine[p])
        BY <3>3, <3>10, <3>12 DEF Busy
      <4> QED  BY <3>3, <3>7, <3>8, <3>12, <4>1
    <3> QED  BY <3>6, <3>11, <3>12
  <2> QED  BY <1>1, <2>1, <2>2
<1>8. /\ w \in Errand /\ w.kind = m.kind
      /\ (w.at = "write" /\ w.calls = m.calls) \/ (w.at = "read" /\ ~ w.ok)
  <2>1. CASE w = [m EXCEPT !.at = "write"]
    BY <1>7, <2>1 DEF Errand
  <2>2. CASE w = [m EXCEPT !.at = "read", !.ok = FALSE]
    BY <1>7, <2>2 DEF Errand
  <2> QED  BY <1>3, <2>1, <2>2
<1>9. \A k : Busy(m, k, mine[p]) /\ m.at = "guard" => Busy(w, k, mine[p])
  BY <1>8 DEF Busy
<1>10. ~ sup[p].told /\ settled[p] # "ok" /\ Related(sup[p], mine[p], win)
  BY <1>6, <1>7, MutatingSound
<1>11. Sound(sup[p], <<>>, returns[p], w, mine[p], settled[p], win)
  BY <1>7, <1>9, <1>10, BusySound
<1>12. /\ returns' = [returns EXCEPT ![p] = returns'[p]]
       /\ work' = [work EXCEPT ![p] = work'[p]] /\ work'[p] = w
       /\ mine' = [mine EXCEPT ![p] = mine'[p]]
       /\ settled' = [settled EXCEPT ![p] = settled'[p]]
  BY <1>1, <1>3 DEF Inv, Types
<1>13. /\ mine[p] \in {"none", "claimed", "promoted", "restoring"}
       /\ settled[p] \in {"none", "ok", "torn"} /\ win \in Scope
  BY DEF Inv, Types
<1> QED
  BY <1>1, <1>4, <1>5, <1>7, <1>8, <1>11, <1>12, <1>13, WorkerStep

\* A window call: it takes effect (win, mine), fails, or is reported to no effect.
LEMMA WorkerWriteInv ==
    ASSUME Inv, NEW p \in Preps, WorkerWrite(p)
    PROVE  Inv'
<1>1. /\ work[p].at = "write"
      /\ UNCHANGED <<now, gate, index, settled, client, wire, child, sup, jobs, returns, shot>>
  BY DEF WorkerWrite
<1>2. child[p] = "running"
  BY <1>1 DEF Inv, Still, Nothing, Types
<1>3. Sound(sup[p], jobs[p], returns[p], work[p], mine[p], settled[p], win)
  BY <1>2 DEF Inv, Supervised
<1>4. /\ jobs[p] = <<>>
      /\ \/ Promoting(sup[p]) /\ Busy(work[p], "Promote", mine[p]) /\ returns[p] = <<>>
         \/ /\ Restoring(sup[p]) /\ sup[p].st.pending = 2 /\ Busy(work[p], "Restore", mine[p])
            /\ \/ ~ sup[p].probing /\ returns[p] = <<>>
               \/ sup[p].probing /\ \E m \in Receipt : m.kind = "Probed" /\ returns[p] = <<m>>
  BY <1>1, <1>3, WorkShapes
<1>5. /\ ~ sup[p].told /\ settled[p] # "ok" /\ Related(sup[p], mine[p], win)
      /\ sup[p].orig # <<>>
  BY <1>3, <1>4, MutatingSound
<1>6. PICK cs : cs = work[p].calls
  OBVIOUS
<1>7. PICK b \in BOOLEAN :
        /\ work' = [work EXCEPT ![p] =
              [work[p] EXCEPT !.at = IF b /\ ~ (Len(cs) = 1) THEN "guard" ELSE "read",
                        !.calls = Tail(@), !.ok = b]]
        /\ \/ /\ win' = Moved(p, Head(cs)) /\ b /\ UNCHANGED faults
              /\ mine' = [mine EXCEPT ![p] =
                    IF Head(cs) = "promote" THEN "promoted"
                    ELSE IF Head(cs) = "tier" THEN "restoring"
                    ELSE IF win'.top = Orig(p).top THEN "none" ELSE @]
           \/ /\ UNCHANGED win /\ (Fault \/ UNCHANGED faults)
              /\ mine' = IF b /\ Head(cs) = "promote"
                         THEN [mine EXCEPT ![p] = "claimed"] ELSE mine
  <2>1. \/ /\ win' = Moved(p, Head(cs)) /\ UNCHANGED faults
           /\ mine' = [mine EXCEPT ![p] =
                 IF Head(cs) = "promote" THEN "promoted"
                 ELSE IF Head(cs) = "tier" THEN "restoring"
                 ELSE IF win'.top = Orig(p).top THEN "none" ELSE @]
           /\ work' = [work EXCEPT ![p] =
                 [work[p] EXCEPT !.at = IF TRUE /\ ~ (Len(cs) = 1) THEN "guard" ELSE "read",
                           !.calls = Tail(@), !.ok = TRUE]]
        \/ /\ UNCHANGED win /\ (Fault \/ UNCHANGED faults)
           /\ \E b \in BOOLEAN :
                 /\ work' = [work EXCEPT ![p] =
                       [work[p] EXCEPT !.at = IF b /\ ~ (Len(cs) = 1) THEN "guard" ELSE "read",
                                 !.calls = Tail(@), !.ok = b]]
                 /\ mine' = IF b /\ Head(cs) = "promote"
                            THEN [mine EXCEPT ![p] = "claimed"] ELSE mine
    BY <1>6, Zenon DEF WorkerWrite
  <2> QED  BY <2>1, Zenon
<1>8. PICK a \in {"guard", "read"} : a = IF b /\ ~ (Len(cs) = 1) THEN "guard" ELSE "read"
  OBVIOUS
<1>9. PICK ct : ct = Tail(cs)
  OBVIOUS
<1>10. work[p] \in Errand /\ work \in [Preps -> Errand] /\ work[p].calls = cs
  BY <1>6 DEF Inv, Types
<1>11. PICK w : w = [work[p] EXCEPT !.at = a, !.calls = ct, !.ok = b]
  OBVIOUS
<1>12. work' = [work EXCEPT ![p] = w]
  <2>1. work' = [work EXCEPT ![p] =
              [work[p] EXCEPT !.at = IF b /\ ~ (Len(cs) = 1) THEN "guard" ELSE "read",
                        !.calls = Tail(@), !.ok = b]]
    BY <1>7
  <2>2. work' = [work EXCEPT ![p] = [work[p] EXCEPT !.at = a, !.calls = Tail(@), !.ok = b]]
    BY <1>8, <2>1, Zenon
  <2>3. w = [work[p] EXCEPT !.at = a, !.calls = Tail(@), !.ok = b]
    BY <1>9, <1>10, <1>11
  <2> QED  BY <2>2, <2>3, Zenon
<1>13. \/ Promoting(sup[p]) /\ cs = <<"promote">> /\ mine[p] = "none"
       \/ Restoring(sup[p]) /\ cs = <<"tier", "anchor">>
       \/ Restoring(sup[p]) /\ cs = <<"anchor">>
  BY <1>1, <1>4, <1>6 DEF Busy
<1>14. /\ ct \in {<<>>, <<"anchor">>}
       /\ Head(cs) = "tier" <=> cs = <<"tier", "anchor">>
       /\ Head(cs) = "promote" <=> cs = <<"promote">>
       /\ cs = <<"tier", "anchor">> => ct = <<"anchor">>
       /\ cs # <<"tier", "anchor">> => a = "read"
  BY <1>8, <1>9, <1>13, CallLists
<1>15. w \in Errand /\ w.at = a /\ w.kind = work[p].kind /\ w.calls = ct /\ w.ok = b
  <2>1. ct \in Seq({"promote", "tier", "anchor"})
    BY <1>14, CallLists
  <2> QED  BY <1>10, <1>11, <2>1 DEF Errand
<1>16. PICK o \in Scope : o = Orig(p) /\ o = sup[p].orig[1] /\ o.order = "placed"
  <2>1. sup[p].orig \in Reads
    BY DEF Inv, Types, Supervisor
  <2>2. PICK v \in Scope : sup[p].orig = <<v>>
    BY <1>5, <2>1 DEF Reads
  <2>3. sup[p].orig[1] = v
    BY <2>2, Singles
  <2> QED  BY <1>5, <2>2, <2>3 DEF Orig, Related
<1>17. faults' \in Nat
  BY <1>7, FaultCounts DEF Inv, Types
<1>18. win \in Scope /\ mine[p] \in {"none", "claimed", "promoted", "restoring"}
       /\ settled[p] \in {"none", "ok", "torn"} /\ mine = [mine EXCEPT ![p] = mine[p]]
       /\ \A v : [mine EXCEPT ![p] = v][p] = v
  BY DEF Inv, Types
<1>19. PICK mn, wn :
         /\ mine' = [mine EXCEPT ![p] = mn] /\ win' = wn /\ wn \in Scope
         /\ mn \in {"none", "claimed", "promoted", "restoring"}
         /\ Related(sup[p], mn, wn)
         /\ cs = <<"promote">> /\ b => mn \in InForce
  <2>1. CASE win' = win /\ ~ (b /\ Head(cs) = "promote") /\ mine' = mine
    BY <1>5, <1>14, <1>18, <2>1
  <2>2. CASE win' = win /\ b /\ Head(cs) = "promote" /\ mine' = [mine EXCEPT ![p] = "claimed"]
    <3>1. mine[p] = "none"
      BY <1>13, <1>14, <2>2
    <3>2. Related(sup[p], "claimed", win)
      BY <1>5, <3>1 DEF Related, Undone
    <3> QED  BY <1>18, <2>2, <3>2 DEF InForce
  <2>3. CASE /\ win' = Moved(p, Head(cs)) /\ Head(cs) = "promote"
             /\ mine' = [mine EXCEPT ![p] = "promoted"]
    <3>1. PICK wn : wn = [win EXCEPT !.top = TRUE, !.order = "raised"]
      OBVIOUS
    <3>2. wn \in Scope /\ wn.top /\ wn.order = "raised"
      BY <1>18, <3>1 DEF Scope
    <3>3. win' = wn
      BY <2>3, <3>1 DEF Moved
    <3>4. Related(sup[p], "promoted", wn)
      BY <1>5, <3>2 DEF Related, Undone
    <3> QED  BY <2>3, <3>2, <3>3, <3>4 DEF InForce
  <2>4. CASE /\ win' = Moved(p, Head(cs)) /\ Head(cs) = "tier"
             /\ mine' = [mine EXCEPT ![p] = "restoring"]
    <3>1. PICK wn : wn = [win EXCEPT !.top = o.top, !.order = "tier"]
      OBVIOUS
    <3>2. wn \in Scope /\ wn.top = o.top /\ wn.order = "tier"
      BY <1>18, <3>1 DEF Scope
    <3>3. win' = wn
      BY <1>16, <2>4, <3>1 DEF Moved
    <3>4. Related(sup[p], "restoring", wn)
      BY <1>5, <1>16, <3>2 DEF Related, Undone
    <3> QED  BY <1>14, <2>4, <3>2, <3>3, <3>4
  <2>5. CASE /\ win' = Moved(p, Head(cs)) /\ Head(cs) \notin {"promote", "tier"}
             /\ mine' = [mine EXCEPT ![p] = IF win'.top = Orig(p).top THEN "none" ELSE @]
    <3>1. PICK wn : wn = [win EXCEPT !.order = "placed"]
      OBVIOUS
    <3>2. wn \in Scope /\ wn.top = win.top /\ wn.order = "placed"
      BY <1>18, <3>1 DEF Scope
    <3>3. win' = wn
      <4>1. Head(cs) = "anchor"
        BY <1>13, <2>5, CallLists
      <4> QED  BY <1>16, <2>5, <3>1, <4>1 DEF Moved
    <3>4. PICK mn : mn = IF wn.top = o.top THEN "none" ELSE mine[p]
      OBVIOUS
    <3>5. mine' = [mine EXCEPT ![p] = mn]
      BY <1>16, <1>18, <2>5, <3>3, <3>4
    <3>6. Related(sup[p], mn, wn)
      BY <1>5, <1>16, <1>18, <3>2, <3>4 DEF Related, Undone, Scope
    <3> QED  BY <1>14, <1>18, <2>5, <3>2, <3>3, <3>4, <3>5, <3>6
  <2> QED  BY <1>7, <2>1, <2>2, <2>3, <2>4, <2>5
<1>20. /\ Promoting(sup[p]) /\ Busy(work[p], "Promote", mine[p]) => Busy(w, "Promote", mn)
       /\ Restoring(sup[p]) /\ Busy(work[p], "Restore", mine[p]) => Busy(w, "Restore", mn)
  <2>1. Busy(work[p], "Promote", mine[p]) => cs = <<"promote">>
    BY <1>1, <1>6 DEF Busy
  <2>2. Busy(work[p], "Restore", mine[p]) => cs # <<"promote">>
    BY <1>1, <1>6, CallLists DEF Busy
  <2>3. cs = <<"promote">> => cs # <<"tier", "anchor">>
    BY CallLists
  <2>4. a = "guard" => ct = <<"anchor">>
    BY <1>14
  <2> QED  BY <1>8, <1>14, <1>15, <1>19, <2>1, <2>2, <2>3, <2>4 DEF Busy
<1>21. Sound(sup[p], <<>>, returns[p], w, mn, settled[p], wn)
  BY <1>4, <1>5, <1>19, <1>20, BusySound
<1>22. /\ returns' = [returns EXCEPT ![p] = returns'[p]] /\ jobs' = [jobs EXCEPT ![p] = jobs'[p]]
       /\ work' = [work EXCEPT ![p] = work'[p]] /\ work'[p] = w
       /\ mine' = [mine EXCEPT ![p] = mine'[p]] /\ mine'[p] = mn
       /\ settled' = [settled EXCEPT ![p] = settled'[p]]
  BY <1>1, <1>10, <1>12, <1>18, <1>19 DEF Inv, Types
<1> QED
  BY <1>1, <1>2, <1>4, <1>15, <1>17, <1>18, <1>19, <1>21, <1>22, WorkerStep

\* The initial states: no preparation has begun.
LEMMA InitInv ==
    ASSUME Init
    PROVE  Inv
<1>1. /\ now = 0 /\ faults = MaxFaults /\ gate = 0 /\ index = 0
      /\ settled = [p \in Preps |-> "none"] /\ client = [p \in Preps |-> NoClient]
      /\ wire = [p \in Preps |-> Quiet] /\ child = [p \in Preps |-> "none"]
      /\ sup = [p \in Preps |-> NewSupervisor(0)] /\ jobs = [p \in Preps |-> <<>>]
      /\ work = [p \in Preps |-> Idle] /\ returns = [p \in Preps |-> <<>>]
      /\ mine = [p \in Preps |-> "none"] /\ shot = [p \in Preps |-> "none"]
  BY DEF Init
<1>2. win \in Scope /\ win.order = "placed"
  <2>1. PICK t \in BOOLEAN : win = [top |-> t, order |-> "placed", geo |-> 0,
                                  above |-> 0, below |-> 0]
    BY DEF Init
  <2> QED  BY <2>1 DEF Scope
<1>3. PICK ns : ns = NewStatus(0)
  OBVIOUS
<1>4. ns \in Status /\ ns.phase # "Active" /\ ~ ns.cleanup
  BY <1>3 DEF NewStatus, Status, Phases
<1>5. NoClient \in [at : {"none", "live", "gone"}, revoked : BOOLEAN, cached : Status]
      /\ NoClient.at = "none" /\ NoClient.cached = ns
  BY <1>3, <1>4 DEF NoClient
<1>6. Quiet \in [at : {"none", "query", "reply", "error"}, st : Status] /\ Quiet.at = "none"
  BY <1>3, <1>4 DEF Quiet
<1>7. PICK s : s = NewSupervisor(0)
  OBVIOUS
<1>8. s \in Supervisor /\ s = NewSupervisor(s.st.deadline)
  <2>1. <<>> \in Reads
    BY DEF Reads
  <2>2. s \in Supervisor
    BY <1>3, <1>4, <1>7, <2>1 DEF NewSupervisor, Supervisor
  <2>3. s.st = ns /\ ns.deadline = 0
    BY <1>3, <1>7 DEF NewSupervisor, NewStatus
  <2> QED  BY <1>7, <2>2, <2>3
<1>9. Idle \in Errand /\ Idle.at = "idle"
  BY CallLists DEF Idle, Errand
<1>10. Types
  <2>1. now \in Nat /\ faults \in Nat
    BY <1>1, BoundsAssumption
  <2>2. gate \in 0 .. MaxPreparations /\ index \in -1 .. MaxPreparations
    BY <1>1, BoundsAssumption
  <2>3. /\ DOMAIN jobs = Preps /\ jobs = [p \in Preps |-> jobs[p]]
        /\ DOMAIN returns = Preps /\ returns = [p \in Preps |-> returns[p]]
    BY <1>1
  <2>4. sup \in [Preps -> Supervisor] /\ work \in [Preps -> Errand]
    BY <1>1, <1>7, <1>8, <1>9
  <2>5. /\ client \in [Preps -> [at : {"none", "live", "gone"}, revoked : BOOLEAN, cached : Status]]
        /\ wire \in [Preps -> [at : {"none", "query", "reply", "error"}, st : Status]]
    BY <1>1, <1>5, <1>6
  <2>6. /\ settled \in [Preps -> {"none", "ok", "torn"}]
        /\ child \in [Preps -> {"none", "boot", "indexing", "running", "refused", "exited", "killed"}]
        /\ mine \in [Preps -> {"none", "claimed", "promoted", "restoring"}]
        /\ shot \in [Preps -> {"none", "begun", "prepared", "late", "shown late"}]
    BY <1>1
  <2> QED  BY <1>2, <2>1, <2>2, <2>3, <2>4, <2>5, <2>6 DEF Types
<1>11. \A p \in Preps : /\ child[p] = "none" /\ mine[p] = "none" /\ settled[p] = "none"
                        /\ shot[p] = "none" /\ jobs[p] = <<>> /\ returns[p] = <<>>
                        /\ work[p] = Idle /\ client[p] = NoClient /\ wire[p] = Quiet /\ sup[p] = s
  BY <1>1, <1>7
<1>12. Supervised /\ Still /\ Exclusive
  BY <1>9, <1>11 DEF Supervised, Still, Exclusive, Nothing
<1>13. Journalled /\ Placed
  BY <1>2, <1>11 DEF Journalled, Placed, Undone
<1>14. Early
  BY <1>4, <1>5, <1>6, <1>8, <1>11 DEF Early
<1>15. Reported
  BY <1>4, <1>5, <1>6, <1>11 DEF Reported
<1>16. Believed /\ Shots
  BY <1>11 DEF Believed, Shots, InForceFor
<1> QED
  BY <1>10, <1>12, <1>13, <1>14, <1>15, <1>16 DEF Inv

\* A step that changes nothing.
LEMMA StutterInv ==
    ASSUME Inv, UNCHANGED vars
    PROVE  Inv'
<1> USE DEF Inv, vars
<1>1. Types'
  BY DEF Types
<1>2. Supervised'
  <2> SUFFICES ASSUME NEW q \in Preps, child'[q] = "running"
               PROVE  Sound(sup'[q], jobs'[q], returns'[q], work'[q], mine'[q], settled'[q], win')
    BY DEF Supervised
  <2> QED  BY DEF Supervised
<1>3. Still' /\ Exclusive' /\ Journalled' /\ Placed'
  BY DEF Still, Exclusive, Journalled, Placed, Nothing
<1>4. Early' /\ Reported'
  BY DEF Early, Reported
<1>5. Believed' /\ Shots'
  BY DEF Believed, Shots, InForceFor
<1> QED
  BY <1>1, <1>2, <1>3, <1>4, <1>5

\* Every step keeps the invariant.
LEMMA NextInv ==
    ASSUME Inv, [Next]_vars
    PROVE  Inv'
<1>1. CASE \E p \in Preps : Child(p)
  BY <1>1, ChildStartInv, ChildIndexInv, ChildReceiveInv, ChildTurnInv, ChildRefusedInv DEF Child
<1>2. CASE \E p \in Preps : ChildKilled(p)
  BY <1>2, ChildKilledInv
<1>3. CASE \E p \in Preps : Worker(p) \/ WorkerPanics(p)
  BY <1>3, WorkerReadInv, WorkerSettleInv, WorkerGuardInv, WorkerWriteInv, WorkerReadbackInv,
     WorkerPanicsInv DEF Worker
<1>4. CASE \E p \in Preps : Begin(p) \/ Session(p) \/ Stop(p) \/ Gone(p)
  BY <1>4, BeginInv, QueryInv, TakeReplyInv, StopInv, GoneInv DEF Session
<1>5. CASE \E p \in Preps : CaptureBegin(p) \/ CapturePixels(p) \/ CapturePublish(p)
  BY <1>5, CaptureBeginInv, CapturePixelsInv, CapturePublishInv
<1>6. CASE Clock \/ UserMoves \/ NeighbourChanges
  BY <1>6, ClockInv, UserMovesInv, NeighbourChangesInv
<1>7. CASE UNCHANGED vars
  BY <1>7, StutterInv
<1> QED
  BY <1>1, <1>2, <1>3, <1>4, <1>5, <1>6, <1>7 DEF Next

\* The inductive invariant holds throughout: where a supervisor stands in its
\* protocol and what is between it and the worker, the gate and the journal, and
\* what the client may believe (process.rs, runtime.rs, state.rs, journal.rs).
THEOREM PreparationInvariant == Spec => []Inv
<1>1. Init => Inv
  BY InitInv
<1>2. Inv /\ [Next]_vars => Inv'
  BY NextInv
<1> QED
  BY <1>1, <1>2, PTL DEF Spec

\* A client that is told of a cleanup can rely on it: the record is on the disk and
\* the writes of the preparation are undone, for any number of preparations and faults.
THEOREM VerifiedIsDurableHolds == Spec => []VerifiedIsDurable
<1>1. Inv => VerifiedIsDurable
  BY DEF Inv, Reported, Journalled, VerifiedIsDurable
<1> QED
  BY <1>1, PreparationInvariant, PTL

\* While a preparation runs, no other one's writes are in force: what it reads as
\* the original state is the original state.
THEOREM OriginalIsTrueHolds == Spec => []OriginalIsTrue
<1>1. Inv => OriginalIsTrue
  BY DEF Inv, Exclusive, Journalled, OriginalIsTrue
<1> QED
  BY <1>1, PreparationInvariant, PTL

\* Pixels taken after the window left the promoted state are never shown, although
\* the client validates against a status that it has cached.
THEOREM FramesInForceHolds == Spec => []FramesInForce
<1>1. Inv => FramesInForce
  BY DEF Inv, Shots, FramesInForce
<1> QED
  BY <1>1, PreparationInvariant, PTL

=============================================================================
