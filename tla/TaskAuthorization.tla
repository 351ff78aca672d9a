-------------------------- MODULE TaskAuthorization --------------------------
(***************************************************************************)
(* Task authorization of the Host: the broker that keeps registrations and *)
(* binds each to one session, the cross-client verifier that turns signed  *)
(* decisions into registrations, the lease a session holds, and the        *)
(* requests that act under it or under a confirmation of the user.         *)
(*                                                                         *)
(* Time is a wall clock that may be set back and a monotonic clock that    *)
(* may not.  The broker serves one embedding, in one of two arrangements:  *)
(* via = "broker" (the embedding registers) or via = "cross" (registration *)
(* only by a signed decision on a challenge).                              *)
(***************************************************************************)
EXTENDS TaskScopes

CONSTANTS
    Sessions,      \* the sessions a client may open
    Proposals,     \* what an embedding registers, or a challenge asks for
    Grants,        \* Grants[s]: the task grants the client of s presents
    Actions,       \* the actions clients ask for
    Directories,   \* directories somebody may remove or replace by a link
    Expiries,      \* the expiry times registrations and decisions name
    MaxTime,       \* bound of both clocks
    MaxId,         \* bound on the authorizations ever made
    MaxChallenge,  \* bound on the challenges ever made
    MaxPending,    \* MAX_PENDING_TTL_MS
    MaxRecords     \* MAX_BROKER_AUTHORIZATIONS, MAX_PENDING_CHALLENGES

ASSUME Bounds == MaxTime \in Nat /\ MaxId \in Nat \ {0} /\ MaxChallenge \in 0..MaxId /\ MaxPending \in Nat
                 /\ MaxRecords \in Nat /\ Expiries \subseteq Nat /\ MaxTtl \in Nat /\ MaxActions \in Nat

Ids == 1..MaxId

\* HostActionSafetyTier; what from_wire does not know is a hard_deny.
Tiers == {"hard_deny", "action_confirmation", "pre_approval", "task_grant"}

ASSUME Inputs == /\ None \notin Sessions /\ None \notin Ids
                 /\ \A x \in Actions : x.element # None => x.element.tier \in Tiers

VARIABLES
    via,         \* "broker" or "cross"
    wall, mono,  \* the two clocks
    rolled,      \* the wall clock has been set back once
    key,         \* the trust state of the issuer key
    ordinary,    \* the directories that are there, without a link on their path
    born,        \* creation identity of the process behind the target window
    ids,         \* number of authorizations and of challenges made
    challenges,  \* retained challenges, by id
    pending,     \* a prepare() that has read the clock and not yet the lock
    receipts,    \* signed decisions, which may be delivered again and again
    prov,        \* provenance of the authorizations the verifier registered
    lastSeen, clockFailed,  \* observe_clock
    records,     \* the broker's records, by authorization id
    fenced,      \* authorizations whose admission fence was found closed
    taken,       \* history: who an authorization was bound to, and by which decision it was made
    ses          \* the sessions of the Host

verifier == <<ids, challenges, pending, receipts, prov, lastSeen, clockFailed>>
world == <<via, wall, mono, rolled, key, ordinary, born>>
vars == <<world, verifier, records, fenced, taken, ses>>

Closed == [st |-> "none", grant |-> None, lease |-> None, interrupted |-> FALSE,
           req |-> "idle", act |-> None, agreed |-> FALSE, ended |-> FALSE]

Add(f, x, v) == [y \in DOMAIN f \union {x} |-> IF y = x THEN v ELSE f[y]]

Only(f, S) == [y \in DOMAIN f \cap S |-> f[y]]

\* The directories registrations name.
Places == UNION {{r.recording, r.preparation} \ {None} : r \in Proposals}

Init ==
    /\ via \in {"broker", "cross"}
    /\ wall = 1 /\ mono = 0 /\ rolled = FALSE /\ key = "active" /\ born = 0
    /\ ordinary = Directories \union Places
    /\ ids = [auth |-> 0, challenge |-> 0]
    /\ challenges = <<>> /\ pending = None /\ receipts = {} /\ prov = <<>>
    /\ lastSeen = 0 /\ clockFailed = FALSE
    /\ records = <<>> /\ fenced = {}
    /\ taken = [a \in Ids |-> [by |-> None, from |-> None]]
    /\ ses = [s \in Sessions |-> Closed]

-----------------------------------------------------------------------------
(* The environment. *)

Tick ==
    /\ mono < MaxTime /\ wall < MaxTime
    /\ mono' = mono + 1 /\ wall' = wall + 1
    /\ UNCHANGED <<via, rolled, key, ordinary, born, verifier, records, fenced, taken, ses>>

SetClockBack ==
    /\ ~rolled /\ wall > 0
    /\ wall' = wall - 1 /\ rolled' = TRUE
    /\ UNCHANGED <<via, mono, key, ordinary, born, verifier, records, fenced, taken, ses>>

\* TrustedTaskAuthorizationTrustAdmin::revoke
RevokeKey ==
    /\ via = "cross" /\ key = "active" /\ key' = "revoked"
    /\ UNCHANGED <<via, wall, mono, rolled, ordinary, born, verifier, records, fenced, taken, ses>>

ReplaceProcess ==
    /\ via = "cross" /\ born = 0 /\ born' = 1
    /\ UNCHANGED <<via, wall, mono, rolled, key, ordinary, verifier, records, fenced, taken, ses>>

\* A directory is removed or replaced by a link, or is put back.
ReplaceDirectory(d) ==
    /\ ordinary' = IF d \in ordinary THEN ordinary \ {d} ELSE ordinary \union {d}
    /\ UNCHANGED <<via, wall, mono, rolled, key, born, verifier, records, fenced, taken, ses>>

-----------------------------------------------------------------------------
(* The admission fence (RecordingAuthorization): it closes at the wall     *)
(* clock or at the monotonic deadline, and whoever finds it closed shuts   *)
(* it for good.                                                            *)

\* Mutant: the fence looks at the wall clock only.
AdmitsByWallClock(a) == a \notin fenced /\ wall < records[a].expires

Admits(a) == /\ a \notin fenced
             /\ wall < records[a].expires /\ mono < records[a].deadline

IsActive(a) == ~records[a].revoked /\ Admits(a)

\* The fence is only asked when the record is not revoked already.
FencedBy(a) == IF ~records[a].revoked /\ ~Admits(a) THEN fenced \union {a} ELSE fenced

-----------------------------------------------------------------------------
(* The issuer side of the broker. *)

Unexpired == {a \in DOMAIN records : records[a].expires > wall}

Registers(r, e) == /\ ValidRegistration(r, e, wall, ordinary)
                   /\ Cardinality(Unexpired) < MaxRecords /\ ids.auth < MaxId

\* register_inner; from is the challenge behind it, or the id itself.  Expired
\* records go first, also when the broker then turns out to be full.
Registered(r, e, from) ==
    LET a == ids.auth + 1
        pruned == Only(records, Unexpired)
        fresh == [reg |-> r, expires |-> e, deadline |-> mono + (e - wall),
                  binding |-> None, revoked |-> FALSE, native |-> FALSE]
    IN IF Registers(r, e)
       THEN /\ ids' = [ids EXCEPT !.auth = a]
            /\ records' = Add(pruned, a, fresh)
            /\ taken' = [taken EXCEPT ![a].from = from]
       ELSE /\ records' = IF ValidRegistration(r, e, wall, ordinary) THEN pruned ELSE records
            /\ UNCHANGED <<ids, taken>>

Register(r, e) ==
    /\ via = "broker" /\ r.target # "bootstrap"
    /\ Registered(r, e, ids.auth + 1)
    /\ UNCHANGED <<world, challenges, pending, receipts, prov, lastSeen, clockFailed, fenced, ses>>

Revoke(a) ==
    /\ via = "broker" /\ a \in DOMAIN records /\ ~records[a].revoked
    /\ records' = [records EXCEPT ![a].revoked = TRUE]
    /\ fenced' = fenced \union {a}
    /\ UNCHANGED <<world, verifier, taken, ses>>

-----------------------------------------------------------------------------
(* The cross-client verifier. *)

\* observe_clock: a reading below the last one fails the clock for good.
Observe(now) ==
    /\ clockFailed' = (clockFailed \/ now < lastSeen)
    /\ lastSeen' = IF ~clockFailed /\ now >= lastSeen THEN now ELSE lastSeen

ClockGood(now) == ~clockFailed /\ now >= lastSeen

\* prepare() reads the clock, validates the request and looks at the target ...
PrepareRead(r, e) ==
    /\ via = "cross" /\ pending = None
    /\ ids.challenge < MaxChallenge
    /\ ValidChallenge(r, e, wall)
    /\ pending' = [reg |-> r, expires |-> e, now |-> wall, born |-> born]
    /\ UNCHANGED <<world, ids, challenges, receipts, prov, lastSeen, clockFailed, records,
                   fenced, taken, ses>>

\* ... and only then takes the lock, under which the reading is compared.
PrepareLocked ==
    LET kept == {c \in DOMAIN challenges : challenges[c].deadline >= pending.now}
        c == ids.challenge + 1
        fresh == [reg |-> pending.reg, expires |-> pending.expires, issued |-> pending.now,
                  deadline |-> IF pending.expires < pending.now + MaxPending
                               THEN pending.expires ELSE pending.now + MaxPending,
                  born |-> pending.born, consumed |-> FALSE]
    IN /\ pending # None /\ pending' = None
       /\ Observe(pending.now)
       /\ IF ~ClockGood(pending.now) THEN UNCHANGED <<challenges, ids>>
          ELSE IF Cardinality(kept) >= MaxRecords
          THEN challenges' = Only(challenges, kept) /\ UNCHANGED ids
          ELSE /\ challenges' = Add(Only(challenges, kept), c, fresh)
               /\ ids' = [ids EXCEPT !.challenge = c]
       /\ UNCHANGED <<world, receipts, prov, records, fenced, taken, ses>>

\* The user decides on a challenge, once; the signed receipt may travel often.
Decide(c, allow, e) ==
    /\ c \in DOMAIN challenges /\ \A r \in receipts : r.challenge # c
    /\ e <= challenges[c].expires /\ e >= wall
    /\ receipts' = receipts \union
          {[challenge |-> c, allow |-> allow, issued |-> wall, expires |-> e]}
    /\ UNCHANGED <<world, ids, challenges, pending, prov, lastSeen, clockFailed, records,
                   fenced, taken, ses>>

\* validate_decision_binding: identity fields are the receipt's challenge here.
DecisionBinds(d, c) ==
    /\ d.issued >= c.issued /\ d.issued <= wall
    /\ d.issued <= c.deadline /\ wall <= c.deadline
    /\ d.expires > wall /\ d.expires <= c.expires /\ d.expires >= d.issued

\* Mutant: a consumed challenge is accepted again.
AcceptableAgain(d) ==
    /\ d.challenge \in DOMAIN challenges
    /\ DecisionBinds(d, challenges[d.challenge])
    /\ key = "active"
    /\ d.allow => challenges[d.challenge].born = born

Acceptable(d) ==
    /\ d.challenge \in DOMAIN challenges
    /\ ~challenges[d.challenge].consumed
    /\ DecisionBinds(d, challenges[d.challenge])
    /\ key = "active"
    /\ d.allow => challenges[d.challenge].born = born

\* consume: denied decisions and bootstraps end here, the others register.
Consume(d) ==
    LET c == challenges[d.challenge]
        registers == d.allow /\ c.reg.target # "bootstrap"
        kept == {a \in DOMAIN prov : prov[a].expires > wall}
    IN /\ via = "cross"
       /\ Observe(wall)
       /\ IF ~(ClockGood(wall) /\ Acceptable(d))
          THEN UNCHANGED <<ids, challenges, prov, records, taken>>
          ELSE /\ challenges' = [challenges EXCEPT ![d.challenge].consumed = TRUE]
               /\ IF registers THEN Registered(c.reg, d.expires, d.challenge)
                  ELSE UNCHANGED <<ids, records, taken>>
               /\ prov' = IF registers /\ Registers(c.reg, d.expires)
                          THEN Add(Only(prov, kept), ids.auth + 1,
                                   [born |-> c.born, expires |-> d.expires])
                          ELSE prov
       /\ UNCHANGED <<world, pending, receipts, fenced, ses>>

-----------------------------------------------------------------------------
(* The Host side of broker and verifier. *)

\* authorize: one binding per record, and only while everything still holds.
CrossAdmits(a) ==
    via = "cross" => /\ ClockGood(wall)
                     /\ a \in DOMAIN prov /\ prov[a].born = born
                     /\ key = "active"

ExactMatch(a, s, owned) ==
    /\ records[a].reg.task \in {None, s}
    /\ owned = (records[a].reg.target = "owned")

Authorizes(a, s, owned) ==
    /\ CrossAdmits(a)
    /\ a \in DOMAIN records
    /\ IsActive(a) /\ records[a].binding = None /\ records[a].expires > wall
    /\ ExactMatch(a, s, owned)

Bind(a, s) ==
    /\ records' = [records EXCEPT ![a].binding = s,
                                  ![a].native = GrantsNativeTarget(records[a].reg)]
    /\ taken' = [taken EXCEPT ![a].by = s]

Lease(a) == [auth |-> a, reg |-> records[a].reg, issued |-> wall, expires |-> records[a].expires]

\* validate_lease of the broker, and of the verifier in front of it.
LeaseLive(l) ==
    /\ CrossAdmits(l.auth)
    /\ l.auth \in DOMAIN records /\ IsActive(l.auth)

LocallyValid(l) == ValidLease(l.reg, l.issued, l.expires, wall, ordinary)

\* validate_active_task_authorization: its answer ...
Validated(l) == l = None \/ (LocallyValid(l) /\ LeaseLive(l))

\* ... and what asking leaves behind in the clock and in the fence.
Asked(l) ==
    LET reached == l # None /\ LocallyValid(l) IN
    /\ IF reached /\ via = "cross" THEN Observe(wall) ELSE UNCHANGED <<lastSeen, clockFailed>>
    /\ fenced' = IF reached /\ CrossAdmits(l.auth) /\ l.auth \in DOMAIN records
                 THEN FencedBy(l.auth) ELSE fenced

-----------------------------------------------------------------------------
(* Opening a session. *)

Untouched == UNCHANGED <<world, ids, challenges, pending, receipts, prov>>

\* issue_task_authorization: a binding the Host then refuses stays spent.
Issue(s, g, next) ==
    LET a == g.auth IN
    /\ IF via = "cross" THEN Observe(wall) ELSE UNCHANGED <<lastSeen, clockFailed>>
    /\ fenced' = IF CrossAdmits(a) /\ a \in DOMAIN records THEN FencedBy(a) ELSE fenced
    /\ IF Authorizes(a, s, g.owned)
       THEN /\ Bind(a, s)
            /\ ses' = IF ValidLease(records[a].reg, wall, records[a].expires, wall, ordinary)
                         /\ GrantMatchesLease(g, records[a].reg)
                      THEN [ses EXCEPT ![s] = [next EXCEPT !.lease = Lease(a)]]
                      ELSE [ses EXCEPT ![s] = Closed]
       ELSE ses' = [ses EXCEPT ![s] = Closed] /\ UNCHANGED <<records, taken>>

\* open_session up to the start of the core session (preauthorize_task_session).
Open(s, g) ==
    LET starting == [Closed EXCEPT !.st = "starting", !.grant = g] IN
    /\ ses[s].st = "none" /\ ValidGrant(g)
    /\ g.auth # None => ~g.activate
    /\ IF g.auth = None \/ g.owned
       THEN /\ ses' = [ses EXCEPT ![s] = starting]
            /\ UNCHANGED <<lastSeen, clockFailed, records, fenced, taken>>
       ELSE Issue(s, g, starting)
    /\ Untouched

\* recording_authorization: a cross-client lease has none, so capture is refused.
RecordingFence(l) == via = "broker" /\ l.auth \in DOMAIN records /\ IsActive(l.auth)

CapturePrepared(g, l) == (g.recording \/ g.live) /\ l # None => RecordingFence(l)

\* An owned browser is authorized only now that its window is known.
StartOwned(s) ==
    /\ ses[s].st = "starting" /\ ses[s].grant.owned /\ ses[s].lease = None
    /\ Issue(s, ses[s].grant, ses[s])
    /\ Untouched

Opened(s) ==
    LET g == ses[s].grant
        l == ses[s].lease
    IN /\ ses[s].st = "starting" /\ (g.owned => l # None)
       /\ ses' = [ses EXCEPT ![s] = IF CapturePrepared(g, l) THEN [@ EXCEPT !.st = "open"] ELSE Closed]
       /\ fenced' = IF (g.recording \/ g.live) /\ l # None /\ via = "broker" /\ l.auth \in DOMAIN records
                    THEN FencedBy(l.auth) ELSE fenced
       /\ UNCHANGED <<world, verifier, records, taken>>

\* The core session does not start, or shows another target.
StartFails(s) ==
    /\ ses[s].st = "starting"
    /\ ses' = [ses EXCEPT ![s] = Closed]
    /\ UNCHANGED <<world, verifier, records, fenced, taken>>

-----------------------------------------------------------------------------
(* Requests of an open session. *)

Answer(s) == ses' = [ses EXCEPT ![s].req = "idle", ![s].act = None,
                                ![s].agreed = FALSE, ![s].ended = FALSE]

Leased(s) == ses[s].lease # None

\* enforce_task_authorized_method for execute_action.
MethodAllowed(s, x) ==
    /\ Leased(s) => "execute_action" \in ses[s].lease.reg.methods
    /\ PermitsMethod(ses[s].grant.mode, "execute_action")
    /\ ses[s].grant.mode = "pixels" =>
         Leased(s) /\ PixelsInputGranted(x, ses[s].grant.raw, ses[s].lease.reg)

\* execute_action up to the decision whether anyone has to be asked.
Submit(s, x) ==
    /\ ses[s].st = "open" /\ ses[s].req = "idle"
    /\ MethodAllowed(s, x)
    /\ Asked(ses[s].lease)
    /\ IF Validated(ses[s].lease) /\ ~ses[s].interrupted
          /\ (x.kind = "raw_input" => ses[s].grant.raw)
          /\ ValidSecretSource(x) /\ SafetyTier(x) # "hard_deny"
       THEN ses' = [ses EXCEPT ![s].act = x,
                       ![s].req = IF RequiresConfirmation(x) \/ Leased(s) THEN "asking" ELSE "queued"]
       ELSE UNCHANGED ses
    /\ Untouched /\ UNCHANGED <<records, taken>>

\* authorize_task_scoped_action: a leased session is never asked anything else.
TaskScopedAllows(s) ==
    LET l == ses[s].lease IN
    /\ wall <= l.expires
    /\ FromConfirmation(ses[s].act) \in l.reg.actions
    /\ LeaseLive(l)

KeyboardGranted(s) == UsesPhysicalKeyboard(ses[s].act) => ses[s].grant.raw

\* The lease answers, or the user does; then the secret is taken out of the vault.
Authorize(s, user) ==
    LET l == ses[s].lease
        asks == Leased(s) /\ wall <= l.expires /\ FromConfirmation(ses[s].act) \in l.reg.actions
        yes == IF Leased(s) THEN TaskScopedAllows(s) ELSE ses[s].grant.confirm /\ user
    IN /\ ses[s].req = "asking"
       /\ IF asks /\ via = "cross" THEN Observe(wall) ELSE UNCHANGED <<lastSeen, clockFailed>>
       /\ fenced' = IF asks /\ CrossAdmits(l.auth) /\ l.auth \in DOMAIN records
                    THEN FencedBy(l.auth) ELSE fenced
       /\ IF yes /\ KeyboardGranted(s)
          THEN ses' = [ses EXCEPT ![s].req = "queued", ![s].agreed = TRUE]
          ELSE Answer(s)
       /\ Untouched /\ UNCHANGED <<records, taken>>

\* acquire_raw_input_turn; ended remembers whether the authority is gone by now
\* (a pruned record has expired).
Ended(a) == \/ a \in fenced
            \/ a \notin DOMAIN records \/ records[a].revoked \/ mono >= records[a].deadline
            \/ via = "cross" /\ (key = "revoked" \/ (a \in DOMAIN prov /\ prov[a].born # born))

Turn(s) ==
    /\ ses[s].req = "queued"
    /\ ses' = [ses EXCEPT ![s].req = "turn",
                          ![s].ended = Leased(s) /\ Ended(ses[s].lease.auth)]
    /\ UNCHANGED <<world, verifier, records, fenced, taken>>

\* revalidate_queued_action
Revalidates(s) == ses[s].grant.mode = "pixels" \/ Leased(s)

Revalidate(s) ==
    /\ ses[s].req = "turn"
    /\ IF Revalidates(s) THEN Asked(ses[s].lease) ELSE UNCHANGED <<lastSeen, clockFailed, fenced>>
    /\ IF Revalidates(s) /\ (ses[s].interrupted \/ ~Validated(ses[s].lease))
       THEN Answer(s) ELSE ses' = [ses EXCEPT ![s].req = "go"]
    /\ Untouched /\ UNCHANGED <<records, taken>>

Dispatch(s) ==
    /\ ses[s].req = "go" /\ Answer(s)
    /\ UNCHANGED <<world, verifier, records, fenced, taken>>

\* Mutant: the poll trusts the lease and does not ask the broker.
StatePollLocal(s) ==
    /\ ses[s].st = "open" /\ ses[s].req = "idle"
    /\ ses' = IF ses[s].lease = None \/ LocallyValid(ses[s].lease)
              THEN ses ELSE [ses EXCEPT ![s].interrupted = TRUE]
    /\ UNCHANGED <<world, verifier, records, fenced, taken>>

\* refresh_connection_session_states: the connection is idle when it runs.
StatePoll(s) ==
    /\ ses[s].st = "open" /\ ses[s].req = "idle"
    /\ Asked(ses[s].lease)
    /\ ses' = IF Validated(ses[s].lease) THEN ses ELSE [ses EXCEPT ![s].interrupted = TRUE]
    /\ Untouched /\ UNCHANGED <<records, taken>>

Stop(s) ==
    /\ ses[s].st = "open" /\ ses[s].req = "idle"
    /\ ses' = [ses EXCEPT ![s] = Closed]
    /\ UNCHANGED <<world, verifier, records, fenced, taken>>

-----------------------------------------------------------------------------
Next ==
    \/ Tick \/ SetClockBack \/ RevokeKey \/ ReplaceProcess
    \/ \E d \in Directories : ReplaceDirectory(d)
    \/ \E r \in Proposals, e \in Expiries : Register(r, e) \/ PrepareRead(r, e)
    \/ \E a \in Ids : Revoke(a)
    \/ PrepareLocked
    \/ \E c \in Ids, allow \in BOOLEAN, e \in Expiries : Decide(c, allow, e)
    \/ \E d \in receipts : Consume(d)
    \/ \E s \in Sessions :
          \/ \E g \in Grants[s] : Open(s, g)
          \/ StartOwned(s) \/ Opened(s) \/ StartFails(s)
          \/ \E x \in Actions : Submit(s, x)
          \/ \E user \in BOOLEAN : Authorize(s, user)
          \/ Turn(s) \/ Revalidate(s) \/ Dispatch(s)
          \/ StatePoll(s) \/ Stop(s)

\* A connection polls its sessions every 250 ms while it is idle, and runs a
\* request it has begun to its end.
Fairness ==
    \A s \in Sessions :
        /\ WF_vars(StatePoll(s))
        /\ WF_vars(\E user \in BOOLEAN : Authorize(s, user))
        /\ WF_vars(Turn(s)) /\ WF_vars(Revalidate(s)) /\ WF_vars(Dispatch(s))

Spec == Init /\ [][Next]_vars /\ Fairness
-----------------------------------------------------------------------------
(* Properties. *)

\* No input goes out under an authority that was already over when the request
\* got its turn of the raw-input queue: revoked, past its monotonic deadline
\* (whatever was done to the wall clock), its key revoked or its process
\* replaced.  revalidate_queued_action is the last look.
NoDispatchAfterEnd == \A s \in Sessions : ses[s].req = "go" => ~ses[s].ended

\* Nothing is sent without consent: under a lease the exact scope of the action
\* is one the user registered; without one, secrets and everything above the
\* task grant's tier were confirmed.
Consented ==
    \A s \in Sessions : ses[s].req \in {"queued", "turn", "go"} =>
        IF Leased(s) THEN FromConfirmation(ses[s].act) \in ses[s].lease.reg.actions
        ELSE (ses[s].act.secret \/ BaseTier(ses[s].act) # "task_grant") => ses[s].agreed

\* Authority behind every dispatch: it is in force and covers the very action.
DispatchAllowed == NoDispatchAfterEnd /\ Consented

\* The broker checks a registration by its own rules and the Host checks every
\* lease by a copy of them, reading the clock and the file system anew.  The two
\* agree on every authorization that is in force, so that no binding is spent
\* on a refusal, but for what changed in between: the wall clock was set back,
\* or the journal's directory is no longer the one that was registered.
IssuedLeaseAccepted ==
    \A a \in DOMAIN records :
        IsActive(a) /\ ~ValidLease(records[a].reg, wall, records[a].expires, wall, ordinary) =>
            rolled \/ records[a].reg.preparation \notin ordinary \union {None}

Ledger == INSTANCE TaskLedger WITH
    Authorizations <- Ids, Decisions <- Ids, Holders <- Sessions, Nobody <- None,
    given <- [a \in Ids |-> taken[a].from],
    holder <- [a \in Ids |-> taken[a].by],
    over <- {a \in Ids : taken[a].from # None /\ Ended(a)}

\* Broker and verifier implement the ledger: replayed receipts, pruned records,
\* failed opens and both clocks included, a decision is used once, by one
\* session, and never after its end.
ImplementsLedger == Ledger!LSpec

\* A session whose authority has ended is stopped by the poll of its connection.
EndedSessionStops ==
    \A s \in Sessions :
        (ses[s].st = "open" /\ Leased(s) /\ Ended(ses[s].lease.auth))
            ~> (ses[s].st # "open" \/ ses[s].interrupted)

=============================================================================
