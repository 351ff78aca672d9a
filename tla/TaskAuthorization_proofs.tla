---------------------- MODULE TaskAuthorization_proofs ----------------------
(***************************************************************************)
(* For every number of sessions, registrations, challenges and times, and  *)
(* a wall clock that was set back: no dispatch under an authority that was *)
(* over at its turn, none without consent, and broker and verifier         *)
(* implement the ledger.                                                   *)
(***************************************************************************)
EXTENDS TaskAuthorization, TLAPS

(***************************************************************************)
(* The inductive invariant of broker and verifier.                         *)
(***************************************************************************)
Record == [reg : Proposals, expires : Nat, deadline : Nat,
           binding : Sessions \cup {None}, revoked : BOOLEAN, native : BOOLEAN]
Challenge == [reg : Proposals, expires : Nat, issued : Nat, deadline : Nat,
              born : {0, 1}, consumed : BOOLEAN]
Pending == [reg : Proposals, expires : Nat, now : Nat, born : {0, 1}]
Receipt == [challenge : Ids, allow : BOOLEAN, issued : Nat, expires : Nat]
Provenance == [born : {0, 1}, expires : Nat]
Entry == [by : Sessions \cup {None}, from : Ids \cup {None}]

WorldType ==
    /\ via \in {"broker", "cross"}
    /\ wall \in Nat /\ mono \in Nat /\ rolled \in BOOLEAN
    /\ key \in {"active", "revoked"} /\ born \in {0, 1}

\* Authorizations and challenges are numbered: what is stored, fenced or signed
\* has a number that was given out.
StoreType ==
    /\ ids \in [auth : 0 .. MaxId, challenge : 0 .. MaxChallenge]
    /\ challenges \in [DOMAIN challenges -> Challenge]
    /\ DOMAIN challenges \subseteq 1 .. ids.challenge
    /\ pending # None => pending \in Pending /\ ids.challenge < MaxChallenge
    /\ receipts \subseteq Receipt
    /\ prov \in [DOMAIN prov -> Provenance]
    /\ DOMAIN prov \subseteq 1 .. ids.auth
    /\ records \in [DOMAIN records -> Record]
    /\ DOMAIN records \subseteq 1 .. ids.auth
    /\ fenced \subseteq 1 .. ids.auth
    /\ taken \in [Ids -> Entry]

\* It was valid by some clock and some directories.
WasValid(a) ==
    \E now \in Nat : \E dirs :
        ValidRegistration(records[a].reg, records[a].expires, now, dirs)

\* A record the broker keeps was valid when it was registered, by the clock and
\* the directories of that time; its monotonic deadline comes no later than its
\* wall clock expiry, however the wall clock was set.
RecordFit(a) ==
    /\ WasValid(a)
    /\ ~rolled => records[a].expires <= wall + MaxTtl
    /\ records[a].deadline + wall <= records[a].expires + mono

\* The verifier's note of a registration ends with it and is about a process
\* that was there.
ProvenanceFit(a) ==
    /\ a \in DOMAIN records => prov[a].expires = records[a].expires
    /\ prov[a].born <= born

\* The history of an authorization is what its record says, as long as there is one.
LedgerFit ==
    /\ \A a \in Ids : a > ids.auth => taken[a].from = None /\ taken[a].by = None
    /\ \A a \in DOMAIN records : taken[a].from # None /\ taken[a].by = records[a].binding

\* One authorization per decision: the registration itself, or a challenge that
\* has not been consumed.
DecisionsFit ==
    /\ via = "broker" => /\ \A a \in Ids : taken[a].from \in {None, a}
                         /\ DOMAIN challenges = {} /\ pending = None
    /\ via = "cross" =>
          /\ \A a \in Ids : taken[a].from # None => taken[a].from <= ids.challenge
          /\ \A a \in Ids, c \in DOMAIN challenges :
                taken[a].from = c => challenges[c].consumed
          /\ \A a, b \in Ids : taken[a].from = taken[b].from /\ taken[a].from # None => a = b

BrokerInv ==
    /\ WorldType /\ StoreType
    /\ \A a \in DOMAIN records : RecordFit(a)
    /\ \A a \in DOMAIN prov : ProvenanceFit(a)
    /\ LedgerFit /\ DecisionsFit

(***************************************************************************)
(* The inductive invariant of the sessions.                                *)
(***************************************************************************)
SessionLease == [auth : Ids, reg : Proposals, issued : Nat, expires : Nat]
AnyGrant == UNION {Grants[s] : s \in Sessions}
SessionState ==
    [st : {"none", "starting", "open"}, grant : AnyGrant \cup {None},
     lease : SessionLease \cup {None}, interrupted : BOOLEAN,
     req : {"idle", "asking", "queued", "turn", "go"}, act : Actions \cup {None},
     agreed : BOOLEAN, ended : BOOLEAN]

\* What a request still has to answer for.
RequestFit(x) ==
    /\ x.req # "idle" => x.st = "open" /\ x.act \in Actions
    /\ x.req \in {"queued", "turn", "go"} =>
          IF x.lease # None THEN FromConfirmation(x.act) \in x.lease.reg.actions
          ELSE (x.act.secret \/ BaseTier(x.act) # "task_grant") => x.agreed
    /\ x.req = "asking" /\ x.lease = None => RequiresConfirmation(x.act)
    /\ x.req = "go" => ~x.ended

SessionFit(s) ==
    /\ RequestFit(ses[s])
    /\ ses[s].lease # None => ses[s].lease.auth <= ids.auth
    /\ ses[s].ended /\ ses[s].req = "turn" => ses[s].lease # None /\ Ended(ses[s].lease.auth)

SessionInv == ses \in [Sessions -> SessionState] /\ \A s \in Sessions : SessionFit(s)

Inv == BrokerInv /\ SessionInv

(***************************************************************************)
(* Helpers.                                                                *)
(***************************************************************************)
\* Add and Only, the two ways the stores change.
LEMMA AddIs ==
    ASSUME NEW f, NEW x, NEW v
    PROVE  /\ DOMAIN Add(f, x, v) = DOMAIN f \cup {x}
           /\ Add(f, x, v)[x] = v
           /\ \A y \in DOMAIN f : y # x => Add(f, x, v)[y] = f[y]
BY DEF Add

\* What a retain keeps is what it was.
LEMMA OnlyIs ==
    ASSUME NEW f, NEW S
    PROVE  /\ DOMAIN Only(f, S) = DOMAIN f \cap S
           /\ \A y \in DOMAIN f \cap S : Only(f, S)[y] = f[y]
BY DEF Only

\* What a retain leaves has the type it had.
LEMMA OnlyType ==
    ASSUME NEW T, NEW f, f \in [DOMAIN f -> T], NEW S
    PROVE  Only(f, S) \in [DOMAIN Only(f, S) -> T]
BY DEF Only

\* An insert of a value of the type.
LEMMA AddType ==
    ASSUME NEW T, NEW f, f \in [DOMAIN f -> T], NEW x, NEW v \in T
    PROVE  Add(f, x, v) \in [DOMAIN Add(f, x, v) -> T]
BY DEF Add

\* A record keeps its rules for as long as the clocks only move on.
LEMMA RecordTypes ==
    ASSUME BrokerInv, NEW a \in DOMAIN records
    PROVE  /\ a \in 1 .. ids.auth /\ a \in Ids /\ records[a] \in Record
           /\ records[a].expires \in Nat /\ records[a].deadline \in Nat
           /\ records[a].revoked \in BOOLEAN
BY Bounds DEF BrokerInv, StoreType, Record, Ids

\* A step ages the authority: nothing that ended one comes undone.
Ages ==
    /\ via' = via /\ mono' >= mono /\ born' >= born
    /\ key = "revoked" => key' = "revoked"
    /\ fenced \subseteq fenced' /\ ids'.auth >= ids.auth
    /\ \A a \in 1 .. ids.auth :
          /\ a \in DOMAIN records' =>
                /\ a \in DOMAIN records
                /\ records'[a].deadline = records[a].deadline
                /\ records[a].revoked => records'[a].revoked
          /\ a \in DOMAIN prov /\ a \in DOMAIN records' =>
                a \in DOMAIN prov' /\ prov'[a].born = prov[a].born

\* The end of an authorization is for good.
LEMMA EndedStays ==
    ASSUME BrokerInv, BrokerInv', Ages, NEW a \in 1 .. ids.auth, Ended(a)
    PROVE  Ended(a)'
<1>1. CASE a \notin DOMAIN records'
  BY <1>1 DEF Ended
<1>2. CASE a \in DOMAIN records' /\ a \in fenced
  BY <1>2 DEF Ended, Ages
<1>3. CASE a \in DOMAIN records' /\ (records[a].revoked \/ mono >= records[a].deadline)
  <2>1. a \in DOMAIN records /\ records'[a].deadline = records[a].deadline
        /\ (records[a].revoked => records'[a].revoked) /\ mono' >= mono
    BY <1>3 DEF Ages
  <2>2. mono \in Nat /\ mono' \in Nat /\ records[a].deadline \in Nat
    BY <2>1, RecordTypes DEF BrokerInv, WorldType
  <2> QED
    BY <1>3, <2>1, <2>2 DEF Ended
<1>4. CASE via = "cross" /\ key = "revoked"
  BY <1>4 DEF Ended, Ages
<1>5. CASE a \in DOMAIN records' /\ via = "cross" /\ a \in DOMAIN prov /\ prov[a].born # born
  <2>1. a \in DOMAIN prov' /\ prov'[a].born = prov[a].born /\ via' = via /\ born' >= born
    BY <1>5 DEF Ages
  <2>2. born \in {0, 1} /\ born' \in {0, 1} /\ prov[a].born \in {0, 1} /\ prov[a].born <= born
    BY <1>5 DEF BrokerInv, WorldType, StoreType, Provenance, ProvenanceFit
  <2>3. prov'[a].born # born'
    BY <1>5, <2>1, <2>2
  <2> QED
    BY <1>5, <2>1, <2>3 DEF Ended
<1> QED
  BY <1>1, <1>2, <1>3, <1>4, <1>5 DEF Ended, Ages

(***************************************************************************)
(* Broker and verifier: the environment.                                   *)
(***************************************************************************)
\* Only the fence moves, within the numbers given out.
LEMMA FencesOnly ==
    ASSUME BrokerInv, UNCHANGED <<world, ids, challenges, pending, receipts, prov, records, taken>>,
           fenced \subseteq fenced', fenced' \subseteq 1 .. ids.auth
    PROVE  BrokerInv' /\ Ages
<1>1. BrokerInv'
  BY DEF BrokerInv, WorldType, StoreType, RecordFit, WasValid, ProvenanceFit, LedgerFit, DecisionsFit,
         world
<1>2. mono \in Nat /\ born \in {0, 1} /\ ids.auth \in Nat
  BY Bounds DEF BrokerInv, WorldType, StoreType
<1>3. Ages
  BY <1>2 DEF Ages, world
<1> QED
  BY <1>1, <1>3

\* Asking a fence can only close it.
LEMMA FencedByIs ==
    ASSUME BrokerInv, NEW a \in DOMAIN records
    PROVE  fenced \subseteq FencedBy(a) /\ FencedBy(a) \subseteq 1 .. ids.auth
BY RecordTypes DEF BrokerInv, StoreType, FencedBy

\* The clocks go on together.
LEMMA TickStep ==
    ASSUME BrokerInv, Tick PROVE BrokerInv' /\ Ages
<1>1. /\ wall \in Nat /\ mono \in Nat /\ wall' = wall + 1 /\ mono' = mono + 1
      /\ UNCHANGED <<via, rolled, key, born, verifier, records, fenced, taken>>
      /\ born \in {0, 1} /\ ids.auth \in Nat
  BY Bounds DEF Tick, BrokerInv, WorldType, StoreType
<1>2. ASSUME NEW a \in DOMAIN records PROVE RecordFit(a)'
  <2>1. /\ WasValid(a)
        /\ ~rolled => records[a].expires <= wall + MaxTtl
        /\ records[a].deadline + wall <= records[a].expires + mono
    BY DEF BrokerInv, RecordFit
  <2>2. records[a].expires \in Nat /\ records[a].deadline \in Nat /\ MaxTtl \in Nat
    BY RecordTypes, Bounds
  <2>3. ~rolled => records[a].expires <= wall' + MaxTtl
    BY <1>1, <2>1, <2>2
  <2>4. records[a].deadline + wall' <= records[a].expires + mono'
    BY <1>1, <2>1, <2>2
  <2> QED
    BY <1>1, <2>1, <2>3, <2>4 DEF RecordFit, WasValid
<1>3. WorldType'
  BY <1>1 DEF BrokerInv, WorldType
<1>4. StoreType' /\ LedgerFit' /\ DecisionsFit' /\ \A a \in DOMAIN prov : ProvenanceFit(a)'
  BY <1>1 DEF BrokerInv, StoreType, LedgerFit, DecisionsFit, ProvenanceFit, verifier
<1>5. BrokerInv'
  BY <1>1, <1>2, <1>3, <1>4 DEF BrokerInv, verifier
<1>6. Ages
  BY <1>1 DEF Ages, verifier
<1> QED
  BY <1>5, <1>6

\* Setting the wall clock back leaves the monotonic deadlines behind it.
LEMMA SetClockBackStep ==
    ASSUME BrokerInv, SetClockBack PROVE BrokerInv' /\ Ages
<1>1. /\ wall \in Nat /\ mono \in Nat /\ wall > 0 /\ wall' = wall - 1 /\ rolled' = TRUE
      /\ UNCHANGED <<via, mono, key, born, verifier, records, fenced, taken>>
      /\ born \in {0, 1} /\ ids.auth \in Nat
  BY Bounds DEF SetClockBack, BrokerInv, WorldType, StoreType
<1>2. ASSUME NEW a \in DOMAIN records PROVE RecordFit(a)'
  <2>1. /\ WasValid(a)
        /\ records[a].deadline + wall <= records[a].expires + mono
    BY DEF BrokerInv, RecordFit
  <2>2. records[a].expires \in Nat /\ records[a].deadline \in Nat
    BY RecordTypes
  <2>3. records[a].deadline + wall' <= records[a].expires + mono'
    BY <1>1, <2>1, <2>2
  <2> QED
    BY <1>1, <2>1, <2>3 DEF RecordFit, WasValid
<1>3. WorldType'
  BY <1>1 DEF BrokerInv, WorldType
<1>4. StoreType' /\ LedgerFit' /\ DecisionsFit' /\ \A a \in DOMAIN prov : ProvenanceFit(a)'
  BY <1>1 DEF BrokerInv, StoreType, LedgerFit, DecisionsFit, ProvenanceFit, verifier
<1>5. BrokerInv'
  BY <1>1, <1>2, <1>3, <1>4 DEF BrokerInv, verifier
<1>6. Ages
  BY <1>1 DEF Ages, verifier
<1> QED
  BY <1>5, <1>6

\* The key is revoked, the process behind the window or a directory replaced.
LEMMA WorldStep ==
    ASSUME BrokerInv,
           RevokeKey \/ ReplaceProcess \/ \E d \in Directories : ReplaceDirectory(d)
    PROVE  BrokerInv' /\ Ages
<1>1. /\ UNCHANGED <<via, wall, mono, rolled, verifier, records, fenced, taken>>
      /\ key' \in {"active", "revoked"} /\ (key = "revoked" => key' = "revoked")
      /\ born \in {0, 1} /\ born' \in {0, 1} /\ born <= born'
      /\ mono \in Nat /\ ids.auth \in Nat
  BY Bounds DEF RevokeKey, ReplaceProcess, ReplaceDirectory, BrokerInv, WorldType, StoreType
<1>2. ASSUME NEW a \in DOMAIN prov PROVE ProvenanceFit(a)'
  <2>1. ProvenanceFit(a) /\ prov[a].born \in {0, 1}
    BY DEF BrokerInv, StoreType, Provenance
  <2>2. prov[a].born <= born'
    BY <1>1, <2>1 DEF ProvenanceFit
  <2> QED
    BY <1>1, <2>1, <2>2 DEF ProvenanceFit, verifier
<1>3. WorldType' /\ StoreType' /\ LedgerFit' /\ DecisionsFit'
  BY <1>1 DEF BrokerInv, WorldType, StoreType, LedgerFit, DecisionsFit, verifier
<1>4. \A a \in DOMAIN records : RecordFit(a)'
  BY <1>1 DEF BrokerInv, RecordFit, WasValid
<1>5. BrokerInv'
  BY <1>1, <1>2, <1>3, <1>4 DEF BrokerInv, verifier
<1>6. Ages
  BY <1>1 DEF Ages, verifier
<1> QED
  BY <1>5, <1>6

(***************************************************************************)
(* Broker and verifier: registrations.                                     *)
(***************************************************************************)
\* What a registration that is accepted does to the store.
LEMMA AcceptedIs ==
    ASSUME BrokerInv, NEW r \in Proposals, NEW e \in Nat, NEW from \in Ids,
           Registered(r, e, from), Registers(r, e)
    PROVE  LET a == ids.auth + 1
           IN  /\ a \in Ids /\ a \notin DOMAIN records
               /\ ids' \in [auth : 0 .. MaxId, challenge : 0 .. MaxChallenge]
               /\ ids'.auth = a /\ ids'.challenge = ids.challenge
               /\ DOMAIN records' = Unexpired \cup {a}
               /\ records' \in [DOMAIN records' -> Record]
               /\ \A b \in Unexpired : records'[b] = records[b]
               /\ records'[a].reg = r /\ records'[a].expires = e
               /\ records'[a].deadline = mono + (e - wall)
               /\ records'[a].binding = None /\ ~records'[a].revoked
               /\ taken' \in [Ids -> Entry]
               /\ taken'[a].from = from /\ taken'[a].by = taken[a].by
               /\ \A b \in Ids : b # a => taken'[b] = taken[b]
<1> DEFINE a == ids.auth + 1
           fresh == [reg |-> r, expires |-> e, deadline |-> mono + (e - wall),
                     binding |-> None, revoked |-> FALSE, native |-> FALSE]
           pruned == Only(records, Unexpired)
<1>1. /\ ids' = [ids EXCEPT !.auth = a]
      /\ records' = Add(pruned, a, fresh)
      /\ taken' = [taken EXCEPT ![a].from = from]
  BY DEF Registered
<1>2. /\ ids \in [auth : 0 .. MaxId, challenge : 0 .. MaxChallenge]
      /\ records \in [DOMAIN records -> Record] /\ DOMAIN records \subseteq 1 .. ids.auth
      /\ taken \in [Ids -> Entry] /\ wall \in Nat /\ mono \in Nat
  BY DEF BrokerInv, StoreType, WorldType
<1>3. ids.auth < MaxId /\ e > wall
  BY DEF Registers, ValidRegistration
<1>4. a \in Ids /\ a \notin DOMAIN records /\ a \in 0 .. MaxId
  BY <1>2, <1>3, Bounds DEF Ids
<1>5. fresh \in Record
  BY <1>2, <1>3 DEF Record
<1>6. /\ ids' \in [auth : 0 .. MaxId, challenge : 0 .. MaxChallenge]
      /\ ids'.auth = a /\ ids'.challenge = ids.challenge
  BY <1>1, <1>2, <1>4
<1>7. /\ taken' \in [Ids -> Entry] /\ taken'[a].from = from /\ taken'[a].by = taken[a].by
      /\ \A b \in Ids : b # a => taken'[b] = taken[b]
  BY <1>1, <1>2, <1>4 DEF Entry
<1>8. DOMAIN pruned = Unexpired /\ \A b \in Unexpired : pruned[b] = records[b]
  <2>1. DOMAIN records \cap Unexpired = Unexpired
    BY DEF Unexpired
  <2> QED
    BY <2>1, OnlyIs
<1>9. pruned \in [DOMAIN pruned -> Record]
  BY <1>2, OnlyType
<1> HIDE DEF pruned, fresh, a
<1>10. records' \in [DOMAIN records' -> Record]
  BY <1>1, <1>5, <1>9, AddType
<1>11. a \notin Unexpired
  BY <1>4 DEF Unexpired
<1>12. /\ DOMAIN records' = Unexpired \cup {a} /\ records'[a] = fresh
       /\ \A b \in Unexpired : records'[b] = records[b]
  <2>1. DOMAIN records' = Unexpired \cup {a}
    BY <1>1, <1>8, AddIs
  <2>2. records'[a] = fresh
    BY <1>1 DEF Add
  <2>3. ASSUME NEW b \in Unexpired PROVE records'[b] = records[b]
    <3>1. b # a /\ b \in DOMAIN pruned /\ pruned[b] = records[b]
      BY <1>8, <1>11
    <3> QED
      BY <1>1, <3>1 DEF Add
  <2> QED
    BY <2>1, <2>2, <2>3
<1>13. /\ fresh.reg = r /\ fresh.expires = e /\ fresh.deadline = mono + (e - wall)
       /\ fresh.binding = None /\ ~fresh.revoked
  BY DEF fresh
<1> QED
  BY <1>4, <1>6, <1>7, <1>10, <1>12, <1>13 DEF a

\* A registration that is not accepted at most drops expired records.
LEMMA NotAcceptedIs ==
    ASSUME BrokerInv, NEW r, NEW e, NEW from, Registered(r, e, from), ~Registers(r, e)
    PROVE  /\ ids' = ids /\ taken' = taken
           /\ DOMAIN records' \subseteq DOMAIN records /\ Unexpired \subseteq DOMAIN records'
           /\ records' \in [DOMAIN records' -> Record]
           /\ \A b \in DOMAIN records' : records'[b] = records[b]
<1>1. ids' = ids /\ taken' = taken
  BY DEF Registered
<1>2. records \in [DOMAIN records -> Record] /\ Unexpired \subseteq DOMAIN records
  BY DEF BrokerInv, StoreType, Unexpired
<1>3. CASE records' = records
  BY <1>1, <1>2, <1>3
<1>4. CASE records' = Only(records, Unexpired)
  BY <1>1, <1>2, <1>4, OnlyIs, OnlyType
<1> QED
  BY <1>3, <1>4 DEF Registered

\* Records that stay, stay fit while the world does.
LEMMA KeptFit ==
    ASSUME BrokerInv, UNCHANGED world, NEW a \in DOMAIN records, records'[a] = records[a]
    PROVE  RecordFit(a)'
BY DEF BrokerInv, RecordFit, WasValid, world

\* Dropping expired records alone.
LEMMA PrunedOnly ==
    ASSUME BrokerInv, UNCHANGED <<world, ids, pending, receipts, prov, fenced, taken>>,
           DOMAIN records' \subseteq DOMAIN records,
           records' \in [DOMAIN records' -> Record],
           \A b \in DOMAIN records' : records'[b] = records[b],
           DOMAIN challenges' = DOMAIN challenges,
           challenges' \in [DOMAIN challenges' -> Challenge],
           \A c \in DOMAIN challenges : challenges[c].consumed => challenges'[c].consumed
    PROVE  BrokerInv' /\ Ages
<1>1. WorldType' /\ StoreType'
  BY DEF BrokerInv, WorldType, StoreType, world
<1>2. \A a \in DOMAIN records' : RecordFit(a)'
  BY KeptFit
<1>3. \A a \in DOMAIN prov' : ProvenanceFit(a)'
  BY DEF BrokerInv, ProvenanceFit, world
<1>4. LedgerFit' /\ DecisionsFit'
  BY DEF BrokerInv, LedgerFit, DecisionsFit, world
<1>5. mono \in Nat /\ born \in {0, 1} /\ ids.auth \in Nat
  BY Bounds DEF BrokerInv, WorldType, StoreType
<1>6. Ages
  BY <1>5 DEF Ages, world
<1> QED
  BY <1>1, <1>2, <1>3, <1>4, <1>6 DEF BrokerInv

\* The new record obeys the rules, and its deadline the clocks.
LEMMA FreshFit ==
    ASSUME BrokerInv, UNCHANGED world, NEW r \in Proposals, NEW e \in Nat, NEW from \in Ids,
           Registered(r, e, from), Registers(r, e), NEW a, a = ids.auth + 1
    PROVE  RecordFit(a)'
<1>1. wall \in Nat /\ mono \in Nat /\ MaxTtl \in Nat
  BY Bounds DEF BrokerInv, WorldType
<1>2. ValidRegistration(r, e, wall, ordinary) /\ e > wall /\ e - wall <= MaxTtl
  BY DEF Registers, ValidRegistration
<1>3. records'[a].reg = r /\ records'[a].expires = e /\ records'[a].deadline = mono + (e - wall)
  BY AcceptedIs
<1>4. e <= wall + MaxTtl /\ (mono + (e - wall)) + wall <= e + mono
  BY <1>1, <1>2
<1>5. /\ \E now \in Nat : \E dirs : ValidRegistration(records'[a].reg, records'[a].expires, now, dirs)
      /\ records'[a].expires <= wall' + MaxTtl
      /\ records'[a].deadline + wall' <= records'[a].expires + mono'
  BY <1>1, <1>2, <1>3, <1>4 DEF world
<1> QED
  BY <1>5 DEF RecordFit, WasValid

\* An accepted registration takes a number of its own, behind all numbers given
\* out; what the verifier notes of it goes with it.
LEMMA AcceptedStep ==
    ASSUME BrokerInv, NEW r \in Proposals, NEW e \in Nat, NEW from \in Ids,
           Registered(r, e, from), Registers(r, e), NEW a, a = ids.auth + 1,
           UNCHANGED <<world, pending, receipts, fenced>>,
           DOMAIN challenges' = DOMAIN challenges,
           challenges' \in [DOMAIN challenges' -> Challenge],
           prov' \in [DOMAIN prov' -> Provenance],
           DOMAIN prov' \subseteq DOMAIN prov \cup {a},
           \A b \in DOMAIN prov' : b # a => prov'[b] = prov[b],
           DOMAIN prov \cap Unexpired \subseteq DOMAIN prov',
           a \in DOMAIN prov' => prov'[a].expires = e /\ prov'[a].born <= born,
           DecisionsFit'
    PROVE  BrokerInv' /\ Ages
<1>1. /\ ids.auth \in Nat /\ ids.auth \in 0 .. MaxId /\ ids.auth < MaxId /\ a \in Ids
      /\ mono \in Nat /\ born \in {0, 1}
  BY Bounds DEF Registers, Ids, BrokerInv, StoreType, WorldType
<1>2. /\ a \notin DOMAIN records
      /\ ids' \in [auth : 0 .. MaxId, challenge : 0 .. MaxChallenge]
      /\ ids'.auth = a /\ ids'.challenge = ids.challenge
      /\ DOMAIN records' = Unexpired \cup {a}
      /\ records' \in [DOMAIN records' -> Record]
      /\ \A b \in Unexpired : records'[b] = records[b]
      /\ records'[a].expires = e
      /\ records'[a].binding = None /\ ~records'[a].revoked
      /\ taken' \in [Ids -> Entry]
      /\ taken'[a].from = from /\ taken'[a].by = taken[a].by
      /\ \A b \in Ids : b # a => taken'[b] = taken[b]
  BY AcceptedIs
<1>3. RecordFit(a)'
  BY FreshFit
<1>4. Unexpired \subseteq DOMAIN records
  BY DEF Unexpired
<1>5. a > ids.auth /\ a \in 1 .. a /\ \A b \in 1 .. ids.auth : b \in 1 .. a /\ b # a /\ b \in Ids
  BY <1>1, Bounds DEF Ids
<1>6. WorldType' /\ StoreType'
  <2>1. DOMAIN prov' \subseteq 1 .. a /\ DOMAIN records' \subseteq 1 .. a /\ fenced' \subseteq 1 .. a
    BY <1>2, <1>4, <1>5 DEF BrokerInv, StoreType
  <2> QED
    BY <1>1, <1>2, <2>1 DEF BrokerInv, WorldType, StoreType, world
<1>7. \A b \in DOMAIN records' : RecordFit(b)'
  <2> SUFFICES ASSUME NEW b \in DOMAIN records', b # a PROVE RecordFit(b)'
    BY <1>3
  <2>1. b \in DOMAIN records /\ records'[b] = records[b]
    BY <1>2, <1>4
  <2> QED
    BY <2>1, KeptFit
<1>8. \A b \in DOMAIN prov' : ProvenanceFit(b)'
  <2> SUFFICES ASSUME NEW b \in DOMAIN prov' PROVE ProvenanceFit(b)'
    OBVIOUS
  <2>1. CASE b = a
    BY <1>2, <2>1 DEF ProvenanceFit, world
  <2>2. CASE b # a
    <3>1. ProvenanceFit(b) /\ prov'[b] = prov[b]
      BY <2>2 DEF BrokerInv
    <3> QED
      BY <1>2, <1>4, <2>2, <3>1 DEF ProvenanceFit, world
  <2> QED
    BY <2>1, <2>2
<1>9. LedgerFit'
  <2>1. ASSUME NEW b \in Ids, b > ids'.auth PROVE taken'[b].from = None /\ taken'[b].by = None
    <3>1. b \in Nat /\ b # a /\ b > ids.auth
      BY <1>1, <1>2, <2>1 DEF Ids
    <3> QED
      BY <1>2, <3>1 DEF BrokerInv, LedgerFit
  <2>2. ASSUME NEW b \in DOMAIN records'
        PROVE  taken'[b].from # None /\ taken'[b].by = records'[b].binding
    <3>1. CASE b = a
      BY <1>1, <1>2, <1>5, <3>1, Inputs DEF BrokerInv, LedgerFit
    <3>2. CASE b # a
      <4>1. b \in DOMAIN records /\ b \in Ids /\ records'[b] = records[b] /\ taken'[b] = taken[b]
        BY <1>2, <1>4, <3>2, RecordTypes
      <4> QED
        BY <4>1 DEF BrokerInv, LedgerFit
    <3> QED
      BY <3>1, <3>2
  <2> QED
    BY <2>1, <2>2 DEF LedgerFit
<1>10. Ages
  <2>1. ids'.auth >= ids.auth
    BY <1>1, <1>2
  <2>2. ASSUME NEW b \in 1 .. ids.auth, b \in DOMAIN records'
        PROVE  b \in Unexpired /\ b \in DOMAIN records /\ records'[b] = records[b]
               /\ (b \in DOMAIN prov => b \in DOMAIN prov' /\ prov'[b] = prov[b])
    BY <1>2, <1>4, <1>5, <2>2
  <2> QED
    BY <1>1, <2>1, <2>2 DEF Ages, world
<1> QED
  BY <1>6, <1>7, <1>8, <1>9, <1>10 DEF BrokerInv

\* register: the decision behind an embedding's registration is its own number.
LEMMA RegisterStep ==
    ASSUME BrokerInv, NEW r \in Proposals, NEW e \in Nat, Register(r, e)
    PROVE  BrokerInv' /\ Ages
<1> PICK a : a = ids.auth + 1
  OBVIOUS
<1>1. /\ via = "broker" /\ Registered(r, e, a)
      /\ UNCHANGED <<world, challenges, pending, receipts, prov, fenced>>
  BY DEF Register
<1>2. challenges' \in [DOMAIN challenges' -> Challenge] /\ challenges' = challenges
      /\ prov' \in [DOMAIN prov' -> Provenance] /\ prov' = prov
  BY <1>1 DEF BrokerInv, StoreType
<1>3. CASE Registers(r, e)
  <2>1. a \in Ids /\ a \notin 1 .. ids.auth
    BY <1>3, Bounds DEF Registers, Ids, BrokerInv, StoreType
  <2>2. a \notin DOMAIN prov
    BY <2>1 DEF BrokerInv, StoreType
  <2>3. taken'[a].from = a /\ \A b \in Ids : b # a => taken'[b] = taken[b]
    BY <1>1, <1>3, <2>1, AcceptedIs
  <2>4. DecisionsFit'
    BY <1>1, <2>3 DEF BrokerInv, DecisionsFit, world
  <2> QED
    BY <1>1, <1>2, <1>3, <2>1, <2>2, <2>4, AcceptedStep
<1>4. CASE ~Registers(r, e)
  BY <1>1, <1>2, <1>4, NotAcceptedIs, PrunedOnly
<1> QED
  BY <1>3, <1>4

\* revoke closes the fence too.
LEMMA RevokeStep ==
    ASSUME BrokerInv, NEW a, Revoke(a) PROVE BrokerInv' /\ Ages
<1>1. /\ a \in DOMAIN records /\ records' = [records EXCEPT ![a].revoked = TRUE]
      /\ fenced' = fenced \cup {a} /\ UNCHANGED <<world, verifier, taken>>
  BY DEF Revoke
<1>2. a \in 1 .. ids.auth /\ records[a] \in Record /\ records \in [DOMAIN records -> Record]
  BY <1>1, RecordTypes DEF BrokerInv, StoreType
<1> DEFINE x == [records[a] EXCEPT !.revoked = TRUE]
<1>3. /\ x \in Record /\ x.revoked /\ x.deadline = records[a].deadline
      /\ x.expires = records[a].expires /\ x.reg = records[a].reg /\ x.binding = records[a].binding
  BY <1>2 DEF Record
<1>4. records' = [records EXCEPT ![a] = x]
  BY <1>1
<1> HIDE DEF x
<1>5. /\ DOMAIN records' = DOMAIN records /\ records' \in [DOMAIN records' -> Record]
      /\ records'[a] = x /\ \A b \in DOMAIN records : b # a => records'[b] = records[b]
  <2>1. a \in DOMAIN records /\ x \in Record
    BY <1>1, <1>3
  <2>2. DOMAIN records' = DOMAIN records
    BY <1>2, <1>4, <2>1
  <2>3. records' \in [DOMAIN records -> Record]
    BY <1>2, <1>4, <2>1
  <2>4. records'[a] = x /\ \A b \in DOMAIN records : b # a => records'[b] = records[b]
    BY <1>2, <1>4, <2>1
  <2> QED
    BY <2>2, <2>3, <2>4
<1>6. \A b \in DOMAIN records :
         /\ records'[b].deadline = records[b].deadline /\ records'[b].expires = records[b].expires
         /\ records'[b].reg = records[b].reg /\ records'[b].binding = records[b].binding
         /\ records[b].revoked => records'[b].revoked
  BY <1>3, <1>5
<1>7. WorldType' /\ StoreType'
  BY <1>1, <1>2, <1>5 DEF BrokerInv, WorldType, StoreType, world, verifier
<1>8. \A b \in DOMAIN records' : RecordFit(b)'
  BY <1>1, <1>5, <1>6 DEF BrokerInv, RecordFit, WasValid, world
<1>9. \A b \in DOMAIN prov' : ProvenanceFit(b)'
  BY <1>1, <1>5, <1>6 DEF BrokerInv, ProvenanceFit, world, verifier
<1>10. LedgerFit' /\ DecisionsFit'
  BY <1>1, <1>5, <1>6 DEF BrokerInv, LedgerFit, DecisionsFit, world, verifier
<1>11. Ages
  <2>1. mono \in Nat /\ born \in {0, 1} /\ ids.auth \in Nat
    BY Bounds DEF BrokerInv, WorldType, StoreType
  <2> QED
    BY <1>1, <1>5, <1>6, <2>1 DEF Ages, world, verifier
<1> QED
  BY <1>7, <1>8, <1>9, <1>10, <1>11 DEF BrokerInv

(***************************************************************************)
(* Broker and verifier: challenges and decisions.                          *)
(***************************************************************************)
\* The clocks, the records and the fence stay as they are.
LEMMA VerifierOnly ==
    ASSUME BrokerInv, UNCHANGED <<world, prov, records, fenced, taken>>,
           ids' \in [auth : 0 .. MaxId, challenge : 0 .. MaxChallenge],
           ids'.auth = ids.auth,
           challenges' \in [DOMAIN challenges' -> Challenge],
           DOMAIN challenges' \subseteq 1 .. ids'.challenge,
           pending' # None => pending' \in Pending /\ ids'.challenge < MaxChallenge,
           receipts' \subseteq Receipt,
           DecisionsFit'
    PROVE  BrokerInv' /\ Ages
<1>1. WorldType' /\ StoreType'
  BY DEF BrokerInv, WorldType, StoreType, world
<1>2. \A a \in DOMAIN records' : RecordFit(a)'
  BY KeptFit
<1>3. \A a \in DOMAIN prov' : ProvenanceFit(a)'
  BY DEF BrokerInv, ProvenanceFit, world
<1>4. LedgerFit'
  BY DEF BrokerInv, LedgerFit
<1>5. mono \in Nat /\ born \in {0, 1} /\ ids.auth \in Nat
  BY Bounds DEF BrokerInv, WorldType, StoreType
<1>6. Ages
  BY <1>5 DEF Ages, world
<1> QED
  BY <1>1, <1>2, <1>3, <1>4, <1>6 DEF BrokerInv

\* prepare before the lock: a reading of clock and target is kept.
LEMMA PrepareReadStep ==
    ASSUME BrokerInv, NEW r \in Proposals, NEW e \in Nat, PrepareRead(r, e)
    PROVE  BrokerInv' /\ Ages
<1> DEFINE p == [reg |-> r, expires |-> e, now |-> wall, born |-> born]
<1>1. /\ UNCHANGED <<world, ids, challenges, receipts, prov, records, fenced, taken>>
      /\ pending' = p /\ ids.challenge < MaxChallenge /\ via = "cross"
  BY DEF PrepareRead
<1>2. p \in Pending
  BY DEF BrokerInv, WorldType, Pending
<1> HIDE DEF p
<1>3. DecisionsFit'
  BY <1>1 DEF BrokerInv, DecisionsFit, world
<1> QED
  BY <1>1, <1>2, <1>3, VerifierOnly DEF BrokerInv, StoreType

\* prepare under the lock: expired challenges go, a new number comes.
LEMMA PrepareLockedStep ==
    ASSUME BrokerInv, PrepareLocked PROVE BrokerInv' /\ Ages
<1> DEFINE kept == {c \in DOMAIN challenges : challenges[c].deadline >= pending.now}
           p == pending
           n == ids.challenge + 1
           fresh == [reg |-> p.reg, expires |-> p.expires, issued |-> p.now,
                     deadline |-> IF p.expires < p.now + MaxPending
                                  THEN p.expires ELSE p.now + MaxPending,
                     born |-> p.born, consumed |-> FALSE]
           small == Only(challenges, kept)
<1>1. /\ UNCHANGED <<world, receipts, prov, records, fenced, taken>>
      /\ pending # None /\ pending' = None
  BY DEF PrepareLocked
<1>2. p \in Pending /\ ids.challenge < MaxChallenge /\ via = "cross"
  BY <1>1 DEF BrokerInv, StoreType, DecisionsFit, WorldType
<1>3. /\ ids \in [auth : 0 .. MaxId, challenge : 0 .. MaxChallenge]
      /\ challenges \in [DOMAIN challenges -> Challenge]
      /\ DOMAIN challenges \subseteq 1 .. ids.challenge
      /\ receipts \subseteq Receipt
  BY DEF BrokerInv, StoreType
<1>4. fresh \in Challenge /\ ~fresh.consumed
  BY <1>2, Bounds DEF Pending, Challenge
<1>5. /\ n \in 0 .. MaxChallenge /\ n \notin 1 .. ids.challenge
      /\ \A c \in 1 .. ids.challenge : c \in 1 .. n
      /\ n \in 1 .. n
      /\ \A c \in Ids : c <= ids.challenge => c <= n /\ c # n
  BY <1>2, <1>3, Bounds DEF Ids
<1>6. /\ small \in [DOMAIN small -> Challenge] /\ DOMAIN small \subseteq DOMAIN challenges
      /\ \A c \in DOMAIN small : small[c] = challenges[c]
  BY <1>3, OnlyIs, OnlyType, ZenonT(60)
<1>7. /\ \A a \in Ids : taken[a].from # None => taken[a].from <= ids.challenge /\ taken[a].from \in Ids
      /\ \A a \in Ids, c \in DOMAIN challenges : taken[a].from = c => challenges[c].consumed
      /\ \A a, b \in Ids : taken[a].from = taken[b].from /\ taken[a].from # None => a = b
  BY <1>2 DEF BrokerInv, DecisionsFit, StoreType, Entry
<1> HIDE DEF fresh, small
<1>8. CASE ids' = ids /\ (challenges' = challenges \/ challenges' = small)
  <2>1. challenges' \in [DOMAIN challenges' -> Challenge] /\ DOMAIN challenges' \subseteq DOMAIN challenges
        /\ \A c \in DOMAIN challenges' : challenges'[c] = challenges[c]
    BY <1>3, <1>6, <1>8
  <2>2. DecisionsFit'
    BY <1>1, <1>2, <1>7, <1>8, <2>1 DEF DecisionsFit, world
  <2> QED
    BY <1>1, <1>3, <1>8, <2>1, <2>2, VerifierOnly
<1>9. CASE ids' = [ids EXCEPT !.challenge = n] /\ challenges' = Add(small, n, fresh)
  <2>1. /\ ids' \in [auth : 0 .. MaxId, challenge : 0 .. MaxChallenge]
        /\ ids'.auth = ids.auth /\ ids'.challenge = n
    BY <1>3, <1>5, <1>9
  <2> HIDE DEF n
  <2>2. challenges' \in [DOMAIN challenges' -> Challenge] /\ DOMAIN challenges' = DOMAIN small \cup {n}
    <3>1. DOMAIN challenges' = DOMAIN small \cup {n}
      BY <1>9, AddIs
    <3>2. Add(small, n, fresh) \in [DOMAIN Add(small, n, fresh) -> Challenge]
      BY <1>4, <1>6, AddType
    <3> QED
      BY <1>9, <3>1, <3>2
  <2>3. ASSUME NEW c \in DOMAIN challenges', c # n
        PROVE  c \in DOMAIN challenges /\ challenges'[c] = challenges[c]
    <3>1. c \in DOMAIN small
      BY <2>2, <2>3
    <3> QED
      BY <1>6, <1>9, <2>3, <3>1 DEF Add
  <2>4. DecisionsFit'
    <3>1. \A a \in Ids : taken'[a].from # None => taken'[a].from <= ids'.challenge /\ taken'[a].from # n
      BY <1>1, <1>5, <1>7, <2>1
    <3>2. ASSUME NEW a \in Ids, NEW c \in DOMAIN challenges', taken'[a].from = c
          PROVE  challenges'[c].consumed
      <4>1. c # n
        <5>1. c # None
          <6>1. c \in Ids
            BY <1>3, <1>5, <1>6, <2>2, Bounds DEF Ids, n
          <6> QED
            BY <6>1, Inputs
        <5> QED
          BY <3>1, <3>2, <5>1
      <4> QED
        BY <1>1, <1>7, <2>3, <3>2, <4>1
    <3> QED
      BY <1>1, <1>2, <1>7, <3>1, <3>2 DEF DecisionsFit, world
  <2>5. DOMAIN challenges' \subseteq 1 .. ids'.challenge
    BY <1>3, <1>5, <1>6, <2>1, <2>2
  <2> QED
    BY <1>1, <1>3, <2>1, <2>2, <2>4, <2>5, VerifierOnly
<1> QED
  BY <1>8, <1>9 DEF PrepareLocked, small, fresh

\* A decision is signed.
LEMMA DecideStep ==
    ASSUME BrokerInv, NEW c \in Ids, NEW allow \in BOOLEAN, NEW e \in Nat, Decide(c, allow, e)
    PROVE  BrokerInv' /\ Ages
<1> DEFINE d == [challenge |-> c, allow |-> allow, issued |-> wall, expires |-> e]
<1>1. /\ UNCHANGED <<world, ids, challenges, pending, prov, records, fenced, taken>>
      /\ receipts' = receipts \cup {d}
  BY DEF Decide
<1>2. d \in Receipt
  BY DEF BrokerInv, WorldType, Receipt
<1> HIDE DEF d
<1>3. receipts' \subseteq Receipt
  BY <1>1, <1>2 DEF BrokerInv, StoreType
<1>4. DecisionsFit'
  BY <1>1 DEF BrokerInv, DecisionsFit, world
<1> QED
  BY <1>1, <1>3, <1>4, VerifierOnly DEF BrokerInv, StoreType

\* The decision marks its challenge as consumed.
LEMMA ConsumedIs ==
    ASSUME BrokerInv, NEW c \in DOMAIN challenges,
           challenges' = [challenges EXCEPT ![c].consumed = TRUE]
    PROVE  /\ DOMAIN challenges' = DOMAIN challenges
           /\ challenges' \in [DOMAIN challenges' -> Challenge]
           /\ challenges'[c].consumed
           /\ \A b \in DOMAIN challenges : challenges[b].consumed => challenges'[b].consumed
<1> DEFINE x == [challenges[c] EXCEPT !.consumed = TRUE]
<1>1. challenges \in [DOMAIN challenges -> Challenge] /\ challenges[c] \in Challenge
  BY DEF BrokerInv, StoreType
<1>2. x \in Challenge /\ x.consumed
  BY <1>1 DEF Challenge
<1>3. challenges' = [challenges EXCEPT ![c] = x]
  OBVIOUS
<1> HIDE DEF x
<1>4. /\ DOMAIN challenges' = DOMAIN challenges
      /\ challenges' \in [DOMAIN challenges -> Challenge]
      /\ challenges'[c] = x /\ \A b \in DOMAIN challenges : b # c => challenges'[b] = challenges[b]
  BY <1>1, <1>2, <1>3
<1> QED
  BY <1>2, <1>4

\* The verifier's note of the new registration, beside those not yet expired.
LEMMA NotedIs ==
    ASSUME BrokerInv, NEW a, NEW v \in Provenance, a \notin DOMAIN prov,
           NEW kept, kept = {b \in DOMAIN prov : prov[b].expires > wall},
           prov' = Add(Only(prov, kept), a, v)
    PROVE  /\ prov' \in [DOMAIN prov' -> Provenance]
           /\ DOMAIN prov' \subseteq DOMAIN prov \cup {a} /\ a \in DOMAIN prov'
           /\ prov'[a] = v
           /\ \A b \in DOMAIN prov' : b # a => prov'[b] = prov[b]
           /\ DOMAIN prov \cap Unexpired \subseteq DOMAIN prov'
<1> DEFINE small == Only(prov, kept)
<1>1. prov \in [DOMAIN prov -> Provenance]
  BY DEF BrokerInv, StoreType
<1>2. DOMAIN small = DOMAIN prov \cap kept /\ \A b \in DOMAIN small : small[b] = prov[b]
  BY OnlyIs
<1>3. small \in [DOMAIN small -> Provenance]
  BY <1>1, OnlyType
<1> HIDE DEF small
<1>4. DOMAIN prov' = DOMAIN small \cup {a}
  BY AddIs DEF small
<1>5. Add(small, a, v) \in [DOMAIN Add(small, a, v) -> Provenance]
  BY <1>3, AddType
<1>6. prov' = Add(small, a, v)
  BY DEF small
<1>7. prov'[a] = v
  BY <1>6 DEF Add
<1>8. ASSUME NEW b \in DOMAIN prov', b # a PROVE prov'[b] = prov[b]
  <2>1. b \in DOMAIN small
    BY <1>4, <1>8
  <2> QED
    BY <1>2, <1>6, <1>8, <2>1 DEF Add
<1>9. ASSUME NEW b \in DOMAIN prov, b \in Unexpired PROVE b \in DOMAIN prov'
  <2>1. prov[b].expires = records[b].expires /\ records[b].expires > wall
    BY <1>9 DEF BrokerInv, ProvenanceFit, Unexpired
  <2>2. b \in kept
    BY <2>1
  <2> QED
    BY <1>2, <1>4, <2>2
<1> QED
  BY <1>2, <1>4, <1>5, <1>6, <1>7, <1>8, <1>9

\* consume: a replayed receipt finds its challenge consumed or gone; the first
\* one gives at most one registration, under a number of its own.
LEMMA ConsumeStep ==
    ASSUME BrokerInv, NEW d \in receipts, Consume(d) PROVE BrokerInv' /\ Ages
<1> DEFINE c == challenges[d.challenge]
           registers == d.allow /\ c.reg.target # "bootstrap"
           kept == {a \in DOMAIN prov : prov[a].expires > wall}
           ok == ClockGood(wall) /\ Acceptable(d)
<1>1. via = "cross" /\ UNCHANGED <<world, pending, receipts, fenced>>
  BY DEF Consume
<1>2. CASE ~ok
  <2>1. UNCHANGED <<ids, challenges, prov, records, taken>>
    BY <1>2 DEF Consume
  <2>2. DecisionsFit'
    BY <1>1, <2>1 DEF BrokerInv, DecisionsFit, world
  <2> QED
    BY <1>1, <2>1, <2>2, VerifierOnly DEF BrokerInv, StoreType
<1>3. CASE ok
  <2>1. d.challenge \in DOMAIN challenges /\ ~c.consumed /\ (d.allow => c.born = born)
    BY <1>3 DEF Acceptable
  <2>2. d \in Receipt /\ d.challenge \in Ids /\ d.expires \in Nat
    BY DEF BrokerInv, StoreType, Receipt
  <2>3. c \in Challenge /\ c.reg \in Proposals /\ c.born \in {0, 1}
    BY <2>1 DEF BrokerInv, StoreType, Challenge
  <2>4. challenges' = [challenges EXCEPT ![d.challenge].consumed = TRUE]
    BY <1>3 DEF Consume
  <2>5. /\ DOMAIN challenges' = DOMAIN challenges
        /\ challenges' \in [DOMAIN challenges' -> Challenge]
        /\ challenges'[d.challenge].consumed
        /\ \A b \in DOMAIN challenges : challenges[b].consumed => challenges'[b].consumed
    BY <2>1, <2>4, ConsumedIs
  <2>6. CASE registers /\ Registers(c.reg, d.expires)
    <3> PICK a : a = ids.auth + 1
      OBVIOUS
    <3> DEFINE v == [born |-> c.born, expires |-> d.expires]
    <3>1. Registered(c.reg, d.expires, d.challenge)
      BY <1>3, <2>6 DEF Consume
    <3>2. prov' = Add(Only(prov, kept), a, v)
      BY <1>3, <2>6 DEF Consume
    <3>3. v \in Provenance /\ v.expires = d.expires /\ v.born = c.born
      BY <2>2, <2>3 DEF Provenance
    <3> HIDE DEF v
    <3>4. a \in Ids /\ a \notin 1 .. ids.auth
      BY <2>6, Bounds DEF Registers, Ids, BrokerInv, StoreType
    <3>5. a \notin DOMAIN prov
      BY <3>4 DEF BrokerInv, StoreType
    <3>6. /\ prov' \in [DOMAIN prov' -> Provenance]
          /\ DOMAIN prov' \subseteq DOMAIN prov \cup {a} /\ a \in DOMAIN prov'
          /\ prov'[a] = v
          /\ \A b \in DOMAIN prov' : b # a => prov'[b] = prov[b]
          /\ DOMAIN prov \cap Unexpired \subseteq DOMAIN prov'
      BY <3>2, <3>3, <3>5, NotedIs
    <3>7. /\ taken'[a].from = d.challenge /\ ids'.challenge = ids.challenge
          /\ \A b \in Ids : b # a => taken'[b] = taken[b]
      BY <2>2, <2>3, <2>6, <3>1, AcceptedIs
    <3>8. DecisionsFit'
      <4>1. /\ \A b \in Ids : taken[b].from # None => taken[b].from <= ids.challenge
            /\ \A b \in Ids, n \in DOMAIN challenges : taken[b].from = n => challenges[n].consumed
            /\ \A b, n \in Ids : taken[b].from = taken[n].from /\ taken[b].from # None => b = n
        BY <1>1 DEF BrokerInv, DecisionsFit
      <4>2. d.challenge <= ids.challenge
        BY <2>1, Bounds DEF BrokerInv, StoreType
      <4>3. \A b \in Ids : b # a => taken[b].from # d.challenge
        BY <2>1, <4>1
      <4>4. \A b \in Ids : taken'[b].from # None => taken'[b].from <= ids'.challenge
        BY <3>7, <4>1, <4>2
      <4>5. \A b \in Ids, n \in DOMAIN challenges' : taken'[b].from = n => challenges'[n].consumed
        BY <2>5, <3>7, <4>1
      <4>6. \A b, n \in Ids : taken'[b].from = taken'[n].from /\ taken'[b].from # None => b = n
        BY <3>7, <4>1, <4>3
      <4> QED
        BY <1>1, <4>4, <4>5, <4>6 DEF DecisionsFit, world
    <3>9. prov'[a].expires = d.expires /\ prov'[a].born <= born
      BY <2>1, <2>3, <2>6, <3>3, <3>6
    <3> QED
      BY <1>1, <2>2, <2>3, <2>5, <2>6, <3>1, <3>6, <3>8, <3>9, AcceptedStep
  <2>7. CASE ~(registers /\ Registers(c.reg, d.expires))
    <3>1. prov' = prov
      BY <1>3, <2>7 DEF Consume
    <3>2. CASE registers
      <4>1. Registered(c.reg, d.expires, d.challenge) /\ ~Registers(c.reg, d.expires)
        BY <1>3, <2>7, <3>2 DEF Consume
      <4> QED
        BY <1>1, <2>5, <3>1, <4>1, NotAcceptedIs, PrunedOnly
    <3>3. CASE ~registers
      <4>1. UNCHANGED <<ids, records, taken>>
        BY <1>3, <3>3 DEF Consume
      <4>2. records \in [DOMAIN records -> Record]
        BY DEF BrokerInv, StoreType
      <4> QED
        BY <1>1, <2>5, <3>1, <4>1, <4>2, PrunedOnly
    <3> QED
      BY <3>2, <3>3
  <2> QED
    BY <2>6, <2>7
<1> QED
  BY <1>2, <1>3

(***************************************************************************)
(* Broker and verifier: the Host binds an authorization.                   *)
(***************************************************************************)
\* The session goes into the record and into the ledger, where nobody was.
LEMMA BindStep ==
    ASSUME BrokerInv, NEW a \in DOMAIN records, NEW s \in Sessions, Bind(a, s),
           UNCHANGED <<world, ids, challenges, pending, receipts, prov>>,
           fenced \subseteq fenced', fenced' \subseteq 1 .. ids.auth
    PROVE  /\ BrokerInv' /\ Ages
           /\ DOMAIN records' = DOMAIN records
           /\ \A b \in DOMAIN records : /\ records'[b].deadline = records[b].deadline
                                        /\ records'[b].revoked = records[b].revoked
           /\ taken'[a].by = s /\ taken'[a].from = taken[a].from
           /\ \A b \in Ids : b # a => taken'[b] = taken[b]
<1>1. /\ a \in Ids /\ records[a] \in Record /\ records \in [DOMAIN records -> Record]
      /\ taken \in [Ids -> Entry] /\ taken[a] \in Entry
  BY RecordTypes DEF BrokerInv, StoreType
<1> DEFINE y == [records[a] EXCEPT !.binding = s]
           x == [y EXCEPT !.native = GrantsNativeTarget(records[a].reg)]
<1>2. /\ y \in Record /\ y.binding = s /\ y.deadline = records[a].deadline
      /\ y.expires = records[a].expires /\ y.reg = records[a].reg /\ y.revoked = records[a].revoked
  BY <1>1 DEF Record
<1>3. GrantsNativeTarget(records[a].reg) \in BOOLEAN
  BY DEF GrantsNativeTarget
<1>4. records' = [records EXCEPT ![a] = x]
  BY <1>1 DEF Bind
<1> HIDE DEF y
<1>5. /\ x \in Record /\ x.binding = s /\ x.deadline = records[a].deadline
      /\ x.expires = records[a].expires /\ x.reg = records[a].reg /\ x.revoked = records[a].revoked
  BY <1>2, <1>3 DEF Record
<1> HIDE DEF x
<1>6. /\ DOMAIN records' = DOMAIN records /\ records' \in [DOMAIN records -> Record]
      /\ records'[a] = x /\ \A b \in DOMAIN records : b # a => records'[b] = records[b]
  BY <1>1, <1>4, <1>5
<1>7. \A b \in DOMAIN records :
         /\ records'[b].deadline = records[b].deadline /\ records'[b].expires = records[b].expires
         /\ records'[b].reg = records[b].reg /\ records'[b].revoked = records[b].revoked
  BY <1>5, <1>6
<1>8. /\ taken' \in [Ids -> Entry] /\ taken'[a].by = s /\ taken'[a].from = taken[a].from
      /\ \A b \in Ids : b # a => taken'[b] = taken[b]
  BY <1>1 DEF Bind, Entry
<1>9. \A b \in Ids : taken'[b].from = taken[b].from
  BY <1>8
<1>10. WorldType' /\ StoreType'
  BY <1>6, <1>8 DEF BrokerInv, WorldType, StoreType, world
<1>11. \A b \in DOMAIN records' : RecordFit(b)'
  BY <1>6, <1>7 DEF BrokerInv, RecordFit, WasValid, world
<1>12. \A b \in DOMAIN prov' : ProvenanceFit(b)'
  BY <1>6, <1>7 DEF BrokerInv, ProvenanceFit, world
<1>13. LedgerFit'
  <2>1. ASSUME NEW b \in Ids, b > ids'.auth PROVE taken'[b].from = None /\ taken'[b].by = None
    <3>1. b # a
      BY <2>1, RecordTypes, Bounds DEF BrokerInv, StoreType
    <3> QED
      BY <1>8, <2>1, <3>1 DEF BrokerInv, LedgerFit
  <2>2. ASSUME NEW b \in DOMAIN records'
        PROVE  taken'[b].from # None /\ taken'[b].by = records'[b].binding
    <3>1. b \in Ids /\ b \in DOMAIN records
      BY <1>6, <2>2, RecordTypes
    <3> QED
      BY <1>5, <1>6, <1>8, <3>1 DEF BrokerInv, LedgerFit
  <2> QED
    BY <2>1, <2>2 DEF LedgerFit
<1>14. DecisionsFit'
  BY <1>9 DEF BrokerInv, DecisionsFit, world
<1>15. Ages
  <2>1. mono \in Nat /\ born \in {0, 1} /\ ids.auth \in Nat
    BY Bounds DEF BrokerInv, WorldType, StoreType
  <2> QED
    BY <1>6, <1>7, <2>1 DEF Ages, world
<1> QED
  BY <1>6, <1>7, <1>8, <1>10, <1>11, <1>12, <1>13, <1>14, <1>15 DEF BrokerInv

(***************************************************************************)
(* Sessions.                                                               *)
(***************************************************************************)
\* Steps of others leave a session fit: its authority only ages.
LEMMA SessionsStay ==
    ASSUME BrokerInv, BrokerInv', Ages, NEW s \in Sessions, SessionFit(s), ses'[s] = ses[s],
           ses[s] \in SessionState
    PROVE  SessionFit(s)'
<1>1. ids.auth \in Nat /\ ids'.auth \in Nat /\ ids'.auth >= ids.auth
  BY Bounds DEF BrokerInv, StoreType, Ages
<1>2. ASSUME ses[s].lease # None
      PROVE  ses'[s].lease.auth <= ids'.auth
  <2>1. ses[s].lease.auth \in Nat /\ ses[s].lease.auth <= ids.auth
    BY <1>2 DEF SessionState, SessionLease, Ids, SessionFit
  <2> QED
    BY <1>1, <2>1
<1>3. ASSUME ses[s].ended, ses[s].req = "turn"
      PROVE  ses[s].lease # None /\ Ended(ses[s].lease.auth)'
  <2> PICK a : a = ses[s].lease.auth
    OBVIOUS
  <2>1. ses[s].lease # None /\ Ended(a) /\ a <= ids.auth
    BY <1>3 DEF SessionFit
  <2>2. a \in 1 .. ids.auth
    BY <1>1, <2>1 DEF SessionState, SessionLease, Ids
  <2>3. Ended(a)'
    BY <2>1, <2>2, EndedStays
  <2> QED
    BY <2>1, <2>3 DEF Ended
<1> QED
  BY <1>2, <1>3 DEF SessionFit

\* A step of one session.
LEMMA OneSession ==
    ASSUME Inv, BrokerInv', Ages, NEW s \in Sessions, NEW x \in SessionState,
           ses' = [ses EXCEPT ![s] = x],
           RequestFit(x),
           x.lease # None => x.lease.auth <= ids.auth,
           x.ended /\ x.req = "turn" => x.lease # None /\ Ended(x.lease.auth)
    PROVE  SessionInv'
<1>1. ses \in [Sessions -> SessionState] /\ BrokerInv
  BY DEF Inv, SessionInv
<1>2. ses' \in [Sessions -> SessionState]
  BY <1>1
<1>3. ASSUME NEW t \in Sessions PROVE SessionFit(t)'
  <2>1. CASE t # s
    <3>1. ses'[t] = ses[t] /\ ses[t] \in SessionState /\ SessionFit(t)
      BY <1>1, <2>1 DEF Inv, SessionInv
    <3> QED
      BY <1>1, <3>1, SessionsStay
  <2>2. CASE t = s
    <3>1. ses'[t] = x
      BY <1>1, <2>2
    <3>2. ids.auth \in Nat /\ ids'.auth \in Nat /\ ids'.auth >= ids.auth
      BY <1>1, Bounds DEF BrokerInv, StoreType, Ages
    <3>3. ASSUME x.lease # None PROVE x.lease.auth <= ids'.auth
      <4>1. x.lease.auth \in Nat
        BY <3>3 DEF SessionState, SessionLease, Ids
      <4> QED
        BY <3>2, <3>3, <4>1
    <3>4. ASSUME x.ended, x.req = "turn" PROVE Ended(x.lease.auth)'
      <4>1. x.lease.auth \in 1 .. ids.auth
        BY <3>2, <3>4 DEF SessionState, SessionLease, Ids
      <4> QED
        BY <1>1, <3>4, <4>1, EndedStays
    <3> QED
      BY <3>1, <3>3, <3>4 DEF SessionFit, Ended
  <2> QED
    BY <2>1, <2>2
<1> QED
  BY <1>2, <1>3 DEF SessionInv

\* All sessions stay.
LEMMA NoSession ==
    ASSUME Inv, BrokerInv', Ages, ses' = ses PROVE SessionInv'
BY SessionsStay DEF Inv, SessionInv

\* A session without a request has nothing to answer for.
LEMMA IdleSession ==
    ASSUME Inv, BrokerInv', Ages, NEW s \in Sessions, NEW x \in SessionState,
           ses' = [ses EXCEPT ![s] = x], x.req = "idle",
           x.lease # None => x.lease.auth <= ids.auth
    PROVE  SessionInv'
<1>1. RequestFit(x)
  BY DEF RequestFit
<1> QED
  BY <1>1, OneSession

\* A closed session is one.
LEMMA ClosedIs == Closed \in SessionState /\ Closed.req = "idle" /\ Closed.lease = None
BY DEF Closed, SessionState

\* The end of a request leaves the session as it is.
LEMMA AnswerIs ==
    ASSUME Inv, BrokerInv', Ages, NEW s \in Sessions, Answer(s)
    PROVE  SessionInv'
<1> DEFINE x == [ses[s] EXCEPT !.req = "idle", !.act = None, !.agreed = FALSE, !.ended = FALSE]
<1>1. ses[s] \in SessionState /\ ses \in [Sessions -> SessionState]
  BY DEF Inv, SessionInv
<1>2. ses' = [ses EXCEPT ![s] = x]
  BY <1>1 DEF Answer
<1>3. x \in SessionState /\ x.req = "idle" /\ x.lease = ses[s].lease
  BY <1>1 DEF SessionState
<1> HIDE DEF x
<1>4. x.lease # None => x.lease.auth <= ids.auth
  BY <1>3 DEF Inv, SessionInv, SessionFit
<1> QED
  BY <1>2, <1>3, <1>4, IdleSession

\* Asking about a lease leaves the store as it is and can only close a fence.
LEMMA AskedIs ==
    ASSUME BrokerInv, NEW l, Asked(l),
           UNCHANGED <<world, ids, challenges, pending, receipts, prov, records, taken>>
    PROVE  BrokerInv' /\ Ages
<1>1. fenced \subseteq fenced' /\ fenced' \subseteq 1 .. ids.auth
  BY FencedByIs DEF Asked, BrokerInv, StoreType
<1> QED
  BY <1>1, FencesOnly

(***************************************************************************)
(* The steps of a session.                                                 *)
(***************************************************************************)
\* issue_task_authorization: the lease names a record that is there.
LEMMA IssueStep ==
    ASSUME Inv, NEW s \in Sessions, NEW g, NEW next \in SessionState, next.req = "idle",
           Issue(s, g, next), Untouched
    PROVE  Inv' /\ Ages
<1>1. BrokerInv /\ ses \in [Sessions -> SessionState]
  BY DEF Inv, SessionInv
<1>2. UNCHANGED <<world, ids, challenges, pending, receipts, prov>>
  BY DEF Untouched
<1>3. fenced \subseteq fenced' /\ fenced' \subseteq 1 .. ids.auth
  BY <1>1, FencedByIs DEF Issue, BrokerInv, StoreType
<1> DEFINE a == g.auth
<1>4. CASE Authorizes(a, s, g.owned)
  <2>1. a \in DOMAIN records /\ Bind(a, s)
    BY <1>4 DEF Issue, Authorizes
  <2>2. BrokerInv' /\ Ages
    BY <1>1, <1>2, <1>3, <2>1, BindStep
  <2> DEFINE l == Lease(a)
             x == [next EXCEPT !.lease = l]
  <2>3. a \in Ids /\ a <= ids.auth /\ records[a].reg \in Proposals /\ records[a].expires \in Nat
        /\ wall \in Nat
    BY <1>1, <2>1, RecordTypes, Bounds DEF Record, BrokerInv, WorldType, StoreType
  <2>4. l \in SessionLease /\ l.auth = a
    BY <2>3 DEF Lease, SessionLease
  <2> HIDE DEF l
  <2>5. x \in SessionState /\ x.req = "idle" /\ x.lease = l
    BY <2>4 DEF SessionState
  <2>6. ses' = [ses EXCEPT ![s] = x] \/ ses' = [ses EXCEPT ![s] = Closed]
    BY <1>4 DEF Issue, l
  <2> HIDE DEF x
  <2>7. SessionInv'
    BY <2>2, <2>3, <2>4, <2>5, <2>6, ClosedIs, IdleSession
  <2> QED
    BY <2>2, <2>7 DEF Inv
<1>5. CASE ~Authorizes(a, s, g.owned)
  <2>1. UNCHANGED <<records, taken>> /\ ses' = [ses EXCEPT ![s] = Closed]
    BY <1>5 DEF Issue
  <2>2. BrokerInv' /\ Ages
    BY <1>1, <1>2, <1>3, <2>1, FencesOnly
  <2> QED
    BY <2>1, <2>2, ClosedIs, IdleSession DEF Inv
<1> QED
  BY <1>4, <1>5

\* open_session up to the start of the core session.
LEMMA OpenStep ==
    ASSUME Inv, NEW s \in Sessions, NEW g \in Grants[s], Open(s, g) PROVE Inv' /\ Ages
<1> DEFINE x == [Closed EXCEPT !.st = "starting", !.grant = g]
<1>1. g \in AnyGrant
  BY DEF AnyGrant
<1>2. x \in SessionState /\ x.req = "idle" /\ x.lease = None
  BY <1>1 DEF Closed, SessionState
<1>3. Untouched /\ (IF g.auth = None \/ g.owned
                    THEN /\ ses' = [ses EXCEPT ![s] = x]
                         /\ UNCHANGED <<lastSeen, clockFailed, records, fenced, taken>>
                    ELSE Issue(s, g, x))
  BY DEF Open
<1> HIDE DEF x
<1>4. CASE Issue(s, g, x)
  BY <1>2, <1>3, <1>4, IssueStep
<1>5. CASE ses' = [ses EXCEPT ![s] = x] /\ UNCHANGED <<records, fenced, taken>>
  <2>1. BrokerInv /\ fenced \subseteq 1 .. ids.auth
    BY DEF Inv, BrokerInv, StoreType
  <2>2. BrokerInv' /\ Ages
    BY <1>3, <1>5, <2>1, FencesOnly DEF Untouched
  <2> QED
    BY <1>2, <1>5, <2>2, IdleSession DEF Inv
<1> QED
  BY <1>3, <1>4, <1>5

\* A session that starts has no request.
LEMMA NotOpenIsIdle ==
    ASSUME Inv, NEW s \in Sessions
    PROVE  /\ ses[s] \in SessionState /\ ses \in [Sessions -> SessionState]
           /\ ses[s].st # "open" => ses[s].req = "idle"
           /\ ses[s].lease # None => ses[s].lease.auth <= ids.auth
           /\ RequestFit(ses[s])
BY DEF Inv, SessionInv, SessionFit, RequestFit

\* An owned browser is authorized when its window is known.
LEMMA StartOwnedStep ==
    ASSUME Inv, NEW s \in Sessions, StartOwned(s) PROVE Inv' /\ Ages
<1>1. ses[s] \in SessionState /\ ses[s].req = "idle"
  BY NotOpenIsIdle DEF StartOwned
<1> QED
  BY <1>1, IssueStep DEF StartOwned

\* The end of open_session.
LEMMA OpenedStep ==
    ASSUME Inv, NEW s \in Sessions, Opened(s) PROVE Inv' /\ Ages
<1> DEFINE x == [ses[s] EXCEPT !.st = "open"]
<1>1. ses[s] \in SessionState /\ ses[s].req = "idle"
      /\ (ses[s].lease # None => ses[s].lease.auth <= ids.auth)
  BY NotOpenIsIdle DEF Opened
<1>2. x \in SessionState /\ x.req = "idle" /\ x.lease = ses[s].lease
  BY <1>1 DEF SessionState
<1>3. ses' = [ses EXCEPT ![s] = x] \/ ses' = [ses EXCEPT ![s] = Closed]
  BY DEF Opened
<1> HIDE DEF x
<1>4. BrokerInv /\ UNCHANGED <<world, ids, challenges, pending, receipts, prov, records, taken>>
  BY DEF Inv, Opened, verifier
<1>5. fenced \subseteq fenced' /\ fenced' \subseteq 1 .. ids.auth
  BY <1>4, FencedByIs DEF Opened, BrokerInv, StoreType
<1>6. BrokerInv' /\ Ages
  BY <1>4, <1>5, FencesOnly
<1> QED
  BY <1>1, <1>2, <1>3, <1>6, ClosedIs, IdleSession DEF Inv

\* A start that fails, and a stop, close the session.
LEMMA CloseStep ==
    ASSUME Inv, NEW s \in Sessions, StartFails(s) \/ Stop(s) PROVE Inv' /\ Ages
<1>1. ses' = [ses EXCEPT ![s] = Closed] /\ UNCHANGED <<world, verifier, records, fenced, taken>>
  BY DEF StartFails, Stop
<1>2. BrokerInv /\ fenced \subseteq 1 .. ids.auth
  BY DEF Inv, BrokerInv, StoreType
<1>3. BrokerInv' /\ Ages
  BY <1>1, <1>2, FencesOnly DEF verifier
<1> QED
  BY <1>1, <1>3, ClosedIs, IdleSession DEF Inv

\* What needs no confirmation carries no secret and is in the lowest tier.
LEMMA UnaskedIsRoutine ==
    ASSUME NEW x \in Actions, SafetyTier(x) # "hard_deny", ~RequiresConfirmation(x)
    PROVE  ~x.secret /\ BaseTier(x) = "task_grant"
<1>1. BaseTier(x) \in Tiers
  BY Inputs DEF BaseTier, Tiers
<1> QED
  BY <1>1 DEF RequiresConfirmation, SafetyTier, Tiers

\* execute_action up to the question whom to ask.
LEMMA SubmitStep ==
    ASSUME Inv, NEW s \in Sessions, NEW x \in Actions, Submit(s, x) PROVE Inv' /\ Ages
<1>1. Asked(ses[s].lease) /\ Untouched /\ UNCHANGED <<records, taken>> /\ ses[s].st = "open"
  BY DEF Submit
<1>2. BrokerInv' /\ Ages
  BY <1>1, AskedIs DEF Inv, Untouched
<1> DEFINE r == IF RequiresConfirmation(x) \/ Leased(s) THEN "asking" ELSE "queued"
           z == [ses[s] EXCEPT !.act = x]
           y == [z EXCEPT !.req = r]
<1>3. CASE ses' = ses
  BY <1>2, <1>3, NoSession DEF Inv
<1>4. CASE ses' # ses
  <2>1. ses' = [ses EXCEPT ![s] = y] /\ SafetyTier(x) # "hard_deny"
    BY <1>4, NotOpenIsIdle DEF Submit
  <2>2. z \in SessionState /\ z.act = x /\ z.st = "open" /\ z.lease = ses[s].lease
        /\ z.ended = ses[s].ended
    BY <1>1, NotOpenIsIdle DEF SessionState
  <2>3. r \in {"asking", "queued"} /\ (r = "queued" => ~RequiresConfirmation(x) /\ z.lease = None)
        /\ (r = "asking" /\ z.lease = None => RequiresConfirmation(x))
    BY <2>2 DEF Leased
  <2> HIDE DEF z, r
  <2>4. y \in SessionState /\ y.act = x /\ y.st = "open" /\ y.lease = z.lease /\ y.req = r
    BY <2>2, <2>3 DEF SessionState
  <2> HIDE DEF y
  <2>5. RequestFit(y)
    BY <2>1, <2>2, <2>3, <2>4, UnaskedIsRoutine DEF RequestFit
  <2>6. y.lease # None => y.lease.auth <= ids.auth
    BY <2>2, <2>4, NotOpenIsIdle
  <2> QED
    BY <1>2, <2>1, <2>3, <2>4, <2>5, <2>6, OneSession DEF Inv
<1> QED
  BY <1>3, <1>4

\* The lease answers for the exact scope, or the user agrees.
LEMMA AuthorizeStep ==
    ASSUME Inv, NEW s \in Sessions, NEW user \in BOOLEAN, Authorize(s, user)
    PROVE  Inv' /\ Ages
<1> DEFINE y == [ses[s] EXCEPT !.req = "queued"]
           x == [y EXCEPT !.agreed = TRUE]
<1>1. /\ BrokerInv /\ UNCHANGED <<world, ids, challenges, pending, receipts, prov, records, taken>>
      /\ ses[s].req = "asking"
  BY DEF Inv, Authorize, Untouched
<1>2. fenced \subseteq fenced' /\ fenced' \subseteq 1 .. ids.auth
  BY <1>1, FencedByIs DEF Authorize, BrokerInv, StoreType
<1>3. BrokerInv' /\ Ages
  BY <1>1, <1>2, FencesOnly
<1>4. CASE Answer(s)
  BY <1>3, <1>4, AnswerIs DEF Inv
<1>5. CASE ~Answer(s)
  <2>1. /\ ses' = [ses EXCEPT ![s] = x]
        /\ ses[s].lease # None => FromConfirmation(ses[s].act) \in ses[s].lease.reg.actions
    BY <1>5, NotOpenIsIdle DEF Authorize, TaskScopedAllows, Leased
  <2>2. y \in SessionState /\ y.req = "queued" /\ y.act = ses[s].act /\ y.lease = ses[s].lease
        /\ y.st = ses[s].st
    BY NotOpenIsIdle DEF SessionState
  <2> HIDE DEF y
  <2>3. /\ x \in SessionState /\ x.req = "queued" /\ x.act = ses[s].act /\ x.lease = ses[s].lease
        /\ x.st = ses[s].st /\ x.agreed
    BY <2>2 DEF SessionState
  <2> HIDE DEF x
  <2>4. RequestFit(x)
    BY <1>1, <2>1, <2>3, NotOpenIsIdle DEF RequestFit
  <2> QED
    BY <1>3, <2>1, <2>3, <2>4, NotOpenIsIdle, OneSession DEF Inv
<1> QED
  BY <1>4, <1>5

\* The turn: whether the authority is over is remembered.
LEMMA TurnStep ==
    ASSUME Inv, NEW s \in Sessions, Turn(s) PROVE Inv' /\ Ages
<1> DEFINE e == Leased(s) /\ Ended(ses[s].lease.auth)
           y == [ses[s] EXCEPT !.req = "turn"]
           x == [y EXCEPT !.ended = e]
<1>1. UNCHANGED <<world, verifier, records, fenced, taken>> /\ ses[s].req = "queued"
  BY DEF Turn
<1>2. BrokerInv /\ fenced \subseteq 1 .. ids.auth
  BY DEF Inv, BrokerInv, StoreType
<1>3. BrokerInv' /\ Ages
  BY <1>1, <1>2, FencesOnly DEF verifier
<1>4. ses' = [ses EXCEPT ![s] = x]
  BY NotOpenIsIdle DEF Turn
<1>5. e \in BOOLEAN /\ (e => ses[s].lease # None /\ Ended(ses[s].lease.auth))
  BY DEF Leased
<1>6. y \in SessionState /\ y.req = "turn" /\ y.act = ses[s].act /\ y.lease = ses[s].lease
      /\ y.st = ses[s].st /\ y.agreed = ses[s].agreed
  BY NotOpenIsIdle DEF SessionState
<1> HIDE DEF y, e
<1>7. x \in SessionState /\ x.req = "turn" /\ x.act = ses[s].act /\ x.lease = ses[s].lease
      /\ x.st = ses[s].st /\ x.agreed = ses[s].agreed /\ x.ended = e
  BY <1>5, <1>6 DEF SessionState
<1> HIDE DEF x
<1>8. RequestFit(x)
  BY <1>1, <1>7, NotOpenIsIdle DEF RequestFit
<1> QED
  BY <1>3, <1>4, <1>5, <1>7, <1>8, NotOpenIsIdle, OneSession DEF Inv

\* An authority that is over is found out by whoever asks.
LEMMA EndedIsRefused ==
    ASSUME BrokerInv, NEW l, l # None, Ended(l.auth) PROVE ~Validated(l)
<1> SUFFICES ASSUME LeaseLive(l) PROVE FALSE
  BY DEF Validated
<1>1. l.auth \in DOMAIN records /\ mono < records[l.auth].deadline
  BY DEF LeaseLive, IsActive, Admits
<1>2. mono \in Nat /\ records[l.auth].deadline \in Nat
  BY <1>1, RecordTypes DEF BrokerInv, WorldType
<1>3. ~(mono >= records[l.auth].deadline)
  BY <1>1, <1>2
<1> QED
  BY <1>3 DEF LeaseLive, Ended, IsActive, Admits, CrossAdmits

\* revalidate_queued_action: what was over at the turn goes no further.
LEMMA RevalidateStep ==
    ASSUME Inv, NEW s \in Sessions, Revalidate(s) PROVE Inv' /\ Ages
<1> DEFINE x == [ses[s] EXCEPT !.req = "go"]
<1>1. /\ BrokerInv /\ UNCHANGED <<world, ids, challenges, pending, receipts, prov, records, taken>>
      /\ ses[s].req = "turn" /\ fenced \subseteq 1 .. ids.auth
  BY DEF Inv, Revalidate, Untouched, BrokerInv, StoreType
<1>2. BrokerInv' /\ Ages
  BY <1>1, AskedIs, FencesOnly DEF Revalidate
<1>3. CASE Answer(s)
  BY <1>2, <1>3, AnswerIs DEF Inv
<1>4. CASE ~Answer(s)
  <2>1. ses' = [ses EXCEPT ![s] = x] /\ (ses[s].lease # None => Validated(ses[s].lease))
    BY <1>4, NotOpenIsIdle DEF Revalidate, Revalidates, Leased
  <2>2. ~ses[s].ended
    BY <1>1, <2>1, EndedIsRefused DEF Inv, SessionInv, SessionFit
  <2>3. x \in SessionState /\ x.req = "go" /\ x.act = ses[s].act /\ x.lease = ses[s].lease
        /\ x.st = ses[s].st /\ x.agreed = ses[s].agreed /\ x.ended = ses[s].ended
    BY NotOpenIsIdle DEF SessionState
  <2> HIDE DEF x
  <2>4. RequestFit(x)
    BY <1>1, <2>2, <2>3, NotOpenIsIdle DEF RequestFit
  <2> QED
    BY <1>2, <2>1, <2>3, <2>4, NotOpenIsIdle, OneSession DEF Inv
<1> QED
  BY <1>3, <1>4

\* The input goes out and the request is answered.
LEMMA DispatchStep ==
    ASSUME Inv, NEW s \in Sessions, Dispatch(s) PROVE Inv' /\ Ages
<1>1. Answer(s) /\ UNCHANGED <<world, verifier, records, fenced, taken>>
  BY DEF Dispatch
<1>2. BrokerInv /\ fenced \subseteq 1 .. ids.auth
  BY DEF Inv, BrokerInv, StoreType
<1>3. BrokerInv' /\ Ages
  BY <1>1, <1>2, FencesOnly DEF verifier
<1> QED
  BY <1>1, <1>3, AnswerIs DEF Inv

\* The poll marks a session whose lease is not valid.
LEMMA StatePollStep ==
    ASSUME Inv, NEW s \in Sessions, StatePoll(s) PROVE Inv' /\ Ages
<1> DEFINE x == [ses[s] EXCEPT !.interrupted = TRUE]
<1>1. Asked(ses[s].lease) /\ Untouched /\ UNCHANGED <<records, taken>> /\ ses[s].req = "idle"
  BY DEF StatePoll
<1>2. BrokerInv' /\ Ages
  BY <1>1, AskedIs DEF Inv, Untouched
<1>3. CASE ses' = ses
  BY <1>2, <1>3, NoSession DEF Inv
<1>4. CASE ses' = [ses EXCEPT ![s] = x]
  <2>1. x \in SessionState /\ x.req = "idle" /\ x.lease = ses[s].lease
    BY <1>1, NotOpenIsIdle DEF SessionState
  <2> HIDE DEF x
  <2> QED
    BY <1>2, <1>4, <2>1, NotOpenIsIdle, IdleSession DEF Inv
<1> QED
  BY <1>3, <1>4, NotOpenIsIdle DEF StatePoll

(***************************************************************************)
(* The invariant.                                                          *)
(***************************************************************************)
\* Nothing is registered, bound or open when the Host starts.
LEMMA InvInit == Init => Inv
<1> SUFFICES ASSUME Init PROVE Inv
  OBVIOUS
<1>1. WorldType
  BY DEF Init, WorldType
<1>2. /\ DOMAIN challenges = {} /\ DOMAIN prov = {} /\ DOMAIN records = {}
      /\ challenges \in [DOMAIN challenges -> Challenge]
      /\ prov \in [DOMAIN prov -> Provenance]
      /\ records \in [DOMAIN records -> Record]
  BY DEF Init
<1>3. /\ ids \in [auth : 0 .. MaxId, challenge : 0 .. MaxChallenge]
      /\ ids.auth = 0 /\ ids.challenge = 0
  BY Bounds DEF Init
<1>4. taken \in [Ids -> Entry] /\ \A a \in Ids : taken[a].from = None /\ taken[a].by = None
  BY DEF Init, Entry
<1>5. StoreType
  BY <1>2, <1>3, <1>4 DEF Init, StoreType
<1>6. LedgerFit /\ DecisionsFit
  BY <1>2, <1>4 DEF Init, LedgerFit, DecisionsFit
<1>7. BrokerInv
  BY <1>1, <1>2, <1>5, <1>6 DEF BrokerInv
<1>8. ses \in [Sessions -> SessionState] /\ \A s \in Sessions : ses[s] = Closed
  BY ClosedIs DEF Init
<1>9. \A s \in Sessions : SessionFit(s)
  BY <1>8, ClosedIs DEF SessionFit, RequestFit
<1> QED
  BY <1>7, <1>8, <1>9 DEF Inv, SessionInv

\* Every step keeps the invariant and ages the authority.
LEMMA InvNext ==
    ASSUME Inv, Next PROVE Inv' /\ Ages
<1>1. BrokerInv
  BY DEF Inv
<1>2. ASSUME ses' = ses, BrokerInv' /\ Ages PROVE Inv' /\ Ages
  BY <1>2, NoSession DEF Inv
<1>3. CASE Tick \/ SetClockBack \/ RevokeKey \/ ReplaceProcess \/ \E d \in Directories : ReplaceDirectory(d)
  <2>1. ses' = ses
    BY <1>3 DEF Tick, SetClockBack, RevokeKey, ReplaceProcess, ReplaceDirectory
  <2> QED
    BY <1>1, <1>2, <1>3, <2>1, TickStep, SetClockBackStep, WorldStep
<1>4. ASSUME NEW r \in Proposals, NEW e \in Expiries, Register(r, e) \/ PrepareRead(r, e)
      PROVE  Inv' /\ Ages
  <2>1. ses' = ses /\ e \in Nat
    BY <1>4, Bounds DEF Register, PrepareRead
  <2> QED
    BY <1>1, <1>2, <1>4, <2>1, RegisterStep, PrepareReadStep
<1>5. ASSUME NEW a \in Ids, Revoke(a) PROVE Inv' /\ Ages
  BY <1>1, <1>2, <1>5, RevokeStep DEF Revoke
<1>6. CASE PrepareLocked
  <2>1. ses' = ses
    BY <1>6 DEF PrepareLocked
  <2> QED
    BY <1>1, <1>2, <1>6, <2>1, PrepareLockedStep
<1>7. ASSUME NEW c \in Ids, NEW allow \in BOOLEAN, NEW e \in Expiries, Decide(c, allow, e)
      PROVE  Inv' /\ Ages
  <2>1. ses' = ses /\ e \in Nat
    BY <1>7, Bounds DEF Decide
  <2> QED
    BY <1>1, <1>2, <1>7, <2>1, DecideStep
<1>8. ASSUME NEW d \in receipts, Consume(d) PROVE Inv' /\ Ages
  <2>1. ses' = ses
    BY <1>8 DEF Consume
  <2> QED
    BY <1>1, <1>2, <1>8, <2>1, ConsumeStep
<1>9. ASSUME NEW s \in Sessions, NEW g \in Grants[s], Open(s, g) PROVE Inv' /\ Ages
  BY <1>9, OpenStep
<1>10. ASSUME NEW s \in Sessions, StartOwned(s) \/ Opened(s) \/ StartFails(s) \/ Stop(s)
       PROVE  Inv' /\ Ages
  BY <1>10, StartOwnedStep, OpenedStep, CloseStep
<1>11. ASSUME NEW s \in Sessions, NEW x \in Actions, Submit(s, x) PROVE Inv' /\ Ages
  BY <1>11, SubmitStep
<1>12. ASSUME NEW s \in Sessions, NEW user \in BOOLEAN, Authorize(s, user) PROVE Inv' /\ Ages
  BY <1>12, AuthorizeStep
<1>13. ASSUME NEW s \in Sessions, Turn(s) \/ Revalidate(s) \/ Dispatch(s) \/ StatePoll(s)
       PROVE  Inv' /\ Ages
  BY <1>13, TurnStep, RevalidateStep, DispatchStep, StatePollStep
<1> QED
  BY <1>3, <1>4, <1>5, <1>6, <1>7, <1>8, <1>9, <1>10, <1>11, <1>12, <1>13 DEF Next

\* Stuttering keeps it too.
LEMMA InvStep == Inv /\ [Next]_vars => Inv'
<1> SUFFICES ASSUME Inv, UNCHANGED vars PROVE Inv'
  BY InvNext
<1>1. BrokerInv /\ fenced \subseteq 1 .. ids.auth
  BY DEF Inv, BrokerInv, StoreType
<1>2. /\ UNCHANGED <<world, ids, challenges, pending, receipts, prov, records, taken>>
      /\ fenced' = fenced /\ ses' = ses
  BY DEF vars, verifier
<1>3. BrokerInv' /\ Ages
  BY <1>1, <1>2, FencesOnly
<1> QED
  BY <1>2, <1>3, NoSession DEF Inv

\* Inv is an invariant of task authorization.
LEMMA Invariant == Spec => []Inv
BY InvInit, InvStep, PTL DEF Spec

(***************************************************************************)
(* The theorems.                                                           *)
(***************************************************************************)
\* For every number of sessions and authorizations: no input goes out under an
\* authority that was over at its turn, and none without consent to its scope.
THEOREM DispatchAllowedHolds == Spec => []DispatchAllowed
<1>1. Inv => DispatchAllowed
  BY DEF Inv, SessionInv, SessionFit, RequestFit, DispatchAllowed, NoDispatchAfterEnd, Consented, Leased
<1> QED
  BY <1>1, Invariant, PTL

\* The rules of the broker and the Host's copy of them, for every registration:
\* what passed the first passes the second, with the clock within the lifetime
\* and the journal's directory in place.
LEMMA RulesAgree ==
    ASSUME NEW r, NEW e \in Nat, NEW then \in Nat, NEW dirs, NEW now \in Nat, NEW ordinaryNow,
           ValidRegistration(r, e, then, dirs), e > now, e - now <= MaxTtl,
           r.preparation # None => r.preparation \in ordinaryNow
    PROVE  ValidLease(r, now, e, now, ordinaryNow)
<1>1. /\ r.methods # {} /\ r.methods \subseteq AUTHORIZABLE
      /\ \A a \in r.actions : ValidScope(a)
      /\ Cardinality(r.actions) <= MaxActions /\ Cardinality(r.origins) <= MaxActions
      /\ r.origins \subseteq Origins
      /\ r.scope # None => r.scope \in Origins /\ r.origins = {r.scope}
      /\ r.recording # None => RECORDING \subseteq r.methods
      /\ r.preparation # None => /\ r.recording # r.preparation
                                 /\ r.scope = None /\ r.origins = {}
                                 /\ PREPARATION_NEEDS \subseteq r.methods
  BY Zenon DEF ValidRegistration
<1>2. /\ (r.methods \cap PREPARATION # {}) = (r.preparation # None)
      /\ Prepares(r) = (r.preparation # None)
  BY Zenon DEF ValidRegistration
<1>3. /\ r.preparation = None => r.methods \cap PREPARATION = {} /\ ~Prepares(r)
      /\ r.preparation # None => Prepares(r)
  BY <1>2, Zenon
<1>4. now <= now
  OBVIOUS
<1> QED
  BY <1>1, <1>3, <1>4, Zenon DEF ValidLease

\* What the broker would bind, the Host accepts, as long as no clock was set
\* back and the journal's directory is in place; for every set of registrations
\* and whatever else changed since.
THEOREM IssuedLeaseAcceptedHolds == Spec => []IssuedLeaseAccepted
<1>1. ASSUME Inv PROVE IssuedLeaseAccepted
  <2> SUFFICES ASSUME ~rolled, NEW a \in DOMAIN records, IsActive(a),
                      records[a].reg.preparation \in ordinary \cup {None}
               PROVE  ValidLease(records[a].reg, wall, records[a].expires, wall, ordinary)
    BY DEF IssuedLeaseAccepted
  <2> DEFINE r == records[a].reg
             e == records[a].expires
  <2>1. BrokerInv /\ RecordFit(a) /\ wall \in Nat /\ e \in Nat /\ MaxTtl \in Nat
    BY <1>1, RecordTypes, Bounds DEF Inv, BrokerInv, WorldType
  <2>2. PICK then \in Nat : \E dirs : ValidRegistration(r, e, then, dirs)
    BY <2>1 DEF RecordFit, WasValid
  <2>3. wall < e /\ e <= wall + MaxTtl
    BY <2>1 DEF RecordFit, IsActive, Admits
  <2>4. e > wall /\ e - wall <= MaxTtl
    BY <2>1, <2>3
  <2> QED
    BY <2>1, <2>2, <2>4, RulesAgree
<1> QED
  BY <1>1, Invariant, PTL

(***************************************************************************)
(* Broker and verifier implement the ledger: a registration is a Give, a   *)
(* binding a Take, and every other step lets authorizations end.           *)
(***************************************************************************)
Over == {a \in Ids : taken[a].from # None /\ Ended(a)}

\* What the ledger knows has a number that was given out.
LEMMA GivenIsNumbered ==
    ASSUME BrokerInv, NEW a \in Ids, taken[a].from # None PROVE a \in 1 .. ids.auth
<1>1. a \in Nat /\ a >= 1 /\ ids.auth \in Nat /\ ~(a > ids.auth)
  BY Bounds DEF BrokerInv, LedgerFit, StoreType, Ids
<1> QED
  BY <1>1

\* A step that neither registers nor binds.
LEMMA EndRefines ==
    ASSUME BrokerInv, BrokerInv', Ages, UNCHANGED taken PROVE Ledger!LNext
<1>1. Over \subseteq Over'
  <2> SUFFICES ASSUME NEW a \in Over PROVE a \in Over'
    OBVIOUS
  <2>1. a \in Ids /\ taken[a].from # None /\ Ended(a)
    BY DEF Over
  <2>2. Ended(a)'
    BY <2>1, GivenIsNumbered, EndedStays
  <2> QED
    BY <2>1, <2>2 DEF Over
<1>2. Over' = Over \cup Over' /\ Over' \in SUBSET Ids
  BY <1>1 DEF Over
<1>3. PICK A \in SUBSET Ids : A = Over'
  BY <1>2
<1>4. Ledger!End(A)
  BY <1>2, <1>3 DEF Ledger!End, Over
<1> QED
  BY <1>3, <1>4 DEF Ledger!LNext

\* An accepted registration: what is pruned with it was over before.
LEMMA GiveRefines ==
    ASSUME BrokerInv, BrokerInv', Ages,
           NEW r \in Proposals, NEW e \in Nat, NEW from \in Ids,
           Registered(r, e, from), Registers(r, e), NEW a, a = ids.auth + 1,
           UNCHANGED <<world, fenced>>,
           DOMAIN prov' \subseteq DOMAIN prov \cup {a},
           \A b \in DOMAIN prov' : b # a => prov'[b] = prov[b],
           via = "cross" => key = "active" /\ (a \in DOMAIN prov' => prov'[a].born = born),
           \A b \in Ids : taken[b].from # from
    PROVE  Ledger!LNext
<1>1. /\ a \in Ids /\ a \notin DOMAIN records
      /\ DOMAIN records' = Unexpired \cup {a}
      /\ \A b \in Unexpired : records'[b] = records[b]
      /\ records'[a].deadline = mono + (e - wall) /\ ~records'[a].revoked
      /\ taken'[a].from = from /\ taken'[a].by = taken[a].by
      /\ \A b \in Ids : b # a => taken'[b] = taken[b]
  BY AcceptedIs
<1>2. wall \in Nat /\ mono \in Nat /\ e > wall
  BY DEF BrokerInv, WorldType, Registers, ValidRegistration
<1>3. a \notin 1 .. ids.auth /\ a > ids.auth /\ a \notin fenced /\ taken[a].from = None
  <2>1. ids.auth \in Nat /\ fenced \subseteq 1 .. ids.auth
    BY Bounds DEF BrokerInv, StoreType
  <2>2. a > ids.auth /\ a \notin 1 .. ids.auth
    BY <2>1
  <2> QED
    BY <1>1, <2>1, <2>2 DEF BrokerInv, LedgerFit
<1>4. ~Ended(a)'
  <2>1. ~(mono >= records'[a].deadline)
    BY <1>1, <1>2
  <2>2. a \notin fenced' /\ a \in DOMAIN records' /\ mono' = mono /\ born' = born /\ via' = via
        /\ key' = key
    BY <1>1, <1>3 DEF world
  <2> QED
    BY <1>1, <2>1, <2>2 DEF Ended
<1>5. ASSUME NEW b \in Ids, b # a, taken[b].from # None, Ended(b)' PROVE Ended(b)
  <2>1. UNCHANGED <<via, mono, key, born, fenced>>
    BY DEF world
  <2>2. CASE b \notin DOMAIN records
    BY <2>2 DEF Ended
  <2>3. CASE b \in DOMAIN records /\ b \notin Unexpired
    <3>1. /\ records[b].expires \in Nat /\ records[b].deadline \in Nat
          /\ ~(records[b].expires > wall)
          /\ records[b].deadline + wall <= records[b].expires + mono
      BY <2>3, RecordTypes DEF Unexpired, BrokerInv, RecordFit
    <3>2. mono >= records[b].deadline
      BY <1>2, <3>1
    <3> QED
      BY <3>2 DEF Ended
  <2>4. CASE b \in DOMAIN records /\ b \in Unexpired
    <3>1. b \in DOMAIN records' /\ records'[b] = records[b]
      BY <1>1, <2>4
    <3> QED
      BY <1>5, <2>1, <2>4, <3>1 DEF Ended
  <2> QED
    BY <2>2, <2>3, <2>4
<1>6. ASSUME NEW b \in Ids, taken[b].from # None, Ended(b) PROVE b # a /\ Ended(b)'
  BY <1>3, <1>6, GivenIsNumbered, EndedStays
<1>7. Over' = Over
  <2>1. ASSUME NEW b \in Over PROVE b \in Over'
    <3>1. b \in Ids /\ taken[b].from # None /\ Ended(b)
      BY <2>1 DEF Over
    <3>2. b # a /\ Ended(b)' /\ taken'[b].from # None
      BY <1>1, <1>6, <3>1
    <3> QED
      BY <3>1, <3>2 DEF Over
  <2>2. ASSUME NEW b \in Over' PROVE b \in Over
    <3>1. b \in Ids /\ taken'[b].from # None /\ Ended(b)'
      BY <2>2 DEF Over
    <3>2. b # a
      BY <1>4, <3>1
    <3>3. taken[b].from # None /\ Ended(b)
      BY <1>1, <1>5, <3>1, <3>2
    <3> QED
      BY <3>1, <3>3 DEF Over
  <2> QED
    BY <2>1, <2>2
<1>8. [b \in Ids |-> taken'[b].from] = [[b \in Ids |-> taken[b].from] EXCEPT ![a] = from]
  BY <1>1
<1>9. [b \in Ids |-> taken'[b].by] = [b \in Ids |-> taken[b].by]
  BY <1>1
<1>10. a \notin Over
  BY <1>3 DEF Over
<1>11. Ledger!Give(a, from)
  BY <1>1, <1>3, <1>7, <1>8, <1>9, <1>10 DEF Ledger!Give, Over
<1> QED
  BY <1>1, <1>11 DEF Ledger!LNext

\* A binding takes what was given, is not over and belongs to nobody.
LEMMA TakeRefines ==
    ASSUME BrokerInv, NEW a, NEW s \in Sessions, NEW owned, Authorizes(a, s, owned), Bind(a, s),
           UNCHANGED <<world, ids, challenges, pending, receipts, prov, fenced>>
    PROVE  Ledger!LNext
<1>1. /\ a \in DOMAIN records /\ IsActive(a) /\ CrossAdmits(a) /\ records[a].binding = None
      /\ fenced' = fenced
  BY DEF Authorizes
<1>2. a \in Ids /\ taken[a].from # None /\ taken[a].by = None
  BY <1>1, RecordTypes DEF BrokerInv, LedgerFit
<1>3. ~Ended(a)
  <2>1. mono \in Nat /\ records[a].deadline \in Nat
    BY <1>1, RecordTypes DEF BrokerInv, WorldType
  <2>2. ~(mono >= records[a].deadline)
    BY <1>1, <2>1 DEF IsActive, Admits
  <2> QED
    BY <1>1, <2>2 DEF Ended, IsActive, Admits, CrossAdmits
<1>4. fenced \subseteq 1 .. ids.auth
  BY DEF BrokerInv, StoreType
<1>5. /\ DOMAIN records' = DOMAIN records
      /\ \A b \in DOMAIN records : /\ records'[b].deadline = records[b].deadline
                                   /\ records'[b].revoked = records[b].revoked
      /\ taken'[a].by = s /\ taken'[a].from = taken[a].from
      /\ \A b \in Ids : b # a => taken'[b] = taken[b]
  BY <1>1, <1>4, BindStep
<1>6. \A b \in Ids : taken'[b].from = taken[b].from /\ (Ended(b)' <=> Ended(b))
  BY <1>5 DEF Ended, world
<1>7. Over' = Over
  BY <1>6 DEF Over
<1>8. [b \in Ids |-> taken'[b].by] = [[b \in Ids |-> taken[b].by] EXCEPT ![a] = s]
  BY <1>2, <1>5
<1>9. [b \in Ids |-> taken'[b].from] = [b \in Ids |-> taken[b].from]
  BY <1>6
<1>10. Ledger!Take(a, s)
  BY <1>2, <1>3, <1>7, <1>8, <1>9 DEF Ledger!Take, Over
<1> QED
  BY <1>2, <1>10 DEF Ledger!LNext

\* issue_task_authorization: a Take, or nothing the ledger sees but an end.
LEMMA IssueRefines ==
    ASSUME Inv, Inv', Ages, NEW s \in Sessions, NEW g, NEW next, Issue(s, g, next), Untouched
    PROVE  Ledger!LNext
<1>1. CASE Authorizes(g.auth, s, g.owned)
  <2>1. Bind(g.auth, s) /\ UNCHANGED <<world, ids, challenges, pending, receipts, prov>>
    BY <1>1 DEF Issue, Untouched
  <2>2. fenced' = fenced
    BY <1>1 DEF Issue, Authorizes, FencedBy, IsActive
  <2> QED
    BY <1>1, <2>1, <2>2, TakeRefines DEF Inv
<1>2. CASE ~Authorizes(g.auth, s, g.owned)
  <2>1. UNCHANGED taken
    BY <1>2 DEF Issue
  <2> QED
    BY <2>1, EndRefines DEF Inv
<1> QED
  BY <1>1, <1>2

\* register: the number is the decision.
LEMMA RegisterRefines ==
    ASSUME Inv, Inv', Ages, NEW r \in Proposals, NEW e \in Nat, Register(r, e)
    PROVE  Ledger!LNext
<1> PICK a : a = ids.auth + 1
  OBVIOUS
<1>1. /\ BrokerInv /\ BrokerInv' /\ via = "broker" /\ Registered(r, e, a)
      /\ UNCHANGED <<world, prov, fenced>>
  BY DEF Register, Inv
<1>2. CASE Registers(r, e)
  <2>1. a \in Ids /\ a > ids.auth
    BY <1>1, <1>2, Bounds DEF Registers, Ids, BrokerInv, StoreType
  <2>2. \A b \in Ids : taken[b].from # a
    <3>1. taken[a].from = None /\ None # a
      BY <1>1, <2>1, Inputs DEF BrokerInv, LedgerFit
    <3> QED
      BY <1>1, <3>1 DEF BrokerInv, DecisionsFit
  <2> QED
    BY <1>1, <1>2, <2>1, <2>2, GiveRefines
<1>3. CASE ~Registers(r, e)
  BY <1>1, <1>3, NotAcceptedIs, EndRefines
<1> QED
  BY <1>2, <1>3

\* consume: the decision is the challenge, which nobody used before.
LEMMA ConsumeRefines ==
    ASSUME Inv, Inv', Ages, NEW d \in receipts, Consume(d) PROVE Ledger!LNext
<1> DEFINE c == challenges[d.challenge]
           registers == d.allow /\ c.reg.target # "bootstrap"
           kept == {a \in DOMAIN prov : prov[a].expires > wall}
           ok == ClockGood(wall) /\ Acceptable(d)
<1>1. via = "cross" /\ UNCHANGED <<world, fenced>> /\ BrokerInv /\ BrokerInv'
  BY DEF Consume, Inv
<1>2. CASE UNCHANGED taken
  BY <1>1, <1>2, EndRefines
<1>3. CASE ok /\ registers /\ Registers(c.reg, d.expires)
  <2> PICK a : a = ids.auth + 1
    OBVIOUS
  <2> DEFINE v == [born |-> c.born, expires |-> d.expires]
  <2>1. /\ d.challenge \in DOMAIN challenges /\ ~c.consumed /\ c.born = born /\ key = "active"
    BY <1>3 DEF Acceptable
  <2>2. d.challenge \in Ids /\ d.expires \in Nat /\ c.reg \in Proposals /\ c.born \in {0, 1}
    BY <1>1, <2>1 DEF BrokerInv, StoreType, Receipt, Challenge
  <2>3. Registered(c.reg, d.expires, d.challenge) /\ prov' = Add(Only(prov, kept), a, v)
    BY <1>3 DEF Consume
  <2>4. v \in Provenance /\ v.born = born
    BY <2>1, <2>2 DEF Provenance
  <2> HIDE DEF v
  <2>5. a \notin DOMAIN prov
    <3>1. a \notin 1 .. ids.auth
      BY <1>1, Bounds DEF BrokerInv, StoreType
    <3> QED
      BY <1>1, <3>1 DEF BrokerInv, StoreType
  <2>6. /\ DOMAIN prov' \subseteq DOMAIN prov \cup {a} /\ prov'[a] = v
        /\ \A b \in DOMAIN prov' : b # a => prov'[b] = prov[b]
    BY <1>1, <2>3, <2>4, <2>5, NotedIs
  <2>7. \A b \in Ids : taken[b].from # d.challenge
    BY <1>1, <2>1 DEF BrokerInv, DecisionsFit
  <2> QED
    BY <1>1, <1>3, <2>1, <2>2, <2>3, <2>4, <2>6, <2>7, GiveRefines
<1>4. CASE ~(ok /\ registers /\ Registers(c.reg, d.expires))
  <2>1. UNCHANGED taken
    BY <1>4 DEF Consume, Registered
  <2> QED
    BY <1>2, <2>1
<1> QED
  BY <1>3, <1>4

\* Every step of task authorization is a step of the ledger or leaves it alone.
LEMMA LedgerStep == Inv /\ Inv' /\ [Next]_vars => [Ledger!LNext]_(Ledger!lvars)
<1> SUFFICES ASSUME Inv, Inv', [Next]_vars PROVE [Ledger!LNext]_(Ledger!lvars)
  OBVIOUS
<1>1. CASE UNCHANGED vars
  <2>1. UNCHANGED <<taken, fenced, records, mono, via, key, born, prov>>
    BY <1>1 DEF vars, world, verifier
  <2>2. \A a \in Ids : Ended(a)' <=> Ended(a)
    BY <2>1 DEF Ended
  <2>3. Over' = Over
    BY <2>1, <2>2 DEF Over
  <2> QED
    BY <2>1, <2>3 DEF Ledger!lvars, Over
<1>2. CASE Next
  <2>1. Ages
    BY <1>2, InvNext
  <2>2. UNCHANGED taken => Ledger!LNext
    BY <2>1, EndRefines DEF Inv
  <2>3. ASSUME NEW r \in Proposals, NEW e \in Expiries, Register(r, e) PROVE Ledger!LNext
    BY <2>1, <2>3, RegisterRefines, Bounds
  <2>4. ASSUME NEW d \in receipts, Consume(d) PROVE Ledger!LNext
    BY <2>1, <2>4, ConsumeRefines
  <2>5. ASSUME NEW s \in Sessions, NEW g \in Grants[s], Open(s, g) PROVE Ledger!LNext
    <3>1. CASE UNCHANGED taken
      BY <2>2, <3>1
    <3>2. CASE ~UNCHANGED taken
      <4>1. Issue(s, g, [Closed EXCEPT !.st = "starting", !.grant = g]) /\ Untouched
        BY <2>5, <3>2 DEF Open
      <4> QED
        BY <2>1, <4>1, IssueRefines
    <3> QED
      BY <3>1, <3>2
  <2>6. ASSUME NEW s \in Sessions, StartOwned(s) PROVE Ledger!LNext
    <3>1. Issue(s, ses[s].grant, ses[s]) /\ Untouched
      BY <2>6 DEF StartOwned
    <3> QED
      BY <2>1, <3>1, IssueRefines
  <2>7. CASE \/ Tick \/ SetClockBack \/ RevokeKey \/ ReplaceProcess \/ PrepareLocked
             \/ \E d \in Directories : ReplaceDirectory(d)
    BY <2>2, <2>7 DEF Tick, SetClockBack, RevokeKey, ReplaceProcess, ReplaceDirectory, PrepareLocked
  <2>8. ASSUME NEW r \in Proposals, NEW e \in Expiries, PrepareRead(r, e) PROVE Ledger!LNext
    BY <2>2, <2>8 DEF PrepareRead
  <2>9. ASSUME NEW a \in Ids, Revoke(a) PROVE Ledger!LNext
    BY <2>2, <2>9 DEF Revoke
  <2>10. ASSUME NEW c \in Ids, NEW allow \in BOOLEAN, NEW e \in Expiries, Decide(c, allow, e)
         PROVE  Ledger!LNext
    BY <2>2, <2>10 DEF Decide
  <2>11. ASSUME NEW s \in Sessions, Opened(s) \/ StartFails(s) \/ Turn(s) \/ Revalidate(s)
                                     \/ Dispatch(s) \/ StatePoll(s) \/ Stop(s)
         PROVE  Ledger!LNext
    BY <2>2, <2>11 DEF Opened, StartFails, Turn, Revalidate, Dispatch, StatePoll, Stop
  <2>12. ASSUME NEW s \in Sessions, NEW x \in Actions, Submit(s, x) PROVE Ledger!LNext
    BY <2>2, <2>12 DEF Submit
  <2>13. ASSUME NEW s \in Sessions, NEW user \in BOOLEAN, Authorize(s, user) PROVE Ledger!LNext
    BY <2>2, <2>13 DEF Authorize
  <2> QED
    BY <1>2, <2>3, <2>4, <2>5, <2>6, <2>7, <2>8, <2>9, <2>10, <2>11, <2>12, <2>13 DEF Next
<1> QED
  BY <1>1, <1>2

\* Nothing is given, taken or over when the Host starts.
LEMMA LedgerInit == Init => Ledger!LInit
<1> SUFFICES ASSUME Init PROVE Ledger!LInit
  OBVIOUS
<1>1. \A a \in Ids : taken[a].from = None /\ taken[a].by = None
  BY DEF Init
<1>2. Over = {}
  BY <1>1 DEF Over
<1> QED
  BY <1>1, <1>2 DEF Ledger!LInit, Over

\* Broker and verifier implement the ledger for every number of sessions,
\* registrations, challenges and receipts, and however the wall clock is set: a
\* decision is used once, by one session, and never after its end.
THEOREM ImplementsLedgerHolds == Spec => ImplementsLedger
BY LedgerInit, LedgerStep, Invariant, PTL DEF Spec, ImplementsLedger, Ledger!LSpec
=============================================================================
