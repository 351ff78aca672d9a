------------------------ MODULE ExtensionRelay_proofs ------------------------
(***************************************************************************)
(* For every number of tasks, pairings, calls and time limits: a pairing   *)
(* serves one task, a command is dispatched only while its caller waits,   *)
(* and a navigation that has invalidated the document costs the task its   *)
(* provider.                                                               *)
(*                                                                         *)
(* The argument follows a call on its way: it is queued once, taken by the *)
(* worker of its own relay, is with the extension while the worker waits   *)
(* for the port, and is nowhere any more when its answer is there.  So a   *)
(* call that was answered with a clean refusal can no longer run, and one  *)
(* that ended in any other way has taken its provider with it.             *)
(***************************************************************************)
EXTENDS ExtensionRelay, TLAPS

CallRecord == [task : Tasks, method : Methods, prov : Ports, deadline : Nat,
               reply : Codes \cup {None}, snap : Nat]

RelayRecord == [at : {"none", "stop", "ended"} \cup Live, c : Nat, code : Codes \cup {None},
                owner : Tasks \cup {None}]

ExtRecord == [at : {"idle", "message", "tab", "invalidated", "revoked"}, c : Nat]

Observation == [prov : Ports, snap : Nat, at : Nat]

Request == [at : {"idle", "remove", "enqueue", "send", "wait"}, c : Nat, by : Nat]

Made == {c \in Calls : c <= calls}

Types ==
    /\ now \in Nat /\ calls \in Nat /\ pairs \in Nat
    /\ listener \in Tasks \cup {None}
    /\ registry \subseteq Ports
    /\ owner \in [Ports -> Tasks \cup {None}]
    /\ queue \in [Ports -> Seq(Calls)]
    /\ relay \in [Ports -> RelayRecord]
    /\ ext \in [Ports -> ExtRecord]
    /\ req \in Request
    /\ obs \in [Tasks -> {None} \cup Observation]
    /\ call \in [Calls -> {None} \cup CallRecord] /\ \A c \in Made : call[c] \in CallRecord

(***************************************************************************)
(* The inductive invariant.                                                *)
(***************************************************************************)
Queued(p) == {queue[p][i] : i \in DOMAIN queue[p]}

\* The worker has taken the command and not given its answer away yet.
Holds(p, c) == relay[p].at \in {"loop", "written", "reply"} /\ relay[p].c = c

\* The handler of the port works on it.
Handles(p, c) == ext[p].at # "idle" /\ ext[p].c = c

Before == {"none", "discover", "remove"}

\* Every port is connected once, its relay registers once, and its owner stays.
Pairing ==
    /\ begun \subseteq Ports
    /\ \A p \in begun : p <= pairs
    /\ \A p \in Ports : p \in begun \/ p > pairs => relay[p].at = "none"
    /\ \A p \in Ports :
          /\ relay[p].at \in {"none", "discover"} => owner[p] = None
          /\ relay[p].at \in Live \ {"discover"} => owner[p] # None
          /\ p \in registry => owner[p] # None /\ relay[p].at \notin Before

\* A call is made on a provider of its task.
Owned ==
    /\ ran \subseteq Made /\ revoked \subseteq Made
    /\ \A c \in Made :
          /\ owner[call[c].prov] = call[c].task
          /\ relay[call[c].prov].at \notin Before

\* A call is queued at most once, and in one place.
Way ==
    \A p \in Ports :
        /\ \A i, j \in DOMAIN queue[p] : queue[p][i] = queue[p][j] => i = j
        /\ \A c \in Queued(p) : c \in Made /\ call[c].prov = p /\ ~Holds(p, c) /\ ~Handles(p, c)
        /\ \A c \in Nat : Holds(p, c) => c \in Made /\ call[c].prov = p
        /\ \A c \in Nat : Handles(p, c) => c \in Made /\ call[c].prov = p
        /\ ext[p].at # "idle" =>
              \/ relay[p].at = "written" /\ relay[p].c = ext[p].c
              \/ relay[p].at \in {"stop", "ended"}

\* Nobody has the call any more, or not yet.
Nowhere(c) == \A p \in Ports : c \notin Queued(p) /\ ~Holds(p, c) /\ ~Handles(p, c)

\* An answer comes when the call is nowhere any more.
Answered == \A c \in Made : call[c].reply # None => Nowhere(c)

\* A navigation that has invalidated the document is answered with no clean refusal.
Invalidated ==
    /\ \A p \in Ports : ext[p].at \in {"invalidated", "revoked"} => ext[p].c \in revoked
    /\ \A c \in revoked : call[c].method = "navigate" /\ call[c].reply \notin CleanRefusals
    /\ \A p \in Ports, c \in revoked :
          /\ c \notin Queued(p)
          /\ Holds(p, c) => /\ relay[p].at # "loop"
                            /\ relay[p].at = "reply" => relay[p].code \notin CleanRefusals
          /\ Handles(p, c) => ext[p].at \in {"invalidated", "revoked"}

\* A navigation whose call is over took its provider along, or can no longer run.
Over ==
    \A c \in Made :
        call[c].method = "navigate" /\ req.c # c /\ call[c].prov \in registry =>
            Nowhere(c) /\ c \notin revoked

\* The request under way.
InRequest ==
    /\ req.at = "idle" => req.c = 0
    /\ req.c # 0 => req.c \in Made
    /\ req.at \in {"enqueue", "send", "wait"} => req.c # 0
    /\ req.c # 0 /\ req.at \in {"remove", "enqueue", "send"} =>
          Nowhere(req.c) /\ call[req.c].reply = None /\ req.c \notin revoked
    /\ req.at \in {"send", "wait"} =>
          call[req.c].deadline <= req.by /\ call[req.c].deadline <= now + Timeout
    /\ req.at = "send" =>
          req.c \in pending \/ relay[call[req.c].prov].at \in {"stop", "ended"}

\* A command that still may be dispatched is awaited, or its deadline has passed.
Awaited ==
    \A p \in Ports, c \in Made :
        c \in Queued(p) \/ (Holds(p, c) /\ relay[p].at = "loop") =>
            c \in pending \/ call[c].deadline <= now \/ relay[p].at \in {"stop", "ended"}

Inv == Types /\ Pairing /\ Owned /\ Way /\ Answered /\ Invalidated /\ Over /\ InRequest /\ Awaited

(***************************************************************************)
(* Steps of the Host: nothing on its way moves.                            *)
(***************************************************************************)
\* The places of a call, unchanged.
StillPlaces == UNCHANGED <<queue, relay, ext, calls, call>>

\* What is unchanged keeps its place.
LEMMA PlacesStay ==
    ASSUME StillPlaces
    PROVE  /\ Made' = Made
           /\ \A p \in Ports : Queued(p)' = Queued(p)
           /\ \A p \in Ports : \A c : (Holds(p, c)' <=> Holds(p, c)) /\ (Handles(p, c)' <=> Handles(p, c))
           /\ \A c : Nowhere(c)' <=> Nowhere(c)
BY DEF StillPlaces, Made, Queued, Holds, Handles, Nowhere

\* The Host may give up a provider and end a request, if it takes the provider
\* of a navigation along that still can run.
LEMMA HostStep ==
    ASSUME Inv, StillPlaces, UNCHANGED <<ran, revoked, owner>>,
           Types', Pairing', InRequest', registry' \subseteq registry, now' >= now,
           \A c \in Made : call[c].method = "navigate" /\ req.c = c /\ req'.c # c
                              /\ call[c].prov \in registry' => Nowhere(c) /\ c \notin revoked,
           \A c \in pending \ pending' : c \in Made => call[c].deadline <= now' \/ Nowhere(c)
    PROVE  Inv'
<1>1. /\ Types /\ Pairing /\ Owned /\ Way /\ Answered /\ Invalidated /\ Over /\ InRequest /\ Awaited
      /\ UNCHANGED <<queue, relay, ext, calls, call, ran, revoked, owner>>
  BY DEF Inv, StillPlaces
<1>2. /\ Made' = Made /\ \A p \in Ports : Queued(p)' = Queued(p)
      /\ \A c : Nowhere(c)' <=> Nowhere(c)
  BY PlacesStay
<1>3. Owned'
  BY <1>1, <1>2 DEF Owned
<1>4. Way'
  BY <1>1, <1>2 DEF Way, Holds, Handles
<1>5. Answered'
  BY <1>1, <1>2 DEF Answered
<1>6. Invalidated'
  BY <1>1, <1>2 DEF Invalidated, Holds, Handles, Queued
<1>7. Over'
  BY <1>1, <1>2 DEF Over
<1>8. Awaited'
  <2> SUFFICES ASSUME NEW p \in Ports, NEW c \in Made,
                      c \in Queued(p) \/ (Holds(p, c) /\ relay[p].at = "loop")
               PROVE  c \in pending' \/ call[c].deadline <= now' \/ relay[p].at \in {"stop", "ended"}
    BY <1>1, <1>2 DEF Awaited, Holds
  <2>1. ~Nowhere(c) /\ call[c].prov \in Ports /\ call[c].deadline \in Nat
    BY <1>1 DEF Nowhere, Way, Types, CallRecord, Made, Calls
  <2>2. now \in Nat /\ now' \in Nat
    BY <1>1 DEF Types
  <2> QED
    BY <1>1, <2>1, <2>2 DEF Awaited
<1> QED
  BY <1>1, <1>3, <1>4, <1>5, <1>6, <1>7, <1>8 DEF Inv

\* Steps that change nothing the invariant speaks of, but for the clock, the
\* listener, an observation that is dropped, and what the background script
\* keeps for itself.
LEMMA QuietStep ==
    ASSUME Inv, \/ Tick \/ Load \/ ClearIfTab
                \/ \E t \in Tasks : StartListener(t) \/ StopListener(t) \/ CallRefused(t)
                \/ \E p \in Ports : PortFails(p) \/ ClearFailed(p)
    PROVE  Inv'
<1>1. /\ StillPlaces /\ UNCHANGED <<ran, revoked, owner, pairs, begun, registry, pending, req>>
      /\ now' = now \/ now' = now + 1
      /\ listener' \in Tasks \cup {None}
      /\ obs' = obs \/ \E t \in Tasks : obs' = [obs EXCEPT ![t] = None]
  BY DEF Inv, Types, Tick, Load, ClearIfTab, StartListener, StopListener, CallRefused, PortFails,
         ClearFailed, StillPlaces, host, background, history
<1>2. Types'
  <2>1. obs' \in [Tasks -> {None} \cup Observation]
    BY <1>1 DEF Inv, Types
  <2>2. now' \in Nat
    BY <1>1 DEF Inv, Types
  <2> QED
    BY <1>1, <2>1, <2>2 DEF Inv, Types, StillPlaces, Made
<1>3. Pairing'
  BY <1>1 DEF Inv, Pairing, StillPlaces
<1>4. InRequest'
  <2>1. req.at \in {"send", "wait"} => call[req.c].deadline <= now' + Timeout
    <3> SUFFICES ASSUME req.at \in {"send", "wait"} PROVE call[req.c].deadline <= now' + Timeout
      OBVIOUS
    <3>1. call[req.c] \in CallRecord /\ call[req.c].deadline <= now + Timeout
      BY DEF Inv, InRequest, Types
    <3>2. call[req.c].deadline \in Nat /\ Timeout \in Nat /\ now \in Nat
      BY <3>1, Bounds DEF CallRecord, Inv, Types
    <3> QED
      BY <1>1, <3>1, <3>2
  <2> QED
    BY <1>1, <2>1, PlacesStay DEF Inv, InRequest, StillPlaces
<1>5. now' >= now
  BY <1>1 DEF Inv, Types
<1> QED
  BY <1>1, <1>2, <1>3, <1>4, <1>5, HostStep

\* A status request prunes, and a registration or a call that prunes goes on.
LEMMA PruneStep == ASSUME Inv, Status \/ PruneRemove PROVE Inv'
<1>1. /\ StillPlaces /\ UNCHANGED <<ran, revoked, owner, pairs, begun, pending, now, listener, obs>>
      /\ registry' \subseteq registry
  BY DEF Status, PruneRemove, StillPlaces, background, history
<1>2. /\ req' \in Request /\ req'.c = req.c
      /\ req'.at \in {"idle", "remove", "enqueue"}
      /\ req'.at = "idle" => req'.c = 0
      /\ req'.at = "enqueue" => req.at = "remove" /\ req.c # 0
      /\ req'.at = "remove" => req'.c = 0
  <2>1. req \in Request /\ (req.at = "idle" => req.c = 0)
    BY DEF Inv, Types, InRequest
  <2>2. CASE Status
    BY <2>1, <2>2 DEF Status, Request
  <2>3. CASE PruneRemove
    <3>1. req' = [req EXCEPT !.at = IF req.c = 0 THEN "idle" ELSE "enqueue"] /\ req.at = "remove"
      BY <2>3 DEF PruneRemove
    <3> QED
      BY <2>1, <3>1 DEF Request
  <2> QED
    BY <2>2, <2>3
<1>3. Types'
  BY <1>1, <1>2 DEF Inv, Types, StillPlaces, Made
<1>4. Pairing'
  BY <1>1 DEF Inv, Pairing, StillPlaces
<1>5. InRequest'
  BY <1>1, <1>2, PlacesStay DEF Inv, InRequest, StillPlaces
<1>6. now' >= now
  BY <1>1 DEF Inv, Types
<1> QED
  BY <1>1, <1>2, <1>3, <1>4, <1>5, <1>6, HostStep

\* A new nonce goes to the page.
LEMMA PairBeginStep == ASSUME Inv, PairBegin PROVE Inv'
<1>1. /\ StillPlaces /\ UNCHANGED <<ran, revoked, owner, registry, pending, req, now, listener, obs>>
      /\ pairs < MaxPairs /\ pairs' = pairs + 1 /\ begun' = begun \cup {pairs + 1}
  BY DEF PairBegin, StillPlaces, host, history
<1>2. Types'
  BY <1>1 DEF Inv, Types, StillPlaces, Made
<1>3. Pairing'
  <2>1. pairs \in Nat /\ MaxPairs \in Nat /\ pairs + 1 \in Ports /\ begun \subseteq Ports
    BY <1>1, Bounds DEF Inv, Types, Ports, Pairing
  <2>2. \A p \in Ports : p \in Nat
    BY <2>1 DEF Ports
  <2>3. /\ begun' \subseteq Ports /\ \A p \in begun' : p <= pairs'
    BY <1>1, <2>1, <2>2 DEF Inv, Pairing
  <2>4. \A p \in Ports : p \in begun' \/ p > pairs' => p \in begun \/ p > pairs
    BY <1>1, <2>1, <2>2
  <2> QED
    BY <1>1, <2>3, <2>4 DEF Inv, Pairing, StillPlaces
<1>4. InRequest'
  BY <1>1, PlacesStay DEF Inv, InRequest, StillPlaces
<1>5. now' >= now
  BY <1>1 DEF Inv, Types
<1> QED
  BY <1>1, <1>2, <1>3, <1>4, <1>5, HostStep

\* A call ends: with an answer that came when the call was nowhere any more, or
\* with an error of its own that is no clean refusal.
LEMMA CallEndsStep ==
    ASSUME Inv, NEW code, CallEnds(code), StillPlaces, req.c \in Made,
           UNCHANGED <<ran, revoked, owner, pairs, begun, now, listener>>,
           code \in CleanRefusals => Nowhere(req.c) /\ req.c \notin revoked,
           \/ req.c \notin pending \/ call[req.c].deadline <= now \/ Nowhere(req.c)
    PROVE  Inv'
<1> DEFINE c == req.c
           r == call[c]
<1>1. /\ registry' = IF r.method = "navigate" /\ code \notin CleanRefusals
                     THEN registry \ {r.prov} ELSE registry
      /\ obs' = [obs EXCEPT ![r.task] = IF r.method = "snapshot" /\ code = "ok"
                                        THEN [prov |-> r.prov, snap |-> c, at |-> now] ELSE None]
      /\ pending' = pending \ {c} /\ req' = Idle
  BY DEF CallEnds
<1>2. /\ r \in CallRecord /\ c \in Nat /\ now \in Nat /\ obs \in [Tasks -> {None} \cup Observation]
  BY DEF Inv, Types, Made, Calls
<1>3. req' \in Request /\ req'.c = 0 /\ req'.at = "idle"
  BY <1>1 DEF Idle, Request
<1>4. obs' \in [Tasks -> {None} \cup Observation]
  <2>1. r.prov \in Ports /\ r.task \in Tasks
    BY <1>2 DEF CallRecord
  <2>2. [prov |-> r.prov, snap |-> c, at |-> now] \in Observation
    BY <1>2, <2>1 DEF Observation
  <2> HIDE DEF r, c
  <2>3. PICK o \in {None} \cup Observation : obs' = [obs EXCEPT ![r.task] = o]
    BY <1>1, <2>2
  <2> QED
    BY <1>2, <2>3
<1> HIDE DEF r
<1>5. registry' \subseteq registry /\ (r.method = "navigate" /\ r.prov \in registry' => code \in CleanRefusals)
  BY <1>1
<1>6. Types'
  BY <1>3, <1>4, <1>5 DEF Inv, Types, StillPlaces, Made
<1>7. Pairing'
  BY <1>5 DEF Inv, Pairing, StillPlaces
<1>8. InRequest'
  BY <1>3 DEF InRequest
<1>9. now' >= now
  BY <1>2
<1> QED
  BY <1>1, <1>3, <1>5, <1>6, <1>7, <1>8, <1>9, HostStep DEF r

\* The call times out, or its answer has come or was dropped.
LEMMA CallOverStep == ASSUME Inv, CallTimesOut \/ CallAnswered PROVE Inv'
<1>1. /\ StillPlaces /\ UNCHANGED <<ran, revoked, owner, pairs, begun, now, listener>>
      /\ req.at \in {"send", "wait"}
  BY DEF CallTimesOut, CallAnswered, StillPlaces, background, history
<1>2. /\ req.c \in Made /\ call[req.c].deadline <= req.by /\ call[req.c] \in CallRecord
      /\ now \in Nat /\ req.by \in Nat
  BY <1>1 DEF Inv, InRequest, Types, Request
<1>3. call[req.c].deadline \in Nat
  BY <1>2 DEF CallRecord
<1>4. CASE CallTimesOut
  <2>1. CallEnds("timed_out") /\ now >= req.by
    BY <1>4 DEF CallTimesOut
  <2>2. call[req.c].deadline <= now
    BY <1>2, <1>3, <2>1
  <2>3. "timed_out" \notin CleanRefusals
    BY DEF CleanRefusals
  <2> QED
    BY <1>1, <1>2, <2>1, <2>2, <2>3, CallEndsStep
<1>5. CASE CallAnswered
  <2>1. CASE call[req.c].reply # None /\ CallEnds(call[req.c].reply)
    <3>1. Nowhere(req.c)
      BY <1>2, <2>1 DEF Inv, Answered
    <3>2. call[req.c].reply \in CleanRefusals => req.c \notin revoked
      BY <1>2 DEF Inv, Invalidated
    <3> QED
      BY <1>1, <1>2, <2>1, <3>1, <3>2, CallEndsStep
  <2>2. CASE req.c \notin pending /\ CallEnds("dropped")
    <3>1. "dropped" \notin CleanRefusals
      BY DEF CleanRefusals
    <3> QED
      BY <1>1, <1>2, <2>2, <3>1, CallEndsStep
  <2> QED
    BY <1>5, <2>1, <2>2 DEF CallAnswered
<1> QED
  BY <1>4, <1>5

(***************************************************************************)
(* A call is made and queued.                                              *)
(***************************************************************************)
\* A call is made on a provider that belongs to its task already.
LEMMA CallBeginStep ==
    ASSUME Inv, NEW t \in Tasks, NEW p \in Ports, NEW m \in Methods, CallBegin(t, p, m)
    PROVE  Inv'
<1> DEFINE r == [task |-> t, method |-> m, prov |-> p, deadline |-> 0, reply |-> None,
                 snap |-> IF m = "snapshot" THEN 0 ELSE obs[t].snap]
<1>0. PICK n : n = calls + 1
  OBVIOUS
<1>1. /\ req.at = "idle" /\ calls < MaxCalls /\ p \in registry /\ owner[p] \in {None, t}
      /\ Granted(t, p, m) /\ calls' = n
      /\ owner' = [owner EXCEPT ![p] = IF @ = None THEN t ELSE @]
      /\ call' = [call EXCEPT ![n] = r] /\ obs' = [obs EXCEPT ![t] = None]
      /\ req' = [at |-> "remove", c |-> n, by |-> 0]
      /\ UNCHANGED <<now, listener, registry, queue, pending, relay, pairs, begun, ext, ran, revoked>>
  BY <1>0 DEF CallBegin, Claims, background, history
<1>2. /\ Types /\ Pairing /\ Owned /\ Way /\ Answered /\ Invalidated /\ Over /\ InRequest /\ Awaited
      /\ calls \in Nat /\ MaxCalls \in Nat
  BY Bounds DEF Inv, Types
<1>3. owner[p] = t /\ owner' = owner /\ relay[p].at \notin Before
  <2>1. owner[p] = t /\ relay[p].at \notin Before /\ owner \in [Ports -> Tasks \cup {None}]
    BY <1>1, <1>2 DEF Pairing, Types
  <2> QED
    BY <1>1, <2>1
<1>4. r \in CallRecord /\ r.task = t /\ r.method = m /\ r.prov = p /\ r.reply = None /\ r.deadline = 0
  <2>1. (IF m = "snapshot" THEN 0 ELSE obs[t].snap) \in Nat
    BY <1>1, <1>2 DEF Granted, Observed, Types, Observation, Methods
  <2> QED
    BY <2>1 DEF CallRecord
<1> HIDE DEF r
<1>5. /\ n \in Calls /\ n \notin Made /\ Made' = Made \cup {n} /\ n # 0 /\ n \in Nat
  BY <1>0, <1>1, <1>2 DEF Made, Calls
<1>6. DOMAIN call' = Calls /\ call'[n] = r /\ \A c \in Made : call'[c] = call[c]
  BY <1>1, <1>2, <1>5 DEF Types, Made
<1>7. /\ \A q \in Ports : Queued(q)' = Queued(q)
      /\ \A q \in Ports, c \in Nat : (Holds(q, c)' <=> Holds(q, c)) /\ (Handles(q, c)' <=> Handles(q, c))
  BY <1>1 DEF Queued, Holds, Handles
<1>8. \A q \in Ports : n \notin Queued(q) /\ ~Holds(q, n) /\ ~Handles(q, n)
  BY <1>2, <1>5 DEF Way
<1>9. \A c \in Made : c \in Nat /\ call[c].prov \in Ports
  BY <1>2 DEF Types, CallRecord, Made, Calls
<1>10. Nowhere(n)' /\ \A c \in Made : Nowhere(c)' <=> Nowhere(c)
  BY <1>4, <1>5, <1>6, <1>7, <1>8, <1>9 DEF Nowhere
<1>11. Types'
  <2>1. obs' \in [Tasks -> {None} \cup Observation] /\ req' \in Request
    BY <1>1, <1>2, <1>5 DEF Types, Request
  <2>2. \A c \in Made' : call'[c] \in CallRecord
    BY <1>2, <1>4, <1>5, <1>6 DEF Types
  <2> QED
    BY <1>1, <1>2, <1>3, <1>5, <1>6, <2>1, <2>2 DEF Types
<1>12. Pairing'
  BY <1>1, <1>2, <1>3 DEF Pairing
<1>13. Owned'
  BY <1>1, <1>2, <1>3, <1>4, <1>5, <1>6 DEF Owned
<1>14. Way'
  BY <1>1, <1>2, <1>5, <1>6, <1>7, <1>8 DEF Way, Made, Calls
<1>15. Answered'
  BY <1>2, <1>4, <1>5, <1>6, <1>10 DEF Answered
<1>16. Invalidated'
  <2>1. revoked \subseteq Made
    BY <1>2 DEF Owned
  <2> QED
    BY <1>1, <1>2, <1>6, <1>7, <1>9, <2>1 DEF Invalidated
<1>17. Over'
  <2>1. req'.c = n /\ req.c = 0 /\ 0 \notin Made
    BY <1>1, <1>2 DEF InRequest, Made, Calls
  <2> QED
    BY <1>1, <1>2, <1>5, <1>6, <1>10, <2>1 DEF Over
<1>18. InRequest'
  <2>1. req'.c = n /\ req'.at = "remove" /\ n \notin revoked
    BY <1>1, <1>2, <1>5 DEF Owned
  <2> QED
    BY <1>1, <1>4, <1>5, <1>6, <1>10, <2>1 DEF InRequest
<1>19. Awaited'
  BY <1>1, <1>2, <1>5, <1>6, <1>7, <1>8, <1>9 DEF Awaited
<1> QED
  BY <1>11, <1>12, <1>13, <1>14, <1>15, <1>16, <1>17, <1>18, <1>19 DEF Inv

\* A command is put behind the others in the queue of its provider.
LEMMA Appended ==
    ASSUME NEW q \in Seq(Calls), NEW c \in Calls
    PROVE  /\ Append(q, c) \in Seq(Calls)
           /\ {Append(q, c)[i] : i \in DOMAIN Append(q, c)} = {q[i] : i \in DOMAIN q} \cup {c}
           /\ (c \notin {q[i] : i \in DOMAIN q} /\ \A i, j \in DOMAIN q : q[i] = q[j] => i = j) =>
                 \A i, j \in DOMAIN Append(q, c) : Append(q, c)[i] = Append(q, c)[j] => i = j
<1> DEFINE a == Append(q, c)
<1>1. /\ Len(q) \in Nat /\ DOMAIN q = 1 .. Len(q) /\ a \in Seq(Calls) /\ DOMAIN a = 1 .. Len(q) + 1
  OBVIOUS
<1>2. \A i \in 1 .. Len(q) : a[i] = q[i]
  BY <1>1
<1>3. a[Len(q) + 1] = c
  BY <1>1
<1> HIDE DEF a
<1>4. \A i \in DOMAIN a : i \in DOMAIN q \/ i = Len(q) + 1
  BY <1>1
<1>5. {a[i] : i \in DOMAIN a} = {q[i] : i \in DOMAIN q} \cup {c}
  <2>1. {a[i] : i \in DOMAIN a} \subseteq {q[i] : i \in DOMAIN q} \cup {c}
    BY <1>1, <1>2, <1>3, <1>4
  <2>2. {q[i] : i \in DOMAIN q} \subseteq {a[i] : i \in DOMAIN a}
    BY <1>1, <1>2
  <2>3. Len(q) + 1 \in DOMAIN a
    BY <1>1
  <2>4. c \in {a[i] : i \in DOMAIN a}
    BY <1>3, <2>3
  <2> QED
    BY <2>1, <2>2, <2>4
<1>6. ASSUME c \notin {q[i] : i \in DOMAIN q}, \A i, j \in DOMAIN q : q[i] = q[j] => i = j,
             NEW i \in DOMAIN a, NEW j \in DOMAIN a, a[i] = a[j]
      PROVE  i = j
  BY <1>1, <1>2, <1>3, <1>4, <1>6
<1> QED
  BY <1>1, <1>5, <1>6 DEF a

\* The call of the request waits for room in the queue, or enters it.
Enqueues ==
    \/ queue' = queue /\ req'.at = "send"
    \/ /\ queue' = [queue EXCEPT ![call[req.c].prov] = Append(@, req.c)]
       /\ req'.at = "wait"

\* The call enters the queue of its provider, or waits for room in it.
LEMMA QueueStep ==
    ASSUME Inv, req.c \in Made, req.at \in {"enqueue", "send"},
           UNCHANGED <<now, calls, listener, registry, owner, relay, ext, obs, pairs, begun, ran, revoked>>,
           NEW d \in Nat, call' = [call EXCEPT ![req.c].deadline = d],
           pending \subseteq pending',
           req.c \in pending' \/ relay[call[req.c].prov].at \in {"stop", "ended"},
           Enqueues,
           req' \in Request, req'.c = req.c, d <= req'.by, d <= now + Timeout
    PROVE  Inv'
<1>0. PICK n, p : n = req.c /\ p = call[n].prov
  OBVIOUS
<1>1. /\ Types /\ Pairing /\ Owned /\ Way /\ Answered /\ Invalidated /\ Over /\ InRequest /\ Awaited
      /\ n \in Calls /\ n \in Made /\ n # 0 /\ n \in Nat
  BY <1>0 DEF Inv, Types, Made, Calls
<1>2. /\ n \notin Queued(p) /\ ~Holds(p, n) /\ ~Handles(p, n) /\ call[n].reply = None /\ n \notin revoked
  <2>1. p \in Ports /\ Nowhere(n) /\ call[n].reply = None /\ n \notin revoked
    BY <1>0, <1>1 DEF InRequest, Types, CallRecord
  <2> QED
    BY <2>1 DEF Nowhere
<1>3. /\ call[n] \in CallRecord /\ p \in Ports /\ Made' = Made
      /\ \A c \in Made : c \in Nat /\ call[c].prov \in Ports
  BY <1>0, <1>1 DEF Types, CallRecord, Made, Calls
<1>4. /\ DOMAIN call' = Calls /\ \A c \in Calls : c # n => call'[c] = call[c]
      /\ call'[n] = [call[n] EXCEPT !.deadline = d]
  BY <1>0, <1>1 DEF Types
<1>5. /\ call'[n] \in CallRecord /\ call'[n].prov = p /\ call'[n].task = call[n].task
      /\ call'[n].method = call[n].method /\ call'[n].reply = call[n].reply /\ call'[n].deadline = d
  BY <1>0, <1>3, <1>4 DEF CallRecord
<1>6. \A c \in Made : /\ call'[c].prov = call[c].prov /\ call'[c].task = call[c].task
                      /\ call'[c].method = call[c].method /\ call'[c].reply = call[c].reply
  BY <1>4, <1>5 DEF Made
<1>7. /\ queue' \in [Ports -> Seq(Calls)]
      /\ \A q \in Ports : q # p => queue'[q] = queue[q]
      /\ queue'[p] = queue[p] \/ (queue'[p] = Append(queue[p], n) /\ req'.at = "wait")
  <2> DEFINE a == Append(queue[p], n)
  <2>1. queue \in [Ports -> Seq(Calls)] /\ queue[p] \in Seq(Calls)
    BY <1>1, <1>3 DEF Types
  <2>2. a \in Seq(Calls)
    BY <1>1, <2>1, Appended
  <2>3. \/ queue' = queue
        \/ queue' = [queue EXCEPT ![p] = a] /\ req'.at = "wait"
    BY <1>0 DEF Enqueues
  <2> HIDE DEF a
  <2>4. /\ queue' \in [Ports -> Seq(Calls)]
        /\ \A q \in Ports : q # p => queue'[q] = queue[q]
        /\ queue'[p] = queue[p] \/ (queue'[p] = a /\ req'.at = "wait")
    BY <1>3, <2>1, <2>2, <2>3
  <2> QED
    BY <2>4 DEF a
<1>8. /\ \A q \in Ports : q # p => Queued(q)' = Queued(q)
      /\ Queued(p)' \in {Queued(p), Queued(p) \cup {n}}
      /\ req'.at = "send" => Queued(p)' = Queued(p)
      /\ \A i, j \in DOMAIN queue'[p] : queue'[p][i] = queue'[p][j] => i = j
  <2>1. queue[p] \in Seq(Calls) /\ \A i, j \in DOMAIN queue[p] : queue[p][i] = queue[p][j] => i = j
    BY <1>1, <1>3 DEF Types, Way
  <2>4. \A q \in Ports : q # p => Queued(q)' = Queued(q)
    BY <1>7 DEF Queued
  <2>2. CASE queue'[p] = queue[p]
    BY <1>7, <2>1, <2>2, <2>4 DEF Queued
  <2>3. CASE queue'[p] = Append(queue[p], n) /\ req'.at = "wait"
    <3>1. {queue[p][i] : i \in DOMAIN queue[p]} = Queued(p)
      BY DEF Queued
    <3>2. /\ {queue'[p][i] : i \in DOMAIN queue'[p]} = Queued(p) \cup {n}
          /\ \A i, j \in DOMAIN queue'[p] : queue'[p][i] = queue'[p][j] => i = j
      <4> DEFINE a == Append(queue[p], n)
      <4>1. /\ {a[i] : i \in DOMAIN a} = {queue[p][i] : i \in DOMAIN queue[p]} \cup {n}
            /\ (n \notin {queue[p][i] : i \in DOMAIN queue[p]}
                  /\ \A i, j \in DOMAIN queue[p] : queue[p][i] = queue[p][j] => i = j) =>
                     \A i, j \in DOMAIN a : a[i] = a[j] => i = j
        BY <1>1, <2>1, Appended
      <4>2. queue'[p] = a
        BY <2>3
      <4> HIDE DEF a
      <4>3. \A i, j \in DOMAIN a : a[i] = a[j] => i = j
        BY <1>2, <2>1, <3>1, <4>1
      <4>4. {a[i] : i \in DOMAIN a} = Queued(p) \cup {n}
        BY <3>1, <4>1
      <4> QED
        BY <4>2, <4>3, <4>4
    <3>3. Queued(p)' = Queued(p) \cup {n}
      BY <3>2 DEF Queued
    <3> QED
      BY <2>3, <2>4, <3>2, <3>3
  <2> QED
    BY <1>7, <2>2, <2>3
<1>9. \A q \in Ports, c \in Nat : (Holds(q, c)' <=> Holds(q, c)) /\ (Handles(q, c)' <=> Handles(q, c))
  BY DEF Holds, Handles
<1>10. \A c \in Made : (c # n \/ req'.at = "send") => (Nowhere(c)' <=> Nowhere(c))
  <2> SUFFICES ASSUME NEW c \in Made, c # n \/ req'.at = "send", NEW q \in Ports
               PROVE  /\ c \in Queued(q)' <=> c \in Queued(q)
                      /\ Holds(q, c)' <=> Holds(q, c)
                      /\ Handles(q, c)' <=> Handles(q, c)
    BY DEF Nowhere
  <2>1. c \in Nat
    BY <1>3
  <2>2. c \in Queued(q)' <=> c \in Queued(q)
    BY <1>8, <2>1
  <2> QED
    BY <1>9, <2>1, <2>2
<1>11. Types'
  <2>1. \A c \in Made : call'[c] \in CallRecord
    BY <1>1, <1>4, <1>5 DEF Types, Made
  <2> QED
    BY <1>1, <1>3, <1>4, <1>7, <2>1 DEF Types
<1>12. Pairing'
  BY <1>1 DEF Pairing
<1>13. Owned'
  BY <1>1, <1>3, <1>6 DEF Owned
<1>14. Way'
  <2> SUFFICES ASSUME NEW q \in Ports
               PROVE  /\ \A i, j \in DOMAIN queue'[q] : queue'[q][i] = queue'[q][j] => i = j
                      /\ \A c \in Queued(q)' : /\ c \in Made' /\ call'[c].prov = q
                                               /\ ~Holds(q, c)' /\ ~Handles(q, c)'
                      /\ \A c \in Nat : Holds(q, c)' => c \in Made' /\ call'[c].prov = q
                      /\ \A c \in Nat : Handles(q, c)' => c \in Made' /\ call'[c].prov = q
                      /\ ext'[q].at # "idle" =>
                            \/ relay'[q].at = "written" /\ relay'[q].c = ext'[q].c
                            \/ relay'[q].at \in {"stop", "ended"}
    BY DEF Way
  <2>1. \A i, j \in DOMAIN queue'[q] : queue'[q][i] = queue'[q][j] => i = j
    <3>1. CASE q = p
      BY <1>8, <3>1
    <3>2. CASE q # p
      <4>1. queue'[q] = queue[q]
        BY <1>7, <3>2
      <4>2. \A i, j \in DOMAIN queue[q] : queue[q][i] = queue[q][j] => i = j
        BY <1>1 DEF Way
      <4> QED
        BY <4>1, <4>2
    <3> QED
      BY <3>1, <3>2
  <2>2. ASSUME NEW c \in Queued(q)'
        PROVE  c \in Made /\ call'[c].prov = q /\ ~Holds(q, c)' /\ ~Handles(q, c)'
    <3>1. CASE c \in Queued(q)
      BY <1>1, <1>3, <1>6, <1>9, <3>1 DEF Way
    <3>2. CASE c = n /\ q = p
      BY <1>1, <1>2, <1>5, <1>9, <3>2
    <3> QED
      BY <1>8, <2>2, <3>1, <3>2
  <2>3. \A c \in Nat : Holds(q, c)' => c \in Made' /\ call'[c].prov = q
    BY <1>1, <1>3, <1>6, <1>9 DEF Way
  <2>4. \A c \in Nat : Handles(q, c)' => c \in Made' /\ call'[c].prov = q
    BY <1>1, <1>3, <1>6, <1>9 DEF Way
  <2> QED
    BY <1>1, <1>3, <2>1, <2>2, <2>3, <2>4 DEF Way
<1>15. Answered'
  BY <1>1, <1>2, <1>3, <1>6, <1>10 DEF Answered
<1>16. Invalidated'
  <2>1. revoked \subseteq Made
    BY <1>1 DEF Owned
  <2>2. \A q \in Ports, c \in revoked : c \notin Queued(q)'
    BY <1>1, <1>2, <1>8 DEF Invalidated
  <2>3. \A c \in revoked : c \in Nat /\ call'[c].method = call[c].method /\ call'[c].reply = call[c].reply
    BY <1>3, <1>6, <2>1
  <2> QED
    BY <1>1, <1>9, <2>2, <2>3 DEF Invalidated
<1>17. Over'
  BY <1>0, <1>1, <1>3, <1>6, <1>10 DEF Over
<1>18. InRequest'
  <2>1. req'.at \in {"send", "wait"}
    BY DEF Enqueues
  <2>2. req'.c = n /\ n # 0 /\ n \in Made'
    BY <1>0, <1>1, <1>3
  <2>3. req'.at = "send" => Nowhere(n)' /\ call'[n].reply = None /\ n \notin revoked'
    BY <1>0, <1>1, <1>2, <1>5, <1>10 DEF InRequest
  <2>4. call'[n].deadline <= req'.by /\ call'[n].deadline <= now' + Timeout
    BY <1>5
  <2>5. n \in pending' \/ relay'[call'[n].prov].at \in {"stop", "ended"}
    BY <1>0, <1>5
  <2>6. /\ Nowhere(n)' = Nowhere(req.c)'
    BY <1>0 DEF Nowhere
  <2> QED
    BY <1>0, <2>1, <2>2, <2>3, <2>4, <2>5, <2>6 DEF InRequest
<1>19. Awaited'
  <2> SUFFICES ASSUME NEW q \in Ports, NEW c \in Made,
                      c \in Queued(q)' \/ (Holds(q, c) /\ relay[q].at = "loop")
               PROVE  c \in pending' \/ call'[c].deadline <= now \/ relay[q].at \in {"stop", "ended"}
    BY <1>3, <1>9 DEF Awaited
  <2>1. CASE c = n
    <3>1. q = p
      BY <1>1, <1>2, <1>3, <1>5, <1>8, <2>1 DEF Way
    <3> QED
      BY <1>0, <2>1, <3>1
  <2>2. CASE c # n
    <3>1. call'[c] = call[c] /\ (c \in Queued(q)' => c \in Queued(q))
      BY <1>4, <1>8, <2>2 DEF Made
    <3> QED
      BY <1>1, <3>1 DEF Awaited
  <2> QED
    BY <2>1, <2>2
<1> QED
  BY <1>11, <1>12, <1>13, <1>14, <1>15, <1>16, <1>17, <1>18, <1>19 DEF Inv

\* The call is queued, waits for room, or finds its provider gone.
LEMMA EnqueueStep == ASSUME Inv, Enqueue \/ Send PROVE Inv'
<1>1. /\ UNCHANGED <<now, calls, listener, owner, relay, ext, pairs, begun, ran, revoked>>
      /\ req.at \in {"enqueue", "send"}
  BY DEF Enqueue, Send, background, history
<1>2. /\ req.c \in Made /\ req \in Request /\ call[req.c] \in CallRecord
      /\ now \in Nat /\ Timeout \in Nat /\ now + Timeout \in Nat /\ DOMAIN call = Calls
  BY <1>1, Bounds DEF Inv, InRequest, Types
<1>3. CASE Enqueue
  <2> DEFINE p == call[req.c].prov
             room == Len(queue[p]) < Capacity
  <2>1. CASE /\ p \in registry
             /\ pending' = pending \cup {req.c}
             /\ call' = [call EXCEPT ![req.c].deadline = Deadline]
             /\ queue' = IF room THEN [queue EXCEPT ![p] = Append(@, req.c)] ELSE queue
             /\ req' = [req EXCEPT !.at = IF room THEN "wait" ELSE "send", !.by = now + Timeout]
             /\ UNCHANGED <<registry, obs>>
    <3>1. PICK d \in Nat : d = now + Timeout
      BY <1>2
    <3>2. call' = [call EXCEPT ![req.c].deadline = d]
      BY <2>1, <3>1 DEF Deadline
    <3>3. PICK at \in {"wait", "send"} : /\ at = IF room THEN "wait" ELSE "send"
                                         /\ req' = [req EXCEPT !.at = at, !.by = d]
      BY <2>1, <3>1
    <3>4. req' \in Request /\ req'.c = req.c /\ req'.at = at /\ req'.by = d
      BY <1>2, <3>3 DEF Request
    <3>5. \/ queue' = queue /\ req'.at = "send"
          \/ queue' = [queue EXCEPT ![p] = Append(@, req.c)] /\ req'.at = "wait"
      BY <2>1, <3>3, <3>4
    <3>6. d <= req'.by /\ d <= now + Timeout
      BY <3>1, <3>4
    <3> QED
      BY <1>1, <1>2, <2>1, <3>2, <3>4, <3>5, <3>6, QueueStep DEF Enqueues
  <2>2. CASE p \notin registry /\ CallEnds("provider_not_found") /\ UNCHANGED <<call, queue>>
    <3>1. StillPlaces /\ Nowhere(req.c) /\ req.c \notin revoked
      BY <1>1, <1>2, <2>2 DEF StillPlaces, Inv, InRequest
    <3> QED
      BY <1>1, <1>2, <2>2, <3>1, CallEndsStep
  <2> QED
    BY <1>3, <2>1, <2>2 DEF Enqueue
<1>4. CASE Send
  <2>1. /\ queue' = [queue EXCEPT ![call[req.c].prov] = Append(@, req.c)]
        /\ req' = [req EXCEPT !.at = "wait", !.by = now + Timeout] /\ req.at = "send"
        /\ UNCHANGED <<registry, pending, call, obs>>
    BY <1>4 DEF Send
  <2>2. req' \in Request /\ req'.c = req.c /\ req'.at = "wait" /\ req'.by = now + Timeout
    BY <1>2, <2>1 DEF Request
  <2>3. PICK d \in Nat : d = call[req.c].deadline
    BY <1>2 DEF CallRecord
  <2>4. d <= now + Timeout /\ (req.c \in pending \/ relay[call[req.c].prov].at \in {"stop", "ended"})
    BY <2>1, <2>3 DEF Inv, InRequest
  <2>5. [call[req.c] EXCEPT !.deadline = d] = call[req.c]
    BY <1>2, <2>3 DEF CallRecord
  <2>6. call' = [call EXCEPT ![req.c].deadline = d]
    <3>1. call \in [Calls -> {None} \cup CallRecord] /\ req.c \in Calls
      BY <1>2 DEF Inv, Types, Made
    <3> QED
      BY <2>1, <2>5, <3>1
  <2> QED
    BY <1>1, <1>2, <2>1, <2>2, <2>4, <2>6, QueueStep DEF Enqueues
<1> QED
  BY <1>3, <1>4


(***************************************************************************)
(* Steps of a relay process.                                               *)
(***************************************************************************)
\* The worker lets go of a command, or answers one in place of the extension; it
\* may register its provider, once, or withdraw it with all its calls at the end.
LEMMA RelayMove ==
    ASSUME Inv, NEW p \in Ports, NEW r \in RelayRecord, relay' = [relay EXCEPT ![p] = r],
           UNCHANGED <<queue, ext, calls, call, ran, revoked, req, now, obs, listener>>,
           Types', Pairing',
           r.at \in {"loop", "written", "reply"} =>
              relay[p].at = "loop" /\ r.at = "reply" /\ r.c = relay[p].c,
           ext[p].at # "idle" => r.at \in {"stop", "ended"},
           r.at \in Before => relay[p].at \in Before,
           relay[p].at \in {"stop", "ended"} => r.at \in {"stop", "ended"},
           \A q \in Ports : owner[q] # None => owner'[q] = owner[q],
           registry' \subseteq registry \cup {p},
           p \in registry' => p \in registry \/ relay[p].at \in Before,
           \A c \in Made : c \in pending \ pending' => call[c].prov = p /\ r.at = "ended"
    PROVE  Inv'
<1>1. /\ Types /\ Pairing /\ Owned /\ Way /\ Answered /\ Invalidated /\ Over /\ InRequest /\ Awaited
  BY DEF Inv
<1>2. /\ relay'[p] = r /\ \A q \in Ports : q # p => relay'[q] = relay[q]
  BY <1>1 DEF Types
<1>3. /\ Made' = Made /\ \A q \in Ports : Queued(q)' = Queued(q)
      /\ \A q \in Ports : \A c : Handles(q, c)' <=> Handles(q, c)
  BY DEF Made, Queued, Handles
<1>4. /\ \A q \in Ports : \A c : Holds(q, c)' => Holds(q, c)
      /\ \A c : Holds(p, c)' => relay[p].at = "loop" /\ relay'[p].at = "reply"
      /\ \A q \in Ports : q # p => \A c : Holds(q, c)' <=> Holds(q, c)
  BY <1>2 DEF Holds
<1>5. \A c : Nowhere(c) => Nowhere(c)'
  BY <1>3, <1>4 DEF Nowhere
<1>6. \A c \in Made : c \in Nat /\ c \in Calls /\ call[c] \in CallRecord
  BY <1>1 DEF Types, Made, Calls
<1>7. \A c \in Made : call[c].prov \in Ports /\ call[c].task # None
  BY <1>6, Bounds DEF CallRecord
<1>8. \A q \in Ports : relay'[q].at \in Before => relay[q].at \in Before
  BY <1>2
<1>9. Owned'
  BY <1>1, <1>3, <1>7, <1>8 DEF Owned
<1>10. Way'
  BY <1>1, <1>2, <1>3, <1>4 DEF Way
<1>11. Answered'
  BY <1>1, <1>3, <1>5 DEF Answered
<1>12. Invalidated'
  <2>1. revoked \subseteq Nat
    BY <1>1, <1>6 DEF Owned
  <2> SUFFICES ASSUME NEW q \in Ports, NEW c \in revoked
               PROVE  /\ c \notin Queued(q)
                      /\ Holds(q, c)' => /\ relay'[q].at # "loop"
                                         /\ relay'[q].at = "reply" => relay'[q].code \notin CleanRefusals
                      /\ Handles(q, c) => ext[q].at \in {"invalidated", "revoked"}
    BY <1>1, <1>3 DEF Invalidated
  <2>2. CASE q = p
    BY <1>1, <1>4, <2>2 DEF Invalidated
  <2>3. CASE q # p
    BY <1>1, <1>2, <1>4, <2>3 DEF Invalidated
  <2> QED
    BY <2>2, <2>3
<1>13. Over'
  <2>1. \A c \in Made : call[c].prov \in registry' => call[c].prov \in registry
    BY <1>1, <1>7 DEF Owned
  <2> QED
    BY <1>1, <1>3, <1>5, <2>1 DEF Over
<1>14. InRequest'
  <2>1. req.at = "send" => req.c \in Made
    BY <1>1 DEF InRequest
  <2>2. req.at = "send" => req.c \in pending' \/ relay'[call[req.c].prov].at \in {"stop", "ended"}
    BY <1>1, <1>2, <1>7, <2>1 DEF InRequest
  <2> QED
    BY <1>1, <1>3, <1>5, <2>2 DEF InRequest
<1>15. Awaited'
  <2> SUFFICES ASSUME NEW q \in Ports, NEW c \in Made,
                      c \in Queued(q) \/ (Holds(q, c)' /\ relay'[q].at = "loop")
               PROVE  c \in pending' \/ call[c].deadline <= now \/ relay'[q].at \in {"stop", "ended"}
    BY <1>3 DEF Awaited
  <2>1. call[c].prov = q
    BY <1>1, <1>4, <1>6 DEF Way
  <2>2. c \in Queued(q) \/ (Holds(q, c) /\ relay[q].at = "loop")
    BY <1>2, <1>4
  <2>3. c \in pending \/ call[c].deadline <= now \/ relay[q].at \in {"stop", "ended"}
    BY <1>1, <2>2 DEF Awaited
  <2> QED
    BY <1>2, <2>1, <2>3
<1> QED
  BY <1>9, <1>10, <1>11, <1>12, <1>13, <1>14, <1>15 DEF Inv

\* Only the worker's place changes.
LEMMA AtStep ==
    ASSUME Inv, NEW p \in Ports, NEW at, RelayAt(p, at), at \in {"none", "stop", "ended"} \cup Live
    PROVE  \E r \in RelayRecord : /\ r.at = at /\ r.c = relay[p].c /\ relay' = [relay EXCEPT ![p] = r]
                                  /\ relay'[p].at = at /\ relay' \in [Ports -> RelayRecord]
                                  /\ \A q \in Ports : q # p => relay'[q] = relay[q]
<1> DEFINE r == [relay[p] EXCEPT !.at = at]
<1>1. relay[p] \in RelayRecord /\ relay \in [Ports -> RelayRecord]
  BY DEF Inv, Types
<1>2. r \in RelayRecord /\ r.at = at /\ r.c = relay[p].c
  BY <1>1 DEF RelayRecord
<1>3. relay' = [relay EXCEPT ![p] = r]
  BY DEF RelayAt
<1> HIDE DEF r
<1> QED
  BY <1>1, <1>2, <1>3

\* The worker gives up, from wherever it is.
LEMMA StopStep ==
    ASSUME Inv, NEW p \in Ports, RelayAt(p, "stop"),
           relay[p].at \in Live,
           UNCHANGED <<queue, ext, calls, call, ran, revoked, req, now, obs, listener, owner, registry,
                       pending, pairs, begun>>
    PROVE  Inv'
<1>1. PICK r \in RelayRecord : /\ r.at = "stop" /\ r.c = relay[p].c /\ relay' = [relay EXCEPT ![p] = r]
                               /\ relay'[p].at = "stop" /\ relay' \in [Ports -> RelayRecord]
                               /\ \A q \in Ports : q # p => relay'[q] = relay[q]
  BY AtStep
<1>2. Types'
  BY <1>1 DEF Inv, Types, Made
<1>3. Pairing'
  BY <1>1 DEF Inv, Pairing, Live, Before
<1> QED
  BY <1>1, <1>2, <1>3, RelayMove DEF Before

\* The relay fails, loses its port, is refused by the Host, or finds no endpoint.
LEMMA GivesUpStep ==
    ASSUME Inv, NEW p \in Ports, DiscoverFails(p) \/ RelayFails(p) \/ RelayEof(p)
    PROVE  Inv'
<1>1. /\ RelayAt(p, "stop") /\ relay[p].at \in Live
      /\ UNCHANGED <<queue, ext, calls, call, ran, revoked, req, now, obs, listener, owner, registry,
                     pending, pairs, begun>>
  BY DEF DiscoverFails, RelayFails, RelayEof, Live, host, background, history
<1> QED
  BY <1>1, StopStep

\* A port is connected to a process that looks for the Host.
LEMMA PairFinishStep == ASSUME Inv, NEW p \in Ports, PairFinish(p) PROVE Inv'
<1>1. /\ RelayAt(p, "discover") /\ p \in begun /\ begun' = begun \ {p}
      /\ UNCHANGED <<queue, ext, calls, call, ran, revoked, req, now, obs, listener, owner, registry,
                     pending, pairs>>
  BY DEF PairFinish, host, history
<1>2. PICK r \in RelayRecord : /\ r.at = "discover" /\ relay' = [relay EXCEPT ![p] = r]
                               /\ relay'[p].at = "discover" /\ relay' \in [Ports -> RelayRecord]
                               /\ \A q \in Ports : q # p => relay'[q] = relay[q]
  BY <1>1, AtStep DEF Live
<1>3. relay[p].at = "none" /\ owner[p] = None /\ p \notin registry /\ p <= pairs
  BY <1>1 DEF Inv, Pairing, Before
<1>4. Types'
  BY <1>1, <1>2 DEF Inv, Types, Made
<1>5. Pairing'
  <2>1. p \in Nat /\ pairs \in Nat /\ ~(p > pairs)
    BY <1>3, Bounds DEF Inv, Types, Ports
  <2> QED
    BY <1>1, <1>2, <1>3, <2>1 DEF Inv, Pairing, Live, Before
<1>6. ext[p].at = "idle"
  BY <1>3 DEF Inv, Way
<1> QED
  BY <1>1, <1>2, <1>3, <1>4, <1>5, <1>6, RelayMove DEF Before

\* The worker registers for the task that listens, or its hello is refused.
LEMMA RegisterStep == ASSUME Inv, NEW p \in Ports, NEW h, Register(p, h) PROVE Inv'
<1>1. /\ relay[p].at = "discover" /\ listener # None
      /\ UNCHANGED <<queue, ext, calls, call, ran, revoked, req, now, obs, listener, registry, pending,
                     pairs, begun>>
      /\ \/ RelayAt(p, "remove") /\ owner' = [owner EXCEPT ![p] = listener]
         \/ RelayAt(p, "stop") /\ owner' = owner
  BY DEF Register, background, history
<1>2. CASE RelayAt(p, "remove") /\ owner' = [owner EXCEPT ![p] = listener]
  <2>1. PICK r \in RelayRecord : /\ r.at = "remove" /\ relay' = [relay EXCEPT ![p] = r]
                                 /\ relay'[p].at = "remove" /\ relay' \in [Ports -> RelayRecord]
                                 /\ \A q \in Ports : q # p => relay'[q] = relay[q]
    BY <1>2, AtStep DEF Live
  <2>2. /\ owner' \in [Ports -> Tasks \cup {None}] /\ owner'[p] # None
        /\ \A q \in Ports : q # p => owner'[q] = owner[q]
    BY <1>1, <1>2 DEF Inv, Types
  <2>3. owner[p] = None /\ p \notin registry /\ p \notin begun /\ ~(p > pairs)
    BY <1>1 DEF Inv, Pairing, Before
  <2>4. Types'
    BY <1>1, <2>1, <2>2 DEF Inv, Types, Made
  <2>5. Pairing'
    BY <1>1, <2>1, <2>2, <2>3 DEF Inv, Pairing, Live, Before
  <2>6. ext[p].at = "idle"
    BY <1>1 DEF Inv, Way
  <2> QED
    BY <1>1, <2>1, <2>2, <2>3, <2>4, <2>5, <2>6, RelayMove DEF Before
<1>3. CASE RelayAt(p, "stop") /\ owner' = owner
  BY <1>1, <1>3, StopStep DEF Live
<1> QED
  BY <1>1, <1>2, <1>3

\* The registration is complete.
LEMMA RegisterInsertStep == ASSUME Inv, NEW p \in Ports, RegisterInsert(p) PROVE Inv'
<1>1. /\ relay[p].at = "remove" /\ RelayAt(p, "poll")
      /\ registry' \subseteq registry \cup {p}
      /\ UNCHANGED <<queue, ext, calls, call, ran, revoked, req, now, obs, listener, owner, pending,
                     pairs, begun>>
  BY DEF RegisterInsert, background, history
<1>2. PICK r \in RelayRecord : /\ r.at = "poll" /\ relay' = [relay EXCEPT ![p] = r]
                               /\ relay'[p].at = "poll" /\ relay' \in [Ports -> RelayRecord]
                               /\ \A q \in Ports : q # p => relay'[q] = relay[q]
  BY <1>1, AtStep DEF Live
<1>3. owner[p] # None /\ p \notin begun /\ ~(p > pairs)
  BY <1>1 DEF Inv, Pairing, Live
<1>4. Types'
  BY <1>1, <1>2 DEF Inv, Types, Made
<1>5. Pairing'
  BY <1>1, <1>2, <1>3 DEF Inv, Pairing, Live, Before
<1>6. ext[p].at = "idle"
  BY <1>1 DEF Inv, Way
<1> QED
  BY <1>1, <1>2, <1>4, <1>5, <1>6, RelayMove DEF Before

\* A poll is parked at the Host, or refused.
LEMMA PollBeginStep == ASSUME Inv, NEW p \in Ports, PollBegin(p) PROVE Inv'
<1>1. /\ relay[p].at \in {"poll", "parked"} /\ (RelayAt(p, "parked") \/ RelayAt(p, "stop"))
      /\ UNCHANGED <<queue, ext, calls, call, ran, revoked, req, now, obs, listener, owner, pending,
                     registry, pairs, begun>>
  BY DEF PollBegin, background, history
<1>2. CASE RelayAt(p, "parked") /\ relay[p].at \in {"poll", "parked"}
  <2>1. PICK r \in RelayRecord : /\ r.at = "parked" /\ relay' = [relay EXCEPT ![p] = r]
                                 /\ relay'[p].at = "parked" /\ relay' \in [Ports -> RelayRecord]
                                 /\ \A q \in Ports : q # p => relay'[q] = relay[q]
    BY <1>2, AtStep DEF Live
  <2>2. Types'
    BY <1>1, <2>1 DEF Inv, Types, Made
  <2>3. Pairing'
    BY <1>1, <1>2, <2>1 DEF Inv, Pairing, Live, Before
  <2>4. ext[p].at = "idle"
    BY <1>2 DEF Inv, Way
  <2> QED
    BY <1>1, <1>2, <2>1, <2>2, <2>3, <2>4, RelayMove DEF Before
<1>3. CASE RelayAt(p, "stop") /\ relay[p].at \in {"poll", "parked"}
  BY <1>1, <1>3, StopStep DEF Live
<1> QED
  BY <1>2, <1>3 DEF PollBegin

\* The run loop answers in place of the extension.
LEMMA RefusalCode ==
    ASSUME NEW p \in Ports, NEW front \in BOOLEAN
    PROVE  Refusal(p, front) \in Codes \cup {None}
BY DEF Refusal, Codes, CleanRefusals

LEMMA RelayRefusesStep == ASSUME Inv, NEW p \in Ports, RelayRefuses(p) PROVE Inv'
<1>1. PICK front \in BOOLEAN :
           relay' = [relay EXCEPT ![p].at = "reply", ![p].code = Refusal(p, front)]
  BY DEF RelayRefuses
<1>2. PICK code \in Codes \cup {None} : code = Refusal(p, front)
  BY RefusalCode
<1>3. /\ relay[p].at = "loop" /\ relay[p] \in RelayRecord /\ relay \in [Ports -> RelayRecord]
      /\ UNCHANGED <<queue, ext, calls, call, ran, revoked, req, now, obs, listener, owner, pending,
                     registry, pairs, begun>>
  BY DEF RelayRefuses, host, background, history, Inv, Types
<1>4. PICK r \in RelayRecord : r.at = "reply" /\ r.c = relay[p].c /\ relay' = [relay EXCEPT ![p] = r]
  <2> DEFINE r == [relay[p] EXCEPT !.at = "reply", !.code = code]
  <2>1. r \in RelayRecord /\ r.at = "reply" /\ r.c = relay[p].c
    BY <1>3 DEF RelayRecord, Live
  <2>2. relay' = [relay EXCEPT ![p] = r]
    BY <1>1, <1>2, <1>3
  <2> QED
    BY <2>1, <2>2
<1>5. relay' \in [Ports -> RelayRecord] /\ relay'[p] = r /\ \A q \in Ports : q # p => relay'[q] = relay[q]
  BY <1>3, <1>4
<1>6. Types'
  BY <1>3, <1>5 DEF Inv, Types, Made
<1>7. Pairing'
  BY <1>3, <1>4, <1>5 DEF Inv, Pairing, Live, Before
<1>8. ext[p].at = "idle"
  BY <1>3 DEF Inv, Way
<1> QED
  BY <1>3, <1>4, <1>6, <1>7, <1>8, RelayMove DEF Before

\* The process ends, with or without having told the Host.
LEMMA UnregisterStep == ASSUME Inv, NEW p \in Ports, Unregister(p) PROVE Inv'
<1> DEFINE r == [at |-> "ended", c |-> 0, code |-> None, owner |-> None]
<1>1. /\ relay[p].at = "stop" /\ relay' = [relay EXCEPT ![p] = r]
      /\ registry' \subseteq registry /\ \A c \in Made : c \in pending \ pending' => call[c].prov = p
      /\ UNCHANGED <<queue, ext, calls, call, ran, revoked, req, now, obs, listener, owner, pairs, begun>>
  BY DEF Unregister, background, history
<1>2. r \in RelayRecord /\ r.at = "ended"
  BY DEF RelayRecord
<1> HIDE DEF r
<1>3. relay' \in [Ports -> RelayRecord] /\ relay'[p] = r /\ \A q \in Ports : q # p => relay'[q] = relay[q]
  BY <1>1, <1>2 DEF Inv, Types
<1>4. Types'
  BY <1>1, <1>3 DEF Inv, Types, Made
<1>5. Pairing'
  BY <1>1, <1>2, <1>3 DEF Inv, Pairing, Live, Before
<1> QED
  BY <1>1, <1>2, <1>4, <1>5, RelayMove DEF Before

\* The first command is taken out of a queue that holds no command twice.
LEMMA Taken ==
    ASSUME NEW q \in Seq(Calls), q # <<>>, \A i, j \in DOMAIN q : q[i] = q[j] => i = j
    PROVE  /\ Tail(q) \in Seq(Calls) /\ Head(q) \in {q[i] : i \in DOMAIN q}
           /\ {Tail(q)[i] : i \in DOMAIN Tail(q)} \subseteq {q[i] : i \in DOMAIN q} \ {Head(q)}
           /\ {q[i] : i \in DOMAIN q} \ {Head(q)} \subseteq {Tail(q)[i] : i \in DOMAIN Tail(q)}
           /\ \A i, j \in DOMAIN Tail(q) : Tail(q)[i] = Tail(q)[j] => i = j
<1> DEFINE t == Tail(q)
           h == Head(q)
<1>1. /\ Len(q) \in Nat /\ Len(q) > 0 /\ DOMAIN q = 1 .. Len(q) /\ t \in Seq(Calls)
      /\ DOMAIN t = 1 .. Len(q) - 1 /\ h = q[1]
  OBVIOUS
<1>2. \A i \in 1 .. Len(q) - 1 : t[i] = q[i + 1]
  BY <1>1
<1> HIDE DEF t, h
<1>3. /\ 1 \in DOMAIN q
      /\ \A i \in DOMAIN t : i \in Nat /\ i + 1 \in DOMAIN q /\ i + 1 # 1 /\ t[i] = q[i + 1]
  BY <1>1, <1>2
<1>4. \A k \in DOMAIN q : k # 1 => k - 1 \in DOMAIN t /\ t[k - 1] = q[k]
  BY <1>1, <1>2
<1>5. h \in {q[i] : i \in DOMAIN q}
  BY <1>1, <1>3
<1>6. {t[i] : i \in DOMAIN t} \subseteq {q[i] : i \in DOMAIN q} \ {h}
  BY <1>1, <1>3
<1>7. {q[i] : i \in DOMAIN q} \ {h} \subseteq {t[i] : i \in DOMAIN t}
  BY <1>1, <1>4
<1>8. ASSUME NEW i \in DOMAIN t, NEW j \in DOMAIN t, t[i] = t[j] PROVE i = j
  <2>1. i + 1 = j + 1
    BY <1>3, <1>8
  <2> QED
    BY <1>3, <2>1
<1> QED
  BY <1>1, <1>5, <1>6, <1>7, <1>8 DEF t, h

\* The worker takes the first command of its provider.
LEMMA PollTakesStep == ASSUME Inv, NEW p \in Ports, PollTakes(p) PROVE Inv'
<1>0. PICK n : n = Head(queue[p])
  OBVIOUS
<1>1. /\ Types /\ Pairing /\ Owned /\ Way /\ Answered /\ Invalidated /\ Over /\ InRequest /\ Awaited
      /\ relay[p].at = "parked" /\ queue[p] # <<>>
      /\ relay' = [relay EXCEPT ![p].at = "loop", ![p].c = n]
      /\ queue' = [queue EXCEPT ![p] = Tail(@)]
      /\ UNCHANGED <<ext, calls, call, req, now, obs, listener, owner, registry, pending, pairs, begun,
                     ran, revoked>>
  BY <1>0 DEF Inv, PollTakes, background, history
<1>2. /\ queue[p] \in Seq(Calls) /\ \A i, j \in DOMAIN queue[p] : queue[p][i] = queue[p][j] => i = j
      /\ queue \in [Ports -> Seq(Calls)] /\ relay \in [Ports -> RelayRecord] /\ relay[p] \in RelayRecord
  BY <1>1 DEF Types, Way
<1>3. /\ queue' \in [Ports -> Seq(Calls)] /\ \A q \in Ports : q # p => queue'[q] = queue[q]
      /\ n \in Queued(p) /\ Queued(p)' = Queued(p) \ {n}
      /\ \A i, j \in DOMAIN queue'[p] : queue'[p][i] = queue'[p][j] => i = j
  <2> DEFINE t == Tail(queue[p])
  <2>1. /\ t \in Seq(Calls) /\ n \in Queued(p)
        /\ {t[i] : i \in DOMAIN t} = Queued(p) \ {n}
        /\ \A i, j \in DOMAIN t : t[i] = t[j] => i = j
    BY <1>0, <1>1, <1>2, Taken DEF Queued
  <2>2. queue' = [queue EXCEPT ![p] = t]
    BY <1>1
  <2> HIDE DEF t
  <2>3. queue'[p] = t /\ queue' \in [Ports -> Seq(Calls)] /\ \A q \in Ports : q # p => queue'[q] = queue[q]
    BY <1>2, <2>1, <2>2
  <2>4. Queued(p)' = {t[i] : i \in DOMAIN t}
    BY <2>3 DEF Queued
  <2> QED
    BY <2>1, <2>3, <2>4
<1>4. /\ n \in Made /\ call[n].prov = p /\ ~Handles(p, n) /\ ext[p].at = "idle" /\ n \in Nat
      /\ \A c \in Made : c \in Nat
  BY <1>1, <1>3 DEF Way, Made, Calls
<1>5. /\ relay'[p].at = "loop" /\ relay'[p].c = n /\ relay' \in [Ports -> RelayRecord]
      /\ \A q \in Ports : q # p => relay'[q] = relay[q]
  <2>1. PICK r \in RelayRecord : r.at = "loop" /\ r.c = n /\ relay' = [relay EXCEPT ![p] = r]
    <3> DEFINE r == [relay[p] EXCEPT !.at = "loop", !.c = n]
    <3>1. r \in RelayRecord /\ r.at = "loop" /\ r.c = n
      BY <1>2, <1>4 DEF RelayRecord, Live
    <3>2. relay' = [relay EXCEPT ![p] = r]
      BY <1>1, <1>2
    <3> QED
      BY <3>1, <3>2
  <2> QED
    BY <1>2, <2>1
<1>6. /\ Made' = Made /\ \A q \in Ports : q # p => Queued(q)' = Queued(q)
      /\ \A q \in Ports : \A c : Handles(q, c)' <=> Handles(q, c)
      /\ \A q \in Ports : q # p => \A c : Holds(q, c)' <=> Holds(q, c)
      /\ \A c : (Holds(p, c)' <=> c = n) /\ ~Holds(p, c)
  BY <1>1, <1>3, <1>5 DEF Made, Queued, Handles, Holds
<1>7. \A c : Nowhere(c) => Nowhere(c)'
  <2>1. \A c : Nowhere(c) => c # n
    BY <1>3 DEF Nowhere
  <2> QED
    BY <1>3, <1>6, <2>1 DEF Nowhere
<1>8. Types'
  BY <1>1, <1>3, <1>5, <1>6 DEF Types
<1>9. Pairing'
  BY <1>1, <1>5 DEF Pairing, Live, Before
<1>10. Owned'
  <2>1. \A q \in Ports : relay'[q].at \in Before => relay[q].at \in Before
    BY <1>5 DEF Before
  <2>2. \A c \in Made : call[c].prov \in Ports
    BY <1>1 DEF Types, CallRecord
  <2> QED
    BY <1>1, <1>6, <2>1, <2>2 DEF Owned
<1>11. Way'
  <2> SUFFICES ASSUME NEW q \in Ports
               PROVE  /\ \A i, j \in DOMAIN queue'[q] : queue'[q][i] = queue'[q][j] => i = j
                      /\ \A c \in Queued(q)' : /\ c \in Made' /\ call'[c].prov = q
                                               /\ ~Holds(q, c)' /\ ~Handles(q, c)'
                      /\ \A c \in Nat : Holds(q, c)' => c \in Made' /\ call'[c].prov = q
                      /\ \A c \in Nat : Handles(q, c)' => c \in Made' /\ call'[c].prov = q
                      /\ ext'[q].at # "idle" =>
                            \/ relay'[q].at = "written" /\ relay'[q].c = ext'[q].c
                            \/ relay'[q].at \in {"stop", "ended"}
    BY DEF Way
  <2>1. CASE q = p
    BY <1>1, <1>3, <1>4, <1>6, <2>1 DEF Way
  <2>2. CASE q # p
    BY <1>1, <1>3, <1>5, <1>6, <2>2 DEF Way
  <2> QED
    BY <2>1, <2>2
<1>12. Answered'
  BY <1>1, <1>6, <1>7 DEF Answered
<1>13. Invalidated'
  <2>1. n \notin revoked
    BY <1>1, <1>3 DEF Invalidated
  <2> SUFFICES ASSUME NEW q \in Ports, NEW c \in revoked
               PROVE  /\ c \notin Queued(q)'
                      /\ Holds(q, c)' => /\ relay'[q].at # "loop"
                                         /\ relay'[q].at = "reply" => relay'[q].code \notin CleanRefusals
                      /\ Handles(q, c) => ext[q].at \in {"invalidated", "revoked"}
    BY <1>1, <1>6 DEF Invalidated
  <2>2. CASE q = p
    BY <1>1, <1>3, <1>6, <2>1, <2>2 DEF Invalidated
  <2>3. CASE q # p
    BY <1>1, <1>5, <1>6, <2>3 DEF Invalidated
  <2> QED
    BY <2>2, <2>3
<1>14. Over'
  BY <1>1, <1>6, <1>7 DEF Over
<1>15. InRequest'
  <2>1. req.at = "send" => req.c \in pending \/ relay'[call[req.c].prov].at \in {"stop", "ended"}
    <3>1. req.at = "send" => call[req.c].prov \in Ports
      BY <1>1 DEF InRequest, Types, CallRecord
    <3> QED
      BY <1>1, <1>5, <3>1 DEF InRequest
  <2> QED
    BY <1>1, <1>6, <1>7, <2>1 DEF InRequest
<1>16. Awaited'
  <2> SUFFICES ASSUME NEW q \in Ports, NEW c \in Made,
                      c \in Queued(q)' \/ (Holds(q, c)' /\ relay'[q].at = "loop")
               PROVE  c \in pending \/ call[c].deadline <= now \/ relay'[q].at \in {"stop", "ended"}
    BY <1>1, <1>6 DEF Awaited
  <2>1. CASE q = p
    <3>1. c \in Queued(p)
      BY <1>3, <1>6, <2>1
    <3> QED
      BY <1>1, <3>1 DEF Awaited
  <2>2. CASE q # p
    BY <1>1, <1>5, <1>6, <2>2 DEF Awaited
  <2> QED
    BY <2>1, <2>2
<1> QED
  BY <1>8, <1>9, <1>10, <1>11, <1>12, <1>13, <1>14, <1>15, <1>16 DEF Inv

\* The command goes to the port: from now on the extension has it too.
LEMMA RelayWritesStep == ASSUME Inv, NEW p \in Ports, RelayWrites(p) PROVE Inv'
<1>1. /\ Types /\ Pairing /\ Owned /\ Way /\ Answered /\ Invalidated /\ Over /\ InRequest /\ Awaited
      /\ relay[p].at = "loop"
      /\ relay' = [relay EXCEPT ![p].at = "written", ![p].owner = owner[p]]
      /\ ext' = [ext EXCEPT ![p] = [at |-> "message", c |-> relay[p].c]]
      /\ UNCHANGED <<queue, calls, call, req, now, obs, listener, owner, registry, pending, pairs, begun,
                     ran, revoked>>
  BY DEF Inv, RelayWrites, host, background, history
<1>2. /\ relay \in [Ports -> RelayRecord] /\ relay[p] \in RelayRecord /\ owner[p] \in Tasks \cup {None}
      /\ ext \in [Ports -> ExtRecord]
  BY <1>1 DEF Types
<1>3. PICK n \in Nat : n = relay[p].c
  BY <1>2 DEF RelayRecord
<1>4. /\ relay'[p].at = "written" /\ relay'[p].c = n /\ relay' \in [Ports -> RelayRecord]
      /\ \A q \in Ports : q # p => relay'[q] = relay[q]
  <2>1. PICK r \in RelayRecord : r.at = "written" /\ r.c = n /\ relay' = [relay EXCEPT ![p] = r]
    <3> DEFINE r == [relay[p] EXCEPT !.at = "written", !.owner = owner[p]]
    <3>1. r \in RelayRecord /\ r.at = "written" /\ r.c = n
      BY <1>2, <1>3 DEF RelayRecord, Live
    <3>2. relay' = [relay EXCEPT ![p] = r]
      BY <1>1, <1>2
    <3> QED
      BY <3>1, <3>2
  <2> QED
    BY <1>2, <2>1
<1>5. /\ ext'[p].at = "message" /\ ext'[p].c = n /\ ext' \in [Ports -> ExtRecord]
      /\ \A q \in Ports : q # p => ext'[q] = ext[q]
  <2>1. PICK e \in ExtRecord : e.at = "message" /\ e.c = n /\ ext' = [ext EXCEPT ![p] = e]
    <3>1. [at |-> "message", c |-> n] \in ExtRecord
      BY DEF ExtRecord
    <3> QED
      BY <1>1, <1>3, <3>1
  <2> QED
    BY <1>2, <2>1
<1>6. /\ Holds(p, n) /\ n \in Made /\ call[n].prov = p /\ n \notin revoked /\ ext[p].at = "idle"
      /\ n \notin Queued(p) /\ \A c \in Made : c \in Nat
  BY <1>1, <1>3 DEF Holds, Way, Invalidated, Made, Calls
<1>7. /\ Made' = Made /\ \A q \in Ports : Queued(q)' = Queued(q)
      /\ \A q \in Ports : \A c : Holds(q, c)' <=> Holds(q, c)
      /\ \A q \in Ports : q # p => \A c : Handles(q, c)' <=> Handles(q, c)
      /\ \A c : (Handles(p, c)' <=> c = n) /\ ~Handles(p, c)
  BY <1>1, <1>3, <1>4, <1>5, <1>6 DEF Made, Queued, Handles, Holds
<1>8. \A c : Nowhere(c) => Nowhere(c)'
  <2>1. \A c : Nowhere(c) => c # n
    BY <1>6 DEF Nowhere
  <2> QED
    BY <1>7, <2>1 DEF Nowhere
<1>9. Types'
  BY <1>1, <1>4, <1>5, <1>7 DEF Types
<1>10. Pairing'
  BY <1>1, <1>4 DEF Pairing, Live, Before
<1>11. Owned'
  <2>1. \A q \in Ports : relay'[q].at \in Before => relay[q].at \in Before
    BY <1>4 DEF Before
  <2>2. \A c \in Made : call[c].prov \in Ports
    BY <1>1 DEF Types, CallRecord
  <2> QED
    BY <1>1, <1>7, <2>1, <2>2 DEF Owned
<1>12. Way'
  <2> SUFFICES ASSUME NEW q \in Ports
               PROVE  /\ \A i, j \in DOMAIN queue'[q] : queue'[q][i] = queue'[q][j] => i = j
                      /\ \A c \in Queued(q)' : /\ c \in Made' /\ call'[c].prov = q
                                               /\ ~Holds(q, c)' /\ ~Handles(q, c)'
                      /\ \A c \in Nat : Holds(q, c)' => c \in Made' /\ call'[c].prov = q
                      /\ \A c \in Nat : Handles(q, c)' => c \in Made' /\ call'[c].prov = q
                      /\ ext'[q].at # "idle" =>
                            \/ relay'[q].at = "written" /\ relay'[q].c = ext'[q].c
                            \/ relay'[q].at \in {"stop", "ended"}
    BY DEF Way
  <2>1. CASE q = p
    BY <1>1, <1>4, <1>5, <1>6, <1>7, <2>1 DEF Way
  <2>2. CASE q # p
    BY <1>1, <1>4, <1>5, <1>7, <2>2 DEF Way
  <2> QED
    BY <2>1, <2>2
<1>13. Answered'
  BY <1>1, <1>7, <1>8 DEF Answered
<1>14. Invalidated'
  <2>1. \A q \in Ports : ext'[q].at \in {"invalidated", "revoked"} => ext'[q].c \in revoked
    <3> SUFFICES ASSUME NEW q \in Ports, ext'[q].at \in {"invalidated", "revoked"}
                 PROVE  ext'[q].c \in revoked
      OBVIOUS
    <3>1. q # p
      BY <1>5
    <3> QED
      BY <1>1, <1>5, <3>1 DEF Invalidated
  <2> SUFFICES ASSUME NEW q \in Ports, NEW c \in revoked
               PROVE  /\ Holds(q, c) => /\ relay'[q].at # "loop"
                                        /\ relay'[q].at = "reply" => relay'[q].code \notin CleanRefusals
                      /\ Handles(q, c)' => ext'[q].at \in {"invalidated", "revoked"}
    BY <1>1, <1>7, <2>1 DEF Invalidated
  <2>2. CASE q = p
    BY <1>4, <1>6, <1>7, <2>2
  <2>3. CASE q # p
    BY <1>1, <1>4, <1>5, <1>7, <2>3 DEF Invalidated
  <2> QED
    BY <2>2, <2>3
<1>15. Over'
  BY <1>1, <1>7, <1>8 DEF Over
<1>16. InRequest'
  <2>1. req.at = "send" => req.c \in pending \/ relay'[call[req.c].prov].at \in {"stop", "ended"}
    <3>1. req.at = "send" => call[req.c].prov \in Ports
      BY <1>1 DEF InRequest, Types, CallRecord
    <3> QED
      BY <1>1, <1>4, <3>1 DEF InRequest
  <2> QED
    BY <1>1, <1>7, <1>8, <2>1 DEF InRequest
<1>17. Awaited'
  <2> SUFFICES ASSUME NEW q \in Ports, NEW c \in Made,
                      c \in Queued(q) \/ (Holds(q, c) /\ relay'[q].at = "loop")
               PROVE  c \in pending \/ call[c].deadline <= now \/ relay'[q].at \in {"stop", "ended"}
    BY <1>1, <1>7 DEF Awaited
  <2>1. CASE q = p
    BY <1>1, <1>4, <2>1 DEF Awaited
  <2>2. CASE q # p
    BY <1>1, <1>4, <2>2 DEF Awaited
  <2> QED
    BY <2>1, <2>2
<1> QED
  BY <1>9, <1>10, <1>11, <1>12, <1>13, <1>14, <1>15, <1>16, <1>17 DEF Inv

\* The answer reaches the call that waits for it, and the call is nowhere any more;
\* an answer nobody waits for is the end of the worker.
LEMMA CompleteStep == ASSUME Inv, NEW p \in Ports, Complete(p) PROVE Inv'
<1>1. /\ Types /\ Pairing /\ Owned /\ Way /\ Answered /\ Invalidated /\ Over /\ InRequest /\ Awaited
      /\ relay[p].at = "reply"
      /\ UNCHANGED <<queue, ext, calls, req, now, obs, listener, owner, registry, pairs, begun,
                     ran, revoked>>
  BY DEF Inv, Complete, background, history
<1>2. CASE RelayAt(p, "stop") /\ UNCHANGED <<pending, call>>
  BY <1>1, <1>2, StopStep DEF Live
<1>3. CASE /\ pending' = pending \ {relay[p].c}
           /\ call' = [call EXCEPT ![relay[p].c].reply = relay[p].code]
           /\ relay' = [relay EXCEPT ![p].at = "poll", ![p].c = 0, ![p].code = None]
  <2>1. /\ relay \in [Ports -> RelayRecord] /\ relay[p] \in RelayRecord
        /\ call \in [Calls -> {None} \cup CallRecord]
    BY <1>1 DEF Types
  <2>2. PICK n \in Nat, code \in Codes \cup {None} : n = relay[p].c /\ code = relay[p].code
    BY <2>1 DEF RelayRecord
  <2>3. /\ Holds(p, n) /\ n \in Made /\ n \in Calls /\ call[n].prov = p /\ ext[p].at = "idle"
        /\ n \notin Queued(p) /\ call[n] \in CallRecord
        /\ \A c \in Made : c \in Nat
    BY <1>1, <2>2 DEF Holds, Way, Made, Calls, Types
  <2>4. /\ relay'[p].at = "poll" /\ relay' \in [Ports -> RelayRecord]
        /\ \A q \in Ports : q # p => relay'[q] = relay[q]
    <3>1. PICK r \in RelayRecord : r.at = "poll" /\ relay' = [relay EXCEPT ![p] = r]
      <4> DEFINE r == [relay[p] EXCEPT !.at = "poll", !.c = 0, !.code = None]
      <4>1. r \in RelayRecord /\ r.at = "poll"
        BY <2>1 DEF RelayRecord, Live
      <4>2. relay' = [relay EXCEPT ![p] = r]
        BY <1>3, <2>1
      <4> QED
        BY <4>1, <4>2
    <3> QED
      BY <2>1, <3>1
  <2>5. /\ call' \in [Calls -> {None} \cup CallRecord] /\ call'[n] \in CallRecord /\ call'[n].reply = code
        /\ \A c \in Calls : c # n => call'[c] = call[c]
        /\ call'[n].prov = p /\ call'[n].task = call[n].task /\ call'[n].method = call[n].method
        /\ call'[n].deadline = call[n].deadline
    <3> DEFINE r == [call[n] EXCEPT !.reply = code]
    <3>1. /\ r \in CallRecord /\ r.reply = code /\ r.prov = p /\ r.task = call[n].task
          /\ r.method = call[n].method /\ r.deadline = call[n].deadline
      BY <2>3 DEF CallRecord
    <3>2. call' = [call EXCEPT ![n] = r]
      BY <1>3, <2>2
    <3> HIDE DEF r
    <3> QED
      BY <2>1, <2>3, <3>1, <3>2
  <2>6. \A c \in Made : /\ call'[c].prov = call[c].prov /\ call'[c].task = call[c].task
                        /\ call'[c].method = call[c].method /\ call'[c].deadline = call[c].deadline
                        /\ c # n => call'[c] = call[c]
    BY <2>3, <2>5 DEF Made
  <2>7. /\ Made' = Made /\ \A q \in Ports : Queued(q)' = Queued(q)
        /\ \A q \in Ports : \A c : Handles(q, c)' <=> Handles(q, c)
        /\ \A q \in Ports : q # p => \A c : Holds(q, c)' <=> Holds(q, c)
        /\ \A c : ~Holds(p, c)'
    BY <1>1, <2>4 DEF Made, Queued, Handles, Holds
  <2>8. (\A c : Nowhere(c) => Nowhere(c)') /\ ~Nowhere(n)
    BY <2>3, <2>7 DEF Nowhere
  <2>9. Nowhere(n)'
    <3> SUFFICES ASSUME NEW q \in Ports
                 PROVE  n \notin Queued(q) /\ ~Holds(q, n)' /\ ~Handles(q, n)
      BY <2>7 DEF Nowhere
    <3>1. CASE q = p
      BY <2>3, <2>7, <3>1 DEF Handles
    <3>2. CASE q # p
      BY <1>1, <2>3, <2>7, <3>2 DEF Way
    <3> QED
      BY <3>1, <3>2
  <2>10. Types'
    BY <1>1, <2>1, <2>4, <2>5, <2>6, <2>7 DEF Types
  <2>11. Pairing'
    BY <1>1, <2>4 DEF Pairing, Live, Before
  <2>12. Owned'
    <3>1. \A q \in Ports : relay'[q].at \in Before => relay[q].at \in Before
      BY <2>4 DEF Before
    <3>2. \A c \in Made : call[c].prov \in Ports
      BY <1>1 DEF Types, CallRecord
    <3> QED
      BY <1>1, <2>6, <2>7, <3>1, <3>2 DEF Owned
  <2>13. Way'
    <3> SUFFICES ASSUME NEW q \in Ports
                 PROVE  /\ \A i, j \in DOMAIN queue'[q] : queue'[q][i] = queue'[q][j] => i = j
                        /\ \A c \in Queued(q)' : /\ c \in Made' /\ call'[c].prov = q
                                                 /\ ~Holds(q, c)' /\ ~Handles(q, c)'
                        /\ \A c \in Nat : Holds(q, c)' => c \in Made' /\ call'[c].prov = q
                        /\ \A c \in Nat : Handles(q, c)' => c \in Made' /\ call'[c].prov = q
                        /\ ext'[q].at # "idle" =>
                              \/ relay'[q].at = "written" /\ relay'[q].c = ext'[q].c
                              \/ relay'[q].at \in {"stop", "ended"}
      BY DEF Way
    <3>1. CASE q = p
      <4>1. /\ \A i, j \in DOMAIN queue'[p] : queue'[p][i] = queue'[p][j] => i = j
            /\ \A c \in Queued(p) : c \in Made /\ call'[c].prov = p /\ ~Handles(p, c)
        BY <1>1, <2>6 DEF Way
      <4>2. \A c \in Nat : Handles(p, c) => c \in Made /\ call'[c].prov = p
        BY <1>1, <2>6 DEF Way
      <4>3. ext'[p].at = "idle"
        BY <1>1, <2>3
      <4> QED
        BY <2>7, <3>1, <4>1, <4>2, <4>3
    <3>2. CASE q # p
      BY <1>1, <2>4, <2>6, <2>7, <3>2 DEF Way
    <3> QED
      BY <3>1, <3>2
  <2>14. Answered'
    BY <1>1, <2>6, <2>7, <2>8, <2>9 DEF Answered
  <2>15. Invalidated'
    <3>1. revoked \subseteq Made
      BY <1>1 DEF Owned
    <3>2. \A c \in revoked : call'[c].method = "navigate" /\ call'[c].reply \notin CleanRefusals
      <4> SUFFICES ASSUME NEW c \in revoked
                   PROVE  call'[c].method = "navigate" /\ call'[c].reply \notin CleanRefusals
        OBVIOUS
      <4>1. CASE c = n
        BY <1>1, <2>2, <2>3, <2>5, <4>1 DEF Invalidated
      <4>2. CASE c # n
        BY <1>1, <2>6, <3>1, <4>2 DEF Invalidated
      <4> QED
        BY <4>1, <4>2
    <3>3. ASSUME NEW q \in Ports, NEW c \in revoked
          PROVE  Holds(q, c)' => /\ relay'[q].at # "loop"
                                 /\ relay'[q].at = "reply" => relay'[q].code \notin CleanRefusals
      BY <1>1, <2>4, <2>7 DEF Invalidated
    <3> QED
      BY <1>1, <2>7, <3>2, <3>3 DEF Invalidated
  <2>16. Over'
    BY <1>1, <2>6, <2>7, <2>8 DEF Over
  <2>17. InRequest'
    <3>1. req.c # 0 /\ req.at \in {"remove", "enqueue", "send"} => req.c # n /\ req.c \in Made
      BY <1>1, <2>8 DEF InRequest
    <3>2. req.at = "send" => req.c \in pending' \/ relay'[call[req.c].prov].at \in {"stop", "ended"}
      <4>1. req.at = "send" => req.c # 0 /\ call[req.c].prov \in Ports
        BY <1>1 DEF InRequest, Types, CallRecord
      <4> QED
        BY <1>1, <1>3, <2>2, <2>4, <3>1, <4>1 DEF InRequest
    <3>3. req.at \in {"send", "wait"} => req.c \in Made
      BY <1>1 DEF InRequest
    <3> QED
      BY <1>1, <2>6, <2>7, <2>8, <3>1, <3>2, <3>3 DEF InRequest
  <2>18. Awaited'
    <3> SUFFICES ASSUME NEW q \in Ports, NEW c \in Made,
                        c \in Queued(q) \/ (Holds(q, c)' /\ relay'[q].at = "loop")
                 PROVE  c \in pending' \/ call'[c].deadline <= now \/ relay'[q].at \in {"stop", "ended"}
      BY <1>1, <2>7 DEF Awaited
    <3>1. c # n
      BY <2>7, <2>9 DEF Nowhere
    <3>2. c \in Queued(q) \/ (Holds(q, c) /\ relay[q].at = "loop")
      BY <2>4, <2>7
    <3>3. c \in pending \/ call[c].deadline <= now \/ relay[q].at \in {"stop", "ended"}
      BY <1>1, <3>2 DEF Awaited
    <3> QED
      BY <1>1, <1>3, <2>2, <2>4, <2>6, <3>1, <3>3
  <2> QED
    BY <2>10, <2>11, <2>12, <2>13, <2>14, <2>15, <2>16, <2>17, <2>18 DEF Inv
<1> QED
  BY <1>2, <1>3 DEF Complete

(***************************************************************************)
(* Steps of the background script and the page.                            *)
(***************************************************************************)
\* The handler of a port goes on with its message, or is done with it and answers
\* a relay that still waits.
LEMMA ExtMove ==
    ASSUME Inv, NEW p \in Ports, NEW e \in ExtRecord, ext' = [ext EXCEPT ![p] = e],
           ext[p].at # "idle", e.at = "idle" \/ e.c = ext[p].c,
           UNCHANGED <<queue, calls, call, req, now, obs, listener, owner, registry, pending, pairs, begun>>,
           NEW code \in Codes,
           \/ relay' = relay
           \/ /\ relay[p].at = "written" /\ e.at = "idle"
              /\ relay' = [relay EXCEPT ![p].at = "reply", ![p].code = code]
              /\ ext[p].c \in revoked => code \notin CleanRefusals,
           ran' \subseteq ran \cup {ext[p].c},
           \/ revoked' = revoked
           \/ revoked' = revoked \cup {ext[p].c} /\ call[ext[p].c].method = "navigate" /\ e.at # "idle",
           e.at # "idle" => (e.at \in {"invalidated", "revoked"} <=> ext[p].c \in revoked')
    PROVE  Inv'
<1>1. /\ Types /\ Pairing /\ Owned /\ Way /\ Answered /\ Invalidated /\ Over /\ InRequest /\ Awaited
  BY DEF Inv
<1>2. PICK n \in Nat : n = ext[p].c
  BY <1>1 DEF Types, ExtRecord
<1>3. /\ Handles(p, n) /\ n \in Made /\ call[n].prov = p /\ n \in Calls /\ call[n] \in CallRecord
      /\ \A c \in Made : c \in Nat
  BY <1>1, <1>2 DEF Handles, Way, Made, Types, Calls
<1>4. /\ ext' \in [Ports -> ExtRecord] /\ ext'[p] = e /\ \A q \in Ports : q # p => ext'[q] = ext[q]
  BY <1>1 DEF Types
<1>5. \/ relay' = relay
      \/ /\ relay[p].at = "written" /\ relay[p].c = n /\ e.at = "idle"
         /\ relay'[p].at = "reply" /\ relay'[p].c = n /\ relay'[p].code = code
         /\ relay' \in [Ports -> RelayRecord]
         /\ \A q \in Ports : q # p => relay'[q] = relay[q]
         /\ n \in revoked => code \notin CleanRefusals
  <2>1. relay \in [Ports -> RelayRecord] /\ relay[p] \in RelayRecord
    BY <1>1 DEF Types
  <2>2. SUFFICES ASSUME relay[p].at = "written", e.at = "idle",
                        relay' = [relay EXCEPT ![p].at = "reply", ![p].code = code],
                        n \in revoked => code \notin CleanRefusals
                 PROVE  /\ relay[p].c = n /\ relay'[p].at = "reply" /\ relay'[p].c = n
                        /\ relay'[p].code = code /\ relay' \in [Ports -> RelayRecord]
                        /\ \A q \in Ports : q # p => relay'[q] = relay[q]
    BY <1>2
  <2>3. relay[p].c = n
    BY <1>1, <1>2, <2>2 DEF Way
  <2>4. PICK r \in RelayRecord : /\ r.at = "reply" /\ r.c = relay[p].c /\ r.code = code
                                 /\ relay' = [relay EXCEPT ![p] = r]
    <3> DEFINE r == [relay[p] EXCEPT !.at = "reply", !.code = code]
    <3>1. r \in RelayRecord /\ r.at = "reply" /\ r.c = relay[p].c /\ r.code = code
      BY <2>1 DEF RelayRecord, Live
    <3>2. relay' = [relay EXCEPT ![p] = r]
      BY <2>1, <2>2
    <3> QED
      BY <3>1, <3>2
  <2> QED
    BY <2>1, <2>3, <2>4
<1>6. /\ Made' = Made /\ \A q \in Ports : Queued(q)' = Queued(q)
  BY DEF Made, Queued
<1>7. \A q \in Ports : \A c : Holds(q, c)' <=> Holds(q, c)
  BY <1>5 DEF Holds
<1>8. /\ \A q \in Ports : \A c : Handles(q, c)' => Handles(q, c)
      /\ \A c : Handles(p, c)' => c = n
  BY <1>2, <1>4 DEF Handles
<1>9. \A c : Nowhere(c) => Nowhere(c)'
  BY <1>6, <1>7, <1>8 DEF Nowhere
<1>10. ~Nowhere(n)
  BY <1>3 DEF Nowhere
<1>11. /\ \A q \in Ports : relay'[q].at = relay[q].at \/ (relay[q].at = "written" /\ relay'[q].at = "reply")
  BY <1>5
<1>12. Types'
  BY <1>1, <1>4, <1>5, <1>6 DEF Types
<1>13. Pairing'
  BY <1>1, <1>11 DEF Pairing, Live, Before
<1>14. Owned'
  <2>1. \A q \in Ports : relay'[q].at \in Before => relay[q].at \in Before
    BY <1>11 DEF Before
  <2>2. \A c \in Made : call[c].prov \in Ports
    BY <1>1 DEF Types, CallRecord
  <2>3. ran' \subseteq Made /\ revoked' \subseteq Made
    BY <1>1, <1>2, <1>3 DEF Owned
  <2> QED
    BY <1>1, <1>6, <2>1, <2>2, <2>3 DEF Owned
<1>15. Way'
  <2> SUFFICES ASSUME NEW q \in Ports
               PROVE  ext'[q].at # "idle" =>
                         \/ relay'[q].at = "written" /\ relay'[q].c = ext'[q].c
                         \/ relay'[q].at \in {"stop", "ended"}
    BY <1>1, <1>6, <1>7, <1>8 DEF Way
  <2>1. CASE q = p
    BY <1>1, <1>2, <1>4, <1>5, <2>1 DEF Way
  <2>2. CASE q # p
    BY <1>1, <1>4, <1>5, <2>2 DEF Way
  <2> QED
    BY <2>1, <2>2
<1>16. Answered'
  BY <1>1, <1>6, <1>9 DEF Answered
<1>17. Invalidated'
  <2>1. \A q \in Ports : ext'[q].at \in {"invalidated", "revoked"} => ext'[q].c \in revoked'
    <3> SUFFICES ASSUME NEW q \in Ports, ext'[q].at \in {"invalidated", "revoked"}
                 PROVE  ext'[q].c \in revoked'
      OBVIOUS
    <3>1. CASE q = p
      BY <1>2, <1>4, <3>1
    <3>2. CASE q # p
      BY <1>1, <1>4, <3>2 DEF Invalidated
    <3> QED
      BY <3>1, <3>2
  <2>2. \A c \in revoked' : call[c].method = "navigate" /\ call[c].reply \notin CleanRefusals
    <3>1. n \notin revoked => call[n].reply \notin CleanRefusals
      BY <1>1, <1>3, <1>10, NoAnswerYet DEF Answered, Codes
    <3> QED
      BY <1>1, <1>2, <3>1 DEF Invalidated
  <2>3. ASSUME NEW q \in Ports, NEW c \in revoked'
        PROVE  /\ c \notin Queued(q)
               /\ Holds(q, c)' => /\ relay'[q].at # "loop"
                                  /\ relay'[q].at = "reply" => relay'[q].code \notin CleanRefusals
               /\ Handles(q, c)' => ext'[q].at \in {"invalidated", "revoked"}
    <3>1. CASE c \in revoked /\ q # p
      BY <1>1, <1>4, <1>5, <1>7, <1>8, <3>1 DEF Invalidated
    <3>2. CASE c \in revoked /\ q = p
      <4>1. c \notin Queued(p)
        BY <1>1, <3>2 DEF Invalidated
      <4>2. Holds(p, c)' => /\ relay'[p].at # "loop"
                            /\ relay'[p].at = "reply" => relay'[p].code \notin CleanRefusals
        BY <1>1, <1>5, <1>7, <3>2 DEF Invalidated, Holds
      <4>3. Handles(p, c)' => ext'[p].at \in {"invalidated", "revoked"}
        BY <1>2, <1>4, <1>8, <3>2 DEF Handles
      <4> QED
        BY <3>2, <4>1, <4>2, <4>3
    <3>3. CASE c = n /\ c \notin revoked
      <4>1. c \notin Queued(q)
        BY <1>1, <1>3, <3>3 DEF Way
      <4>2. e.at # "idle" /\ relay' = relay
        BY <1>2, <1>5, <2>3, <3>3
      <4>3. Holds(q, c) => q = p /\ relay[p].at \notin {"loop", "reply"}
        BY <1>1, <1>3, <3>3 DEF Way, Holds
      <4>4. Handles(q, c)' => ext'[q].at \in {"invalidated", "revoked"}
        <5>1. Handles(q, c)' => q = p
          BY <1>1, <1>3, <1>8, <3>3 DEF Way
        <5> QED
          BY <1>2, <1>4, <2>3, <3>3, <4>2, <5>1
      <4> QED
        BY <1>7, <4>1, <4>2, <4>3, <4>4
    <3> QED
      BY <1>2, <2>3, <3>1, <3>2, <3>3
  <2> QED
    BY <1>6, <2>1, <2>2, <2>3 DEF Invalidated
<1>18. Over'
  <2>1. \A c \in Made : Nowhere(c) /\ c \notin revoked => c \notin revoked'
    BY <1>2, <1>10
  <2> QED
    BY <1>1, <1>6, <1>9, <2>1 DEF Over
<1>19. InRequest'
  <2>1. Nowhere(req.c) /\ req.c \notin revoked => req.c \notin revoked'
    BY <1>2, <1>10
  <2>2. req.at = "send" => req.c \in pending \/ relay'[call[req.c].prov].at \in {"stop", "ended"}
    <3>1. req.at = "send" => req.c \in Made
      BY <1>1 DEF InRequest
    <3>2. req.at = "send" => call[req.c].prov \in Ports
      BY <1>1, <3>1 DEF Types, CallRecord
    <3> QED
      BY <1>1, <1>11, <3>2 DEF InRequest
  <2> QED
    BY <1>1, <1>6, <1>9, <2>1, <2>2 DEF InRequest
<1>20. Awaited'
  BY <1>1, <1>6, <1>7, <1>11 DEF Awaited, Holds
<1> QED
  BY <1>12, <1>13, <1>14, <1>15, <1>16, <1>17, <1>18, <1>19, <1>20 DEF Inv

\* The handler is done with its message: its answer is no clean refusal if the
\* document has been invalidated.
LEMMA AnswersStep ==
    ASSUME Inv, NEW p \in Ports, NEW code \in Codes,
           ext' = [ext EXCEPT ![p] = Quiet],
           relay' = relay \/ Answers(p, code),
           ext[p].at # "idle", ext[p].at \in {"invalidated", "revoked"} => code \notin CleanRefusals,
           UNCHANGED <<queue, calls, call, req, now, obs, listener, owner, registry, pending, pairs, begun,
                       revoked>>,
           ran' \subseteq ran \cup {ext[p].c}
    PROVE  Inv'
<1>1. Quiet \in ExtRecord /\ Quiet.at = "idle"
  BY DEF Quiet, ExtRecord
<1>2. ext[p].c \in revoked => ext[p].at \in {"invalidated", "revoked"}
  BY DEF Inv, Invalidated, Handles
<1>3. \/ relay' = relay
      \/ /\ relay[p].at = "written"
         /\ relay' = [relay EXCEPT ![p].at = "reply", ![p].code = code]
  BY DEF Answers
<1> HIDE DEF Quiet
<1> QED
  BY <1>1, <1>2, <1>3, ExtMove

\* The handler goes on with its message.
LEMMA GoesOnStep ==
    ASSUME Inv, NEW p \in Ports, NEW at \in {"tab", "invalidated", "revoked"},
           ext' = [ext EXCEPT ![p].at = at],
           UNCHANGED <<queue, calls, call, req, now, obs, listener, owner, registry, pending, pairs, begun,
                       relay, ran>>,
           \/ ext[p].at = "message" /\ at = "tab" /\ revoked' = revoked
           \/ /\ ext[p].at = "tab" /\ at = "invalidated" /\ revoked' = revoked \cup {ext[p].c}
              /\ call[ext[p].c].method = "navigate"
           \/ ext[p].at = "invalidated" /\ at = "revoked" /\ revoked' = revoked
    PROVE  Inv'
<1>1. ext \in [Ports -> ExtRecord] /\ ext[p] \in ExtRecord
  BY DEF Inv, Types
<1>2. PICK e \in ExtRecord : e.at = at /\ e.c = ext[p].c /\ ext' = [ext EXCEPT ![p] = e]
  <2> DEFINE e == [ext[p] EXCEPT !.at = at]
  <2>1. e \in ExtRecord /\ e.at = at /\ e.c = ext[p].c
    BY <1>1 DEF ExtRecord
  <2>2. ext' = [ext EXCEPT ![p] = e]
    BY <1>1
  <2> QED
    BY <2>1, <2>2
<1>3. ext[p].at \notin {"invalidated", "revoked"} /\ ext[p].at # "idle" => ext[p].c \notin revoked
  BY DEF Inv, Invalidated, Handles
<1>4. ext[p].at \in {"invalidated", "revoked"} => ext[p].c \in revoked
  BY DEF Inv, Invalidated
<1>5. PICK code \in Codes : TRUE
  BY DEF Codes
<1> QED
  BY <1>2, <1>3, <1>4, <1>5, ExtMove

\* The background script refuses the message, drops it, or asks the page.
LEMMA HandleMessageStep == ASSUME Inv, NEW p \in Ports, HandleMessage(p) PROVE Inv'
<1>1. /\ ext[p].at = "message"
      /\ UNCHANGED <<queue, calls, call, req, now, obs, listener, owner, registry, pending, pairs, begun,
                     ran, revoked>>
  BY DEF HandleMessage, host, background, history
<1>2. CASE ext' = [ext EXCEPT ![p] = Quiet] /\ UNCHANGED relay
  BY <1>1, <1>2, AnswersStep DEF Codes
<1>3. ASSUME NEW front \in BOOLEAN, Admission(p, front) # None, Answers(p, Admission(p, front))
      PROVE  Inv'
  <2>1. PICK code \in Codes : code = Admission(p, front)
    BY <1>3 DEF Admission, Codes, CleanRefusals
  <2>2. ext' = [ext EXCEPT ![p] = Quiet] /\ Answers(p, code)
    BY <1>3, <2>1 DEF Answers
  <2> QED
    BY <1>1, <2>2, AnswersStep
<1>4. CASE ext' = [ext EXCEPT ![p].at = "tab"] /\ UNCHANGED relay
  BY <1>1, <1>4, GoesOnStep
<1> QED
  BY <1>2, <1>3, <1>4 DEF HandleMessage

\* The page runs the command, refuses it, or invalidates its document.
LEMMA PageRunsStep == ASSUME Inv, NEW p \in Ports, PageRuns(p) PROVE Inv'
<1>1. /\ ext[p].at = "tab"
      /\ UNCHANGED <<queue, calls, call, req, now, obs, listener, owner, registry, pending, pairs, begun>>
  BY DEF PageRuns, host, background
<1>2. ASSUME NEW code \in {"pairing_mismatch", "ok", "stale_observation"}, Answers(p, code),
             UNCHANGED revoked, ran' \subseteq ran \cup {ext[p].c}
      PROVE  Inv'
  <2>1. code \in Codes /\ ext' = [ext EXCEPT ![p] = Quiet]
    BY <1>2 DEF Codes, CleanRefusals, Answers
  <2> QED
    BY <1>1, <1>2, <2>1, AnswersStep
<1>3. CASE /\ call[ext[p].c].method = "navigate" /\ revoked' = revoked \cup {ext[p].c}
           /\ ext' = [ext EXCEPT ![p].at = "invalidated"] /\ UNCHANGED <<relay, ran>>
  BY <1>1, <1>3, GoesOnStep
<1> QED
  BY <1>2, <1>3 DEF PageRuns

\* The pairing is revoked, and the tab is navigated.
LEMMA NavigateStep == ASSUME Inv, NEW p \in Ports, NavRevoke(p) \/ NavUpdate(p) PROVE Inv'
<1>1. /\ ext[p].at \in {"invalidated", "revoked"}
      /\ UNCHANGED <<queue, calls, call, req, now, obs, listener, owner, registry, pending, pairs, begun,
                     ran, revoked>>
  BY DEF NavRevoke, NavUpdate, host, history
<1>2. ASSUME NEW code \in {"ok", "navigation_pairing_required", "navigation_outcome_unknown"},
             Answers(p, code)
      PROVE  Inv'
  <2>1. code \in Codes /\ code \notin CleanRefusals /\ ext' = [ext EXCEPT ![p] = Quiet]
    BY <1>2 DEF Codes, CleanRefusals, Answers
  <2> QED
    BY <1>1, <1>2, <2>1, AnswersStep
<1>3. CASE ext[p].at = "invalidated" /\ ext' = [ext EXCEPT ![p].at = "revoked"] /\ UNCHANGED relay
  BY <1>1, <1>3, GoesOnStep
<1> QED
  BY <1>2, <1>3 DEF NavRevoke, NavUpdate

\* The background script ends: what its handlers were doing is lost, but for what
\* the page has already been asked.
LEMMA RestartStep == ASSUME Inv, BackgroundRestarts PROVE Inv'
<1>1. /\ Types /\ Pairing /\ Owned /\ Way /\ Answered /\ Invalidated /\ Over /\ InRequest /\ Awaited
      /\ UNCHANGED <<queue, calls, call, req, now, obs, listener, owner, registry, pending, pairs, relay,
                     ran, revoked>>
      /\ begun' = {} /\ ext' = [p \in Ports |-> IF ext[p].at = "tab" THEN ext[p] ELSE Quiet]
  BY DEF Inv, BackgroundRestarts, host, history
<1>2. /\ ext' \in [Ports -> ExtRecord]
      /\ \A p \in Ports : ext'[p] = ext[p] \/ (ext'[p].at = "idle" /\ ext'[p] \in ExtRecord)
  <2>1. Quiet \in ExtRecord /\ Quiet.at = "idle"
    BY DEF Quiet, ExtRecord
  <2> HIDE DEF Quiet
  <2> QED
    BY <1>1, <2>1 DEF Types
<1>3. /\ Made' = Made /\ \A p \in Ports : Queued(p)' = Queued(p)
      /\ \A p \in Ports : \A c : Holds(p, c)' <=> Holds(p, c)
      /\ \A p \in Ports : \A c : Handles(p, c)' => Handles(p, c) /\ ext'[p] = ext[p]
  BY <1>1, <1>2 DEF Made, Queued, Holds, Handles
<1>4. \A c : Nowhere(c) => Nowhere(c)'
  BY <1>3 DEF Nowhere
<1>5. Types'
  BY <1>1, <1>2, <1>3 DEF Types
<1>6. Pairing'
  BY <1>1 DEF Pairing
<1>7. Owned'
  BY <1>1, <1>3 DEF Owned
<1>8. Way'
  BY <1>1, <1>2, <1>3 DEF Way
<1>9. Answered'
  BY <1>1, <1>3, <1>4 DEF Answered
<1>10. Invalidated'
  BY <1>1, <1>2, <1>3 DEF Invalidated
<1>11. Over'
  BY <1>1, <1>3, <1>4 DEF Over
<1>12. InRequest'
  BY <1>1, <1>3, <1>4 DEF InRequest
<1>13. Awaited'
  BY <1>1, <1>3 DEF Awaited
<1> QED
  BY <1>5, <1>6, <1>7, <1>8, <1>9, <1>10, <1>11, <1>12, <1>13 DEF Inv

(***************************************************************************)
(* The specification.                                                      *)
(***************************************************************************)
\* Nothing is paired and no call was made.
LEMMA InitInv == Init => Inv
<1> SUFFICES ASSUME Init PROVE Inv
  OBVIOUS
<1>1. Made = {}
  BY DEF Init, Made, Calls
<1>2. /\ \A p \in Ports : relay[p].at = "none" /\ ext[p].at = "idle" /\ Queued(p) = {} /\ queue[p] = <<>>
      /\ \A p \in Ports : owner[p] = None
  BY DEF Init, Quiet, Queued
<1>3. Types
  <2>1. relay \in [Ports -> RelayRecord]
    BY DEF Init, RelayRecord
  <2>2. ext \in [Ports -> ExtRecord]
    BY DEF Init, Quiet, ExtRecord
  <2>3. queue \in [Ports -> Seq(Calls)]
    BY DEF Init
  <2>4. req \in Request
    BY DEF Init, Idle, Request
  <2> QED
    BY <1>1, <2>1, <2>2, <2>3, <2>4, Bounds DEF Init, Types
<1>4. Pairing
  BY <1>2 DEF Init, Pairing, Live, Before
<1>5. Owned
  BY <1>1 DEF Init, Owned
<1>6. Way
  BY <1>2 DEF Way, Holds, Handles
<1>7. Answered /\ Over /\ Awaited
  BY <1>1 DEF Answered, Over, Awaited
<1>8. Invalidated
  BY <1>2 DEF Init, Invalidated
<1>9. InRequest
  BY DEF Init, InRequest, Idle
<1> QED
  BY <1>3, <1>4, <1>5, <1>6, <1>7, <1>8, <1>9 DEF Inv

\* The invariant is inductive.
LEMMA NextInv == Inv /\ [Next]_vars => Inv'
<1> SUFFICES ASSUME Inv, [Next]_vars PROVE Inv'
  OBVIOUS
<1>1. CASE Status \/ PruneRemove
  BY <1>1, PruneStep
<1>2. CASE Enqueue \/ Send
  BY <1>2, EnqueueStep
<1>3. CASE CallTimesOut \/ CallAnswered
  BY <1>3, CallOverStep
<1>4. CASE Tick \/ Load \/ ClearIfTab
  BY <1>4, QuietStep
<1>5. CASE PairBegin
  BY <1>5, PairBeginStep
<1>6. CASE BackgroundRestarts
  BY <1>6, RestartStep
<1>7. ASSUME NEW t \in Tasks, StartListener(t) \/ StopListener(t) \/ CallRefused(t)
      PROVE  Inv'
  BY <1>7, QuietStep
<1>8. ASSUME NEW t \in Tasks, NEW p \in Ports, NEW m \in Methods, CallBegin(t, p, m)
      PROVE  Inv'
  BY <1>8, CallBeginStep
<1>9. ASSUME NEW p \in Ports, RelayStep(p)
      PROVE  Inv'
  BY <1>9, RegisterInsertStep, PollBeginStep, PollTakesStep, RegisterStep, RelayRefusesStep,
     RelayWritesStep, GivesUpStep, CompleteStep, UnregisterStep DEF RelayStep
<1>10. ASSUME NEW p \in Ports, BackgroundStep(p)
       PROVE  Inv'
  BY <1>10, QuietStep, HandleMessageStep, PageRunsStep, NavigateStep DEF BackgroundStep
<1>11. ASSUME NEW p \in Ports, DiscoverFails(p) \/ PairFinish(p)
       PROVE  Inv'
  BY <1>11, GivesUpStep, PairFinishStep
<1>12. CASE UNCHANGED vars
  BY <1>12 DEF vars, host, background, history, Inv, Types, Pairing, Owned, Way, Answered, Invalidated,
        Over, InRequest, Awaited, Made, Queued, Holds, Handles, Nowhere
<1> QED
  BY <1>1, <1>2, <1>3, <1>4, <1>5, <1>6, <1>7, <1>8, <1>9, <1>10, <1>11, <1>12 DEF Next

\* The invariant holds in every state, whatever the fairness of the processes.
THEOREM RelayInvariant == Spec => []Inv
BY InitInv, NextInv, PTL DEF Spec

\* A pairing never moves between tasks: the provider of a pairing keeps the owner
\* it was registered with, and only calls of its owner reach it (claim, relay).
THEOREM OnePairingOneTaskHolds == Spec => []OnePairingOneTask
<1>1. Inv => OnePairingOneTask
  BY DEF Inv, Owned, OnePairingOneTask
<1> QED
  BY <1>1, RelayInvariant, PTL

\* A navigation that has invalidated the document costs the task its provider,
\* whatever the call was answered (navigation_provider_must_revoke).
THEOREM NavigationRevokesHolds == Spec => []NavigationRevokes
<1>1. Inv => NavigationRevokes
  BY DEF Inv, Owned, Over, Invalidated, NavigationRevokes
<1> QED
  BY <1>1, RelayInvariant, PTL

\* Only the run loop writes a command to the port, and only before its deadline:
\* by then its caller still waits (call, relay::dispatch).
LEMMA WrittenWhileAwaited ==
    ASSUME Inv, [Next]_vars, NEW p \in Ports, relay[p].at = "loop", relay'[p].at = "written"
    PROVE  relay[p].c \in pending
<1>1. relay \in [Ports -> RelayRecord]
  BY DEF Inv, Types
<1>2. CASE RelayWrites(p)
  <2>1. PICK n \in Nat : n = relay[p].c
    BY <1>1 DEF RelayRecord
  <2>2. Holds(p, n) /\ n \in Made
    BY <2>1 DEF Inv, Way, Holds
  <2>3. call[n].deadline \in Nat /\ now \in Nat
    BY <2>2 DEF Inv, Types, CallRecord
  <2>4. Refusal(p, TRUE) = None
    BY <1>2 DEF RelayWrites
  <2>5. ~(call[n].deadline <= now)
    BY <2>1, <2>4, NoAnswerYet DEF Refusal, Codes, CleanRefusals
  <2> QED
    BY <2>1, <2>2, <2>3, <2>5 DEF Inv, Awaited
<1>3. ~UNCHANGED relay
  OBVIOUS
<1>4. ASSUME NEW q \in Ports, NEW r, relay' = [relay EXCEPT ![q] = r], r.at # "written" PROVE FALSE
  BY <1>1, <1>4
<1>5. ASSUME NEW q \in Ports, NEW at, RelayAt(q, at), at # "written" PROVE FALSE
  BY <1>1, <1>5 DEF RelayAt, RelayRecord
<1>6. ASSUME NEW q \in Ports, RelayStep(q) PROVE relay[p].c \in pending
  <2>1. CASE RelayWrites(q)
    <3>1. q = p
      BY <1>1, <2>1 DEF RelayWrites
    <3> QED
      BY <1>2, <2>1, <3>1
  <2>2. CASE RegisterInsert(q) \/ PollBegin(q) \/ (\E h \in Hellos : Register(q, h)) \/ RelayFails(q) \/ RelayEof(q)
    BY <1>5, <2>2 DEF RegisterInsert, PollBegin, Register, RelayFails, RelayEof
  <2>3. CASE PollTakes(q)
    BY <1>1, <2>3 DEF PollTakes, RelayRecord
  <2>4. CASE RelayRefuses(q)
    BY <1>1, <2>4 DEF RelayRefuses, RelayRecord
  <2>5. CASE Complete(q)
    <3>1. relay' = [relay EXCEPT ![q].at = "poll", ![q].c = 0, ![q].code = None] \/ RelayAt(q, "stop")
      BY <2>5 DEF Complete
    <3> QED
      BY <1>1, <1>5, <3>1 DEF RelayRecord
  <2>6. CASE Unregister(q)
    BY <1>4, <2>6 DEF Unregister
  <2> QED
    BY <1>6, <2>1, <2>2, <2>3, <2>4, <2>5, <2>6 DEF RelayStep
<1>7. ASSUME NEW q \in Ports, BackgroundStep(q) PROVE FALSE
  <2>1. UNCHANGED relay \/ \E code : Answers(q, code)
    BY <1>7 DEF BackgroundStep, PortFails, ClearFailed, HandleMessage, PageRuns, NavRevoke, NavUpdate
  <2>2. ASSUME NEW code, relay' = [relay EXCEPT ![q].at = "reply", ![q].code = code] PROVE FALSE
    BY <1>1, <2>2 DEF RelayRecord
  <2> QED
    BY <1>3, <2>1, <2>2 DEF Answers
<1>8. ASSUME NEW q \in Ports, DiscoverFails(q) \/ PairFinish(q) PROVE FALSE
  BY <1>5, <1>8 DEF DiscoverFails, PairFinish
<1>9. CASE \/ Status \/ PruneRemove \/ Enqueue \/ Send \/ CallTimesOut \/ CallAnswered
           \/ Tick \/ PairBegin \/ Load \/ ClearIfTab \/ BackgroundRestarts
           \/ \E t \in Tasks : \/ StartListener(t) \/ StopListener(t) \/ CallRefused(t)
                               \/ \E q \in Ports, m \in Methods : CallBegin(t, q, m)
           \/ UNCHANGED vars
  <2>1. UNCHANGED relay
    BY <1>9 DEF Status, PruneRemove, Enqueue, Send, CallTimesOut, CallAnswered, Tick, PairBegin, Load,
          ClearIfTab, BackgroundRestarts, StartListener, StopListener, CallRefused, CallBegin, vars
  <2> QED
    BY <1>3, <2>1
<1> QED
  BY <1>6, <1>7, <1>8, <1>9 DEF Next

\* A command reaches the port of the extension only while its caller still waits
\* for it: what was queued by a call that has timed out is never dispatched.
THEOREM DispatchedWhileAwaitedHolds == Spec => DispatchedWhileAwaited
<1>1. Inv /\ [Next]_vars =>
        [\A p \in Ports : relay[p].at = "loop" /\ relay'[p].at = "written" => relay[p].c \in pending]_vars
  BY WrittenWhileAwaited
<1> QED
  BY <1>1, RelayInvariant, PTL DEF Spec, DispatchedWhileAwaited

=============================================================================
