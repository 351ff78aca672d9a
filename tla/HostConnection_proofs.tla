----------------------- MODULE HostConnection_proofs -----------------------
(***************************************************************************)
(* For every number of requests, tracked ids and parallel tasks: a request *)
(* is answered at most once, neither end gives the connection up without a *)
(* cause, and a client that is ready again has left nothing on the wire or *)
(* at the Host.                                                            *)
(*                                                                         *)
(* The argument is about where an id is: on its way to the Host, in one    *)
(* lane of the Host, on its way back, or read by the client; always in one *)
(* of these, and what is on its way belongs to the operation in flight.    *)
(* One operation ends with an id untaken, wait_for_window_with_cancel whose*)
(* cancel was refused: the frames keep their order in both directions, so  *)
(* the answer of the wait has come before the refusal.                     *)
(***************************************************************************)
EXTENDS HostConnection, FiniteSetTheorems, TLAPS

IdsOf(s) == {s[i].id : i \in DOMAIN s}

Apart(s) == \A i, j \in DOMAIN s : s[i].id = s[j].id => i = j

HostIds == IdsOf(toHost)

LaneIds == IF lane.stage \in {"serving", "waiting"} THEN {lane.id} ELSE {}

ClientIds == IdsOf(toClient)

AtHost == HostIds \cup LaneIds \cup parallel

OnTheWay == AtHost \cup ClientIds

Awaited == {op.await[i] : i \in DOMAIN op.await}

(***************************************************************************)
(* The inductive invariant.                                                *)
(***************************************************************************)
\* Every id is in one place, and is answered when it has left the Host.
Places ==
    /\ Apart(toHost) /\ Apart(toClient)
    /\ HostIds \cap LaneIds = {} /\ HostIds \cap parallel = {} /\ LaneIds \cap parallel = {}
    /\ \A id \in AtHost : answers[id] = 0
    /\ \A id \in ClientIds \cup PendingIds : answers[id] # 0
    /\ ClientIds \cap PendingIds = {}
    /\ \A id \in Ids : id >= nextId => answers[id] = 0 /\ id \notin AtHost

\* What is on its way is awaited, and what is awaited is tracked.
Operation ==
    /\ state = "ready" => op = NoOp /\ OnTheWay = {}
    /\ state = "unusable" => op = NoOp
    /\ state = "in_flight" =>
          /\ op \in Op /\ clientOpen
          /\ Len(op.await) \in {1, 2}
          /\ Len(op.await) = 2 => op.await[1] # op.await[2]
          /\ Awaited \subseteq outstanding
          /\ \A id \in Awaited : id < nextId
          /\ OnTheWay \subseteq Awaited
          /\ op.cancelled => op.cancellable
          /\ op.cancellable /\ ~op.cancelled => Len(op.await) = 1

\* The id of the wait an operation is about: the last one it awaits.
TheWait == op.await[Len(op.await)]

\* An operation that may be cancelled is one wait.
Cancellable ==
    state = "in_flight" /\ op.cancellable =>
        /\ op.method \in Waits
        /\ parallel = {}
        /\ lane.stage \in {"serving", "waiting"} =>
              lane.stage = "waiting" /\ lane.id = TheWait /\ lane.method = op.method
        /\ \A i \in DOMAIN toHost : toHost[i].id = TheWait => toHost[i].method = op.method

\* The cancel in f names the wait and comes behind it.
CancelFollows(s) ==
    \A i \in DOMAIN s : s[i].id = op.await[1] =>
        /\ s[i].method = IF op.method = "wait_for_window" THEN "cancel_window_wait" ELSE "cancel"
        /\ s[i].waitId = TheWait
        /\ \A j \in DOMAIN s : s[j].id = TheWait => j < i

\* A refusal of the cancel comes behind the answer of the wait.
RefusalFollows(s) ==
    \A i \in DOMAIN s : s[i].id = op.await[1] /\ ~s[i].ok =>
        /\ TheWait \notin AtHost
        /\ \A j \in DOMAIN s : s[j].id = TheWait => j < i

BothAwaited == state = "in_flight" /\ op.cancellable /\ Len(op.await) = 2

Cancelled ==
    BothAwaited =>
        /\ op.cancelled
        /\ op.await[1] \notin PendingIds
        /\ CancelFollows(toHost)
        /\ op.method = "wait_for_window" => RefusalFollows(toClient)

\* The client tracks what it awaits, and the waits it left.
Tracked ==
    /\ state = "ready" => outstanding \subseteq leaked
    /\ state = "in_flight" => outstanding \subseteq leaked \cup Awaited

Inv == HonestConnection /\ Places /\ Operation /\ Tracked /\ Cancellable /\ Cancelled

(***************************************************************************)
(* Sequences of frames.                                                    *)
(***************************************************************************)
\* The frame at the head is read.
LEMMA TailIs ==
    ASSUME NEW S, NEW s \in Seq(S), s # <<>>
    PROVE  /\ Head(s) = s[1] /\ Head(s) \in S /\ 1 \in DOMAIN s
           /\ Tail(s) \in Seq(S)
           /\ \A i \in DOMAIN Tail(s) : i + 1 \in DOMAIN s /\ Tail(s)[i] = s[i + 1] /\ i \in Nat /\ i > 0
           /\ \A i \in DOMAIN s : i # 1 => i - 1 \in DOMAIN Tail(s) /\ s[i] = Tail(s)[i - 1]
<1>1. Len(s) \in Nat /\ Len(s) > 0 /\ DOMAIN s = 1 .. Len(s)
  OBVIOUS
<1>2. Tail(s) \in Seq(S) /\ Len(Tail(s)) = Len(s) - 1 /\ DOMAIN Tail(s) = 1 .. Len(s) - 1
  BY <1>1
<1>3. \A i \in 1 .. Len(s) - 1 : Tail(s)[i] = s[i + 1]
  BY <1>1
<1>4. Head(s) = s[1] /\ 1 \in DOMAIN s /\ Head(s) \in S
  BY <1>1
<1>5. ASSUME NEW i \in DOMAIN Tail(s)
      PROVE  i + 1 \in DOMAIN s /\ Tail(s)[i] = s[i + 1] /\ i \in Nat /\ i > 0
  BY <1>1, <1>2, <1>3
<1>6. ASSUME NEW i \in DOMAIN s, i # 1 PROVE i - 1 \in DOMAIN Tail(s) /\ s[i] = Tail(s)[i - 1]
  <2>1. i - 1 \in 1 .. Len(s) - 1 /\ (i - 1) + 1 = i
    BY <1>1, <1>6
  <2> QED
    BY <1>2, <1>3, <2>1
<1> QED
  BY <1>2, <1>4, <1>5, <1>6

\* Its id leaves the stream.
LEMMA TailIds ==
    ASSUME NEW S, NEW s \in Seq(S), s # <<>>, Apart(s)
    PROVE  /\ Apart(Tail(s))
           /\ IdsOf(s) = IdsOf(Tail(s)) \cup {Head(s).id}
           /\ Head(s).id \notin IdsOf(Tail(s))
<1>1. Apart(Tail(s))
  BY TailIs DEF Apart
<1>2. Head(s).id \notin IdsOf(Tail(s))
  <2> SUFFICES ASSUME NEW i \in DOMAIN Tail(s), Tail(s)[i].id = Head(s).id PROVE FALSE
    BY DEF IdsOf
  <2>1. i + 1 \in DOMAIN s /\ s[i + 1].id = s[1].id /\ 1 \in DOMAIN s /\ i \in Nat /\ i > 0
    BY TailIs
  <2>2. i + 1 = 1
    BY <2>1 DEF Apart
  <2> QED
    BY <2>1, <2>2
<1>3. IdsOf(s) \subseteq IdsOf(Tail(s)) \cup {Head(s).id}
  <2> SUFFICES ASSUME NEW i \in DOMAIN s PROVE s[i].id \in IdsOf(Tail(s)) \cup {Head(s).id}
    BY DEF IdsOf
  <2>1. CASE i = 1
    BY <2>1, TailIs
  <2>2. CASE i # 1
    <3>1. i - 1 \in DOMAIN Tail(s) /\ s[i] = Tail(s)[i - 1]
      BY <2>2, TailIs
    <3> QED
      BY <3>1 DEF IdsOf
  <2> QED
    BY <2>1, <2>2
<1>4. IdsOf(Tail(s)) \cup {Head(s).id} \subseteq IdsOf(s)
  BY TailIs DEF IdsOf
<1> QED
  BY <1>1, <1>2, <1>3, <1>4

\* Frames are written behind the others.
LEMMA ConcatIs ==
    ASSUME NEW S, NEW s \in Seq(S), NEW t \in Seq(S)
    PROVE  /\ s \o t \in Seq(S) /\ Len(s) \in Nat
           /\ \A i \in DOMAIN s : i \in DOMAIN (s \o t) /\ (s \o t)[i] = s[i] /\ i <= Len(s)
           /\ \A i \in DOMAIN t : Len(s) + i \in DOMAIN (s \o t) /\ (s \o t)[Len(s) + i] = t[i]
           /\ \A i \in DOMAIN (s \o t) :
                 \/ i \in DOMAIN s /\ (s \o t)[i] = s[i] /\ i <= Len(s) /\ i \in Nat
                 \/ /\ i - Len(s) \in DOMAIN t /\ (s \o t)[i] = t[i - Len(s)] /\ i > Len(s)
                    /\ i \in Nat
<1>1. /\ Len(s) \in Nat /\ Len(t) \in Nat /\ DOMAIN s = 1 .. Len(s) /\ DOMAIN t = 1 .. Len(t)
      /\ s \o t \in Seq(S) /\ Len(s \o t) = Len(s) + Len(t)
      /\ DOMAIN (s \o t) = 1 .. Len(s) + Len(t)
  OBVIOUS
<1>2. \A i \in 1 .. Len(s) + Len(t) :
         (s \o t)[i] = IF i <= Len(s) THEN s[i] ELSE t[i - Len(s)]
  BY <1>1
<1>3. \A i \in DOMAIN s : i \in DOMAIN (s \o t) /\ (s \o t)[i] = s[i] /\ i <= Len(s)
  BY <1>1, <1>2
<1>4. ASSUME NEW i \in DOMAIN t
      PROVE  Len(s) + i \in DOMAIN (s \o t) /\ (s \o t)[Len(s) + i] = t[i]
  <2>1. Len(s) + i \in 1 .. Len(s) + Len(t) /\ ~(Len(s) + i <= Len(s)) /\ (Len(s) + i) - Len(s) = i
    BY <1>1
  <2> QED
    BY <1>1, <1>2, <2>1
<1>5. ASSUME NEW i \in DOMAIN (s \o t)
      PROVE  \/ i \in DOMAIN s /\ (s \o t)[i] = s[i] /\ i <= Len(s) /\ i \in Nat
             \/ /\ i - Len(s) \in DOMAIN t /\ (s \o t)[i] = t[i - Len(s)] /\ i > Len(s)
                /\ i \in Nat
  BY <1>1, <1>2
<1> QED
  BY <1>1, <1>3, <1>4, <1>5

\* Their ids join the stream.
LEMMA ConcatIds ==
    ASSUME NEW S, NEW s \in Seq(S), NEW t \in Seq(S), Apart(s), Apart(t),
           IdsOf(s) \cap IdsOf(t) = {}
    PROVE  Apart(s \o t) /\ IdsOf(s \o t) = IdsOf(s) \cup IdsOf(t)
<1> DEFINE u == s \o t
<1>1. /\ Len(s) \in Nat
      /\ \A i \in DOMAIN s : i \in DOMAIN u /\ u[i] = s[i] /\ i <= Len(s)
      /\ \A i \in DOMAIN t : Len(s) + i \in DOMAIN u /\ u[Len(s) + i] = t[i]
      /\ \A i \in DOMAIN u :
            \/ i \in DOMAIN s /\ u[i] = s[i] /\ i <= Len(s) /\ i \in Nat
            \/ i - Len(s) \in DOMAIN t /\ u[i] = t[i - Len(s)] /\ i > Len(s) /\ i \in Nat
  BY ConcatIs
<1> HIDE DEF u
<1>2. ASSUME NEW i \in DOMAIN u, NEW j \in DOMAIN u, u[i].id = u[j].id PROVE i = j
  <2>1. CASE i \in DOMAIN s /\ u[i] = s[i] /\ j \in DOMAIN s /\ u[j] = s[j]
    BY <1>2, <2>1 DEF Apart
  <2>2. CASE /\ i - Len(s) \in DOMAIN t /\ u[i] = t[i - Len(s)] /\ i \in Nat
             /\ j - Len(s) \in DOMAIN t /\ u[j] = t[j - Len(s)] /\ j \in Nat
    <3>1. i - Len(s) = j - Len(s)
      BY <1>2, <2>2 DEF Apart
    <3> QED
      BY <1>1, <2>2, <3>1
  <2>3. CASE i \in DOMAIN s /\ u[i] = s[i] /\ j - Len(s) \in DOMAIN t /\ u[j] = t[j - Len(s)]
    BY <1>2, <2>3 DEF IdsOf
  <2>4. CASE j \in DOMAIN s /\ u[j] = s[j] /\ i - Len(s) \in DOMAIN t /\ u[i] = t[i - Len(s)]
    BY <1>2, <2>4 DEF IdsOf
  <2> QED
    BY <1>1, <2>1, <2>2, <2>3, <2>4
<1>3. Apart(u)
  BY <1>2 DEF Apart
<1>4. IdsOf(u) \subseteq IdsOf(s) \cup IdsOf(t)
  BY <1>1 DEF IdsOf
<1>5. IdsOf(s) \cup IdsOf(t) \subseteq IdsOf(u)
  BY <1>1 DEF IdsOf
<1> QED
  BY <1>3, <1>4, <1>5 DEF u

\* Answer counts every response once.
LEMMA AnswerIs ==
    ASSUME TypeOK, NEW rs \in Seq(Response), Apart(rs), Answer(rs)
    PROVE  /\ toClient' = toClient \o rs /\ toClient' \in Seq(Response)
           /\ answers' \in [Ids -> Nat]
           /\ \A id \in Ids : answers'[id] = IF id \in IdsOf(rs) THEN answers[id] + 1
                                             ELSE answers[id]
<1>1. toClient \in Seq(Response) /\ answers \in [Ids -> Nat]
  BY DEF TypeOK
<1>2. ASSUME NEW id \in Ids
      PROVE  Cardinality({i \in DOMAIN rs : rs[i].id = id}) = IF id \in IdsOf(rs) THEN 1 ELSE 0
  <2> DEFINE A == {i \in DOMAIN rs : rs[i].id = id}
  <2>1. CASE id \in IdsOf(rs)
    <3>1. PICK k \in DOMAIN rs : rs[k].id = id
      BY <2>1 DEF IdsOf
    <3>2. A = {k}
      BY <3>1 DEF Apart
    <3> QED
      BY <2>1, <3>2, FS_Singleton
  <2>2. CASE id \notin IdsOf(rs)
    <3>1. A = {}
      BY <2>2 DEF IdsOf
    <3> QED
      BY <2>2, <3>1, FS_EmptySet
  <2> QED
    BY <2>1, <2>2
<1>3. answers' = [id \in Ids |-> answers[id] + Cardinality({i \in DOMAIN rs : rs[i].id = id})]
  BY DEF Answer
<1>4. \A id \in Ids : answers'[id] = IF id \in IdsOf(rs) THEN answers[id] + 1 ELSE answers[id]
  BY <1>1, <1>2, <1>3
<1>5. answers' \in [Ids -> Nat]
  <2>1. \A id \in Ids : answers[id] + Cardinality({i \in DOMAIN rs : rs[i].id = id}) \in Nat
    BY <1>1, <1>2
  <2> QED
    BY <1>3, <2>1, Zenon
<1> QED
  BY <1>1, <1>4, <1>5, ConcatIs DEF Answer

(***************************************************************************)
(* The Host's steps.  Each reads at most one frame, moves at most one id   *)
(* into a lane and answers ids that are then no longer at the Host.        *)
(***************************************************************************)
\* The Host's lane is one of four.
LEMMA LaneIs ==
    ASSUME lane \in Lane
    PROVE  /\ lane.stage \in {"reading", "closed", "serving", "waiting"}
           /\ lane.stage = "reading" <=> lane = Reading
           /\ lane.stage = "closed" <=> lane = Closed
           /\ lane.stage \in {"serving", "waiting"} => lane.id \in Ids
           /\ lane.stage = "waiting" =>
                 lane \in [stage : {"waiting"}, id : Ids, method : Waits,
                           registered : BOOLEAN, cancelled : BOOLEAN]
<1>1. CASE lane = Reading
  BY <1>1 DEF Reading, Closed
<1>2. CASE lane = Closed
  BY <1>2 DEF Reading, Closed
<1>3. CASE lane \in [stage : {"serving"}, id : Ids, method : {"serial", "interrupt_all"}]
  BY <1>3 DEF Reading, Closed
<1>4. CASE lane \in [stage : {"waiting"}, id : Ids, method : Waits,
                     registered : BOOLEAN, cancelled : BOOLEAN]
  BY <1>4 DEF Reading, Closed
<1> QED
  BY <1>1, <1>2, <1>3, <1>4 DEF Lane

\* Ids are at the Host and on the streams, and nowhere else.
LEMMA IdsType ==
    ASSUME TypeOK
    PROVE  HostIds \subseteq Ids /\ LaneIds \subseteq Ids /\ ClientIds \subseteq Ids
           /\ PendingIds \subseteq Ids /\ AtHost \subseteq Ids
<1>1. HostIds \subseteq Ids /\ ClientIds \subseteq Ids
  <2>1. \A i \in DOMAIN toHost : toHost[i] \in Request
    BY DEF TypeOK
  <2>2. \A i \in DOMAIN toClient : toClient[i] \in Response
    BY DEF TypeOK
  <2> QED
    BY <2>1, <2>2 DEF HostIds, ClientIds, IdsOf, Request, Response
<1>2. LaneIds \subseteq Ids
  BY LaneIs DEF TypeOK, LaneIds
<1>3. PendingIds \subseteq Ids
  BY DEF TypeOK, PendingIds, Response
<1> QED
  BY <1>1, <1>2, <1>3 DEF TypeOK, AtHost

\* What a step of the Host does to the frames and the ids.
Answers(rs) ==
    /\ rs \in Seq(Response) /\ Apart(rs) /\ IdsOf(rs) \subseteq AtHost
    /\ toClient' = toClient \o rs /\ answers' \in [Ids -> Nat]
    /\ \A id \in Ids : answers'[id] = IF id \in IdsOf(rs) THEN answers[id] + 1 ELSE answers[id]

\* A refusal of the cancel in flight is answered when the wait has left the Host.
RefusesLate(rs) ==
    BothAwaited /\ op.method = "wait_for_window" =>
        \A k \in DOMAIN rs : rs[k].id = op.await[1] /\ ~rs[k].ok =>
            TheWait \notin AtHost' /\ TheWait \notin IdsOf(rs)

\* Every step of the Host that keeps these rules preserves the invariant.
LEMMA HostStep ==
    ASSUME Inv, UNCHANGED client, NEW rs, Answers(rs), RefusesLate(rs),
           toHost' = toHost \/ (toHost # <<>> /\ toHost' = Tail(toHost)),
           lane' \in Lane, parallel' \subseteq Ids, stop' \in BOOLEAN, hostRead' \in Reads,
           hostRead = "lost" => hostRead' = "lost",
           lane' = Closed => ~clientOpen \/ hostRead' = "lost",
           AtHost' \subseteq AtHost, AtHost' \cap IdsOf(rs) = {},
           HostIds' \cap LaneIds' = {}, HostIds' \cap parallel' = {}, LaneIds' \cap parallel' = {},
           Cancellable'
    PROVE  Inv'
<1>1. /\ TypeOK /\ Places /\ Operation /\ Cancelled
      /\ UNCHANGED <<state, cause, op, outstanding, leaked, pending, nextId, clientOpen, clientRead>>
  BY DEF Inv, HonestConnection, client
<1>2. /\ toHost \in Seq(Request) /\ toClient \in Seq(Response) /\ rs \in Seq(Response)
      /\ answers \in [Ids -> Nat] /\ Apart(toHost) /\ Apart(toClient) /\ Apart(rs)
  BY <1>1 DEF TypeOK, Places, Answers
<1>3. toHost' \in Seq(Request) /\ Apart(toHost')
  <2>1. CASE toHost # <<>> /\ toHost' = Tail(toHost)
    BY <1>2, <2>1, TailIs, TailIds
  <2> QED
    BY <1>2, <2>1
<1>4. ClientIds \cap IdsOf(rs) = {}
  BY <1>1 DEF Places, Answers
<1>5. /\ toClient' \in Seq(Response) /\ Apart(toClient')
      /\ ClientIds' = ClientIds \cup IdsOf(rs)
  <2>1. toClient' = toClient \o rs
    BY DEF Answers
  <2>2. IdsOf(toClient) \cap IdsOf(rs) = {}
    BY <1>4 DEF ClientIds
  <2>3. toClient \o rs \in Seq(Response)
    BY <1>2, ConcatIs
  <2>4. Apart(toClient \o rs) /\ IdsOf(toClient \o rs) = IdsOf(toClient) \cup IdsOf(rs)
    BY <1>2, <2>2, ConcatIds
  <2> QED
    BY <2>1, <2>3, <2>4 DEF ClientIds
<1>6. TypeOK'
  BY <1>1, <1>3, <1>5 DEF TypeOK, Answers
<1>7. /\ AtHost \subseteq Ids /\ ClientIds \subseteq Ids /\ PendingIds \subseteq Ids
      /\ PendingIds' = PendingIds
  BY <1>1, IdsType DEF PendingIds
<1>8. Places'
  <2>1. ASSUME NEW id \in AtHost' PROVE answers'[id] = 0
    BY <1>1, <1>7, <2>1 DEF Places, Answers
  <2>2. ASSUME NEW id \in ClientIds' \cup PendingIds' PROVE answers'[id] # 0
    <3>1. id \in Ids /\ answers[id] \in Nat
      BY <1>2, <1>5, <1>7 DEF Answers
    <3>2. id \in IdsOf(rs) \/ answers[id] # 0
      BY <1>1, <1>5, <1>7 DEF Places
    <3> QED
      BY <3>1, <3>2 DEF Answers
  <2>3. IdsOf(rs) \cap PendingIds = {}
    BY <1>1 DEF Places, Answers
  <2>4. ClientIds' \cap PendingIds' = {}
    BY <1>1, <1>5, <1>7, <2>3 DEF Places
  <2>5. ASSUME NEW id \in Ids, id >= nextId' PROVE answers'[id] = 0 /\ id \notin AtHost'
    BY <1>1, <2>5 DEF Places, Answers
  <2> QED
    BY <1>3, <1>5, <2>1, <2>2, <2>4, <2>5 DEF Places
<1>9. OnTheWay' \subseteq OnTheWay
  BY <1>5 DEF OnTheWay, Answers
<1>10. Operation'
  BY <1>1, <1>9 DEF Operation, Awaited
<1>11. OneAnswerEach'
  BY <1>1, <1>2, <1>7, SMTT(60) DEF OneAnswerEach, Inv, HonestConnection, Places, Answers
<1>12. UnusableForCause' /\ HostClosesForCause'
  BY <1>1 DEF UnusableForCause, HostClosesForCause, Inv, HonestConnection
<1>13. Tracked'
  BY <1>1 DEF Inv, Tracked, Awaited
<1>14. Cancelled'
  <2> SUFFICES ASSUME BothAwaited
               PROVE  /\ op.cancelled /\ op.await[1] \notin PendingIds
                      /\ CancelFollows(toHost')
                      /\ op.method = "wait_for_window" => RefusalFollows(toClient)'
    BY <1>1, <1>7 DEF Cancelled, BothAwaited, CancelFollows, TheWait
  <2>1. /\ op.cancelled /\ op.await[1] \notin PendingIds /\ CancelFollows(toHost)
        /\ op.method = "wait_for_window" => RefusalFollows(toClient)
    BY <1>1 DEF Cancelled
  <2>2. CancelFollows(toHost')
    <3>1. CASE toHost' = toHost
      BY <2>1, <3>1
    <3>2. CASE toHost # <<>> /\ toHost' = Tail(toHost)
      <4> SUFFICES ASSUME NEW i \in DOMAIN toHost', toHost'[i].id = op.await[1]
                   PROVE  /\ toHost'[i].method = IF op.method = "wait_for_window"
                                                 THEN "cancel_window_wait" ELSE "cancel"
                          /\ toHost'[i].waitId = TheWait
                          /\ \A j \in DOMAIN toHost' : toHost'[j].id = TheWait => j < i
        BY DEF CancelFollows
      <4>1. /\ \A k \in DOMAIN toHost' : /\ k + 1 \in DOMAIN toHost /\ toHost'[k] = toHost[k + 1]
                                         /\ k \in Nat
        BY <1>2, <3>2, TailIs
      <4>2. /\ toHost'[i].method = IF op.method = "wait_for_window"
                                   THEN "cancel_window_wait" ELSE "cancel"
            /\ toHost'[i].waitId = TheWait
            /\ \A j \in DOMAIN toHost : toHost[j].id = TheWait => j < i + 1
        BY <2>1, <4>1 DEF CancelFollows
      <4>3. ASSUME NEW j \in DOMAIN toHost', toHost'[j].id = TheWait PROVE j < i
        <5>1. j + 1 < i + 1 /\ i \in Nat /\ j \in Nat
          BY <4>1, <4>2, <4>3
        <5> QED
          BY <5>1
      <4> QED
        BY <4>2, <4>3
    <3> QED
      BY <3>1, <3>2
  <2>3. ASSUME op.method = "wait_for_window" PROVE RefusalFollows(toClient)'
    <3>1. TheWait' = TheWait /\ op' = op
      BY <1>1 DEF TheWait
    <3> SUFFICES ASSUME NEW i \in DOMAIN toClient', toClient'[i].id = op.await[1], ~toClient'[i].ok
                 PROVE  /\ TheWait \notin AtHost'
                        /\ \A j \in DOMAIN toClient' : toClient'[j].id = TheWait => j < i
      BY <3>1 DEF RefusalFollows
    <3> DEFINE n == Len(toClient)
    <3>2. /\ n \in Nat
          /\ \A k \in DOMAIN toClient' :
                \/ k \in DOMAIN toClient /\ toClient'[k] = toClient[k] /\ k <= n /\ k \in Nat
                \/ k - n \in DOMAIN rs /\ toClient'[k] = rs[k - n] /\ k > n /\ k \in Nat
      BY <1>2, ConcatIs DEF Answers
    <3> HIDE DEF n
    <3>3. CASE i \in DOMAIN toClient /\ toClient'[i] = toClient[i]
      <4>1. TheWait \notin AtHost /\ \A j \in DOMAIN toClient : toClient[j].id = TheWait => j < i
        BY <2>1, <2>3, <3>3 DEF RefusalFollows
      <4>2. TheWait \notin IdsOf(rs)
        BY <4>1 DEF Answers
      <4> QED
        BY <3>2, <4>1, <4>2 DEF IdsOf
    <3>4. CASE i - n \in DOMAIN rs /\ toClient'[i] = rs[i - n] /\ i > n /\ i \in Nat
      <4>1. TheWait \notin AtHost' /\ TheWait \notin IdsOf(rs)
        BY <2>3, <3>4 DEF RefusesLate
      <4>2. ASSUME NEW j \in DOMAIN toClient', toClient'[j].id = TheWait PROVE j < i
        <5>1. j <= n /\ j \in Nat
          BY <3>2, <4>1, <4>2 DEF IdsOf
        <5> QED
          BY <3>2, <3>4, <5>1
      <4> QED
        BY <4>1, <4>2
    <3> QED
      BY <3>2, <3>3, <3>4
  <2> QED
    BY <2>1, <2>2, <2>3
<1> QED
  BY <1>6, <1>8, <1>10, <1>11, <1>12, <1>13, <1>14 DEF Inv, HonestConnection

\* One answer, and two.
LEMMA OneReply ==
    ASSUME NEW id \in Ids, NEW ok \in BOOLEAN
    PROVE  /\ <<Reply(id, ok)>> \in Seq(Response) /\ Apart(<<Reply(id, ok)>>)
           /\ IdsOf(<<Reply(id, ok)>>) = {id}
           /\ \A k \in DOMAIN <<Reply(id, ok)>> : <<Reply(id, ok)>>[k] = Reply(id, ok)
<1>1. Reply(id, ok) \in Response /\ Reply(id, ok).id = id
  BY DEF Reply, Response
<1> QED
  BY <1>1 DEF IdsOf, Apart

\* Two answers of different requests.
LEMMA TwoReplies ==
    ASSUME NEW a \in Ids, NEW b \in Ids, a # b, NEW x \in BOOLEAN, NEW y \in BOOLEAN,
           NEW rs, rs = <<Reply(a, x), Reply(b, y)>>
    PROVE  /\ rs \in Seq(Response) /\ Apart(rs) /\ IdsOf(rs) = {a, b}
           /\ \A k \in DOMAIN rs : rs[k] = Reply(a, x) \/ rs[k] = Reply(b, y)
<1>1. /\ Reply(a, x) \in Response /\ Reply(a, x).id = a
      /\ Reply(b, y) \in Response /\ Reply(b, y).id = b
  BY DEF Reply, Response
<1>2. rs \in Seq(Response) /\ DOMAIN rs = {1, 2} /\ rs[1] = Reply(a, x) /\ rs[2] = Reply(b, y)
  BY <1>1
<1>3. Apart(rs) /\ IdsOf(rs) = {a, b}
  BY <1>1, <1>2 DEF Apart, IdsOf
<1> QED
  BY <1>2, <1>3

\* A step that answers nothing.
LEMMA NoReply ==
    ASSUME TypeOK, UNCHANGED <<toClient, answers>> PROVE Answers(<<>>) /\ RefusesLate(<<>>)
<1>1. toClient \in Seq(Response) /\ answers \in [Ids -> Nat]
  BY DEF TypeOK
<1>2. <<>> \in Seq(Response) /\ Apart(<<>>) /\ IdsOf(<<>>) = {} /\ toClient = toClient \o <<>>
  BY <1>1 DEF Apart, IdsOf
<1>3. RefusesLate(<<>>)
  BY DEF RefusesLate
<1> QED
  BY <1>1, <1>2, <1>3 DEF Answers

\* What is said of a wait that may be cancelled lasts while the Host starts
\* nothing new.
LEMMA CancellableKeeps ==
    ASSUME TypeOK, Cancellable, UNCHANGED client, parallel' \subseteq parallel,
           toHost' = toHost \/ (toHost # <<>> /\ toHost' = Tail(toHost)),
           lane'.stage \in {"serving", "waiting"} =>
              lane.stage = lane'.stage /\ lane'.id = lane.id /\ lane'.method = lane.method
    PROVE  Cancellable'
<1>1. UNCHANGED <<state, op>> /\ TheWait' = TheWait /\ toHost \in Seq(Request)
  BY DEF client, TheWait, TypeOK
<1>2. \A i \in DOMAIN toHost' : \E j \in DOMAIN toHost : toHost'[i] = toHost[j]
  <2>1. CASE toHost # <<>> /\ toHost' = Tail(toHost)
    BY <1>1, <2>1, TailIs
  <2> QED
    BY <2>1
<1> QED
  BY <1>1, <1>2 DEF Cancellable

\* The invariant, taken apart for the steps of the Host.
LEMMA InvIs ==
    ASSUME Inv
    PROVE  /\ TypeOK /\ Places /\ Operation /\ Tracked /\ Cancellable /\ Cancelled
           /\ lane \in Lane
           /\ HostClosesForCause /\ UnusableForCause /\ OneAnswerEach
           /\ toHost \in Seq(Request) /\ toClient \in Seq(Response)
           /\ parallel \subseteq Ids /\ stop \in BOOLEAN /\ hostRead \in Reads
           /\ HostIds \subseteq Ids /\ LaneIds \subseteq Ids /\ ClientIds \subseteq Ids
           /\ PendingIds \subseteq Ids /\ AtHost \subseteq Ids
           /\ answers \in [Ids -> Nat]
BY IdsType DEF Inv, HonestConnection, TypeOK

\* Reads, ticks, stops and the end of the connection answer nothing.
LEMMA SilentStep ==
    ASSUME Inv, \/ HostReadPrefix \/ RegisterWait \/ WaitTick \/ SharedStop \/ IdleTick \/ HostCloses
    PROVE  Inv'
<1>1. /\ UNCHANGED client /\ UNCHANGED <<toClient, answers, toHost>>
      /\ stop' \in BOOLEAN /\ hostRead' \in Reads /\ (hostRead = "lost" => hostRead' = "lost")
      /\ parallel' \in {parallel, {}}
  BY InvIs DEF HostReadPrefix, RegisterWait, WaitTick, SharedStop, IdleTick, HostCloses, Reads
<1>2. Answers(<<>>) /\ RefusesLate(<<>>) /\ IdsOf(<<>>) = {}
  BY <1>1, InvIs, NoReply DEF IdsOf
<1>3. \/ lane' = lane
      \/ /\ lane' = Closed /\ (~clientOpen \/ hostRead' = "lost")
      \/ /\ lane' \in Lane /\ lane.stage = "waiting" /\ lane'.stage = "waiting"
         /\ lane'.id = lane.id /\ lane'.method = lane.method
  <2>1. CASE HostCloses
    BY <2>1 DEF HostCloses
  <2>2. CASE RegisterWait
    <3>1. /\ lane \in [stage : {"waiting"}, id : Ids, method : Waits,
                       registered : BOOLEAN, cancelled : BOOLEAN]
          /\ lane' = [lane EXCEPT !.registered = TRUE]
      BY <2>2, InvIs, LaneIs DEF RegisterWait
    <3>2. /\ lane' \in [stage : {"waiting"}, id : Ids, method : Waits,
                        registered : BOOLEAN, cancelled : BOOLEAN]
          /\ lane'.id = lane.id /\ lane'.method = lane.method
      BY <3>1
    <3> QED
      BY <3>1, <3>2 DEF Lane
  <2> QED
    BY <2>1, <2>2 DEF HostReadPrefix, WaitTick, SharedStop, IdleTick
<1>4. lane' \in Lane /\ LaneIds' \subseteq LaneIds /\ HostIds' = HostIds
  BY <1>1, <1>3, InvIs DEF LaneIds, HostIds, Lane, Closed
<1>5. lane' = Closed => ~clientOpen \/ hostRead' = "lost"
  BY <1>1, <1>3, InvIs DEF HostClosesForCause, Closed
<1>6. Cancellable'
  BY <1>1, <1>3, InvIs, CancellableKeeps DEF Closed
<1>7. /\ AtHost' \subseteq AtHost /\ HostIds' \cap LaneIds' = {}
      /\ HostIds' \cap parallel' = {} /\ LaneIds' \cap parallel' = {} /\ parallel' \subseteq Ids
  BY <1>1, <1>4, InvIs DEF AtHost, Places
<1> QED
  BY <1>1, <1>2, <1>4, <1>5, <1>6, <1>7, HostStep

\* The Host answers what is in a lane, and the lane is free.
LEMMA LaneAnswered ==
    ASSUME Inv, lane.stage \in {"serving", "waiting"}, NEW ok \in BOOLEAN,
           Answer(<<Reply(lane.id, ok)>>), lane' = Reading, UNCHANGED <<client, toHost, parallel>>,
           hostRead' \in {hostRead, Dropped(hostRead)}, stop' \in BOOLEAN
    PROVE  Inv'
<1> DEFINE rs == <<Reply(lane.id, ok)>>
<1>1. lane.id \in Ids /\ LaneIds = {lane.id}
  BY InvIs, LaneIs DEF LaneIds
<1>2. rs \in Seq(Response) /\ Apart(rs) /\ IdsOf(rs) = {lane.id}
      /\ \A k \in DOMAIN rs : rs[k].id = lane.id
  BY <1>1, OneReply DEF Reply
<1> HIDE DEF rs
<1>3. Answers(rs)
  BY <1>1, <1>2, InvIs, AnswerIs DEF Answers, AtHost, rs
<1>4. lane' \in Lane /\ LaneIds' = {} /\ HostIds' = HostIds /\ lane' # Closed
      /\ lane'.stage = "reading"
  BY DEF Lane, LaneIds, HostIds, Reading, Closed
<1>5. AtHost' = HostIds \cup parallel
  BY <1>4 DEF AtHost
<1>6. RefusesLate(rs)
  <2>1. BothAwaited => lane.id = TheWait /\ TheWait # op.await[1]
    BY InvIs DEF BothAwaited, Cancellable, Operation, TheWait
  <2> QED
    BY <1>2, <2>1 DEF RefusesLate
<1>7. Cancellable'
  BY <1>4, InvIs, CancellableKeeps
<1>8. /\ AtHost' \subseteq AtHost /\ AtHost' \cap IdsOf(rs) = {} /\ HostIds' \cap LaneIds' = {}
      /\ HostIds' \cap parallel' = {} /\ LaneIds' \cap parallel' = {}
  BY <1>1, <1>2, <1>4, <1>5, InvIs DEF AtHost, Places
<1>9. hostRead' \in Reads /\ (hostRead = "lost" => hostRead' = "lost")
  BY InvIs DEF Dropped, Reads
<1> QED
  BY <1>3, <1>4, <1>6, <1>7, <1>8, <1>9, InvIs, HostStep

\* The serial lane is done, or a wait ended by itself, by its cancellation or
\* by a stop.
LEMMA LaneStep ==
    ASSUME Inv, HostServe \/ WaitCompletes \/ WaitCancelled \/ WaitInterrupted PROVE Inv'
<1>1. CASE HostServe
  <2>1. PICK ok \in BOOLEAN : Answer(<<Reply(lane.id, ok)>>)
    BY <1>1 DEF HostServe
  <2>2. stop' \in BOOLEAN
    BY <1>1, InvIs DEF HostServe
  <2> QED
    BY <1>1, <2>1, <2>2, LaneAnswered DEF HostServe
<1>2. CASE WaitCompletes
  <2>1. PICK ok \in BOOLEAN : EndWait(<<Reply(lane.id, ok)>>)
    BY <1>2 DEF WaitCompletes
  <2> QED
    BY <1>2, <2>1, InvIs, LaneAnswered DEF WaitCompletes, EndWait
<1>3. CASE WaitCancelled
  BY <1>3, InvIs, LaneAnswered DEF WaitCancelled, EndWait
<1>4. CASE WaitInterrupted
  BY <1>4, InvIs, LaneAnswered DEF WaitInterrupted, EndWait
<1> QED
  BY <1>1, <1>2, <1>3, <1>4

\* A parallel task is done.
LEMMA ParallelStep == ASSUME Inv, ParallelDone PROVE Inv'
<1>1. PICK id \in parallel, ok \in BOOLEAN :
        parallel' = parallel \ {id} /\ Answer(<<Reply(id, ok)>>)
  BY DEF ParallelDone
<1> DEFINE rs == <<Reply(id, ok)>>
<1>2. rs \in Seq(Response) /\ Apart(rs) /\ IdsOf(rs) = {id} /\ id \in Ids
  BY InvIs, OneReply
<1> HIDE DEF rs
<1>3. Answers(rs)
  BY <1>1, <1>2, InvIs, AnswerIs DEF Answers, AtHost, rs
<1>4. UNCHANGED <<client, toHost, hostRead, lane, stop>> /\ LaneIds' = LaneIds /\ HostIds' = HostIds
  BY DEF ParallelDone, LaneIds, HostIds
<1>5. RefusesLate(rs)
  BY InvIs DEF RefusesLate, BothAwaited, Cancellable
<1>6. Cancellable'
  BY <1>1, <1>4, InvIs, CancellableKeeps
<1>7. /\ AtHost' \subseteq AtHost /\ AtHost' \cap IdsOf(rs) = {} /\ HostIds' \cap LaneIds' = {}
      /\ HostIds' \cap parallel' = {} /\ LaneIds' \cap parallel' = {}
  BY <1>1, <1>2, <1>4, InvIs DEF AtHost, Places
<1>8. lane' = Closed => ~clientOpen \/ hostRead' = "lost"
  BY <1>4, InvIs DEF HostClosesForCause
<1> QED
  BY <1>1, <1>3, <1>4, <1>5, <1>6, <1>7, <1>8, InvIs, HostStep

\* The frame the Host reads.
LEMMA HeadIs ==
    ASSUME Inv, toHost # <<>>, toHost' = Tail(toHost)
    PROVE  LET r == Head(toHost)
           IN  /\ r \in Request /\ r.id \in Ids /\ r.id \in HostIds
               /\ HostIds = HostIds' \cup {r.id} /\ r.id \notin HostIds'
               /\ r.id \notin LaneIds /\ r.id \notin parallel
               /\ 1 \in DOMAIN toHost /\ toHost[1] = r
<1> DEFINE r == Head(toHost)
<1>1. r = toHost[1] /\ r \in Request /\ 1 \in DOMAIN toHost
  BY InvIs, TailIs
<1>2. HostIds = HostIds' \cup {r.id} /\ r.id \notin HostIds'
  BY InvIs, TailIds DEF HostIds, Places
<1>3. r.id \in Ids
  BY <1>1 DEF Request
<1> QED
  BY <1>1, <1>2, <1>3, InvIs DEF Places

\* Of an operation that may be cancelled the Host reads the wait, or the cancel
\* behind it.
LEMMA HeadOfWait ==
    ASSUME Inv, toHost # <<>>, toHost' = Tail(toHost), state = "in_flight", op.cancellable
    PROVE  LET r == Head(toHost)
           IN  \/ r.id = TheWait /\ r.method = op.method /\ op.method \in Waits
               \/ /\ BothAwaited /\ r.id = op.await[1] /\ r.id # TheWait /\ r.waitId = TheWait
                  /\ r.method = IF op.method = "wait_for_window"
                                THEN "cancel_window_wait" ELSE "cancel"
                  /\ TheWait \notin HostIds'
<1> DEFINE r == Head(toHost)
<1>1. r.id \in HostIds /\ 1 \in DOMAIN toHost /\ toHost[1] = r
  BY HeadIs
<1>2. /\ r.id \in Awaited /\ op \in Op /\ Len(op.await) \in {1, 2} /\ op.method \in Waits
      /\ Len(op.await) = 2 => op.await[1] # op.await[2]
  BY <1>1, InvIs DEF Operation, OnTheWay, AtHost, Cancellable
<1>3. op.await \in Seq(Ids) /\ DOMAIN op.await = 1 .. Len(op.await)
  BY <1>2 DEF Op
<1>4. CASE r.id = TheWait
  BY <1>1, <1>2, <1>4, InvIs DEF Cancellable
<1>5. CASE r.id # TheWait
  <2>1. Len(op.await) = 2 /\ r.id = op.await[1]
    BY <1>2, <1>3, <1>5 DEF Awaited, TheWait
  <2>2. BothAwaited /\ CancelFollows(toHost)
    BY <2>1, InvIs DEF BothAwaited, Cancelled
  <2>3. /\ r.waitId = TheWait
        /\ r.method = IF op.method = "wait_for_window" THEN "cancel_window_wait" ELSE "cancel"
        /\ \A j \in DOMAIN toHost : toHost[j].id = TheWait => j < 1
    BY <1>1, <2>1, <2>2 DEF CancelFollows
  <2>4. \A j \in DOMAIN toHost : j \in Nat /\ j >= 1
    BY InvIs
  <2>5. TheWait \notin HostIds
    BY <2>3, <2>4 DEF HostIds, IdsOf
  <2> QED
    BY <1>5, <2>1, <2>2, <2>3, <2>5, HeadIs
<1> QED
  BY <1>4, <1>5

\* The frame that is read is refused, or acknowledged, at once: the lanes stay
\* as they are, or a wait is told of its cancellation.
LEMMA AnsweredAtOnce ==
    ASSUME Inv, toHost # <<>>, toHost' = Tail(toHost), UNCHANGED <<client, parallel>>,
           hostRead' = "fresh", hostRead # "lost", stop' \in BOOLEAN, NEW ok \in BOOLEAN,
           Answer(<<Reply(Head(toHost).id, ok)>>), lane # Closed, lane' \in Lane,
           \/ lane' = lane
           \/ /\ lane.stage = "waiting" /\ lane'.stage = "waiting"
              /\ lane'.id = lane.id /\ lane'.method = lane.method,
           BothAwaited /\ op.method = "wait_for_window" /\ Head(toHost).id = op.await[1] /\ ~ok =>
              TheWait \notin LaneIds
    PROVE  Inv'
<1> DEFINE r == Head(toHost)
           rs == <<Reply(r.id, ok)>>
<1>1. /\ r.id \in Ids /\ r.id \in HostIds /\ HostIds = HostIds' \cup {r.id} /\ r.id \notin HostIds'
      /\ r.id \notin LaneIds /\ r.id \notin parallel
  BY HeadIs
<1>2. rs \in Seq(Response) /\ Apart(rs) /\ IdsOf(rs) = {r.id}
      /\ \A k \in DOMAIN rs : rs[k] = Reply(r.id, ok)
  BY <1>1, OneReply
<1>3. \A k \in DOMAIN rs : rs[k].id = r.id /\ rs[k].ok = ok
  BY <1>2 DEF Reply
<1>4. Answer(rs)
  OBVIOUS
<1> HIDE DEF rs, r
<1>5. Answers(rs)
  BY <1>1, <1>2, <1>4, InvIs, AnswerIs DEF Answers, AtHost
<1>6. LaneIds' = LaneIds /\ lane' # Closed
  <2>1. CASE lane' = lane
    BY <2>1 DEF LaneIds
  <2>2. CASE lane.stage = "waiting" /\ lane'.stage = "waiting" /\ lane'.id = lane.id
    BY <2>2 DEF LaneIds, Closed
  <2> QED
    BY <2>1, <2>2
<1>7. /\ AtHost' \subseteq AtHost /\ AtHost' \cap IdsOf(rs) = {} /\ HostIds' \cap LaneIds' = {}
      /\ HostIds' \cap parallel' = {} /\ LaneIds' \cap parallel' = {}
  BY <1>1, <1>2, <1>6, InvIs DEF AtHost, Places
<1>8. RefusesLate(rs)
  <2> SUFFICES ASSUME BothAwaited, op.method = "wait_for_window", r.id = op.await[1], ~ok
               PROVE  TheWait \notin AtHost' /\ TheWait \notin IdsOf(rs)
    BY <1>3 DEF RefusesLate
  <2>1. TheWait # op.await[1] /\ parallel = {}
    BY InvIs DEF BothAwaited, Operation, TheWait, Cancellable
  <2>2. TheWait \notin HostIds'
    BY <2>1, HeadOfWait DEF BothAwaited, r
  <2>3. TheWait \notin LaneIds
    BY DEF r
  <2> QED
    BY <1>2, <1>6, <2>1, <2>2, <2>3 DEF AtHost
<1>9. Cancellable'
  BY InvIs, CancellableKeeps
<1> QED
  BY <1>5, <1>6, <1>7, <1>8, <1>9, InvIs, HostStep DEF Reads

\* A frame goes into a lane.
LEMMA EntersLane ==
    ASSUME Inv, lane = Reading, toHost # <<>>, toHost' = Tail(toHost),
           UNCHANGED <<client, stop, toClient, answers>>, hostRead' = "fresh", hostRead # "lost",
           lane' \in Lane, lane' # Closed,
           \/ parallel' = parallel /\ LaneIds' = {Head(toHost).id}
           \/ parallel' = parallel \cup {Head(toHost).id} /\ lane' = lane,
           Cancellable'
    PROVE  Inv'
<1> DEFINE r == Head(toHost)
<1>1. /\ r.id \in Ids /\ r.id \in HostIds /\ HostIds = HostIds' \cup {r.id} /\ r.id \notin HostIds'
      /\ r.id \notin LaneIds /\ r.id \notin parallel
  BY HeadIs
<1>2. LaneIds = {} /\ (lane' = lane => LaneIds' = {})
  BY DEF LaneIds, Reading
<1> HIDE DEF r
<1>3. /\ AtHost' \subseteq AtHost /\ HostIds' \cap LaneIds' = {} /\ parallel' \subseteq Ids
      /\ HostIds' \cap parallel' = {} /\ LaneIds' \cap parallel' = {}
  BY <1>1, <1>2, InvIs DEF AtHost, Places, r
<1>4. Answers(<<>>) /\ RefusesLate(<<>>) /\ IdsOf(<<>>) = {}
  BY InvIs, NoReply DEF IdsOf
<1> QED
  BY <1>3, <1>4, InvIs, HostStep DEF Reads

\* Dispatch of one frame between two requests.
LEMMA DispatchStep == ASSUME Inv, HostDispatch PROVE Inv'
<1> DEFINE r == Head(toHost)
<1>1. /\ lane = Reading /\ toHost # <<>> /\ hostRead = "prefix" /\ hostRead' = "fresh"
      /\ toHost' = Tail(toHost) /\ UNCHANGED <<client, stop>>
  BY DEF HostDispatch, Complete
<1>2. /\ r \in Request /\ r.id \in Ids /\ r.method \in Methods
  BY <1>1, HeadIs DEF Request
<1>3. UNCHANGED <<state, op>> /\ TheWait' = TheWait
  BY <1>1 DEF client, TheWait
<1>4. \A i \in DOMAIN toHost' : \E j \in DOMAIN toHost : toHost'[i] = toHost[j]
  BY <1>1, InvIs, TailIs
<1>5. state = "in_flight" /\ op.cancellable =>
        \/ r.id = TheWait /\ r.method = op.method /\ op.method \in Waits
        \/ r.method \in Cancels
  BY <1>1, HeadOfWait DEF Cancels
<1> HIDE DEF r
<1>6. CASE /\ r.method \in Waits
           /\ lane' = [stage |-> "waiting", id |-> r.id, method |-> r.method,
                       registered |-> r.method = "wait_for_window", cancelled |-> FALSE]
           /\ UNCHANGED <<parallel, toClient, answers>>
  <2>1. PICK b \in BOOLEAN :
          lane' = [stage |-> "waiting", id |-> r.id, method |-> r.method,
                   registered |-> b, cancelled |-> FALSE]
    BY <1>6
  <2>2. /\ lane' \in Lane /\ lane'.stage = "waiting" /\ lane'.id = r.id /\ lane'.method = r.method
        /\ lane' # Closed /\ LaneIds' = {r.id}
    BY <1>2, <1>6, <2>1 DEF Lane, LaneIds, Closed
  <2>3. r.method \notin Cancels
    BY <1>6 DEF Waits, Cancels
  <2>4. Cancellable'
    BY <1>3, <1>4, <1>5, <1>6, <2>2, <2>3, InvIs DEF Cancellable
  <2> QED
    BY <1>1, <1>6, <2>2, <2>4, EntersLane DEF r
<1>7. CASE /\ r.method = "discovery"
           /\ parallel' = parallel \cup {r.id}
           /\ UNCHANGED <<lane, toClient, answers>>
  <2>1. r.method \notin Cancels \cup Waits
    BY <1>7 DEF Waits, Cancels
  <2>2. Cancellable'
    BY <1>3, <1>5, <2>1 DEF Cancellable
  <2>3. lane' \in Lane /\ lane' # Closed /\ lane' = lane
    BY <1>1, <1>7, InvIs DEF Reading, Closed
  <2> QED
    BY <1>1, <1>7, <2>2, <2>3, EntersLane DEF r
<1>8. CASE /\ r.method \in {"serial", "interrupt_all"}
           /\ lane' = [stage |-> "serving", id |-> r.id, method |-> r.method]
           /\ UNCHANGED <<parallel, toClient, answers>>
  <2>1. r.method \notin Cancels \cup Waits
    BY <1>8 DEF Waits, Cancels
  <2>2. Cancellable'
    BY <1>3, <1>5, <2>1 DEF Cancellable
  <2>3. lane' \in Lane /\ lane' # Closed /\ LaneIds' = {r.id}
    BY <1>2, <1>8 DEF Lane, LaneIds, Closed
  <2> QED
    BY <1>1, <1>8, <2>2, <2>3, EntersLane DEF r
<1>9. CASE /\ r.method \in Cancels
           /\ Answer(<<Reply(r.id, FALSE)>>)
           /\ UNCHANGED <<lane, parallel>>
  <2>1. LaneIds = {} /\ lane # Closed
    BY <1>1 DEF LaneIds, Reading, Closed
  <2> QED
    BY <1>1, <1>9, <2>1, InvIs, AnsweredAtOnce DEF r
<1> QED
  BY <1>6, <1>7, <1>8, <1>9 DEF HostDispatch, r

\* A frame that ends the wait: both are answered, the frame first.
LEMMA BothAnswered ==
    ASSUME Inv, lane.stage = "waiting", toHost # <<>>, toHost' = Tail(toHost),
           UNCHANGED <<client, parallel>>, hostRead' = "fresh", hostRead # "lost",
           stop' \in BOOLEAN, NEW y \in BOOLEAN,
           Answer(<<Reply(Head(toHost).id, TRUE), Reply(lane.id, y)>>), lane' = Reading
    PROVE  Inv'
<1> DEFINE r == Head(toHost)
           rs == <<Reply(r.id, TRUE), Reply(lane.id, y)>>
<1>1. /\ r.id \in Ids /\ r.id \in HostIds /\ HostIds = HostIds' \cup {r.id} /\ r.id \notin HostIds'
      /\ r.id \notin LaneIds /\ r.id \notin parallel
  BY HeadIs
<1>2. LaneIds = {lane.id} /\ lane.id \in Ids /\ r.id # lane.id
  BY <1>1, InvIs, LaneIs DEF LaneIds
<1>5. Answer(rs)
  OBVIOUS
<1> HIDE DEF rs, r
<1>3. rs \in Seq(Response) /\ Apart(rs) /\ IdsOf(rs) = {r.id, lane.id}
      /\ \A k \in DOMAIN rs : rs[k] = Reply(r.id, TRUE) \/ rs[k] = Reply(lane.id, y)
  <2>1. PICK x \in BOOLEAN : x = TRUE
    OBVIOUS
  <2>2. PICK a \in Ids, b \in Ids : a = r.id /\ b = lane.id
    BY <1>1, <1>2
  <2>3. rs = <<Reply(a, x), Reply(b, y)>> /\ a # b
    BY <1>2, <2>1, <2>2 DEF rs
  <2>4. /\ rs \in Seq(Response) /\ Apart(rs) /\ IdsOf(rs) = {a, b}
        /\ \A k \in DOMAIN rs : rs[k] = Reply(a, x) \/ rs[k] = Reply(b, y)
    BY <2>3, TwoReplies
  <2> QED
    BY <2>1, <2>2, <2>4
<1>4. \A k \in DOMAIN rs : ~rs[k].ok => rs[k].id = lane.id
  BY <1>3 DEF Reply
<1>6. Answers(rs)
  BY <1>1, <1>2, <1>3, <1>5, InvIs, AnswerIs DEF Answers, AtHost
<1>7. lane' \in Lane /\ LaneIds' = {} /\ lane' # Closed /\ lane'.stage = "reading"
  BY DEF Lane, LaneIds, Reading, Closed
<1>8. /\ AtHost' \subseteq AtHost /\ AtHost' \cap IdsOf(rs) = {} /\ HostIds' \cap LaneIds' = {}
      /\ HostIds' \cap parallel' = {} /\ LaneIds' \cap parallel' = {}
  BY <1>1, <1>2, <1>3, <1>7, InvIs DEF AtHost, Places
<1>9. RefusesLate(rs)
  <2>1. BothAwaited => lane.id = TheWait /\ TheWait # op.await[1]
    BY InvIs DEF BothAwaited, Cancellable, Operation, TheWait
  <2> QED
    BY <1>4, <2>1 DEF RefusesLate
<1>10. Cancellable'
  BY <1>7, InvIs, CancellableKeeps
<1> QED
  BY <1>6, <1>7, <1>8, <1>9, <1>10, InvIs, HostStep DEF Reads

\* A frame that arrives while a wait runs.
LEMMA WaitReadsStep == ASSUME Inv, WaitReads PROVE Inv'
<1> DEFINE r == Head(toHost)
<1>1. /\ lane.stage = "waiting" /\ toHost # <<>> /\ hostRead = "prefix" /\ hostRead' = "fresh"
      /\ toHost' = Tail(toHost) /\ UNCHANGED <<client, parallel>>
  BY DEF WaitReads, Complete
<1>2. /\ lane \in Lane /\ lane # Closed
      /\ lane \in [stage : {"waiting"}, id : Ids, method : Waits,
                   registered : BOOLEAN, cancelled : BOOLEAN]
  BY <1>1, InvIs, LaneIs
<1>3. ASSUME BothAwaited, op.method = "wait_for_window", r.id = op.await[1]
      PROVE  /\ r.method = "cancel_window_wait" /\ r.waitId = TheWait
             /\ lane.method = "wait_for_window" /\ lane.id = TheWait
  <2>1. state = "in_flight" /\ op.cancellable /\ TheWait # op.await[1]
    BY <1>3, InvIs DEF BothAwaited, Operation, TheWait
  <2>2. lane.id = TheWait /\ lane.method = op.method
    BY <1>1, <2>1, InvIs DEF Cancellable
  <2>3. r.method = "cancel_window_wait" /\ r.waitId = TheWait
    BY <1>1, <1>3, <2>1, HeadOfWait
  <2> QED
    BY <1>3, <2>2, <2>3
<1>4. ASSUME stop' \in BOOLEAN, Answer(<<Reply(r.id, FALSE)>>), UNCHANGED lane,
             \/ r.method # "cancel_window_wait"
             \/ ~(lane.method = "wait_for_window" /\ lane.id = r.waitId)
      PROVE  Inv'
  <2>1. ~(BothAwaited /\ op.method = "wait_for_window" /\ r.id = op.await[1])
    BY <1>3, <1>4
  <2> QED
    BY <1>1, <1>2, <1>4, <2>1, AnsweredAtOnce
<1>5. CASE /\ r.method = "interrupt_all"
           /\ Answer(<<Reply(r.id, TRUE), Reply(lane.id, FALSE)>>) /\ lane' = Reading
           /\ stop' = FALSE
  BY <1>1, <1>5, BothAnswered
<1>6. CASE r.method = "cancel_window_wait" /\ CancelWindowWait(r) /\ UNCHANGED stop
  <2>1. stop' \in BOOLEAN
    BY <1>6, InvIs
  <2>2. CASE lane.method = "wait_for_window" /\ lane.id = r.waitId
    BY <1>1, <1>6, <2>1, <2>2, BothAnswered DEF CancelWindowWait
  <2>3. CASE ~(lane.method = "wait_for_window" /\ lane.id = r.waitId)
    BY <1>4, <1>6, <2>1, <2>3 DEF CancelWindowWait
  <2> QED
    BY <2>2, <2>3
<1>7. CASE r.method = "cancel" /\ CancelWait(r) /\ UNCHANGED stop
  <2>1. stop' \in BOOLEAN
    BY <1>7, InvIs
  <2>2. CASE lane.method = "wait_for" /\ lane.registered
    <3>1. lane' = [lane EXCEPT !.cancelled = TRUE] /\ Answer(<<Reply(r.id, TRUE)>>)
      BY <1>7, <2>2 DEF CancelWait
    <3>2. /\ lane' \in [stage : {"waiting"}, id : Ids, method : Waits,
                        registered : BOOLEAN, cancelled : BOOLEAN]
          /\ lane'.id = lane.id /\ lane'.method = lane.method /\ lane'.stage = "waiting"
      BY <1>2, <3>1
    <3>3. lane' \in Lane
      BY <3>2 DEF Lane
    <3> QED
      BY <1>1, <1>2, <2>1, <3>1, <3>2, <3>3, AnsweredAtOnce
  <2>3. CASE ~(lane.method = "wait_for" /\ lane.registered)
    BY <1>4, <1>7, <2>1, <2>3 DEF CancelWait
  <2> QED
    BY <2>2, <2>3
<1>8. CASE /\ r.method \notin Cancels \cup {"interrupt_all"} /\ RequestInProgress(r)
           /\ UNCHANGED stop
  <2>1. r.method # "cancel_window_wait" /\ stop' \in BOOLEAN
    BY <1>8, InvIs DEF Cancels
  <2> QED
    BY <1>4, <1>8, <2>1 DEF RequestInProgress
<1> QED
  BY <1>5, <1>6, <1>7, <1>8 DEF WaitReads

(***************************************************************************)
(* The client's steps.                                                     *)
(***************************************************************************)
\* The client writes nothing: the ids at the Host stay where they are, and at
\* most the first response is read.
ClientReads ==
    /\ UNCHANGED <<host, toHost, answers>>
    /\ toClient' = toClient \/ (toClient # <<>> /\ toClient' = Tail(toClient))

\* What a read leaves.
LEMMA ReadLeaves ==
    ASSUME Inv, ClientReads
    PROVE  /\ UNCHANGED <<hostRead, lane, parallel, stop, toHost, answers>>
           /\ AtHost' = AtHost /\ HostIds' = HostIds /\ LaneIds' = LaneIds
           /\ ClientIds' \subseteq ClientIds /\ OnTheWay' \subseteq OnTheWay
           /\ toClient' \in Seq(Response) /\ Apart(toClient')
<1>1. UNCHANGED <<hostRead, lane, parallel, stop, toHost, answers>>
  BY DEF ClientReads, host
<1>2. AtHost' = AtHost /\ HostIds' = HostIds /\ LaneIds' = LaneIds
  BY <1>1 DEF AtHost, HostIds, LaneIds
<1>3. ClientIds' \subseteq ClientIds /\ toClient' \in Seq(Response) /\ Apart(toClient')
  <2>1. CASE toClient' = toClient
    BY <2>1, InvIs DEF ClientIds, Places
  <2>2. CASE toClient # <<>> /\ toClient' = Tail(toClient)
    BY <2>2, InvIs, TailIs, TailIds DEF ClientIds, Places
  <2> QED
    BY <2>1, <2>2 DEF ClientReads
<1> QED
  BY <1>1, <1>2, <1>3 DEF OnTheWay

\* Every id keeps its place, but for the one that is read.
LEMMA PlacesKept ==
    ASSUME Inv, ClientReads, nextId' \in Nat, nextId' >= nextId,
           PendingIds' \subseteq PendingIds \cup ClientIds, ClientIds' \cap PendingIds' = {}
    PROVE  Places'
<1>1. nextId \in Nat
  BY InvIs DEF TypeOK
<1>2. \A id \in Ids : id >= nextId' => id >= nextId
  BY <1>1 DEF Ids
<1> QED
  BY <1>2, InvIs, ReadLeaves DEF Places

\* A table without room for what a client that tracks so little would add.
LEMMA FullTable ==
    ASSUME TypeOK, NEW w \in Ids, NEW n \in Nat,
           \/ outstanding \subseteq leaked /\ n = 0
           \/ outstanding \subseteq leaked \cup {w} /\ n = 1
    PROVE  /\ Cardinality(outstanding) \in Nat /\ Cardinality(leaked) \in Nat
           /\ Cardinality(leaked) + n >= Cardinality(outstanding)
<1>1. IsFiniteSet(Ids)
  BY HostConnectionAssumption, FS_Interval DEF Ids
<1>2. IsFiniteSet(leaked) /\ IsFiniteSet(outstanding) /\ IsFiniteSet(leaked \cup {w})
  BY <1>1, FS_Subset, FS_AddElement DEF TypeOK
<1>3. Cardinality(outstanding) \in Nat /\ Cardinality(leaked) \in Nat
  BY <1>2, FS_CardinalityType
<1>4. CASE outstanding \subseteq leaked /\ n = 0
  <2>1. Cardinality(outstanding) <= Cardinality(leaked)
    BY <1>2, <1>4, FS_Subset
  <2> QED
    BY <1>3, <1>4, <2>1
<1>5. CASE outstanding \subseteq leaked \cup {w} /\ n = 1
  <2>1. Cardinality(outstanding) <= Cardinality(leaked \cup {w})
    BY <1>2, <1>5, FS_Subset
  <2>2. Cardinality(leaked \cup {w}) \in {Cardinality(leaked), Cardinality(leaked) + 1}
    BY <1>2, FS_AddElement
  <2> QED
    BY <1>3, <1>5, <2>1, <2>2
<1> QED
  BY <1>3, <1>4, <1>5

\* The client gives the connection up: for a cause, and with nothing in flight.
LEMMA GiveUpStep ==
    ASSUME Inv, UNCHANGED <<host, toHost, toClient, answers, outstanding, leaked, pending, clientOpen>>,
           NEW why \in {"full", "closed", "framing", "abandoned"}, GiveUp(why),
           nextId' \in 1 .. MaxRequests + 1, nextId' >= nextId, clientRead' \in Reads,
           \/ why = "abandoned" \/ clientRead' = "lost" \/ hostRead = "lost"
           \/ why = "full" /\ Cardinality(leaked) >= MaxOutstanding - 1
    PROVE  Inv'
<1>1. ClientReads /\ UNCHANGED <<hostRead, lane, parallel, stop>>
  BY DEF ClientReads, host
<1>2. PendingIds' = PendingIds /\ ClientIds' = ClientIds
  BY DEF PendingIds, ClientIds
<1>3. nextId' \in Nat
  BY HostConnectionAssumption
<1>4. Places'
  BY <1>1, <1>2, <1>3, InvIs, PlacesKept DEF Places
<1>5. state' = "unusable" /\ cause' = why /\ op' = NoOp
  BY DEF GiveUp
<1>6. Operation' /\ Tracked' /\ Cancellable' /\ Cancelled'
  BY <1>5 DEF Operation, Tracked, Cancellable, Cancelled, BothAwaited
<1>7. TypeOK'
  BY <1>1, <1>5, InvIs DEF TypeOK
<1>8. OneAnswerEach' /\ UnusableForCause' /\ HostClosesForCause'
  BY <1>1, <1>5, InvIs DEF OneAnswerEach, UnusableForCause, HostClosesForCause
<1> QED
  BY <1>4, <1>6, <1>7, <1>8 DEF Inv, HonestConnection

\* A timeout, a dropped future, a stream that ended or lost its framing.
LEMMA AbandonStep == ASSUME Inv, Abandon \/ ClientReadFails PROVE Inv'
<1>1. /\ UNCHANGED <<host, toHost, toClient, answers, outstanding, leaked, pending>>
      /\ UNCHANGED <<clientOpen, nextId, clientRead>>
  BY DEF Abandon, ClientReadFails
<1>2. nextId' \in 1 .. MaxRequests + 1 /\ nextId' >= nextId /\ clientRead' \in Reads
  BY <1>1, InvIs, HostConnectionAssumption DEF TypeOK
<1>3. CASE Abandon
  <2>1. GiveUp("abandoned")
    BY <1>3 DEF Abandon
  <2> QED
    BY <1>1, <1>2, <2>1, GiveUpStep
<1>4. CASE ClientReadFails
  <2>1. CASE toClient = <<>>
    <3>1. GiveUp("closed") /\ lane = Closed /\ state = "in_flight"
      BY <1>4, <2>1 DEF ClientReadFails
    <3>2. hostRead = "lost"
      BY <3>1, InvIs DEF HostClosesForCause, Operation
    <3> QED
      BY <1>1, <1>2, <3>1, <3>2, GiveUpStep
  <2>2. CASE toClient # <<>>
    <3>1. GiveUp("framing") /\ clientRead' = "lost"
      BY <1>1, <1>4, <2>2 DEF ClientReadFails
    <3> QED
      BY <1>1, <1>2, <3>1, GiveUpStep
  <2> QED
    BY <2>1, <2>2
<1> QED
  BY <1>3, <1>4

\* The prefix of a frame is read, or the client closes its end.
LEMMA QuietStep == ASSUME Inv, ClientReadPrefix \/ Leave PROVE Inv'
<1>1. /\ UNCHANGED <<host, toHost, toClient, answers>>
      /\ UNCHANGED <<state, cause, op, outstanding, leaked, pending, nextId>>
  BY DEF ClientReadPrefix, Leave
<1>2. ClientReads /\ UNCHANGED <<hostRead, lane, parallel, stop>>
  BY <1>1 DEF ClientReads, host
<1>3. clientOpen' \in BOOLEAN /\ clientRead' \in Reads
  BY InvIs DEF ClientReadPrefix, Leave, TypeOK, Reads
<1>4. /\ state = "in_flight" => clientOpen' = clientOpen
      /\ ~clientOpen => ~clientOpen'
      /\ state = "unusable" => clientRead' = clientRead
  BY DEF ClientReadPrefix, Leave
<1>5. PendingIds' = PendingIds /\ ClientIds' = ClientIds /\ nextId \in Nat
  BY <1>1, InvIs, HostConnectionAssumption DEF PendingIds, ClientIds, TypeOK
<1>6. Places'
  BY <1>1, <1>2, <1>5, InvIs, PlacesKept DEF Places
<1>7. TypeOK'
  BY <1>1, <1>2, <1>3, InvIs DEF TypeOK
<1>8. Operation' /\ Tracked'
  BY <1>1, <1>2, <1>4, InvIs, ReadLeaves DEF Operation, Tracked, Awaited
<1>9. Cancellable'
  BY <1>1, <1>2, InvIs DEF Cancellable, TheWait
<1>10. Cancelled'
  BY <1>1, <1>2, <1>5, InvIs, ReadLeaves
     DEF Cancelled, BothAwaited, CancelFollows, RefusalFollows, TheWait
<1>11. OneAnswerEach' /\ UnusableForCause' /\ HostClosesForCause'
  BY <1>1, <1>2, <1>4, InvIs DEF OneAnswerEach, UnusableForCause, HostClosesForCause
<1> QED
  BY <1>6, <1>7, <1>8, <1>9, <1>10, <1>11 DEF Inv, HonestConnection

\* A client that is ready has nothing on the wire and nothing at the Host.
LEMMA ReadyIs ==
    ASSUME Inv, state = "ready"
    PROVE  /\ toHost = <<>> /\ toClient = <<>> /\ lane \in {Reading, Closed} /\ parallel = {}
           /\ LaneIds = {} /\ ClientIds = {}
<1>1. HostIds = {} /\ LaneIds = {} /\ parallel = {} /\ ClientIds = {}
  BY InvIs DEF Operation, OnTheWay, AtHost
<1>2. DOMAIN toHost = {} /\ DOMAIN toClient = {}
  BY <1>1 DEF HostIds, ClientIds, IdsOf
<1>3. ASSUME NEW S, NEW q \in Seq(S), DOMAIN q = {} PROVE q = <<>>
  <2>1. Len(q) \in Nat /\ DOMAIN q = 1 .. Len(q)
    OBVIOUS
  <2>2. 1 \notin 1 .. Len(q)
    BY <1>3, <2>1
  <2>3. Len(q) = 0
    BY <2>1, <2>2
  <2> QED
    BY <2>3
<1>4. lane \in {Reading, Closed}
  BY <1>1, InvIs, LaneIs DEF LaneIds
<1> QED
  BY <1>1, <1>2, <1>3, <1>4, InvIs

\* The ids and the frames of an operation, from n on.
IdsFrom(n, methods) == [i \in DOMAIN methods |-> n + i - 1]

FramesFrom(n, methods) ==
    [i \in DOMAIN methods |-> [id |-> n + i - 1, method |-> methods[i], waitId |-> n]]

\* The frames of an operation carry ids nobody used.
LEMMA FirstFrames ==
    ASSUME NEW n \in Nat, n >= 1, NEW methods \in Seq(Methods), Len(methods) \in {1, 2},
           n + Len(methods) - 1 <= MaxRequests,
           NEW ids, ids = IdsFrom(n, methods), NEW fs, fs = FramesFrom(n, methods)
    PROVE  /\ ids \in Seq(Ids) /\ Len(ids) = Len(methods) /\ ids[1] = n
           /\ DOMAIN ids = DOMAIN methods /\ 1 \in DOMAIN methods
           /\ Len(ids) = 2 => ids[1] # ids[2]
           /\ \A i \in DOMAIN ids : ids[i] >= n /\ ids[i] < n + Len(methods)
           /\ fs \in Seq(Request) /\ Apart(fs) /\ DOMAIN fs = DOMAIN methods
           /\ \A i \in DOMAIN fs : fs[i].id = ids[i] /\ fs[i].method = methods[i]
           /\ IdsOf(fs) = {ids[i] : i \in DOMAIN ids}
<1>1. DOMAIN methods = 1 .. Len(methods) /\ MaxRequests \in Nat
  BY HostConnectionAssumption
<1>2. \A i \in DOMAIN methods : n + i - 1 \in Ids /\ methods[i] \in Methods /\ i \in Nat /\ i > 0
                                /\ n + i - 1 >= n /\ n + i - 1 < n + Len(methods)
  BY <1>1 DEF Ids
<1>3. DOMAIN ids = DOMAIN methods /\ \A i \in DOMAIN methods : ids[i] = n + i - 1
  BY DEF IdsFrom
<1>4. ids \in Seq(Ids) /\ Len(ids) = Len(methods)
  <2>1. ids \in [1 .. Len(methods) -> Ids]
    BY <1>1, <1>2, <1>3 DEF IdsFrom
  <2> QED
    BY <2>1
<1>5. 1 \in DOMAIN methods /\ ids[1] = n /\ (Len(ids) = 2 => ids[1] # ids[2])
  BY <1>1, <1>3, <1>4
<1>6. DOMAIN fs = DOMAIN methods
      /\ \A i \in DOMAIN fs : fs[i] = [id |-> ids[i], method |-> methods[i], waitId |-> n]
  BY <1>3 DEF FramesFrom
<1>7. n \in Ids
  BY <1>2, <1>3, <1>5
<1>8. fs \in Seq(Request)
  <2>1. \A i \in 1 .. Len(methods) : fs[i] \in Request
    BY <1>1, <1>2, <1>3, <1>6, <1>7 DEF Request
  <2>2. fs \in [1 .. Len(methods) -> Request]
    BY <1>1, <1>6, <2>1 DEF FramesFrom
  <2> QED
    BY <2>2
<1>9. \A i \in DOMAIN fs : fs[i].id = ids[i] /\ fs[i].method = methods[i]
  BY <1>6
<1>10. Apart(fs)
  <2>1. \A i, j \in DOMAIN methods : n + i - 1 = n + j - 1 => i = j
    BY <1>2
  <2> QED
    BY <1>3, <1>6, <1>9, <2>1 DEF Apart
<1>11. IdsOf(fs) = {ids[i] : i \in DOMAIN ids}
  BY <1>3, <1>6, <1>9 DEF IdsOf
<1> QED
  BY <1>2, <1>3, <1>4, <1>5, <1>6, <1>8, <1>9, <1>10, <1>11

\* An operation starts on a connection that is empty.
LEMMA StartStep ==
    ASSUME Inv, NEW methods \in Seq(Methods), Len(methods) \in {1, 2}, Start(methods)
    PROVE  Inv'
<1> DEFINE ids == [i \in DOMAIN methods |-> nextId + i - 1]
           fs == [i \in DOMAIN methods |->
                    [id |-> ids[i], method |-> methods[i], waitId |-> nextId]]
<1>1. /\ state = "ready" /\ clientOpen /\ nextId + Len(methods) - 1 <= MaxRequests
      /\ nextId' = nextId + Len(methods)
      /\ UNCHANGED <<leaked, pending, clientOpen, clientRead, toClient, host, answers>>
  BY DEF Start
<1>2. /\ nextId \in Nat /\ nextId >= 1 /\ clientRead \in Reads /\ MaxRequests \in Nat
      /\ nextId' \in 1 .. MaxRequests + 1 /\ nextId' >= nextId
      /\ outstanding \subseteq Ids
  BY <1>1, InvIs, HostConnectionAssumption DEF TypeOK
<1>3. CASE Cardinality(outstanding) + Len(methods) > MaxOutstanding
  <2>1. GiveUp("full") /\ UNCHANGED <<outstanding, toHost>>
    BY <1>3 DEF Start
  <2>2. outstanding \subseteq leaked /\ TypeOK /\ 1 \in Ids /\ MaxOutstanding \in Nat
    BY <1>1, <1>2, InvIs, HostConnectionAssumption DEF Tracked, Ids
  <2>3. /\ Cardinality(outstanding) \in Nat /\ Cardinality(leaked) \in Nat
        /\ Cardinality(leaked) + 0 >= Cardinality(outstanding)
    BY <2>2, FullTable
  <2>4. Cardinality(leaked) >= MaxOutstanding - 1
    <3> DEFINE n == Len(methods)
               o == Cardinality(outstanding)
               l == Cardinality(leaked)
    <3>1. n \in {1, 2} /\ o \in Nat /\ l \in Nat /\ l + 0 >= o /\ o + n > MaxOutstanding
      BY <1>3, <2>3
    <3> HIDE DEF n, o, l
    <3>2. l >= MaxOutstanding - 1
      BY <2>2, <3>1
    <3> QED
      BY <3>2 DEF l
  <2> QED
    BY <1>1, <1>2, <2>1, <2>4, GiveUpStep
<1>4. CASE ~(Cardinality(outstanding) + Len(methods) > MaxOutstanding)
  <2> DEFINE c == methods[1] \in Waits /\ Len(methods) = 1
  <2>1. /\ state' = "in_flight" /\ UNCHANGED cause
        /\ op' = [method |-> methods[1], await |-> ids, cancelled |-> FALSE, cancellable |-> c]
        /\ outstanding' = outstanding \cup {ids[i] : i \in DOMAIN ids}
        /\ toHost' = toHost \o fs
    BY <1>4 DEF Start
  <2>2. ids = IdsFrom(nextId, methods) /\ fs = FramesFrom(nextId, methods)
    BY DEF IdsFrom, FramesFrom
  <2> HIDE DEF ids, fs
  <2>3. /\ ids \in Seq(Ids) /\ Len(ids) = Len(methods) /\ ids[1] = nextId
        /\ DOMAIN ids = DOMAIN methods /\ 1 \in DOMAIN methods
        /\ Len(ids) = 2 => ids[1] # ids[2]
        /\ \A i \in DOMAIN ids : ids[i] >= nextId /\ ids[i] < nextId + Len(methods)
        /\ fs \in Seq(Request) /\ Apart(fs) /\ DOMAIN fs = DOMAIN methods
        /\ \A i \in DOMAIN fs : fs[i].id = ids[i] /\ fs[i].method = methods[i]
        /\ IdsOf(fs) = {ids[i] : i \in DOMAIN ids}
    BY <1>1, <1>2, <2>2, FirstFrames
  <2>4. PICK b \in BOOLEAN :
          /\ b <=> c
          /\ op' = [method |-> methods[1], await |-> ids, cancelled |-> FALSE, cancellable |-> b]
    BY <2>1
  <2>5. /\ op' \in Op /\ op'.await = ids /\ op'.method = methods[1] /\ op'.cancellable = b
        /\ ~op'.cancelled
    BY <2>3, <2>4 DEF Op
  <2>6. /\ toHost' = fs /\ toClient' = <<>> /\ UNCHANGED <<hostRead, lane, parallel, stop>>
        /\ lane \in {Reading, Closed} /\ parallel = {} /\ LaneIds' = {} /\ ClientIds' = {}
        /\ PendingIds' = PendingIds /\ LaneIds = {}
    <3>1. /\ toHost = <<>> /\ toClient = <<>> /\ lane \in {Reading, Closed} /\ parallel = {}
          /\ LaneIds = {} /\ ClientIds = {}
      BY <1>1, ReadyIs
    <3>2. <<>> \o fs = fs
      BY <2>3
    <3> QED
      BY <1>1, <2>1, <3>1, <3>2 DEF host, LaneIds, ClientIds, PendingIds
  <2>7. AtHost' = IdsOf(fs) /\ OnTheWay' = IdsOf(fs) /\ HostIds' = IdsOf(fs)
    BY <2>6 DEF AtHost, OnTheWay, HostIds
  <2>8. \A id \in IdsOf(fs) : id \in Ids /\ id >= nextId /\ id < nextId'
    BY <1>1, <2>3
  <2>9. TypeOK'
    <3>1. outstanding' \subseteq Ids
      BY <1>2, <2>1, <2>3, <2>8
    <3> QED
      BY <1>1, <1>2, <2>1, <2>3, <2>5, <2>6, <3>1, InvIs DEF TypeOK
  <2>10. Places'
    <3>1. Apart(toHost') /\ Apart(toClient')
      BY <2>3, <2>6 DEF Apart
    <3>2. \A id \in IdsOf(fs) : answers'[id] = 0
      BY <1>1, <2>8, InvIs DEF Places
    <3>3. \A id \in PendingIds : answers'[id] # 0
      BY <1>1, InvIs DEF Places
    <3>4. ASSUME NEW id \in Ids, id >= nextId' PROVE answers'[id] = 0 /\ id \notin AtHost'
      <4>1. id >= nextId /\ ~(id < nextId')
        BY <1>2, <3>4 DEF Ids
      <4> QED
        BY <1>1, <2>7, <2>8, <4>1, InvIs DEF Places
    <3> QED
      BY <2>6, <2>7, <3>1, <3>2, <3>3, <3>4 DEF Places
  <2>11. Operation' /\ Tracked'
    <3>1. Awaited' = {ids[i] : i \in DOMAIN ids}
      BY <2>5 DEF Awaited
    <3>2. Len(op'.await) \in {1, 2} /\ (Len(op'.await) = 2 => op'.await[1] # op'.await[2])
      BY <2>3, <2>5
    <3>3. Awaited' \subseteq outstanding' /\ OnTheWay' \subseteq Awaited'
      BY <2>1, <2>3, <2>7, <3>1
    <3>4. \A id \in Awaited' : id < nextId'
      BY <1>1, <2>3, <3>1
    <3>5. op'.cancellable /\ ~op'.cancelled => Len(op'.await) = 1
      BY <2>3, <2>4, <2>5
    <3>6. outstanding' \subseteq leaked' \cup Awaited'
      BY <1>1, <2>1, <3>1, InvIs DEF Tracked
    <3> QED
      BY <1>1, <2>1, <2>5, <3>2, <3>3, <3>4, <3>5, <3>6 DEF Operation, Tracked
  <2>12. ~BothAwaited'
    BY <2>3, <2>4, <2>5 DEF BothAwaited
  <2>13. Cancellable'
    <3> SUFFICES ASSUME b
                 PROVE  /\ op'.method \in Waits /\ parallel' = {}
                        /\ lane'.stage \notin {"serving", "waiting"}
                        /\ \A i \in DOMAIN toHost' : toHost'[i].method = op'.method
      BY <2>5 DEF Cancellable
    <3>1. DOMAIN methods = {1} /\ methods[1] \in Waits
      BY <2>4
    <3> QED
      BY <2>3, <2>5, <2>6, <3>1 DEF Reading, Closed
  <2>14. OneAnswerEach' /\ UnusableForCause' /\ HostClosesForCause'
    BY <1>1, <2>1, <2>6, InvIs DEF OneAnswerEach, UnusableForCause, HostClosesForCause
  <2> QED
    BY <2>9, <2>10, <2>11, <2>12, <2>13, <2>14 DEF Inv, HonestConnection, Cancelled
<1> QED
  BY <1>3, <1>4

\* One id before the only other.
LEMMA BeforeOne ==
    ASSUME NEW S, NEW x \in S, NEW s \in Seq(S), Len(s) = 1
    PROVE  /\ <<x>> \o s \in Seq(S) /\ Len(<<x>> \o s) = 2 /\ DOMAIN (<<x>> \o s) = {1, 2}
           /\ (<<x>> \o s)[1] = x /\ (<<x>> \o s)[2] = s[1]
<1> DEFINE t == <<x>>
<1>1. t \in Seq(S) /\ Len(t) = 1 /\ t[1] = x
  OBVIOUS
<1> HIDE DEF t
<1>2. ASSUME NEW a \in Seq(S), NEW b \in Seq(S)
      PROVE  /\ a \o b \in Seq(S) /\ Len(a \o b) = Len(a) + Len(b)
             /\ DOMAIN (a \o b) = 1 .. Len(a \o b) /\ DOMAIN a = 1 .. Len(a) /\ DOMAIN b = 1 .. Len(b)
  OBVIOUS
<1>3. t \o s \in Seq(S) /\ DOMAIN (t \o s) = 1 .. 2 /\ Len(t \o s) = 2
      /\ DOMAIN t = 1 .. 1 /\ DOMAIN s = 1 .. 1
  <2>1. /\ t \o s \in Seq(S) /\ Len(t \o s) = Len(t) + Len(s)
        /\ DOMAIN (t \o s) = 1 .. Len(t \o s) /\ DOMAIN t = 1 .. Len(t) /\ DOMAIN s = 1 .. Len(s)
    BY <1>1, <1>2, Zenon
  <2> DEFINE n == Len(t \o s)
  <2>2. n = 1 + 1 /\ DOMAIN (t \o s) = 1 .. n /\ DOMAIN t = 1 .. 1 /\ DOMAIN s = 1 .. 1
    BY <1>1, <2>1, Zenon
  <2> HIDE DEF n
  <2>3. n = 2
    BY <2>2
  <2> QED
    BY <2>1, <2>2, <2>3 DEF n
<1>4. /\ \A i \in DOMAIN t : (t \o s)[i] = t[i]
      /\ \A i \in DOMAIN s : (t \o s)[Len(t) + i] = s[i]
  BY <1>1, ConcatIs
<1>5. (t \o s)[1] = x /\ (t \o s)[2] = s[1]
  BY <1>1, <1>3, <1>4
<1> QED
  BY <1>3, <1>5 DEF t

\* The caller cancels its wait: the cancel is the last frame, and its id is new.
LEMMA CancelStep == ASSUME Inv, Cancel PROVE Inv'
<1>1. /\ state = "in_flight" /\ op.cancellable /\ ~op.cancelled
      /\ nextId <= MaxRequests /\ nextId' = nextId + 1 /\ clientRead' = Dropped(clientRead)
      /\ UNCHANGED <<leaked, pending, clientOpen, toClient, host, answers>>
  BY DEF Cancel
<1>2. /\ nextId \in Nat /\ nextId >= 1 /\ nextId \in Ids /\ MaxRequests \in Nat
      /\ nextId' \in 1 .. MaxRequests + 1 /\ nextId' >= nextId
      /\ clientRead' \in Reads /\ outstanding \subseteq Ids
  BY <1>1, InvIs, HostConnectionAssumption DEF TypeOK, Ids, Dropped, Reads
<1>3. CASE Cardinality(outstanding) >= MaxOutstanding
  <2>1. GiveUp("full") /\ UNCHANGED <<outstanding, toHost>>
    BY <1>3 DEF Cancel
  <2>2. op \in Op /\ Len(op.await) = 1
    BY <1>1, InvIs DEF Operation
  <2>3. op.await \in Seq(Ids) /\ Len(op.await) = 1
    BY <2>2 DEF Op
  <2>4. DOMAIN op.await = {1} /\ op.await[1] \in Ids
    BY <2>3
  <2>5. outstanding \subseteq leaked \cup {op.await[1]} /\ TypeOK /\ MaxOutstanding \in Nat
    BY <1>1, <2>4, InvIs, HostConnectionAssumption DEF Tracked, Awaited
  <2>6. /\ Cardinality(outstanding) \in Nat /\ Cardinality(leaked) \in Nat
        /\ Cardinality(leaked) + 1 >= Cardinality(outstanding)
    BY <2>4, <2>5, FullTable
  <2>7. Cardinality(leaked) >= MaxOutstanding - 1
    BY <1>3, <2>5, <2>6
  <2> QED
    BY <1>1, <1>2, <2>1, <2>7, GiveUpStep
<1>4. CASE ~(Cardinality(outstanding) >= MaxOutstanding)
  <2> DEFINE w == op.await[1]
             m == IF op.method = "wait_for_window" THEN "cancel_window_wait" ELSE "cancel"
             f == [id |-> nextId, method |-> m, waitId |-> w]
  <2>1. /\ op' = [op EXCEPT !.await = <<nextId>> \o op.await, !.cancelled = TRUE]
        /\ outstanding' = outstanding \cup {nextId}
        /\ toHost' = Append(toHost, f) /\ UNCHANGED <<state, cause>>
    BY <1>4 DEF Cancel
  <2>2. /\ op \in Op /\ clientOpen /\ Len(op.await) = 1 /\ op.await \in Seq(Ids)
        /\ w \in Ids /\ TheWait = w /\ Awaited = {w} /\ w < nextId /\ w \in outstanding
        /\ OnTheWay \subseteq {w}
    <3>1. /\ op \in Op /\ clientOpen /\ Len(op.await) = 1 /\ OnTheWay \subseteq Awaited
          /\ Awaited \subseteq outstanding /\ \A id \in Awaited : id < nextId
      BY <1>1, InvIs DEF Operation
    <3>2. op.await \in Seq(Ids)
      BY <3>1 DEF Op
    <3>3. DOMAIN op.await = {1} /\ w \in Ids
      BY <3>1, <3>2
    <3> QED
      BY <3>1, <3>2, <3>3 DEF Awaited, TheWait
  <2> DEFINE both == <<nextId>> \o op.await
  <2>3. /\ both \in Seq(Ids) /\ Len(both) = 2 /\ DOMAIN both = {1, 2} /\ both[1] = nextId
        /\ both[2] = w
    BY <1>2, <2>2, BeforeOne
  <2>4. f \in Request /\ f.id = nextId /\ f.method = m /\ f.waitId = w
    BY <1>2, <2>2 DEF Request, Methods, Cancels
  <2> HIDE DEF both, f
  <2>5. op' = [op EXCEPT !.await = both, !.cancelled = TRUE]
    BY <2>1 DEF both
  <2>6. /\ op' \in Op /\ op'.await = both /\ op'.cancelled /\ op'.cancellable
        /\ op'.method = op.method
    BY <1>1, <2>2, <2>3, <2>5 DEF Op
  <2>7. nextId \notin AtHost /\ answers[nextId] = 0 /\ nextId \notin ClientIds
        /\ nextId \notin PendingIds /\ nextId # w
    BY <1>2, <2>2, InvIs DEF Places
  <2>8. toHost' = toHost \o <<f>> /\ <<f>> \in Seq(Request)
    BY <2>1, <2>4, InvIs
  <2>9. /\ toHost' \in Seq(Request) /\ Apart(toHost') /\ HostIds' = HostIds \cup {nextId}
    <3>1. Apart(<<f>>) /\ IdsOf(<<f>>) = {nextId}
      BY <2>4 DEF Apart, IdsOf
    <3>2. IdsOf(toHost) \cap IdsOf(<<f>>) = {} /\ Apart(toHost)
      BY <2>7, <3>1, InvIs DEF AtHost, HostIds, Places
    <3>3. toHost \o <<f>> \in Seq(Request)
      BY <2>8, InvIs, ConcatIs
    <3>4. Apart(toHost \o <<f>>) /\ IdsOf(toHost \o <<f>>) = IdsOf(toHost) \cup IdsOf(<<f>>)
      BY <2>8, <3>1, <3>2, InvIs, ConcatIds, ZenonT(60)
    <3> QED
      BY <2>8, <3>1, <3>3, <3>4 DEF HostIds
  <2>10. /\ UNCHANGED <<hostRead, lane, parallel, stop>> /\ LaneIds' = LaneIds
         /\ ClientIds' = ClientIds /\ PendingIds' = PendingIds
    BY <1>1 DEF host, LaneIds, ClientIds, PendingIds
  <2>11. AtHost' = AtHost \cup {nextId} /\ OnTheWay' = OnTheWay \cup {nextId}
    BY <2>9, <2>10 DEF AtHost, OnTheWay
  <2>12. /\ \A i \in DOMAIN toHost' :
              \/ i \in DOMAIN toHost /\ toHost'[i] = toHost[i] /\ i <= Len(toHost) /\ i \in Nat
              \/ i > Len(toHost) /\ toHost'[i] = f /\ i \in Nat
         /\ Len(toHost) \in Nat
    <3>1. \A i \in DOMAIN <<f>> : <<f>>[i] = f
      OBVIOUS
    <3> QED
      BY <2>8, <3>1, InvIs, ConcatIs
  <2>13. TheWait' = w
    BY <2>3, <2>6 DEF TheWait
  <2>14. TypeOK'
    BY <1>1, <1>2, <2>1, <2>6, <2>9, <2>10, InvIs DEF TypeOK
  <2>15. Places'
    <3>1. \A id \in Ids : id >= nextId' => id >= nextId /\ id # nextId
      BY <1>1, <1>2 DEF Ids
    <3> QED
      BY <1>1, <2>7, <2>9, <2>10, <2>11, <3>1, InvIs DEF Places, AtHost
  <2>16. Operation' /\ Tracked'
    <3>1. Awaited' = {nextId, w}
      BY <2>3, <2>6 DEF Awaited
    <3>3. outstanding' \subseteq leaked' \cup Awaited'
      BY <1>1, <2>1, <2>2, <3>1, InvIs DEF Tracked
    <3>2. \A id \in Awaited' : id < nextId'
      BY <1>1, <1>2, <2>2, <3>1 DEF Ids
    <3> QED
      BY <1>1, <2>1, <2>2, <2>3, <2>6, <2>7, <2>11, <3>1, <3>2, <3>3 DEF Operation, Tracked
  <2>17. Cancellable'
    <3>1. \A i \in DOMAIN toHost' : toHost'[i].id = w => toHost'[i].method = op.method
      BY <1>1, <2>2, <2>4, <2>7, <2>12, InvIs DEF Cancellable
    <3> QED
      BY <1>1, <2>1, <2>2, <2>6, <2>10, <2>13, <3>1, InvIs DEF Cancellable
  <2>18. Cancelled'
    <3>1. op'.await[1] = nextId
      BY <2>3, <2>6
    <3>2. CancelFollows(toHost)'
      <4> SUFFICES ASSUME NEW i \in DOMAIN toHost', toHost'[i].id = nextId
                   PROVE  /\ toHost'[i].method = m /\ toHost'[i].waitId = w
                          /\ \A j \in DOMAIN toHost' : toHost'[j].id = w => j < i
        BY <2>6, <2>13, <3>1 DEF CancelFollows
      <4>1. nextId \notin HostIds
        BY <2>7 DEF AtHost
      <4>2. i > Len(toHost) /\ toHost'[i] = f /\ i \in Nat
        BY <2>12, <4>1 DEF HostIds, IdsOf
      <4>3. ASSUME NEW j \in DOMAIN toHost', toHost'[j].id = w PROVE j < i
        <5>1. j <= Len(toHost) /\ j \in Nat
          BY <2>4, <2>7, <2>12, <4>3
        <5> QED
          BY <2>12, <4>2, <5>1
      <4> QED
        BY <2>4, <4>2, <4>3
    <3>3. RefusalFollows(toClient)'
      BY <1>1, <2>7, <3>1 DEF RefusalFollows, ClientIds, IdsOf
    <3> QED
      BY <2>6, <2>7, <2>10, <3>1, <3>2, <3>3 DEF Cancelled
  <2>19. OneAnswerEach' /\ UnusableForCause' /\ HostClosesForCause'
    BY <1>1, <2>1, <2>10, InvIs DEF OneAnswerEach, UnusableForCause, HostClosesForCause
  <2> QED
    BY <2>14, <2>15, <2>16, <2>17, <2>18, <2>19 DEF Inv, HonestConnection
<1> QED
  BY <1>3, <1>4

\* What is left of one id, and of two.
LEMMA ShortTail ==
    ASSUME NEW S, NEW s \in Seq(S)
    PROVE  /\ Len(s) = 1 => Tail(s) = <<>> /\ DOMAIN s = {1}
           /\ Len(s) = 2 => /\ Tail(s) # <<>> /\ Len(Tail(s)) = 1 /\ Tail(s)[1] = s[2]
                            /\ DOMAIN Tail(s) = {1} /\ DOMAIN s = {1, 2}
<1> DEFINE t == Tail(s)
<1>1. Len(s) \in Nat /\ DOMAIN s = 1 .. Len(s)
  OBVIOUS
<1>2. Len(s) > 0 => t \in Seq(S) /\ Len(t) = Len(s) - 1 /\ DOMAIN t = 1 .. Len(s) - 1
  BY <1>1
<1>3. Len(s) > 0 => \A i \in 1 .. Len(s) - 1 : t[i] = s[i + 1]
  BY <1>1
<1> HIDE DEF t
<1>4. ASSUME Len(s) = 1 PROVE t = <<>> /\ DOMAIN s = {1}
  BY <1>1, <1>2, <1>4
<1>5. ASSUME Len(s) = 2
      PROVE  t # <<>> /\ Len(t) = 1 /\ t[1] = s[2] /\ DOMAIN t = {1} /\ DOMAIN s = {1, 2}
  <2>1. t \in Seq(S) /\ Len(t) = 1 /\ DOMAIN s = {1, 2}
    BY <1>1, <1>2, <1>5
  <2>2. t # <<>> /\ DOMAIN t = {1}
    <3>1. Len(t) # 0 => t # <<>>
      OBVIOUS
    <3>2. DOMAIN t = 1 .. 1
      BY <1>1, <1>2, <1>5
    <3> QED
      BY <2>1, <3>1, <3>2
  <2>3. t[1] = s[2]
    BY <1>3, <1>5
  <2> QED
    BY <2>1, <2>2, <2>3
<1> QED
  BY <1>4, <1>5 DEF t

\* The response an operation waits for is taken: it is on no way any more, and
\* of a refused cancel of wait_for_window neither is the wait.
LEMMA TakeStep ==
    ASSUME Inv, state = "in_flight", ClientReads, NEW ok \in BOOLEAN, Take(ok),
           UNCHANGED <<cause, nextId, clientOpen>>, clientRead' \in Reads,
           Head(op.await) \notin OnTheWay',
           BothAwaited /\ op.method = "wait_for_window" /\ ~ok => TheWait \notin OnTheWay'
    PROVE  Inv'
<1> DEFINE h == Head(op.await)
           rest == Tail(op.await)
<1>1. /\ op \in Op /\ clientOpen /\ Len(op.await) \in {1, 2}
      /\ Len(op.await) = 2 => op.await[1] # op.await[2]
      /\ Awaited \subseteq outstanding /\ OnTheWay \subseteq Awaited
      /\ \A id \in Awaited : id < nextId
      /\ op.cancelled => op.cancellable
  BY InvIs DEF Operation
<1>2. op.await \in Seq(Ids) /\ op.await # <<>>
  BY <1>1 DEF Op
<1>3. h = op.await[1] /\ rest \in Seq(Ids) /\ Len(rest) = Len(op.await) - 1
  BY <1>1, <1>2
<1>4. /\ Len(op.await) = 1 => rest = <<>> /\ Awaited = {h}
      /\ Len(op.await) = 2 => /\ rest # <<>> /\ Len(rest) = 1 /\ rest[1] = op.await[2]
                              /\ DOMAIN rest = {1} /\ Awaited = {h, op.await[2]} /\ h # op.await[2]
                              /\ TheWait = op.await[2]
  <2>1. CASE Len(op.await) = 1
    <3>1. rest = <<>> /\ DOMAIN op.await = {1}
      BY <1>2, <2>1, ShortTail
    <3> QED
      BY <1>3, <2>1, <3>1 DEF Awaited
  <2>2. CASE Len(op.await) = 2
    <3>1. /\ rest # <<>> /\ Len(rest) = 1 /\ rest[1] = op.await[2] /\ DOMAIN rest = {1}
          /\ DOMAIN op.await = {1, 2}
      BY <1>2, <2>2, ShortTail
    <3> QED
      BY <1>1, <1>3, <2>2, <3>1 DEF Awaited, TheWait
  <2> QED
    BY <1>1, <2>1, <2>2
<1>5. /\ outstanding' = outstanding \ {h} /\ pending' = {r \in pending : r.id # h}
      /\ leaked' = IF op.cancelled /\ rest # <<>> /\ ~ok /\ op.method = "wait_for_window"
                   THEN leaked \cup {Head(rest)} ELSE leaked
      /\ IF rest = <<>> \/ (op.cancelled /\ rest # <<>> /\ ~ok /\ op.method = "wait_for_window")
         THEN state' = "ready" /\ op' = NoOp
         ELSE op' = [op EXCEPT !.await = rest] /\ UNCHANGED state
  BY DEF Take
<1> HIDE DEF h, rest
<1>6. /\ UNCHANGED <<hostRead, lane, parallel, stop, toHost, answers>>
      /\ AtHost' = AtHost /\ ClientIds' \subseteq ClientIds /\ OnTheWay' \subseteq OnTheWay
      /\ toClient' \in Seq(Response)
  BY ReadLeaves
<1>7. PendingIds' \subseteq PendingIds /\ pending' \subseteq Response
  BY <1>5, InvIs DEF PendingIds, TypeOK
<1>8. Places'
  <2>1. nextId \in Nat /\ nextId' = nextId
    BY InvIs, HostConnectionAssumption DEF TypeOK
  <2>2. ClientIds' \cap PendingIds' = {}
    BY <1>6, <1>7, InvIs DEF Places
  <2> QED
    BY <1>7, <2>1, <2>2, PlacesKept
<1>9. OnTheWay' \subseteq Awaited \ {h}
  BY <1>1, <1>6 DEF h
<1>10. OneAnswerEach' /\ HostClosesForCause'
  BY <1>6, InvIs DEF OneAnswerEach, HostClosesForCause
<1>11. CASE rest = <<>> \/ (op.cancelled /\ rest # <<>> /\ ~ok /\ op.method = "wait_for_window")
  <2>1. state' = "ready" /\ op' = NoOp
    BY <1>5, <1>11
  <2>2. OnTheWay' = {}
    <3>1. CASE rest = <<>>
      BY <1>1, <1>4, <1>9, <3>1
    <3>2. CASE op.cancelled /\ rest # <<>> /\ ~ok /\ op.method = "wait_for_window"
      <4>1. Len(op.await) = 2 /\ BothAwaited
        BY <1>1, <1>4, <3>2 DEF BothAwaited
      <4> QED
        BY <1>4, <1>9, <3>2, <4>1
    <3> QED
      BY <1>11, <3>1, <3>2
  <2>4. outstanding' \subseteq leaked' /\ leaked' \subseteq Ids
    <3>1. outstanding \subseteq leaked \cup Awaited /\ leaked \subseteq Ids
      BY InvIs DEF Tracked, TypeOK
    <3>2. CASE rest = <<>>
      BY <1>1, <1>4, <1>5, <3>1, <3>2
    <3>3. CASE op.cancelled /\ rest # <<>> /\ ~ok /\ op.method = "wait_for_window"
      <4>1. leaked' = leaked \cup {Head(rest)} /\ Len(op.await) = 2
        BY <1>1, <1>4, <1>5, <3>3
      <4>2. op.await[2] \in Ids /\ rest \in Seq(Ids)
        BY <1>3, <4>1, ShortTail DEF rest
      <4>3. Head(rest) = op.await[2]
        BY <1>4, <4>1, <4>2
      <4> QED
        BY <1>4, <1>5, <3>1, <4>1, <4>2, <4>3
    <3> QED
      BY <1>11, <3>2, <3>3
  <2>3. TypeOK'
    BY <1>5, <1>6, <1>7, <2>1, <2>4, InvIs DEF TypeOK
  <2> QED
    BY <1>8, <1>10, <2>1, <2>2, <2>3, <2>4
       DEF Inv, HonestConnection, Operation, Tracked, UnusableForCause, Cancellable, Cancelled,
           BothAwaited
<1>12. CASE ~(rest = <<>> \/ (op.cancelled /\ rest # <<>> /\ ~ok /\ op.method = "wait_for_window"))
  <2>1. op' = [op EXCEPT !.await = rest] /\ state' = "in_flight" /\ rest # <<>> /\ Len(op.await) = 2
    BY <1>1, <1>4, <1>5, <1>12
  <2>2. /\ op' \in Op /\ op'.await = rest /\ op'.method = op.method
        /\ op'.cancelled = op.cancelled /\ op'.cancellable = op.cancellable
    BY <1>1, <1>3, <2>1 DEF Op, rest
  <2>3. Len(op'.await) = 1 /\ Awaited' = {op.await[2]} /\ TheWait' = op.await[2]
        /\ TheWait = op.await[2]
    BY <1>4, <2>1, <2>2 DEF Awaited, TheWait
  <2>4. Operation'
    BY <1>1, <1>4, <1>5, <1>9, <2>1, <2>2, <2>3 DEF Operation
  <2>8. leaked' = leaked
    BY <1>5, <1>12
  <2>9. Tracked'
    BY <1>4, <1>5, <2>1, <2>3, <2>8, InvIs DEF Tracked
  <2>5. TypeOK'
    BY <1>5, <1>6, <1>7, <2>1, <2>2, <2>8, InvIs DEF TypeOK
  <2>6. Cancellable'
    BY <1>6, <2>1, <2>2, <2>3, InvIs DEF Cancellable
  <2>7. ~BothAwaited'
    BY <2>3 DEF BothAwaited
  <2> QED
    BY <1>8, <1>10, <2>1, <2>4, <2>5, <2>6, <2>7, <2>9
       DEF Inv, HonestConnection, UnusableForCause, Cancelled
<1> QED
  BY <1>11, <1>12

\* A response that was read while another was awaited.
LEMMA TakePendingStep == ASSUME Inv, TakePending PROVE Inv'
<1>1. PICK r \in pending : r.id = Head(op.await) /\ Take(r.ok)
  BY DEF TakePending
<1>2. /\ state = "in_flight" /\ UNCHANGED <<cause, nextId, clientOpen, clientRead>>
      /\ UNCHANGED <<toHost, toClient, host, answers>>
  BY DEF TakePending
<1>3. ClientReads /\ clientRead' \in Reads /\ r.ok \in BOOLEAN
  BY <1>2, InvIs DEF ClientReads, TypeOK, Response
<1>4. Head(op.await) \in PendingIds
  BY <1>1 DEF PendingIds
<1>5. Head(op.await) \notin OnTheWay'
  BY <1>3, <1>4, InvIs, ReadLeaves DEF Places, OnTheWay
<1>6. ~BothAwaited
  <2> SUFFICES ASSUME BothAwaited PROVE FALSE
    OBVIOUS
  <2>1. op.await[1] \notin PendingIds
    BY InvIs DEF Cancelled
  <2>2. op \in Op /\ Len(op.await) = 2
    BY InvIs DEF BothAwaited, Operation
  <2>3. op.await \in Seq(Ids) /\ Len(op.await) = 2
    BY <2>2 DEF Op
  <2>4. Head(op.await) = op.await[1]
    BY <2>3
  <2> QED
    BY <1>4, <2>1, <2>4
<1>7. PICK ok \in BOOLEAN : Take(ok)
  BY <1>1, <1>3
<1> QED
  BY <1>2, <1>3, <1>5, <1>6, <1>7, TakeStep

\* The response at the head of the stream.
LEMMA ResponseIs ==
    ASSUME Inv, toClient # <<>>, toClient' = Tail(toClient), UNCHANGED <<host, toHost, answers>>
    PROVE  LET r == Head(toClient)
           IN  /\ ClientReads /\ r \in Response /\ r = toClient[1] /\ 1 \in DOMAIN toClient
               /\ r.id \in ClientIds /\ r.id \notin ClientIds' /\ r.id \notin AtHost
               /\ ClientIds = ClientIds' \cup {r.id} /\ r.id \notin PendingIds
<1> DEFINE r == Head(toClient)
<1>1. r = toClient[1] /\ r \in Response /\ 1 \in DOMAIN toClient
  BY InvIs, TailIs
<1>2. ClientIds = ClientIds' \cup {r.id} /\ r.id \notin ClientIds'
  BY InvIs, TailIds DEF ClientIds, Places
<1>3. r.id \notin AtHost /\ r.id \notin PendingIds
  BY <1>2, InvIs DEF Places
<1> QED
  BY <1>1, <1>2, <1>3 DEF ClientReads

\* The response is the one awaited.
LEMMA ReceiveAwaited ==
    ASSUME Inv, state = "in_flight", toClient # <<>>, toClient' = Tail(toClient),
           UNCHANGED <<host, toHost, answers, cause, nextId, clientOpen>>, clientRead' = "fresh",
           Head(toClient).id = Head(op.await), Take(Head(toClient).ok)
    PROVE  Inv'
<1> DEFINE r == Head(toClient)
<1>1. /\ ClientReads /\ r \in Response /\ r = toClient[1] /\ 1 \in DOMAIN toClient
      /\ r.id \notin ClientIds' /\ r.id \notin AtHost /\ ClientIds = ClientIds' \cup {r.id}
  BY ResponseIs
<1>2. r.id \notin OnTheWay' /\ AtHost' = AtHost
  BY <1>1, ReadLeaves DEF OnTheWay
<1>3. PICK ok \in BOOLEAN : ok = r.ok
  BY <1>1 DEF Response
<1> HIDE DEF r
<1>4. ASSUME BothAwaited, op.method = "wait_for_window", ~ok PROVE TheWait \notin OnTheWay'
  <2>1. op \in Op /\ Len(op.await) = 2
    BY <1>4, InvIs DEF BothAwaited, Operation
  <2>2. op.await \in Seq(Ids) /\ Len(op.await) = 2
    BY <2>1 DEF Op
  <2>3. Head(op.await) = op.await[1]
    BY <2>2
  <2>4. RefusalFollows(toClient) /\ r.id = op.await[1] /\ ~r.ok
    BY <1>3, <1>4, <2>3, InvIs DEF Cancelled, r
  <2>5. TheWait \notin AtHost /\ \A j \in DOMAIN toClient : toClient[j].id = TheWait => j < 1
    BY <1>1, <2>4 DEF RefusalFollows
  <2>6. \A j \in DOMAIN toClient : j \in Nat /\ j >= 1
    BY InvIs
  <2>7. TheWait \notin ClientIds
    BY <2>5, <2>6 DEF ClientIds, IdsOf
  <2> QED
    BY <1>1, <1>2, <2>5, <2>7 DEF OnTheWay
<1>5. Take(ok)
  BY <1>3 DEF r
<1> QED
  BY <1>1, <1>2, <1>4, <1>5, TakeStep DEF r, Reads

\* The response is another's: it is kept until it is asked for.
LEMMA ReceiveOther ==
    ASSUME Inv, state = "in_flight", toClient # <<>>, toClient' = Tail(toClient),
           UNCHANGED <<host, toHost, answers, cause, nextId, clientOpen>>, clientRead' = "fresh",
           UNCHANGED <<state, op, outstanding, leaked>>, Head(toClient).id # Head(op.await),
           pending' = pending \cup {Head(toClient)}
    PROVE  Inv'
<1> DEFINE r == Head(toClient)
<1>1. /\ ClientReads /\ r \in Response /\ r.id \in ClientIds /\ r.id \notin ClientIds'
      /\ ClientIds = ClientIds' \cup {r.id}
  BY ResponseIs
<1> HIDE DEF r
<1>2. PendingIds' = PendingIds \cup {r.id} /\ pending' \subseteq Response
  BY <1>1, InvIs DEF PendingIds, TypeOK, r
<1>3. /\ UNCHANGED <<hostRead, lane, parallel, stop>> /\ AtHost' = AtHost
      /\ OnTheWay' \subseteq OnTheWay /\ toClient' \in Seq(Response)
  BY <1>1, ReadLeaves
<1>4. Places'
  <2>1. nextId \in Nat /\ nextId' = nextId
    BY InvIs, HostConnectionAssumption DEF TypeOK
  <2>2. ClientIds' \cap PendingIds' = {} /\ PendingIds' \subseteq PendingIds \cup ClientIds
    BY <1>1, <1>2, InvIs DEF Places
  <2> QED
    BY <1>1, <2>1, <2>2, PlacesKept
<1>5. TypeOK'
  BY <1>2, <1>3, InvIs DEF TypeOK, Reads
<1>6. Operation' /\ Tracked'
  BY <1>3, InvIs DEF Operation, Tracked, Awaited
<1>7. Cancellable'
  BY <1>3, InvIs DEF Cancellable, TheWait
<1>8. Cancelled'
  <2> SUFFICES ASSUME BothAwaited
               PROVE  /\ op.cancelled /\ op.await[1] \notin PendingIds' /\ CancelFollows(toHost)
                      /\ op.method = "wait_for_window" => RefusalFollows(toClient)'
    BY DEF Cancelled, BothAwaited, CancelFollows, TheWait
  <2>1. op \in Op /\ Len(op.await) = 2
    BY InvIs DEF BothAwaited, Operation
  <2>2. op.await \in Seq(Ids) /\ Len(op.await) = 2
    BY <2>1 DEF Op
  <2>3. Head(op.await) = op.await[1]
    BY <2>2
  <2>4. op.await[1] \notin PendingIds'
    BY <1>2, <2>3, InvIs DEF Cancelled, r
  <2>5. ASSUME op.method = "wait_for_window" PROVE RefusalFollows(toClient)'
    <3>1. TheWait' = TheWait /\ RefusalFollows(toClient)
      BY <2>5, InvIs DEF TheWait, Cancelled
    <3> SUFFICES ASSUME NEW i \in DOMAIN toClient', toClient'[i].id = op.await[1], ~toClient'[i].ok
                 PROVE  /\ TheWait \notin AtHost
                        /\ \A j \in DOMAIN toClient' : toClient'[j].id = TheWait => j < i
      BY <1>3, <3>1 DEF RefusalFollows
    <3>2. \A k \in DOMAIN toClient' : /\ k + 1 \in DOMAIN toClient /\ toClient'[k] = toClient[k + 1]
                                      /\ k \in Nat
      BY InvIs, TailIs
    <3>3. TheWait \notin AtHost /\ \A j \in DOMAIN toClient : toClient[j].id = TheWait => j < i + 1
      BY <3>1, <3>2 DEF RefusalFollows
    <3>4. ASSUME NEW j \in DOMAIN toClient', toClient'[j].id = TheWait PROVE j < i
      <4>1. j + 1 < i + 1 /\ i \in Nat /\ j \in Nat
        BY <3>2, <3>3, <3>4
      <4> QED
        BY <4>1
    <3> QED
      BY <3>3, <3>4
  <2> QED
    BY <2>4, <2>5, InvIs DEF Cancelled
<1>9. OneAnswerEach' /\ UnusableForCause' /\ HostClosesForCause'
  BY <1>3, InvIs DEF OneAnswerEach, UnusableForCause, HostClosesForCause
<1> QED
  BY <1>4, <1>5, <1>6, <1>7, <1>8, <1>9 DEF Inv, HonestConnection

\* receive_for_request_raw.  A response nobody tracks and a second response to
\* one request do not come.
LEMMA ReceiveStep == ASSUME Inv, Receive PROVE Inv'
<1> DEFINE r == Head(toClient)
<1>1. /\ state = "in_flight" /\ toClient # <<>> /\ clientRead' = "fresh"
      /\ toClient' = Tail(toClient) /\ UNCHANGED <<nextId, clientOpen, toHost, host, answers>>
  BY DEF Receive, Complete
<1>2. r.id \in ClientIds /\ r.id \notin PendingIds
  BY <1>1, ResponseIs
<1>3. r.id \in outstanding
  BY <1>1, <1>2, InvIs DEF Operation, OnTheWay
<1>4. \/ r.id = Head(op.await) /\ Take(r.ok) /\ UNCHANGED cause
      \/ /\ r.id # Head(op.await) /\ pending' = pending \cup {r}
         /\ UNCHANGED <<state, cause, op, outstanding, leaked>>
  BY <1>2, <1>3 DEF Receive
<1>5. CASE r.id = Head(op.await) /\ Take(r.ok) /\ UNCHANGED cause
  BY <1>1, <1>5, ReceiveAwaited
<1>6. CASE /\ r.id # Head(op.await) /\ pending' = pending \cup {r}
           /\ UNCHANGED <<state, cause, op, outstanding, leaked>>
  BY <1>1, <1>6, ReceiveOther
<1> QED
  BY <1>4, <1>5, <1>6

(***************************************************************************)
(* The theorems.                                                           *)
(***************************************************************************)
\* A new connection.
LEMMA InitInv == Init => Inv
<1> SUFFICES ASSUME Init PROVE Inv
  OBVIOUS
<1>1. 1 \in 1 .. MaxRequests + 1 /\ 0 \in Nat
  BY HostConnectionAssumption
<1>2. HostIds = {} /\ ClientIds = {} /\ LaneIds = {} /\ PendingIds = {} /\ parallel = {}
  BY DEF Init, HostIds, ClientIds, IdsOf, LaneIds, PendingIds, Reading
<1>3. answers \in [Ids -> Nat] /\ \A id \in Ids : answers[id] = 0
  BY <1>1 DEF Init
<1>4. TypeOK
  <2>1. \A S : <<>> \in Seq(S)
    OBVIOUS
  <2>2. lane \in Lane /\ op \in Op \cup {NoOp} /\ toHost \in Seq(Request) /\ toClient \in Seq(Response)
    BY <2>1 DEF Init, Lane
  <2>3. clientOpen \in BOOLEAN /\ stop \in BOOLEAN /\ clientRead \in Reads /\ hostRead \in Reads
    BY DEF Init, Reads
  <2> QED
    BY <1>1, <1>3, <2>2, <2>3 DEF Init, TypeOK
<1>5. Places
  BY <1>2, <1>3 DEF Init, Places, Apart, AtHost
<1>6. Operation
  BY <1>2 DEF Init, Operation, OnTheWay, AtHost
<1>7. OneAnswerEach /\ UnusableForCause /\ HostClosesForCause
  BY <1>3 DEF Init, OneAnswerEach, UnusableForCause, HostClosesForCause, Reading, Closed
<1> QED
  BY <1>4, <1>5, <1>6, <1>7
     DEF Init, Inv, HonestConnection, Tracked, Cancellable, Cancelled, BothAwaited

\* Every step of the client or the Host keeps the invariant.
LEMMA NextInv == Inv /\ [Next]_vars => Inv'
<1> SUFFICES ASSUME Inv, [Next]_vars PROVE Inv'
  OBVIOUS
<1>1. CASE StartRequest
  <2>1. PICK m \in Methods \ Cancels : Start(<<m>>)
    BY <1>1 DEF StartRequest
  <2>2. <<m>> \in Seq(Methods) /\ Len(<<m>>) \in {1, 2}
    OBVIOUS
  <2> QED
    BY <2>1, <2>2, StartStep
<1>2. CASE StartBatch \/ StartPipelined
  <2>1. PICK m \in Methods, n \in Methods : Start(<<m, n>>)
    BY <1>2 DEF StartBatch, StartPipelined, Methods, Waits
  <2>2. <<m, n>> \in Seq(Methods) /\ Len(<<m, n>>) \in {1, 2}
    OBVIOUS
  <2> QED
    BY <2>1, <2>2, StartStep
<1>3. CASE UNCHANGED vars
  <2>1. /\ UNCHANGED <<state, cause, op, outstanding, leaked, pending, nextId>>
        /\ UNCHANGED <<clientOpen, clientRead>>
        /\ UNCHANGED <<toHost, toClient, hostRead, lane, parallel, stop, answers>>
    BY <1>3 DEF vars, client, host
  <2>2. UNCHANGED client
    BY <1>3 DEF vars
  <2>3. Answers(<<>>) /\ RefusesLate(<<>>) /\ IdsOf(<<>>) = {}
    BY <2>1, InvIs, NoReply DEF IdsOf
  <2>4. HostIds' = HostIds /\ LaneIds' = LaneIds /\ AtHost' = AtHost
    BY <2>1 DEF HostIds, LaneIds, AtHost
  <2>5. Cancellable'
    BY <2>1, InvIs DEF Cancellable, TheWait
  <2> QED
    BY <2>1, <2>2, <2>3, <2>4, <2>5, InvIs, HostStep DEF Places, HostClosesForCause
<1> QED
  BY <1>1, <1>2, <1>3, CancelStep, TakePendingStep, ReceiveStep, QuietStep, AbandonStep,
     SilentStep, LaneStep, ParallelStep, DispatchStep, WaitReadsStep
     DEF Next, ClientNext, HostSteps

\* The invariant holds throughout.
THEOREM ConnectionInvariant == Spec => []Inv
BY InitInv, NextInv, PTL DEF Spec

\* For every number of requests, tracked ids and parallel tasks: a request is
\* answered at most once, whichever of a completion, a cancel, a stop and an
\* interrupt_all ends its wait; the client gives up only for a timeout, for a
\* frame somebody lost, or when the waits it left after a refused
\* cancel_window_wait have filled its table; the Host closes only a connection
\* that was left or whose framing it lost.
THEOREM HonestConnectionHolds == Spec => []HonestConnection
<1>1. Inv => HonestConnection
  BY DEF Inv
<1> QED
  BY <1>1, ConnectionInvariant, PTL

\* ADR 0011, whatever was cancelled, refused or read out of order before: a
\* client that is ready again has nothing on the wire and nothing at the Host.
THEOREM ReadyIsDrainedHolds == Spec => []ReadyIsDrained
<1>1. Inv => ReadyIsDrained
  BY ReadyIs DEF ReadyIsDrained
<1> QED
  BY <1>1, ConnectionInvariant, PTL
=============================================================================
