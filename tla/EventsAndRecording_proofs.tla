----------------------- MODULE EventsAndRecording_proofs -----------------------
(***************************************************************************)
(* The event queue of a session, for every capacity and every bound on the *)
(* sequence numbers: the queue holds exactly the tail of the history, a    *)
(* resync is asked for exactly when a client missed a popped event, and    *)
(* the pages rebuild the state.                                            *)
(*                                                                         *)
(* The recording of a session, for every number of frames, pauses, starts  *)
(* and faults and every depth of the channel: what is reported as          *)
(* finalized is finished, nothing runs without an owner, and a pause that  *)
(* is shown has closed its segment.                                        *)
(***************************************************************************)
EXTENDS SessionEvents, NativeRecording, TLAPS

(***************************************************************************)
(* The inductive invariant of the queue.                                   *)
(***************************************************************************)
\* Numbered without gaps up to n, and as long as the capacity allows.
TailUpTo(es, n) ==
    /\ Len(es) = IF n - 1 < Capacity THEN n - 1 ELSE Capacity
    /\ \A i \in 1 .. Len(es) : es[i].seq = n - Len(es) + i

\* The last retained event of f past n carries the value v; when there is no
\* such event, v is the value f had at n.
LastGives(es, n, f, old, v) ==
    \/ /\ v = old
       /\ \A i \in 1 .. Len(es) : es[i].seq > n => es[i].field # f
    \/ \E i \in 1 .. Len(es) :
          /\ es[i].seq > n
          /\ es[i].field = f
          /\ es[i].to = v
          /\ \A j \in 1 .. Len(es) : j > i => es[j].field # f

\* Every state that is at most Len(es) events old is brought up to date by the
\* retained events.
Rebuilds(es, h, n) ==
    \A m \in 1 .. n : \A f \in {"input", "target"} :
        n - m <= Len(es) => LastGives(es, m, f, h[m][f], h[n][f])

\* Pushing the next event and popping the oldest one beyond the capacity keeps
\* the queue numbered without gaps, and moves what it keeps by at most one.
LEMMA RetainedShape ==
    ASSUME NEW es \in Seq(Event), NEW e \in Event, NEW n \in Nat \ {0},
           TailUpTo(es, n), e.seq = n + 1
    PROVE  /\ Retained(es, e) \in Seq(Event)
           /\ TailUpTo(Retained(es, e), n + 1)
           /\ LET k == Len(es) + 1 - Len(Retained(es, e))
              IN  /\ k \in {0, 1}
                  /\ Retained(es, e)[Len(Retained(es, e))] = e
                  /\ \A i \in 1 .. Len(Retained(es, e)) - 1 : Retained(es, e)[i] = es[i + k]
<1> DEFINE p == Append(es, e)
<1>1. /\ p \in Seq(Event)
      /\ Len(p) = Len(es) + 1
      /\ p[Len(es) + 1] = e
      /\ \A i \in 1 .. Len(es) : p[i] = es[i]
  OBVIOUS
<1>2. \A i \in 1 .. Len(p) : p[i].seq = n - Len(es) + i
  BY <1>1 DEF TailUpTo, Event
<1>3. Len(es) \in Nat
  OBVIOUS
<1>4. CASE Len(p) > Capacity
  <2> DEFINE t == Tail(p)
  <2>1. Retained(es, e) = t
    BY <1>4 DEF Retained
  <2> HIDE DEF p
  <2>2. /\ t \in Seq(Event)
        /\ Len(t) = Len(es)
        /\ \A i \in 1 .. Len(es) : t[i] = p[i + 1]
    BY <1>1, <1>4, SessionEventsAssumption
  <2> HIDE DEF t
  <2>3. Len(es) = Capacity /\ n >= Capacity + 1
    BY <1>1, <1>3, <1>4, SessionEventsAssumption DEF TailUpTo
  <2>4. TailUpTo(t, n + 1)
    <3>1. PICK m \in Nat : m = n + 1
      OBVIOUS
    <3>2. Len(t) = IF m - 1 < Capacity THEN m - 1 ELSE Capacity
      BY <2>2, <2>3, <3>1, SessionEventsAssumption
    <3>3. ASSUME NEW i \in 1 .. Len(t)
          PROVE  t[i].seq = m - Len(t) + i
      <4>1. i + 1 \in 1 .. Len(p)
        BY <1>1, <1>3, <2>2
      <4>2. t[i].seq = n - Len(es) + (i + 1)
        BY <1>2, <2>2, <4>1
      <4>3. n - Len(es) + (i + 1) = m - Len(t) + i
        BY <1>3, <2>2, <3>1
      <4> QED
        BY <4>2, <4>3
    <3>4. TailUpTo(t, m)
      BY <3>2, <3>3 DEF TailUpTo
    <3> QED
      BY <3>1, <3>4
  <2>5. \A i \in 1 .. Len(es) - 1 : t[i] = es[i + 1]
    BY <1>1, <1>3, <2>2
  <2>6. t[Len(es)] = e
    BY <1>1, <1>3, <2>2, <2>3, SessionEventsAssumption
  <2> QED
    BY <1>3, <2>1, <2>2, <2>4, <2>5, <2>6
<1>5. CASE ~(Len(p) > Capacity)
  <2>1. Retained(es, e) = p
    BY <1>5 DEF Retained
  <2> HIDE DEF p
  <2> QED
    BY <1>1, <1>2, <1>3, <1>5, <2>1, SessionEventsAssumption DEF TailUpTo
<1> QED
  BY <1>4, <1>5

\* After the push every state as old as the queue still reaches is brought up
\* to date by the events that are left.
LEMMA RetainedRebuilds ==
    ASSUME NEW es \in Seq(Event), NEW n \in Nat \ {0}, NEW h \in Seq(State),
           NEW field \in {"input", "target"}, NEW status \in InputStatus \cup TargetStatus,
           NEW st \in State, st = [h[n] EXCEPT ![field] = status],
           Len(h) = n, TailUpTo(es, n), Rebuilds(es, h, n)
    PROVE  LET e == [seq |-> n + 1, field |-> field, to |-> status]
           IN  Rebuilds(Retained(es, e), Append(h, st), n + 1)
<1> DEFINE e == [seq |-> n + 1, field |-> field, to |-> status]
           r == Retained(es, e)
           g == Append(h, st)
           k == Len(es) + 1 - Len(r)
<1>1. e \in Event /\ e.seq = n + 1 /\ e.field = field /\ e.to = status
  BY DEF Event
<1>2. /\ g[n + 1] = st
      /\ \A m \in 1 .. n : g[m] = h[m]
  OBVIOUS
<1>3. /\ st[field] = status
      /\ \A f \in {"input", "target"} : f # field => st[f] = h[n][f]
  BY DEF State
<1> HIDE DEF e
<1>4. /\ r \in Seq(Event)
      /\ TailUpTo(r, n + 1)
      /\ k \in {0, 1}
      /\ r[Len(r)] = e
      /\ \A i \in 1 .. Len(r) - 1 : r[i] = es[i + k]
  BY <1>1, RetainedShape
<1>5. Len(es) \in Nat /\ Len(r) \in Nat /\ Len(r) = Len(es) + 1 - k /\ Len(r) >= 1
  <2>1. Len(es) \in Nat /\ Len(r) \in Nat
    BY <1>4
  <2> HIDE DEF r
  <2>2. Len(r) = IF n < Capacity THEN n ELSE Capacity
    BY <1>4, SessionEventsAssumption DEF TailUpTo
  <2> QED
    BY <2>1, <2>2, SessionEventsAssumption
<1> HIDE DEF r, g, k
<1>6. /\ \A i \in 1 .. Len(r) : r[i].seq = n + 1 - Len(r) + i
      /\ \A i \in 1 .. Len(es) : es[i].seq = n - Len(es) + i
  BY <1>4 DEF TailUpTo
<1>7. ASSUME NEW m \in 1 .. n + 1, NEW f \in {"input", "target"}, n + 1 - m <= Len(r)
      PROVE  LastGives(r, m, f, g[m][f], g[n + 1][f])
  <2>1. CASE m = n + 1
    <3>1. \A i \in 1 .. Len(r) : ~(r[i].seq > m)
      BY <1>5, <1>6, <2>1
    <3> QED
      BY <2>1, <3>1 DEF LastGives
  <2>2. CASE m # n + 1 /\ f = field
    <3>1. /\ Len(r) \in 1 .. Len(r)
          /\ r[Len(r)].seq > m
          /\ r[Len(r)].field = f
          /\ r[Len(r)].to = g[n + 1][f]
      BY <1>1, <1>2, <1>3, <1>4, <1>5, <2>2
    <3>2. \A j \in 1 .. Len(r) : ~(j > Len(r))
      BY <1>5
    <3> QED
      BY <3>1, <3>2 DEF LastGives
  <2>3. CASE m # n + 1 /\ f # field
    <3>1. m \in 1 .. n /\ n - m <= Len(es)
      BY <1>4, <1>5, <1>7, <2>3
    <3>2. g[m] = h[m] /\ g[n + 1][f] = h[n][f]
      BY <1>2, <1>3, <2>3, <3>1
    <3>3. LastGives(es, m, f, g[m][f], g[n + 1][f])
      BY <3>1, <3>2 DEF Rebuilds
    <3>4. r[Len(r)].field # f
      BY <1>1, <1>4, <2>3
    <3>5. CASE /\ g[n + 1][f] = g[m][f]
               /\ \A i \in 1 .. Len(es) : es[i].seq > m => es[i].field # f
      <4>1. ASSUME NEW i \in 1 .. Len(r), r[i].seq > m
            PROVE  r[i].field # f
        <5>1. CASE i = Len(r)
          BY <3>4, <5>1
        <5>2. CASE i # Len(r)
          <6>1. i + k \in 1 .. Len(es) /\ r[i] = es[i + k]
            BY <1>4, <1>5, <5>2
          <6> QED
            BY <3>5, <4>1, <6>1
        <5> QED
          BY <5>1, <5>2
      <4> QED
        BY <3>5, <4>1 DEF LastGives
    <3>6. ASSUME NEW i \in 1 .. Len(es),
                 es[i].seq > m, es[i].field = f, es[i].to = g[n + 1][f],
                 \A j \in 1 .. Len(es) : j > i => es[j].field # f
          PROVE  LastGives(r, m, f, g[m][f], g[n + 1][f])
      <4>1. n - Len(es) + i > m
        BY <1>6, <3>6
      <4>2. i - k \in 1 .. Len(r) - 1
        BY <1>4, <1>5, <1>7, <4>1
      <4>3. r[i - k] = es[i]
        BY <1>4, <1>5, <4>2
      <4>4. ASSUME NEW j \in 1 .. Len(r), j > i - k
            PROVE  r[j].field # f
        <5>1. CASE j = Len(r)
          BY <3>4, <5>1
        <5>2. CASE j # Len(r)
          <6>1. j \in 1 .. Len(r) - 1
            BY <1>5, <5>2
          <6>2. r[j] = es[j + k]
            BY <1>4, <6>1
          <6>3. k \in Int /\ i \in Int /\ j \in Int
            BY <1>4
          <6>4. j + k \in 1 .. Len(es)
            BY <1>4, <1>5, <6>1
          <6>5. j + k > i
            BY <4>4, <6>3
          <6> QED
            BY <3>6, <6>2, <6>4, <6>5
        <5> QED
          BY <5>1, <5>2
      <4>5. i - k \in 1 .. Len(r)
        BY <1>5, <4>2
      <4> QED
        BY <3>6, <4>3, <4>4, <4>5 DEF LastGives
    <3> QED
      BY <3>3, <3>5, <3>6 DEF LastGives
  <2> QED
    BY <2>1, <2>2, <2>3
<1> QED
  BY <1>7 DEF Rebuilds, r, g, e

(***************************************************************************)
(* A whole queue, as observe and observe_target receive and leave it.      *)
(***************************************************************************)
GoodQueue(q) ==
    /\ q.state \in State
    /\ q.latest \in Nat \ {0}
    /\ q.events \in Seq(Event)
    /\ q.history \in Seq(State)
    /\ Len(q.history) = q.latest
    /\ q.history[q.latest] = q.state
    /\ TailUpTo(q.events, q.latest)
    /\ Rebuilds(q.events, q.history, q.latest)

\* What a sample may do to a queue: extend its history, by as many states as
\* it issues sequence numbers.
Extends(q, r) ==
    /\ r.latest >= q.latest
    /\ \A n \in 1 .. q.latest : r.history[n] = q.history[n]

\* One status change, observe or observe_target, keeps the queue good.
LEMMA ChangedGood ==
    ASSUME NEW q, NEW field \in {"input", "target"}, NEW status,
           field = "input" => status \in InputStatus,
           field = "target" => status \in TargetStatus,
           GoodQueue(q)
    PROVE  LET r == Changed(q, field, status)
           IN  /\ GoodQueue(r)
               /\ Extends(q, r)
               /\ r.state = [q.state EXCEPT ![field] = status]
               /\ r.latest = IF q.state[field] = status THEN q.latest ELSE q.latest + 1
<1> DEFINE r == Changed(q, field, status)
           st == [q.state EXCEPT ![field] = status]
           e == [seq |-> q.latest + 1, field |-> field, to |-> status]
<1>1. CASE q.state[field] = status
  <2>1. r = q
    BY <1>1 DEF Changed
  <2>2. q.state = st
    BY <1>1 DEF GoodQueue, State
  <2> QED
    BY <1>1, <2>1, <2>2 DEF Extends, GoodQueue
<1>2. CASE q.state[field] # status
  <2>1. /\ r.state = st
        /\ r.latest = q.latest + 1
        /\ r.events = Retained(q.events, e)
        /\ r.history = Append(q.history, st)
    BY <1>2 DEF Changed
  <2>2. st \in State /\ status \in InputStatus \cup TargetStatus
    BY DEF GoodQueue, State
  <2>3. e \in Event /\ e.seq = q.latest + 1
    BY <2>2 DEF GoodQueue, Event
  <2>4. Rebuilds(Retained(q.events, e), Append(q.history, st), q.latest + 1)
    BY <2>2, RetainedRebuilds DEF GoodQueue
  <2> HIDE DEF e, st, r
  <2>5. /\ Retained(q.events, e) \in Seq(Event)
        /\ TailUpTo(Retained(q.events, e), q.latest + 1)
    BY <2>3, RetainedShape DEF GoodQueue
  <2>6. /\ Append(q.history, st) \in Seq(State)
        /\ Len(Append(q.history, st)) = q.latest + 1
        /\ Append(q.history, st)[q.latest + 1] = st
        /\ \A n \in 1 .. q.latest : Append(q.history, st)[n] = q.history[n]
    BY <2>2 DEF GoodQueue
  <2>7. q.latest + 1 \in Nat \ {0} /\ q.latest + 1 >= q.latest
    BY DEF GoodQueue
  <2>8. GoodQueue(r)
    BY <2>1, <2>2, <2>4, <2>5, <2>6, <2>7 DEF GoodQueue
  <2>9. Extends(q, r)
    BY <2>1, <2>6, <2>7 DEF Extends
  <2> QED
    BY <1>2, <2>1, <2>8, <2>9 DEF r, st
<1> QED
  BY <1>1, <1>2

\* One sample, input first and then the target, is one or two such changes.
LEMMA SampledGood ==
    ASSUME NEW probeFails \in BOOLEAN, TypeOK, GoodQueue(Current)
    PROVE  LET r == Sampled(probeFails)
           IN  /\ GoodQueue(r)
               /\ Extends(Current, r)
               /\ r.state.input = desktop
               /\ r.state.target = IF probeFails THEN target ELSE window
               /\ r.latest = latest + (IF input = desktop THEN 0 ELSE 1)
                                    + (IF probeFails \/ target = window THEN 0 ELSE 1)
<1> DEFINE q == Observe(Current, desktop)
           r == ObserveTarget(q, window)
<1>1. /\ Current.state = [input |-> input, target |-> target]
      /\ Current.latest = latest
      /\ latest \in Nat
  BY DEF Current, TypeOK
<1>2. /\ GoodQueue(q)
      /\ Extends(Current, q)
      /\ q.state = [Current.state EXCEPT !["input"] = desktop]
      /\ q.latest = IF Current.state["input"] = desktop THEN Current.latest ELSE Current.latest + 1
  BY ChangedGood DEF TypeOK, Observe
<1>3. /\ q.state.input = desktop
      /\ q.state.target = target
      /\ q.latest = latest + (IF input = desktop THEN 0 ELSE 1)
  BY <1>1, <1>2
<1> HIDE DEF q
<1>4. /\ GoodQueue(r)
      /\ Extends(q, r)
      /\ r.state = [q.state EXCEPT !["target"] = window]
      /\ r.latest = IF q.state["target"] = window THEN q.latest ELSE q.latest + 1
  BY <1>2, ChangedGood DEF TypeOK, ObserveTarget
<1>5. /\ r.state.input = desktop
      /\ r.state.target = window
      /\ r.latest = latest + (IF input = desktop THEN 0 ELSE 1) + (IF target = window THEN 0 ELSE 1)
  BY <1>1, <1>2, <1>3, <1>4 DEF GoodQueue, State
<1>6. Extends(Current, r)
  BY <1>1, <1>2, <1>4 DEF Extends, GoodQueue
<1>7. CASE probeFails
  <2>1. Sampled(probeFails) = q
    BY <1>7 DEF Sampled, q
  <2>2. latest + (IF input = desktop THEN 0 ELSE 1)
          = latest + (IF input = desktop THEN 0 ELSE 1) + 0
    BY <1>1
  <2> QED
    BY <1>2, <1>3, <1>7, <2>1, <2>2
<1>8. CASE ~probeFails
  <2>1. Sampled(probeFails) = r
    BY <1>8 DEF Sampled, q
  <2> HIDE DEF r
  <2> QED
    BY <1>1, <1>4, <1>5, <1>6, <1>8, <2>1
<1> QED
  BY <1>7, <1>8

\* page_after's resync test is exact.
LEMMA ResyncShape ==
    ASSUME NEW es \in Seq(Event), NEW lat \in Nat \ {0}, TailUpTo(es, lat), NEW n \in 1 .. lat
    PROVE  (n > lat \/ (es # <<>> /\ n + 1 < es[1].seq)) <=> lat - n > Capacity
<1>1. /\ Len(es) \in Nat
      /\ Len(es) = IF lat - 1 < Capacity THEN lat - 1 ELSE Capacity
      /\ \A i \in 1 .. Len(es) : es[i].seq = lat - Len(es) + i
  BY DEF TailUpTo
<1>2. es = <<>> <=> Len(es) = 0
  OBVIOUS
<1>3. CASE Len(es) = 0
  BY <1>1, <1>2, <1>3, SessionEventsAssumption
<1>4. CASE Len(es) # 0
  <2>1. es[1].seq = lat - Len(es) + 1
    BY <1>1, <1>4
  <2>2. es # <<>>
    BY <1>2, <1>4
  <2> QED
    BY <1>1, <1>4, <2>1, <2>2, SessionEventsAssumption
<1> QED
  BY <1>3, <1>4

\* ResyncRequired of a good queue: exactly the cursors whose events were popped.
LEMMA ResyncExact ==
    ASSUME NEW q, GoodQueue(q), NEW n \in 1 .. q.latest
    PROVE  ResyncRequired(q, n) <=> q.latest - n > Capacity
<1>1. q.events \in Seq(Event) /\ q.latest \in Nat \ {0} /\ TailUpTo(q.events, q.latest)
  BY DEF GoodQueue
<1> QED
  BY <1>1, ResyncShape, Zenon DEF ResyncRequired

\* A page folded over the state of its cursor gives the current state.
LEMMA FoldedCurrent ==
    ASSUME NEW q, GoodQueue(q), NEW n \in 1 .. q.latest, ~ResyncRequired(q, n)
    PROVE  Folded(q.history[n], EventsAfter(q, n)) = q.state
<1> DEFINE es == q.events
           lat == q.latest
           h == q.history
           page == EventsAfter(q, n)
<1>1. /\ es \in Seq(Event) /\ Len(es) \in Nat /\ lat \in Nat \ {0}
      /\ Len(es) = IF lat - 1 < Capacity THEN lat - 1 ELSE Capacity
      /\ \A i \in 1 .. Len(es) : es[i].seq = lat - Len(es) + i
      /\ h[lat] = q.state /\ q.state \in State /\ h[n] \in State
  <2>1. /\ es \in Seq(Event) /\ lat \in Nat \ {0} /\ TailUpTo(es, lat)
        /\ h[lat] = q.state /\ q.state \in State /\ h[n] \in State
    BY DEF GoodQueue
  <2> HIDE DEF es, lat, h
  <2> QED
    BY <2>1 DEF TailUpTo
<1>2. lat - n <= Len(es) /\ n \in 1 .. lat
  BY <1>1, ResyncExact, SessionEventsAssumption
<1>3. \A f \in {"input", "target"} : LastGives(es, n, f, h[n][f], q.state[f])
  BY <1>1, <1>2 DEF GoodQueue, Rebuilds
<1>4. page = {e \in {es[i] : i \in 1 .. Len(es)} : e.seq > n}
  <2>1. DOMAIN es = 1 .. Len(es)
    BY <1>1
  <2> QED
    BY <2>1, Zenon DEF EventsAfter
<1>5. DOMAIN h[n] = {"input", "target"} /\ DOMAIN q.state = {"input", "target"}
  BY <1>1 DEF State
<1>6. q.state = [f \in {"input", "target"} |-> q.state[f]]
  BY <1>1 DEF State
<1> HIDE DEF es, lat, h, page
<1>7. ASSUME NEW f \in {"input", "target"}
      PROVE  Folded(h[n], page)[f] = q.state[f]
  <2> DEFINE mine == {e \in page : e.field = f}
             last == CHOOSE e \in mine : \A d \in mine : d.seq <= e.seq
  <2>1. Folded(h[n], page)[f] = IF mine = {} THEN h[n][f] ELSE last.to
    BY <1>5 DEF Folded
  <2>2. CASE /\ q.state[f] = h[n][f]
             /\ \A i \in 1 .. Len(es) : es[i].seq > n => es[i].field # f
    <3>1. mine = {}
      BY <1>4, <2>2
    <3> QED
      BY <2>1, <2>2, <3>1
  <2>3. ASSUME NEW i \in 1 .. Len(es),
               es[i].seq > n, es[i].field = f, es[i].to = q.state[f],
               \A j \in 1 .. Len(es) : j > i => es[j].field # f
        PROVE  Folded(h[n], page)[f] = q.state[f]
    <3>1. es[i] \in mine
      BY <1>4, <2>3
    <3>2. ASSUME NEW d \in mine PROVE \E j \in 1 .. Len(es) : d = es[j] /\ j <= i
      <4>1. PICK j \in 1 .. Len(es) : d = es[j]
        BY <1>4
      <4>2. es[j].field = f
        BY <4>1
      <4>3. ~(j > i)
        BY <2>3, <4>2
      <4> QED
        BY <1>1, <4>1, <4>3
    <3>3. \A d \in mine : d.seq <= es[i].seq
      BY <1>1, <3>2
    <3>4. ASSUME NEW e \in mine, \A d \in mine : d.seq <= e.seq
          PROVE  e = es[i]
      <4>1. PICK j \in 1 .. Len(es) : e = es[j] /\ j <= i
        BY <3>2
      <4>2. es[i].seq <= es[j].seq
        BY <3>1, <3>4, <4>1
      <4>3. j = i
        BY <1>1, <4>1, <4>2
      <4> QED
        BY <4>1, <4>3
    <3> HIDE DEF mine
    <3>5. last = es[i]
      BY <3>1, <3>3, <3>4
    <3> QED
      BY <2>1, <2>3, <3>1, <3>5
  <2> QED
    BY <1>3, <2>2, <2>3 DEF LastGives
<1>8. Folded(h[n], page) = [f \in {"input", "target"} |-> Folded(h[n], page)[f]]
  BY <1>5 DEF Folded
<1>9. Folded(h[n], page) = q.state
  BY <1>6, <1>7, <1>8
<1> QED
  BY <1>9 DEF h, page

(***************************************************************************)
(* The specification.                                                      *)
(***************************************************************************)
\* The bound on the sequence numbers covers what a pending change can still
\* add, so that the cursor MaxSequence + 2 is never issued.
Bounded ==
    latest + (IF input = desktop THEN 0 ELSE 1) + (IF target = window THEN 0 ELSE 1)
        <= MaxSequence + 1

\* A poll starts from the state of its cursor, or from a cursor that forces a
\* resync.
PollKnows ==
    poll # NoPoll =>
        \/ poll.after \in {0, MaxSequence + 2}
        \/ poll.after \in 1 .. latest /\ poll.base = history[poll.after]

IInv == TypeOK /\ GoodQueue(Current) /\ Bounded /\ PollKnows /\ ViewAtCursor

\* What a sample leaves behind, in terms of the variables.
LEMMA SampleStep ==
    ASSUME TypeOK, GoodQueue(Current), Bounded, NEW probeFails \in BOOLEAN,
           SetQueue(Sampled(probeFails)), UNCHANGED <<desktop, window>>
    PROVE  /\ GoodQueue(Current)'
           /\ Bounded'
           /\ input' \in InputStatus /\ target' \in TargetStatus
           /\ events' \in Seq(Event) /\ latest' \in Nat \ {0} /\ history' \in Seq(State)
           /\ Len(history') = latest' /\ latest' >= latest
           /\ \A n \in 1 .. latest : history'[n] = history[n]
<1> DEFINE r == Sampled(probeFails)
<1>1. /\ GoodQueue(r)
      /\ Extends(Current, r)
      /\ r.state.input = desktop
      /\ r.state.target = IF probeFails THEN target ELSE window
      /\ r.latest = latest + (IF input = desktop THEN 0 ELSE 1)
                           + (IF probeFails \/ target = window THEN 0 ELSE 1)
  BY SampledGood
<1> HIDE DEF r
<1>2. /\ input' = r.state.input /\ target' = r.state.target /\ events' = r.events
      /\ latest' = r.latest /\ history' = r.history
  BY DEF SetQueue, r
<1>3. r.state = [input |-> input', target |-> target']
  BY <1>1, <1>2 DEF GoodQueue, State
<1>4. /\ Current'.state = r.state /\ Current'.latest = r.latest
      /\ Current'.events = r.events /\ Current'.history = r.history
  BY <1>2, <1>3 DEF Current
<1>5. GoodQueue(Current)'
  BY <1>1, <1>4 DEF GoodQueue
<1>6. /\ input' \in InputStatus /\ target' \in TargetStatus
      /\ events' \in Seq(Event) /\ latest' \in Nat \ {0} /\ history' \in Seq(State)
      /\ Len(history') = latest'
  BY <1>1, <1>2 DEF GoodQueue, State
<1>7. latest' >= latest /\ \A n \in 1 .. latest : history'[n] = history[n]
  BY <1>1, <1>2 DEF Extends, Current
<1>8. Bounded'
  <2>1. latest \in Nat /\ latest' \in Nat /\ MaxSequence \in Nat
    BY <1>6, SessionEventsAssumption DEF TypeOK
  <2>2. /\ input' = desktop' /\ target' = IF probeFails THEN target ELSE window'
        /\ window' = window
    BY <1>1, <1>2
  <2> QED
    BY <1>1, <1>2, <2>1, <2>2 DEF Bounded
<1> QED
  BY <1>5, <1>6, <1>7, <1>8

\* A new session: one state, sequence number 1 and no event.
LEMMA InitIInv == Init => IInv
<1> SUFFICES ASSUME Init PROVE IInv
  OBVIOUS
<1>1. view \in State /\ history = <<view>>
  BY DEF Init, State
<1>2. history \in Seq(State) /\ Len(history) = 1 /\ history[1] = view
  BY <1>1
<1>3. events = <<>> /\ events \in Seq(Event) /\ Len(events) = 0 /\ latest = 1
  BY DEF Init
<1>4. TypeOK
  <2>1. latest \in Nat \ {0} /\ cursor \in Nat \ {0}
    BY DEF Init
  <2>2. stopped \in BOOLEAN /\ poll \in Poll \cup {NoPoll}
    BY Zenon DEF Init
  <2>3. /\ desktop \in InputStatus /\ window \in TargetStatus
        /\ input \in InputStatus /\ target \in TargetStatus
    BY DEF Init
  <2> QED
    BY <1>1, <1>2, <1>3, <2>1, <2>2, <2>3 DEF TypeOK
<1>5. TailUpTo(events, latest)
  BY <1>3, SessionEventsAssumption DEF TailUpTo
<1>6. Rebuilds(events, history, latest)
  BY <1>2, <1>3 DEF Rebuilds, LastGives
<1>7. Current.state = view
  BY DEF Current, Init
<1>8. /\ Current.latest = latest /\ Current.events = events /\ Current.history = history
  BY DEF Current
<1>9. GoodQueue(Current)
  BY <1>1, <1>2, <1>3, <1>5, <1>6, <1>7, <1>8 DEF GoodQueue
<1>10. Bounded
  BY <1>3, SessionEventsAssumption DEF Init, Bounded
<1>11. PollKnows /\ ViewAtCursor
  BY <1>2 DEF Init, PollKnows, ViewAtCursor
<1> QED
  BY <1>4, <1>9, <1>10, <1>11 DEF IInv

\* Every sample, poll turn and change of the world preserves the invariant.
LEMMA NextIInv == IInv /\ [Next]_vars => IInv'
<1> SUFFICES ASSUME IInv, [Next]_vars PROVE IInv'
  OBVIOUS
<1> USE DEF IInv
<1>0. /\ latest \in Nat \ {0} /\ MaxSequence \in Nat \ {0} /\ cursor \in Nat \ {0}
      /\ Len(history) = latest
  BY SessionEventsAssumption DEF TypeOK, GoodQueue, Current
<1>1. ASSUME UNCHANGED queue PROVE GoodQueue(Current)'
  BY <1>1 DEF queue, Current
<1>2. CASE DesktopChanges
  <2>1. TypeOK'
    BY <1>2 DEF DesktopChanges, TypeOK, queue
  <2>2. Bounded'
    BY <1>0, <1>2 DEF DesktopChanges, Bounded, queue
  <2> QED
    BY <1>1, <1>2, <2>1, <2>2 DEF DesktopChanges, PollKnows, ViewAtCursor, queue
<1>3. CASE WindowChanges
  <2>1. TypeOK'
    BY <1>3 DEF WindowChanges, TypeOK, queue
  <2>2. Bounded'
    BY <1>0, <1>3 DEF WindowChanges, Bounded, queue
  <2> QED
    BY <1>1, <1>3, <2>1, <2>2 DEF WindowChanges, PollKnows, ViewAtCursor, queue
<1>4. CASE Stop
  <2>1. TypeOK' /\ Bounded'
    BY <1>4 DEF Stop, TypeOK, Bounded, queue
  <2> QED
    BY <1>1, <1>4, <2>1 DEF Stop, PollKnows, ViewAtCursor, queue
<1>5. CASE StatePoll
  <2>1. PICK probeFails \in BOOLEAN : SetQueue(Sampled(probeFails))
    BY <1>5 DEF StatePoll
  <2>2. UNCHANGED <<desktop, window, stopped, poll, cursor, view>>
    BY <1>5 DEF StatePoll
  <2>3. /\ GoodQueue(Current)'
        /\ Bounded'
        /\ input' \in InputStatus /\ target' \in TargetStatus
        /\ events' \in Seq(Event) /\ latest' \in Nat \ {0} /\ history' \in Seq(State)
        /\ Len(history') = latest' /\ latest' >= latest
        /\ \A n \in 1 .. latest : history'[n] = history[n]
    BY <2>1, <2>2, SampleStep
  <2>4. TypeOK'
    BY <2>2, <2>3 DEF TypeOK
  <2>5. PollKnows' /\ ViewAtCursor'
    BY <1>0, <1>5, <2>2, <2>3 DEF StatePoll, PollKnows, ViewAtCursor
  <2> QED
    BY <2>3, <2>4, <2>5
<1>6. CASE PollStart
  <2>1. poll' \in Poll
    BY <1>6 DEF PollStart, Poll, TypeOK
  <2>2. TypeOK' /\ Bounded'
    BY <1>6, <2>1 DEF PollStart, TypeOK, Bounded, queue
  <2>3. PollKnows' /\ ViewAtCursor'
    BY <1>0, <1>6 DEF PollStart, PollKnows, ViewAtCursor, queue
  <2> QED
    BY <1>1, <1>6, <2>2, <2>3 DEF PollStart
<1>7. CASE PollOtherCursor
  <2>1. PICK after \in (0 .. latest \cup {MaxSequence + 2}) \ {cursor} :
          poll' = [after |-> after,
                   base |-> IF after \in 1 .. latest THEN history[after] ELSE view,
                   deadlineReached |-> FALSE]
    BY <1>7 DEF PollOtherCursor
  <2>2. UNCHANGED <<desktop, window, stopped, cursor, view>> /\ UNCHANGED queue
    BY <1>7 DEF PollOtherCursor
  <2>3. after \in Nat
    BY <1>0
  <2>4. \A n \in 1 .. latest : history[n] \in State
    BY <1>0 DEF TypeOK
  <2>5. poll' \in Poll
    BY <2>1, <2>3, <2>4 DEF Poll, TypeOK
  <2>6. TypeOK' /\ Bounded'
    BY <2>2, <2>5 DEF TypeOK, Bounded, queue
  <2>7. PollKnows' /\ ViewAtCursor'
    BY <1>0, <2>1, <2>2 DEF PollKnows, ViewAtCursor, queue
  <2> QED
    BY <1>1, <2>2, <2>6, <2>7
<1>8. CASE Deadline
  <2>1. /\ poll' = [poll EXCEPT !.deadlineReached = TRUE] /\ poll \in Poll
        /\ UNCHANGED <<desktop, window, stopped, cursor, view>> /\ UNCHANGED queue
    BY <1>8 DEF Deadline, TypeOK
  <2>2. poll' \in Poll /\ poll'.after = poll.after /\ poll'.base = poll.base
    BY <2>1 DEF Poll
  <2>3. TypeOK' /\ Bounded'
    BY <2>1, <2>2 DEF TypeOK, Bounded, queue
  <2>4. PollKnows' /\ ViewAtCursor'
    BY <1>8, <2>1, <2>2 DEF Deadline, PollKnows, ViewAtCursor, queue
  <2> QED
    BY <1>1, <2>1, <2>3, <2>4
<1>9. CASE PollInterrupted
  <2>1. TypeOK' /\ Bounded'
    BY <1>9 DEF PollInterrupted, TypeOK, Bounded, queue
  <2> QED
    BY <1>1, <1>9, <2>1 DEF PollInterrupted, PollKnows, ViewAtCursor, queue
<1>10. CASE PollTurn
  <2>1. PICK probeFails \in BOOLEAN : /\ SetQueue(Sampled(probeFails))
                                      /\ Answered(Sampled(probeFails), poll)
    BY <1>10 DEF PollTurn
  <2>2. poll # NoPoll /\ poll \in Poll /\ UNCHANGED <<desktop, window, stopped>>
    BY <1>10 DEF PollTurn, TypeOK
  <2> DEFINE r == Sampled(probeFails)
             page == EventsAfter(r, poll.after)
             resync == ResyncRequired(r, poll.after)
  <2>3. /\ GoodQueue(Current)'
        /\ Bounded'
        /\ input' \in InputStatus /\ target' \in TargetStatus
        /\ events' \in Seq(Event) /\ latest' \in Nat \ {0} /\ history' \in Seq(State)
        /\ Len(history') = latest' /\ latest' >= latest
        /\ \A n \in 1 .. latest : history'[n] = history[n]
    BY <2>1, <2>2, SampleStep
  <2>4. GoodQueue(r)
    BY SampledGood
  <2>5. r.latest = latest' /\ r.history = history' /\ r.events = events'
    BY <2>1 DEF SetQueue
  <2>6. CASE resync \/ page # {}
    <3>1. /\ view' = IF resync THEN r.state ELSE Folded(poll.base, page)
          /\ cursor' = latest' /\ poll' = NoPoll
      BY <2>1, <2>5, <2>6 DEF Answered
    <3>2. ~resync => poll.after \in 1 .. latest /\ poll.base = history[poll.after]
      <4>1. latest' <= MaxSequence + 1
        BY <1>0, <2>3 DEF Bounded
      <4>2. CASE poll.after = MaxSequence + 2
        BY <1>0, <2>3, <2>5, <4>1, <4>2 DEF ResyncRequired
      <4>3. CASE poll.after = 0
        <5>1. ASSUME ~resync PROVE FALSE
          <6>1. page # {}
            BY <2>6, <5>1
          <6>2. Len(r.events) # 0 /\ Len(r.events) \in Nat /\ r.events # <<>>
            BY <2>4, <6>1 DEF EventsAfter, GoodQueue
          <6>3. Len(r.events) <= r.latest - 1 /\ r.latest \in Nat
            BY <2>4, SessionEventsAssumption DEF GoodQueue, TailUpTo
          <6>4. r.events[1].seq = r.latest - Len(r.events) + 1
            BY <2>4, <6>2 DEF GoodQueue, TailUpTo
          <6> QED
            BY <4>3, <5>1, <6>2, <6>3, <6>4 DEF ResyncRequired
        <5> QED
          BY <5>1
      <4> QED
        BY <2>2, <4>2, <4>3 DEF PollKnows
    <3>3. view' = r.state
      <4>1. CASE resync
        BY <3>1, <4>1
      <4>2. CASE ~resync
        <5>1. poll.after \in 1 .. r.latest /\ poll.base = r.history[poll.after]
          BY <1>0, <2>3, <2>5, <3>2, <4>2
        <5>2. Folded(r.history[poll.after], page) = r.state
          BY <2>4, <4>2, <5>1, FoldedCurrent
        <5> QED
          BY <3>1, <4>2, <5>1, <5>2
      <4> QED
        BY <4>1, <4>2
    <3>4. view' = history'[latest'] /\ view' \in State
      BY <2>4, <2>5, <3>3 DEF GoodQueue
    <3>5. TypeOK'
      BY <2>2, <2>3, <3>1, <3>4 DEF TypeOK
    <3>6. PollKnows' /\ ViewAtCursor'
      BY <2>3, <3>1, <3>4 DEF PollKnows, ViewAtCursor
    <3> QED
      BY <2>3, <3>5, <3>6
  <2>7. CASE ~(resync \/ page # {})
    <3>1. /\ poll' = IF poll.deadlineReached THEN NoPoll ELSE poll
          /\ UNCHANGED <<view, cursor>>
      BY <2>1, <2>7 DEF Answered
    <3>2. TypeOK'
      BY <2>2, <2>3, <3>1 DEF TypeOK
    <3>3. PollKnows' /\ ViewAtCursor'
      BY <1>0, <2>2, <2>3, <3>1 DEF PollKnows, ViewAtCursor
    <3> QED
      BY <2>3, <3>2, <3>3
  <2> QED
    BY <2>6, <2>7
<1>11. CASE UNCHANGED vars
  <2>1. TypeOK' /\ Bounded'
    BY <1>11 DEF vars, TypeOK, Bounded
  <2> QED
    BY <1>1, <1>11, <2>1 DEF vars, queue, PollKnows, ViewAtCursor
<1> QED
  BY <1>2, <1>3, <1>4, <1>5, <1>6, <1>7, <1>8, <1>9, <1>10, <1>11 DEF Next

\* Every reachable queue is well typed and numbered without gaps, and every
\* client view is the state its cursor names.
THEOREM Invariance == Spec => []IInv
BY InitIInv, NextIInv, PTL DEF Spec

\* The variables of the queue, the poll and the client keep their types.
THEOREM TypeCorrect == Spec => []TypeOK
<1>1. IInv => TypeOK
  BY DEF IInv
<1> QED
  BY <1>1, Invariance, PTL

\* The queue holds exactly the last events, for every capacity.
THEOREM QueueIsTailAlways == Spec => []QueueIsTail
<1>1. IInv => QueueIsTail
  BY DEF IInv, GoodQueue, Current, TailUpTo, QueueIsTail
<1> QED
  BY <1>1, Invariance, PTL

\* A client is asked to resynchronise exactly when it missed a popped event.
THEOREM ResyncIffOverflowAlways == Spec => []ResyncIffOverflow
<1>1. IInv => ResyncIffOverflow
  <2> SUFFICES ASSUME IInv, NEW after \in 1 .. latest
               PROVE  ResyncRequired(Current, after) <=> latest - after > Capacity
    BY DEF ResyncIffOverflow
  <2>1. GoodQueue(Current) /\ Current.latest = latest
    BY DEF IInv, Current
  <2> QED
    BY <2>1, ResyncExact
<1> QED
  BY <1>1, Invariance, PTL

\* What a client rebuilds from its pages is the state the queue had at the
\* client's cursor.
THEOREM ViewAtCursorAlways == Spec => []ViewAtCursor
<1>1. IInv => ViewAtCursor
  BY DEF IInv
<1> QED
  BY <1>1, Invariance, PTL

(***************************************************************************)
(* The mailbox. Work in flight owns the slot, whatever its caller does.    *)
(***************************************************************************)
Requests ==
    [seq : 1 .. MaxFrames, since : Nat, at : {"queued", "in_flight", "released"},
     outcome : {"waiting", "completed", "consumed", "failed"}, reply : BOOLEAN]

Works == [request : Nat, pc : {"idle", "taken", "judged"}, reply : BOOLEAN]

SlotFits(b, w) ==
    /\ b \in Boxes(1 .. MaxFrames)
    /\ b.owner \in 0 .. Len(b.requests)
    /\ w \in Works
    /\ w.request \in 0 .. Len(b.requests)
    /\ w.pc # "idle" => w.request # 0
    /\ w.request # 0 => b.owner = w.request /\ b.requests[w.request].at = "in_flight"

(***************************************************************************)
(* The session: what its place in a call says about what it owns.          *)
(***************************************************************************)
Sessions ==
    [pc : Calls, starts : Nat, live : BOOLEAN, owns : BOOLEAN, recorder : BOOLEAN,
     active : BOOLEAN, since : {0, 1}, fence : 0 .. MaxFrames, frame : 0 .. MaxFrames,
     request : Nat, wanted : 0 .. MaxFrames, recorderPending : BOOLEAN,
     sourcePending : BOOLEAN, issue : BOOLEAN, evidence : Evidence]

InUse(s) == s.recorderPending \/ s.recorder

SessionFits(s, b, stop) ==
    /\ s \in Sessions
    /\ s.request \in 0 .. Len(b.requests)
    /\ s.request # 0 <=> s.pc \in {"prepare", "encoded"}
    /\ s.pc \in {"ready", "drain"} => s.recorderPending
    /\ s.pc = "encoded" => s.recorder
    /\ s.pc \in {"first", "frame", "prepare", "ready", "drain"} => ~s.recorder
    /\ s.active => s.recorder
    /\ s.recorder \/ s.pc = "ready" => stop = "open"
    /\ s.pc = "drain" => stop = "sent"
    /\ stop = "dropped" => s.recorderPending

(***************************************************************************)
(* The stream and what the recorder is shown of it.                        *)
(***************************************************************************)
StatusFits(st) == st \in Statuses /\ (st.paused => st.fence >= st.latest)

Sources ==
    [status : Statuses, open : BOOLEAN, since : {0, 1}, shutdown : BOOLEAN,
     pauses : 0 .. MaxPauses]

WatchFits ==
    /\ source \in Sources
    /\ shown \in [status : Statuses, open : BOOLEAN]
    /\ StatusFits(source.status)
    /\ StatusFits(shown.status)
    /\ stops \in {0, 1}
    /\ InUse(session) /\ shown.open => shown.status.latest <= source.status.latest
    /\ InUse(session) /\ stopper = "sent" => session.wanted <= shown.status.latest
    /\ InUse(session) /\ stopper = "sent" /\ prod.leaving =>
          session.wanted <= prod.seen.latest

(***************************************************************************)
(* The producer: the plans it may still have, and what they will forward.  *)
(***************************************************************************)
Plans ==
    {<<>>, <<"try">>, <<"frame">>, <<"boundary">>, <<"resumed">>,
     <<"frame", "boundary">>, <<"boundary", "resumed">>}

Producers ==
    [pc : {"off", "read", "wait", "send", "ack", "ended"}, seen : Statuses,
     fwd : 0 .. MaxFrames, applied : 0 .. MaxFrames, paused : BOOLEAN, plan : Plans,
     leaving : BOOLEAN]

\* The last frame seen is forwarded, or was revoked by a pause.
Settled(p) == p.fwd >= p.seen.latest \/ p.seen.fence >= p.seen.latest

PlanFits(p) ==
    /\ p.plan \in IF p.seen.paused
                  THEN IF p.paused THEN {<<>>} ELSE {<<"frame", "boundary">>, <<"boundary">>}
                  ELSE IF p.paused THEN {<<>>, <<"resumed">>}
                       ELSE {<<>>, <<"try">>, <<"frame">>, <<"boundary">>, <<"boundary", "resumed">>}
    /\ p.plan \in {<<"boundary">>, <<"boundary", "resumed">>} => p.fwd # 0
    /\ p.plan \in {<<"try">>, <<"frame">>, <<"resumed">>, <<"frame", "boundary">>,
                   <<"boundary", "resumed">>} => p.seen.latest > p.fwd
    /\ p.leaving => p.plan # <<"try">>
    /\ p.leaving /\ p.plan \in {<<>>, <<"boundary">>} => Settled(p)

ProducerFits(p) ==
    /\ p \in Producers
    /\ p.paused => p.fwd # 0
    /\ p.pc \in {"send", "ack"} => PlanFits(p)
    /\ p.pc = "ack" => p.plan # <<>> /\ Head(p.plan) \in {"boundary", "resumed"}
    /\ p.pc \in {"read", "wait"} => ~p.leaving

(***************************************************************************)
(* The channel: only its last event may wait for an acknowledgement.       *)
(***************************************************************************)
Events == [kind : {"frame", "boundary", "resumed"}, seq : 0 .. MaxFrames]

ChannelFits(q, a, p) ==
    /\ q \in Seq(Events)
    /\ Len(q) <= Depth
    /\ a \in {"none", "waiting", "given", "refused"}
    /\ \A i \in 1 .. Len(q) : i < Len(q) => q[i].kind = "frame"
    /\ \A i \in 1 .. Len(q) : q[i].kind # "boundary" => q[i].seq # 0
    /\ a = "waiting" => /\ p.pc = "ack"
                        /\ q # <<>>
                        /\ q[Len(q)].kind = Head(p.plan)
                        /\ q[Len(q)].seq = p.seen.latest
    /\ a # "waiting" => \A i \in 1 .. Len(q) : q[i].kind = "frame"
    /\ p.pc = "ack" /\ a = "given" => q = <<>>
    /\ p.fwd = 0 => q = <<>>

(***************************************************************************)
(* The encoder has the last forwarded frame, or it is the last frame in    *)
(* the channel.                                                            *)
(***************************************************************************)
Delivered(q, last, n) ==
    \/ /\ n <= last
       /\ \A i \in 1 .. Len(q) : q[i].kind = "boundary"
    \/ \E i \in 1 .. Len(q) :
          /\ q[i].kind # "boundary"
          /\ q[i].seq >= n
          /\ \A j \in 1 .. Len(q) : j > i => q[j].kind = "boundary"

Encoders ==
    [pc : {"off", "first", "run", "finish", "done"},
     first : 0 .. MaxFrames, last : 0 .. MaxFrames]

Medias == [finished : Nat, partial : Nat, manifest : Nat]

Publics == [paused : BOOLEAN, terminal : BOOLEAN, outcome : {"none", "failed", "finalized"}]

EncoderFits ==
    /\ enc \in Encoders
    /\ media \in Medias
    /\ public \in Publics
    /\ revoked \in BOOLEAN
    /\ enc.pc \in {"run", "finish"} => enc.first # 0 /\ prod.fwd # 0
    /\ enc.pc \in {"off", "first"} => media.partial = 0
    /\ enc.pc \in {"off", "done"} => ack # "waiting"
    /\ enc.pc = "off" => prod.pc = "off"
    /\ prod.pc = "ack" /\ ack = "refused" =>
          revoked \/ (enc.pc = "done" /\ public.outcome # "finalized")
    /\ enc.pc = "finish" /\ ~revoked => chan = <<>> /\ prod.pc = "ended"
    /\ ~revoked /\ enc.pc \in {"first", "run", "finish"} => Delivered(chan, enc.last, prod.fwd)
    /\ prod.pc = "ack" /\ ack = "given" /\ Head(prod.plan) = "resumed" =>
          enc.last >= prod.seen.latest

\* What a finalized outcome says.
Finalized ==
    public.outcome = "finalized" =>
        /\ enc.pc = "done"
        /\ enc.first # 0
        /\ prod.fwd # 0
        /\ media.partial = 0
        /\ media.manifest = media.finished
        /\ ~revoked => prod.pc = "ended" /\ prod.fwd <= enc.last

\* Why the producer has ended.
Ended ==
    prod.pc = "ended" =>
        \/ prod.leaving /\ (prod.fwd >= prod.seen.latest \/ prod.applied >= prod.seen.latest)
        \/ prod.fwd = 0
        \/ revoked
        \/ enc.pc = "done" /\ public.outcome # "finalized"
        \/ stopper = "dropped"

LeavingSaw ==
    prod.leaving => stopper = "sent" \/ (shown.status = prod.seen /\ ~shown.open)

\* The segments follow the pauses the producer knows to be acknowledged.
SegmentsFit ==
    /\ prod.paused /\ prod.pc \in {"read", "wait", "send"} => media.partial = 0 /\ chan = <<>>
    /\ prod.paused /\ prod.pc = "ack" /\ ack = "waiting" =>
          media.partial = 0 /\ Len(chan) = 1
    /\ ~prod.paused /\ prod.pc \in {"read", "wait", "send"} /\ enc.pc = "run" =>
          media.partial # 0
    /\ prod.pc = "ack" /\ ack = "given" /\ Head(prod.plan) = "boundary" => media.partial = 0
    /\ prod.pc = "ack" /\ ack = "given" /\ Head(prod.plan) = "resumed" /\ enc.pc = "run" =>
          media.partial # 0

RecorderOwned == InUse(session) \/ Joined

\* What the tasks of the recorder keep among themselves.
TasksFit ==
    /\ ProducerFits(prod)
    /\ ChannelFits(chan, ack, prod)
    /\ EncoderFits
    /\ Finalized
    /\ Ended
    /\ LeavingSaw
    /\ SegmentsFit

\* The complete inductive invariant.
RecordingInv ==
    /\ SlotFits(box, work)
    /\ SessionFits(session, box, stopper)
    /\ WatchFits
    /\ TasksFit
    /\ RecorderOwned
    /\ RecordedInFull

(***************************************************************************)
(* What the operations of the mailbox keep.                                *)
(***************************************************************************)
\* A box with another request in the place of one it has.
LEMMA BoxWith ==
    ASSUME NEW b \in Boxes(1 .. MaxFrames), NEW r \in 1 .. Len(b.requests), NEW x \in Requests,
           NEW o \in Nat, NEW t \in BOOLEAN
    PROVE  LET c == [stopped |-> t, owner |-> o, requests |-> [b.requests EXCEPT ![r] = x]]
           IN  /\ c \in Boxes(1 .. MaxFrames)
               /\ Len(c.requests) = Len(b.requests)
               /\ c.requests[r] = x
               /\ \A k \in 1 .. Len(b.requests) : k # r => c.requests[k] = b.requests[k]
<1> PICK q : q = b.requests
  OBVIOUS
<1>1. q \in Seq(Requests)
  BY DEF Boxes, Requests
<1> PICK d : d = [q EXCEPT ![r] = x]
  OBVIOUS
<1>2. d \in Seq(Requests) /\ Len(d) = Len(q)
  BY <1>1
<1>3. d[r] = x /\ \A k \in 1 .. Len(q) : k # r => d[k] = q[k]
  BY <1>1
<1> QED
  BY <1>1, <1>2, <1>3 DEF Boxes, Requests

\* The same, for the changes of a request the operations make.
LEMMA CloseIs ==
    ASSUME NEW b \in Boxes(1 .. MaxFrames), NEW r \in 1 .. Len(b.requests), NEW f \in BOOLEAN
    PROVE  LET free == b.requests[r].at = "queued" \/ f
               x == [b.requests[r] EXCEPT !.outcome = "failed", !.reply = FALSE,
                                          !.at = IF free THEN "released" ELSE @]
           IN  CloseFailed(b, r, f) =
                 [stopped |-> b.stopped,
                  owner |-> IF free /\ b.owner = r THEN 0 ELSE b.owner,
                  requests |-> [b.requests EXCEPT ![r] = x]]
<1>1. PICK q : q = b.requests
  OBVIOUS
<1>2. q \in Seq(Requests) /\ r \in 1 .. Len(q) /\ b.owner \in Nat /\ b.stopped \in BOOLEAN
  BY <1>1 DEF Boxes, Requests
<1>3. b = [stopped |-> b.stopped, owner |-> b.owner, requests |-> q]
  BY <1>1 DEF Boxes
<1>4. q[r] \in Requests
  BY <1>2
<1>5. PICK y : y = [q[r] EXCEPT !.outcome = "failed", !.reply = FALSE]
  OBVIOUS
<1>6. y \in Requests
  BY <1>4, <1>5 DEF Requests
<1>7. PICK d : d = [q EXCEPT ![r] = y]
  OBVIOUS
<1>8. d \in Seq(Requests) /\ Len(d) = Len(q) /\ d[r] = y
  BY <1>2, <1>6, <1>7
<1>9. [b EXCEPT !.requests[r].outcome = "failed", !.requests[r].reply = FALSE]
        = [stopped |-> b.stopped, owner |-> b.owner, requests |-> d]
  <2>1. PICK z : z = [q[r] EXCEPT !.outcome = "failed"]
    OBVIOUS
  <2>2. z \in Requests /\ y = [z EXCEPT !.reply = FALSE]
    BY <1>4, <1>5, <2>1 DEF Requests
  <2>3. PICK e : e = [q EXCEPT ![r] = z]
    OBVIOUS
  <2>4. e \in Seq(Requests) /\ Len(e) = Len(q) /\ e[r] = z
    BY <1>2, <2>2, <2>3
  <2>5. d = [e EXCEPT ![r].reply = FALSE]
    BY <1>2, <1>6, <1>7, <1>8, <2>2, <2>3, <2>4
  <2>6. [b EXCEPT !.requests[r].outcome = "failed"] = [b EXCEPT !.requests = e]
    BY <1>1, <2>1, <2>3
  <2>7. [[b EXCEPT !.requests = e] EXCEPT !.requests[r].reply = FALSE]
          = [b EXCEPT !.requests = d]
    BY <1>3, <2>5
  <2>8. [b EXCEPT !.requests = d] = [stopped |-> b.stopped, owner |-> b.owner, requests |-> d]
    BY <1>3
  <2> QED
    BY <2>6, <2>7, <2>8
<1>10. CASE ~(q[r].at = "queued" \/ f)
  <2>1. [q[r] EXCEPT !.outcome = "failed", !.reply = FALSE, !.at = @] = y
    BY <1>4, <1>5 DEF Requests
  <2> QED
    BY <1>1, <1>7, <1>9, <1>10, <2>1 DEF CloseFailed
<1>11. CASE q[r].at = "queued" \/ f
  <2>1. PICK o : o = IF b.owner = r THEN 0 ELSE b.owner
    OBVIOUS
  <2>2. PICK c : c = [stopped |-> b.stopped, owner |-> b.owner, requests |-> d]
    OBVIOUS
  <2>3. Release(c, r) = [stopped |-> b.stopped, owner |-> o, requests |-> d]
    BY <2>1, <2>2 DEF Release
  <2>4. PICK x : x = [q[r] EXCEPT !.outcome = "failed", !.reply = FALSE, !.at = "released"]
    OBVIOUS
  <2>5. x = [y EXCEPT !.at = "released"]
    BY <1>4, <1>5, <2>4 DEF Requests
  <2>6. PICK e : e = [q EXCEPT ![r] = x]
    OBVIOUS
  <2>7. [d EXCEPT ![r].at = "released"] = e
    BY <1>2, <1>6, <1>7, <1>8, <2>5, <2>6
  <2>8. [[stopped |-> b.stopped, owner |-> o, requests |-> d] EXCEPT !.requests[r].at = "released"]
          = [stopped |-> b.stopped, owner |-> o, requests |-> e]
    BY <2>7
  <2>9. CloseFailed(b, r, f) = [Release(c, r) EXCEPT !.requests[r].at = "released"]
    BY <1>1, <1>9, <1>11, <2>2 DEF CloseFailed
  <2> QED
    BY <1>1, <1>11, <2>1, <2>3, <2>4, <2>6, <2>8, <2>9
<1> QED
  BY <1>1, <1>10, <1>11

\* No work fits every box.
LEMMA IdleFits ==
    ASSUME NEW b, NEW w, SlotFits(b, w)
    PROVE  SlotFits(b, Idle)
BY DEF SlotFits, Idle, Works

\* The fields of a request of a box.
LEMMA RequestOf ==
    ASSUME NEW b \in Boxes(1 .. MaxFrames), NEW r \in 1 .. Len(b.requests)
    PROVE  b.requests[r] \in Requests /\ b.requests \in Seq(Requests) /\ Len(b.requests) \in Nat
<1>1. b.requests \in Seq(Requests)
  BY DEF Boxes, Requests
<1> QED
  BY <1>1

\* A box is its fields.
LEMMA BoxIs ==
    ASSUME NEW b \in Boxes(1 .. MaxFrames)
    PROVE  b = [stopped |-> b.stopped, owner |-> b.owner, requests |-> b.requests]
BY DEF Boxes

\* A request that its caller gives up keeps the slot while the worker has it;
\* the worker itself lets go of it.
LEMMA CloseFits ==
    ASSUME NEW b, NEW w, SlotFits(b, w), NEW r \in 1 .. Len(b.requests), NEW f \in BOOLEAN,
           f => w.request = 0
    PROVE  SlotFits(CloseFailed(b, r, f), w) /\ Len(CloseFailed(b, r, f).requests) = Len(b.requests)
<1>1. /\ b \in Boxes(1 .. MaxFrames) /\ b.owner \in 0 .. Len(b.requests) /\ w \in Works
      /\ w.request \in 0 .. Len(b.requests) /\ (w.pc # "idle" => w.request # 0)
      /\ (w.request # 0 => b.owner = w.request /\ b.requests[w.request].at = "in_flight")
  BY DEF SlotFits
<1>2. b.requests[r] \in Requests /\ b.stopped \in BOOLEAN /\ b.owner \in Nat /\ Len(b.requests) \in Nat
  BY <1>1, RequestOf DEF Boxes
<1>3. PICK free \in BOOLEAN : free <=> (b.requests[r].at = "queued" \/ f)
  OBVIOUS
<1>4. PICK x : x = [b.requests[r] EXCEPT !.outcome = "failed", !.reply = FALSE,
                                         !.at = IF free THEN "released" ELSE @]
  OBVIOUS
<1>5. x \in Requests /\ (~free => x.at = b.requests[r].at)
  BY <1>2, <1>4 DEF Requests
<1>6. PICK o : o = IF free /\ b.owner = r THEN 0 ELSE b.owner
  OBVIOUS
<1>7. o \in Nat /\ o \in 0 .. Len(b.requests)
  BY <1>1, <1>2, <1>6
<1>8. PICK c : c = [stopped |-> b.stopped, owner |-> o, requests |-> [b.requests EXCEPT ![r] = x]]
  OBVIOUS
<1>9. CloseFailed(b, r, f) = c
  <2>1. CASE free
    BY <1>1, <1>3, <1>4, <1>6, <1>8, <2>1, CloseIs, ZenonT(60)
  <2>2. CASE ~free
    BY <1>1, <1>3, <1>4, <1>6, <1>8, <2>2, CloseIs, ZenonT(60)
  <2> QED
    BY <2>1, <2>2
<1>10. /\ c \in Boxes(1 .. MaxFrames)
       /\ Len(c.requests) = Len(b.requests)
       /\ c.requests[r] = x
       /\ \A k \in 1 .. Len(b.requests) : k # r => c.requests[k] = b.requests[k]
  BY <1>1, <1>2, <1>5, <1>7, <1>8, BoxWith
<1>11. ASSUME w.request # 0
       PROVE  c.owner = w.request /\ c.requests[w.request].at = "in_flight"
  <2>1. w.request = r => ~free
    BY <1>1, <1>3, <1>11
  <2>2. c.owner = o
    BY <1>8
  <2> QED
    BY <1>1, <1>5, <1>6, <1>10, <1>11, <2>1, <2>2
<1> QED
  BY <1>1, <1>7, <1>8, <1>9, <1>10, <1>11 DEF SlotFits

\* submit: a free slot takes the request.
LEMMA SubmitFits ==
    ASSUME NEW b, NEW w, SlotFits(b, w), ~Refuses(b), NEW seq \in 1 .. MaxFrames, NEW since \in Nat
    PROVE  /\ SlotFits(Submit(b, seq, since), w)
           /\ Len(Submit(b, seq, since).requests) = Len(b.requests) + 1
           /\ w.request = 0
<1>1. /\ b \in Boxes(1 .. MaxFrames) /\ b.owner = 0 /\ w \in Works /\ w.request = 0
      /\ w.pc = "idle"
  BY DEF SlotFits, Refuses, Works
<1>2. b.requests \in Seq(Requests) /\ Len(b.requests) \in Nat
  BY <1>1 DEF Boxes, Requests
<1>3. PICK x : x = Request(seq, since)
  OBVIOUS
<1>4. x \in Requests
  BY <1>3 DEF Request, Requests
<1>5. PICK q : q = Append(b.requests, x)
  OBVIOUS
<1>6. q \in Seq(Requests) /\ Len(q) = Len(b.requests) + 1
  BY <1>2, <1>4, <1>5
<1>7. Submit(b, seq, since) = [stopped |-> b.stopped, owner |-> Len(b.requests) + 1, requests |-> q]
  <2>1. b = [stopped |-> b.stopped, owner |-> b.owner, requests |-> b.requests]
    BY <1>1, BoxIs
  <2>2. PICK n : n = Len(b.requests) + 1
    OBVIOUS
  <2>3. Submit(b, seq, since) = [b EXCEPT !.owner = n, !.requests = q]
    BY <1>3, <1>5, <2>2 DEF Submit
  <2> QED
    BY <2>1, <2>2, <2>3
<1> QED
  BY <1>1, <1>2, <1>6, <1>7 DEF SlotFits, Boxes, Requests

\* take: the request is in flight, or it is closed.
LEMMA TakeFits ==
    ASSUME NEW b, NEW w, SlotFits(b, w), w.request = 0, CanTake(b)
    PROVE  LET v == IF TakeFails(b) THEN Idle
                    ELSE [request |-> b.owner, pc |-> "taken", reply |-> FALSE]
           IN  SlotFits(Take(b), v) /\ Len(Take(b).requests) = Len(b.requests)
<1>1. /\ b \in Boxes(1 .. MaxFrames) /\ b.owner \in 1 .. Len(b.requests)
      /\ b.owner \in Nat /\ b.stopped \in BOOLEAN
  BY DEF SlotFits, CanTake, Boxes
<1>2. CASE TakeFails(b)
  <2>1. SlotFits(b, Idle) /\ Idle.request = 0
    BY IdleFits DEF Idle
  <2>2. SlotFits(CloseFailed(b, b.owner, TRUE), Idle)
        /\ Len(CloseFailed(b, b.owner, TRUE).requests) = Len(b.requests)
    BY <1>1, <2>1, CloseFits
  <2> QED
    BY <1>2, <2>2 DEF Take
<1>3. CASE ~TakeFails(b)
  <2>1. PICK r : r = b.owner
    OBVIOUS
  <2>2. r \in 1 .. Len(b.requests) /\ b.requests[r] \in Requests
    BY <1>1, <2>1, RequestOf
  <2>3. PICK x : x = [b.requests[r] EXCEPT !.at = "in_flight"]
    OBVIOUS
  <2>4. x \in Requests /\ x.at = "in_flight"
    BY <2>2, <2>3 DEF Requests
  <2>5. PICK c : c = [stopped |-> b.stopped, owner |-> r, requests |-> [b.requests EXCEPT ![r] = x]]
    OBVIOUS
  <2>6. Take(b) = c
    BY <1>1, <1>3, <2>1, <2>3, <2>5, BoxIs DEF Take
  <2>7. c \in Boxes(1 .. MaxFrames) /\ Len(c.requests) = Len(b.requests) /\ c.requests[r] = x
    BY <1>1, <2>1, <2>2, <2>4, <2>5, BoxWith
  <2>8. PICK v : v = [request |-> r, pc |-> "taken", reply |-> FALSE]
    OBVIOUS
  <2>9. v \in Works /\ v.request = r /\ c.owner = r
    BY <1>1, <2>1, <2>5, <2>8 DEF Works
  <2>10. SlotFits(c, v)
    BY <1>1, <2>1, <2>2, <2>4, <2>7, <2>9 DEF SlotFits
  <2> QED
    BY <1>3, <2>1, <2>6, <2>7, <2>8, <2>10
<1> QED
  BY <1>2, <1>3

\* The end of the worker: the request in the slot is closed.
LEMMA StopFits ==
    ASSUME NEW b, NEW w, SlotFits(b, w), w.request = 0
    PROVE  SlotFits(StopInbox(b), w) /\ Len(StopInbox(b).requests) = Len(b.requests)
<1>1. CASE b.stopped
  BY <1>1 DEF StopInbox
<1>2. CASE ~b.stopped
  <2>1. PICK c : c = [b EXCEPT !.stopped = TRUE]
    OBVIOUS
  <2>2. b \in Boxes(1 .. MaxFrames) /\ b.owner \in 0 .. Len(b.requests)
    BY DEF SlotFits
  <2>3. c \in Boxes(1 .. MaxFrames) /\ c.owner = b.owner /\ c.requests = b.requests
    BY <2>1, <2>2 DEF Boxes
  <2>4. SlotFits(c, w)
    BY <2>3 DEF SlotFits
  <2>5. CASE b.owner = 0
    BY <1>2, <2>1, <2>3, <2>4, <2>5 DEF StopInbox
  <2>6. CASE b.owner # 0
    <3>1. b.owner \in 1 .. Len(c.requests)
      BY <2>2, <2>3, <2>6
    <3>2. SlotFits(CloseFailed(c, b.owner, TRUE), w)
          /\ Len(CloseFailed(c, b.owner, TRUE).requests) = Len(c.requests)
      BY <2>4, <3>1, CloseFits
    <3>3. StopInbox(b) = CloseFailed(c, b.owner, TRUE)
      BY <1>2, <2>1, <2>6 DEF StopInbox
    <3> QED
      BY <2>3, <3>2, <3>3
  <2> QED
    BY <2>5, <2>6
<1> QED
  BY <1>1, <1>2

\* try_result: a reply is consumed, a request that has failed is closed.
LEMMA AfterAnswerFits ==
    ASSUME NEW b, NEW w, SlotFits(b, w), NEW r \in 1 .. Len(b.requests)
    PROVE  SlotFits(AfterAnswer(b, r), w) /\ Len(AfterAnswer(b, r).requests) = Len(b.requests)
<1>1. /\ b \in Boxes(1 .. MaxFrames) /\ w \in Works /\ w.request \in 0 .. Len(b.requests)
      /\ (w.pc # "idle" => w.request # 0) /\ b.owner \in 0 .. Len(b.requests)
      /\ (w.request # 0 => b.owner = w.request /\ b.requests[w.request].at = "in_flight")
  BY DEF SlotFits
<1>2. CASE LiveFailure(b, r)
  BY <1>2, CloseFits DEF AfterAnswer
<1>3. CASE ~LiveFailure(b, r) /\ b.requests[r].outcome # "completed"
  BY <1>3 DEF AfterAnswer
<1>4. CASE ~LiveFailure(b, r) /\ b.requests[r].outcome = "completed"
  <2>1. b.requests[r] \in Requests /\ b.stopped \in BOOLEAN /\ b.owner \in Nat
    BY <1>1, RequestOf DEF Boxes
  <2>2. PICK x : x = [b.requests[r] EXCEPT !.outcome = "consumed"]
    OBVIOUS
  <2>3. x \in Requests /\ x.at = b.requests[r].at
    BY <2>1, <2>2 DEF Requests
  <2>4. PICK c : c = [stopped |-> b.stopped, owner |-> b.owner, requests |-> [b.requests EXCEPT ![r] = x]]
    OBVIOUS
  <2>5. b = [stopped |-> b.stopped, owner |-> b.owner, requests |-> b.requests]
    BY <1>1, BoxIs
  <2>6. AfterAnswer(b, r) = c
    <3>1. AfterAnswer(b, r) = [b EXCEPT !.requests[r].outcome = "consumed"]
      BY <1>4 DEF AfterAnswer
    <3>2. [b EXCEPT !.requests[r].outcome = "consumed"]
            = [b EXCEPT !.requests = [b.requests EXCEPT ![r] = x]]
      BY <2>2
    <3> QED
      BY <2>4, <2>5, <3>1, <3>2
  <2>7. /\ c \in Boxes(1 .. MaxFrames) /\ Len(c.requests) = Len(b.requests) /\ c.requests[r] = x
        /\ \A k \in 1 .. Len(b.requests) : k # r => c.requests[k] = b.requests[k]
    BY <1>1, <2>1, <2>3, <2>4, BoxWith
  <2>8. c.owner = b.owner
    BY <2>4
  <2>9. w.request # 0 => c.requests[w.request].at = "in_flight"
    BY <1>1, <2>3, <2>7
  <2>10. SlotFits(c, w)
    BY <1>1, <2>7, <2>8, <2>9 DEF SlotFits
  <2> QED
    BY <2>6, <2>7, <2>10
<1> QED
  BY <1>2, <1>3, <1>4

\* complete: the reply is stored, and the slot becomes free.
LEMMA CompleteFits ==
    ASSUME NEW b, NEW w, SlotFits(b, w), w.request # 0, NEW reply \in BOOLEAN
    PROVE  /\ SlotFits(Complete(b, w.request, reply), Idle)
           /\ Len(Complete(b, w.request, reply).requests) = Len(b.requests)
<1>1. PICK r : r = w.request
  OBVIOUS
<1>2. /\ b \in Boxes(1 .. MaxFrames) /\ r \in 1 .. Len(b.requests) /\ b.owner = r
      /\ Len(b.requests) \in Nat
  BY <1>1, RequestOf DEF SlotFits
<1>3. SlotFits(b, Idle) /\ Idle.request = 0
  BY IdleFits DEF Idle
<1>4. CASE WorkFails(b, r)
  <2>1. SlotFits(CloseFailed(b, r, TRUE), Idle)
        /\ Len(CloseFailed(b, r, TRUE).requests) = Len(b.requests)
    BY <1>2, <1>3, CloseFits
  <2> QED
    BY <1>1, <1>4, <2>1 DEF Complete
<1>5. CASE ~WorkFails(b, r)
  <2>1. b.requests[r] \in Requests /\ b.stopped \in BOOLEAN /\ b.requests \in Seq(Requests)
    BY <1>2, RequestOf DEF Boxes
  <2>2. PICK q : q = b.requests
    OBVIOUS
  <2>3. b = [stopped |-> b.stopped, owner |-> r, requests |-> q]
    BY <1>2, <2>2, BoxIs
  <2>4. PICK x : x = [q[r] EXCEPT !.reply = reply]
    OBVIOUS
  <2>5. PICK y : y = [x EXCEPT !.outcome = "completed"]
    OBVIOUS
  <2>6. PICK z : z = [y EXCEPT !.at = "released"]
    OBVIOUS
  <2>7. x \in Requests /\ y \in Requests /\ z \in Requests
    BY <2>1, <2>2, <2>4, <2>5, <2>6 DEF Requests
  <2>8. PICK d : d = [q EXCEPT ![r] = z]
    OBVIOUS
  <2>9. [b EXCEPT !.requests[r].reply = reply, !.requests[r].outcome = "completed",
                  !.requests[r].at = "released"]
          = [stopped |-> b.stopped, owner |-> r, requests |-> d]
    <3>1. PICK d1 : d1 = [q EXCEPT ![r] = x]
      OBVIOUS
    <3>2. PICK d2 : d2 = [q EXCEPT ![r] = y]
      OBVIOUS
    <3>3. /\ d1 \in Seq(Requests) /\ d1[r] = x /\ d2 \in Seq(Requests) /\ d2[r] = y
          /\ r \in DOMAIN d1 /\ r \in DOMAIN d2
      BY <1>2, <2>1, <2>2, <2>7, <3>1, <3>2
    <3>4. [d1 EXCEPT ![r].outcome = "completed"] = d2
      BY <1>2, <2>1, <2>2, <2>5, <3>1, <3>2, <3>3
    <3>5. [d2 EXCEPT ![r].at = "released"] = d
      BY <1>2, <2>1, <2>2, <2>6, <2>8, <3>2, <3>3
    <3>6. [b EXCEPT !.requests[r].reply = reply] = [stopped |-> b.stopped, owner |-> r, requests |-> d1]
      BY <2>2, <2>3, <2>4, <3>1
    <3>7. [[stopped |-> b.stopped, owner |-> r, requests |-> d1] EXCEPT !.requests[r].outcome = "completed"]
            = [stopped |-> b.stopped, owner |-> r, requests |-> d2]
      BY <3>4
    <3>8. [[stopped |-> b.stopped, owner |-> r, requests |-> d2] EXCEPT !.requests[r].at = "released"]
            = [stopped |-> b.stopped, owner |-> r, requests |-> d]
      BY <3>5
    <3> QED
      BY <3>6, <3>7, <3>8
  <2>10. PICK c : c = [stopped |-> b.stopped, owner |-> 0, requests |-> d]
    OBVIOUS
  <2>11. Complete(b, r, reply) = c
    <3>1. PICK e : e = [stopped |-> b.stopped, owner |-> r, requests |-> d]
      OBVIOUS
    <3>2. Complete(b, r, reply) = Release(e, r)
      BY <1>5, <2>9, <3>1 DEF Complete
    <3>3. Release(e, r) = c
      BY <2>10, <3>1 DEF Release
    <3> QED
      BY <3>2, <3>3
  <2>12. c \in Boxes(1 .. MaxFrames) /\ Len(c.requests) = Len(b.requests) /\ c.owner = 0
    <3>1. PICK o \in Nat : o = 0
      OBVIOUS
    <3>2. c = [stopped |-> b.stopped, owner |-> o, requests |-> [b.requests EXCEPT ![r] = z]]
      BY <2>2, <2>8, <2>10, <3>1
    <3>3. c \in Boxes(1 .. MaxFrames) /\ Len(c.requests) = Len(b.requests)
      BY <1>2, <2>1, <2>7, <3>2, BoxWith
    <3> QED
      BY <2>10, <3>3
  <2>13. SlotFits(c, Idle)
    BY <1>2, <1>3, <2>12 DEF SlotFits, Idle
  <2> QED
    BY <1>1, <2>11, <2>12, <2>13
<1> QED
  BY <1>4, <1>5

(***************************************************************************)
(* Steps that leave the recorder alone.                                    *)
(***************************************************************************)
\* A step that changes neither a task nor the authorization.
LEMMA TasksUntouched ==
    ASSUME TasksFit, UNCHANGED recorder, UNCHANGED revoked
    PROVE  TasksFit'
BY DEF TasksFit, recorder, EncoderFits, Finalized, Ended, LeavingSaw, SegmentsFit

\* A step of the session or of the worker that neither takes the recorder nor
\* gives it back.
LEMMA QuietStep ==
    ASSUME RecordingInv, UNCHANGED recorder, UNCHANGED revoked,
           SlotFits(box', work'), SessionFits(session', box', stopper'),
           source' \in Sources, StatusFits(source'.status), stops' \in {0, 1},
           InUse(session') <=> InUse(session),
           InUse(session) => source'.status.latest >= source.status.latest,
           session'.wanted = session.wanted,
           session'.evidence = "finalized" => session.evidence = "finalized"
    PROVE  RecordingInv'
<1>1. TasksFit'
  BY TasksUntouched DEF RecordingInv
<1>2. UNCHANGED <<shown, prod, chan, ack, enc, media, public, stopper, revoked>>
  BY DEF recorder
<1>3. WatchFits /\ RecorderOwned /\ RecordedInFull
  BY DEF RecordingInv
<1>4. WatchFits'
  <2>1. /\ shown \in [status : Statuses, open : BOOLEAN] /\ StatusFits(shown.status)
        /\ (InUse(session) /\ shown.open => shown.status.latest <= source.status.latest)
        /\ (InUse(session) /\ stopper = "sent" => session.wanted <= shown.status.latest)
        /\ (InUse(session) /\ stopper = "sent" /\ prod.leaving => session.wanted <= prod.seen.latest)
        /\ source.status.latest \in Int /\ source'.status.latest \in Int
    BY <1>3 DEF WatchFits, Sources, Statuses
  <2>2. InUse(session') /\ shown'.open => shown'.status.latest <= source'.status.latest
    <3>1. shown.status.latest \in Int
      BY <2>1 DEF Statuses
    <3> QED
      BY <1>2, <2>1, <3>1
  <2> QED
    BY <1>2, <2>1, <2>2 DEF WatchFits
<1>5. RecorderOwned'
  BY <1>2, <1>3 DEF RecorderOwned, Joined
<1>6. RecordedInFull'
  BY <1>2, <1>3 DEF RecordedInFull, Joined, InUse
<1> QED
  BY <1>1, <1>4, <1>5, <1>6 DEF RecordingInv

\* What the invariant says of the mailbox, the session and the stream.
LEMMA InvParts ==
    ASSUME RecordingInv
    PROVE  /\ SlotFits(box, work) /\ SessionFits(session, box, stopper) /\ WatchFits /\ TasksFit
           /\ RecorderOwned /\ RecordedInFull
           /\ session \in Sessions /\ source \in Sources /\ StatusFits(source.status)
           /\ stops \in {0, 1} /\ box \in Boxes(1 .. MaxFrames) /\ work \in Works
BY DEF RecordingInv, SlotFits, SessionFits, WatchFits

\* A status after a frame, a pause and the end of the stream.
LEMMA StatusStep ==
    ASSUME NEW st, StatusFits(st)
    PROVE  /\ st.latest < MaxFrames => /\ StatusFits(PublishFrame(st))
                                       /\ PublishFrame(st).latest >= st.latest
           /\ StatusFits(RecordPaused(st)) /\ RecordPaused(st).latest >= st.latest
           /\ StatusFits(RecordTerminal(st)) /\ RecordTerminal(st).latest >= st.latest
           /\ st.latest >= st.latest
<1> USE ShowcaseAssumption
<1>1. st \in Statuses /\ st.latest \in 0 .. MaxFrames /\ st.fence \in 0 .. MaxFrames
  BY DEF StatusFits, Statuses
<1>2. st.latest < MaxFrames => /\ StatusFits(PublishFrame(st))
                               /\ PublishFrame(st).latest >= st.latest
  <2>1. PICK t : t = PublishFrame(st)
    OBVIOUS
  <2>2. SUFFICES ASSUME st.latest < MaxFrames
                 PROVE  t \in Statuses /\ ~t.paused /\ t.latest >= st.latest
    BY <2>1 DEF StatusFits
  <2>3. PICK n \in 0 .. MaxFrames : n = st.latest + 1
    BY <1>1, <2>2
  <2>4. t = [st EXCEPT !.latest = n, !.paused = FALSE]
    BY <2>1, <2>3 DEF PublishFrame
  <2>5. t \in Statuses /\ ~t.paused /\ t.latest = n
    BY <1>1, <2>4 DEF Statuses
  <2> QED
    BY <1>1, <2>3, <2>5
<1>3. StatusFits(RecordPaused(st)) /\ RecordPaused(st).latest >= st.latest
  <2>1. CASE st.terminal
    BY <1>1, <2>1 DEF RecordPaused, StatusFits
  <2>2. CASE ~st.terminal
    <3>1. PICK f : f = IF st.latest > st.fence THEN st.latest ELSE st.fence
      OBVIOUS
    <3>2. f \in 0 .. MaxFrames /\ f >= st.latest
      BY <1>1, <3>1
    <3>3. RecordPaused(st) = [st EXCEPT !.fence = f, !.paused = TRUE]
      BY <2>2, <3>1 DEF RecordPaused
    <3>4. PICK t : t = RecordPaused(st)
      OBVIOUS
    <3>5. t \in Statuses /\ t.fence = f /\ t.latest = st.latest
      BY <1>1, <3>2, <3>3, <3>4 DEF Statuses
    <3> QED
      BY <1>1, <3>2, <3>4, <3>5 DEF StatusFits
  <2> QED
    BY <2>1, <2>2
<1>4. StatusFits(RecordTerminal(st)) /\ RecordTerminal(st).latest >= st.latest
  <2>1. PICK t : t = RecordTerminal(st)
    OBVIOUS
  <2>2. t \in Statuses /\ ~t.paused /\ t.latest = st.latest
    BY <1>1, <2>1 DEF Statuses, RecordTerminal
  <2> QED
    BY <1>1, <2>1, <2>2 DEF StatusFits
<1> QED
  BY <1>1, <1>2, <1>3, <1>4

\* A step of the worker, which does not touch the session.
LEMMA WorkerStep ==
    ASSUME RecordingInv, UNCHANGED recorder, UNCHANGED revoked, UNCHANGED session,
           SlotFits(box', work'), Len(box'.requests) = Len(box.requests),
           source' \in Sources, StatusFits(source'.status), stops' \in {0, 1},
           source'.status.latest >= source.status.latest
    PROVE  RecordingInv'
<1>1. stopper' = stopper
  BY DEF recorder
<1>2. SessionFits(session', box', stopper')
  BY <1>1, InvParts DEF SessionFits
<1> QED
  BY <1>2, QuietStep

\* The worker publishes, pauses, and ends.
LEMMA StreamSteps ==
    ASSUME RecordingInv, Publish \/ Pause \/ WorkerLeaves \/ WorkerFails
    PROVE  RecordingInv'
<1> USE ShowcaseAssumption
<1>1. /\ SlotFits(box, work) /\ source \in Sources /\ StatusFits(source.status) /\ stops \in {0, 1}
      /\ source.status.latest >= source.status.latest
  BY InvParts, StatusStep
<1>2. UNCHANGED recorder /\ UNCHANGED revoked /\ UNCHANGED session /\ UNCHANGED stops
  BY DEF Publish, Pause, WorkerLeaves, WorkerFails
<1>3. CASE Publish
  <2>1. source' = [source EXCEPT !.status = PublishFrame(source.status)] /\ source.status.latest < MaxFrames
        /\ UNCHANGED box /\ UNCHANGED work
    BY <1>3 DEF Publish
  <2>2. PICK st : st = PublishFrame(source.status)
    OBVIOUS
  <2>3. StatusFits(st) /\ st.latest >= source.status.latest
    BY <1>1, <2>1, <2>2, StatusStep
  <2>4. source' \in Sources /\ source'.status = st
    BY <1>1, <2>1, <2>2, <2>3 DEF Sources, StatusFits
  <2> QED
    BY <1>1, <1>2, <2>1, <2>3, <2>4, WorkerStep
<1>4. CASE Pause
  <2>1. /\ source' = [source EXCEPT !.status = RecordPaused(source.status), !.pauses = source.pauses + 1]
        /\ source.pauses < MaxPauses /\ UNCHANGED box /\ UNCHANGED work
    BY <1>4 DEF Pause
  <2>2. PICK st : st = RecordPaused(source.status)
    OBVIOUS
  <2>3. StatusFits(st) /\ st.latest >= source.status.latest
    BY <1>1, <2>2, StatusStep
  <2>4. source.pauses \in 0 .. MaxPauses
    BY <1>1 DEF Sources
  <2>5. PICK n \in 0 .. MaxPauses : n = source.pauses + 1
    BY <2>1, <2>4
  <2>6. source' \in Sources /\ source'.status = st
    BY <1>1, <2>1, <2>2, <2>3, <2>5 DEF Sources, StatusFits
  <2> QED
    BY <1>1, <1>2, <2>1, <2>3, <2>6, WorkerStep
<1>5. CASE WorkerLeaves
  <2>1. PICK st \in {source.status, RecordTerminal(source.status)} :
           source' = [source EXCEPT !.status = st, !.open = FALSE]
    BY <1>5 DEF WorkerLeaves, WorkerEnds
  <2>2. box' = StopInbox(box) /\ UNCHANGED work /\ work.request = 0
    BY <1>5 DEF WorkerLeaves, WorkerEnds, WorkerMay, WorkerBusy
  <2>3. StatusFits(st) /\ st.latest >= source.status.latest
    BY <1>1, <2>1, StatusStep
  <2>4. source' \in Sources /\ source'.status = st
    BY <1>1, <2>1, <2>3 DEF Sources, StatusFits
  <2>5. SlotFits(box', work') /\ Len(box'.requests) = Len(box.requests)
    BY <1>1, <2>2, StopFits
  <2> QED
    BY <1>1, <1>2, <2>3, <2>4, <2>5, WorkerStep
<1>6. CASE WorkerFails
  <2>1. /\ source' = [source EXCEPT !.status = RecordTerminal(source.status), !.open = FALSE]
        /\ box' = StopInbox(IF WorkerBusy THEN DropWork(box, work.request) ELSE box)
        /\ work' = Idle
    BY <1>6 DEF WorkerFails
  <2>2. PICK st : st = RecordTerminal(source.status)
    OBVIOUS
  <2>3. StatusFits(st) /\ st.latest >= source.status.latest
    BY <1>1, <2>2, StatusStep
  <2>4. source' \in Sources /\ source'.status = st
    BY <1>1, <2>1, <2>2, <2>3 DEF Sources, StatusFits
  <2>5. SlotFits(box, Idle) /\ Idle.request = 0 /\ work.request \in 0 .. Len(box.requests)
    BY <1>1, IdleFits DEF Idle, SlotFits
  <2>6. PICK c : c = IF WorkerBusy THEN DropWork(box, work.request) ELSE box
    OBVIOUS
  <2>7. SlotFits(c, Idle) /\ Len(c.requests) = Len(box.requests)
    <3>1. CASE ~WorkerBusy
      BY <2>5, <2>6, <3>1
    <3>2. CASE WorkerBusy
      <4>1. work.request \in 1 .. Len(box.requests)
        BY <2>5, <3>2 DEF WorkerBusy
      <4>2. c = CloseFailed(box, work.request, TRUE)
        BY <2>6, <3>2 DEF DropWork
      <4> QED
        BY <2>5, <4>1, <4>2, CloseFits
    <3> QED
      BY <3>1, <3>2
  <2>8. SlotFits(box', work') /\ Len(box'.requests) = Len(box.requests)
    BY <2>1, <2>5, <2>6, <2>7, StopFits
  <2> QED
    BY <1>1, <1>2, <2>3, <2>4, <2>8, WorkerStep
<1> QED
  BY <1>3, <1>4, <1>5, <1>6

\* The worker serves the mailbox; a deadline passes; the user stops.
LEMMA ServiceSteps ==
    ASSUME RecordingInv, \/ WorkerTakes \/ WorkerValidates \/ WorkerAnswers \/ Expire \/ Escape
    PROVE  RecordingInv'
<1>1. /\ SlotFits(box, work) /\ source \in Sources /\ StatusFits(source.status) /\ stops \in {0, 1}
      /\ source.status.latest >= source.status.latest
  BY InvParts, StatusStep
<1>2. UNCHANGED recorder /\ UNCHANGED revoked /\ UNCHANGED session /\ UNCHANGED source
  BY DEF WorkerTakes, WorkerValidates, WorkerAnswers, Expire, Escape
<1>3. SUFFICES SlotFits(box', work') /\ Len(box'.requests) = Len(box.requests) /\ stops' \in {0, 1}
  BY <1>1, <1>2, WorkerStep
<1>4. CASE WorkerTakes
  <2>1. /\ work.request = 0 /\ CanTake(box) /\ box' = Take(box) /\ UNCHANGED stops
        /\ work' = IF TakeFails(box) THEN Idle
                   ELSE [request |-> box.owner, pc |-> "taken", reply |-> FALSE]
    BY <1>4 DEF WorkerTakes, WorkerMay, WorkerBusy
  <2> QED
    BY <1>1, <2>1, TakeFits
<1>5. CASE WorkerValidates
  <2>1. work.pc = "taken" /\ box' = EnsureLive(box, work.request) /\ UNCHANGED stops
    BY <1>5 DEF WorkerValidates
  <2>2. PICK reply \in BOOLEAN : work' = [work EXCEPT !.pc = "judged", !.reply = reply]
    BY <1>5 DEF WorkerValidates, Validated
  <2>3. work \in Works /\ work.request \in 1 .. Len(box.requests)
    BY <1>1, <2>1 DEF SlotFits
  <2>4. SlotFits(box', work) /\ Len(box'.requests) = Len(box.requests)
    BY <1>1, <2>1, <2>3, CloseFits DEF EnsureLive
  <2>5. work' \in Works /\ work'.request = work.request
    BY <2>2, <2>3 DEF Works
  <2> QED
    BY <1>1, <2>1, <2>3, <2>4, <2>5 DEF SlotFits
<1>6. CASE WorkerAnswers
  <2>1. /\ work.pc = "judged" /\ box' = Complete(box, work.request, work.reply) /\ work' = Idle
        /\ UNCHANGED stops
    BY <1>6 DEF WorkerAnswers
  <2>2. work.request # 0 /\ work.reply \in BOOLEAN
    BY <1>1, <2>1 DEF SlotFits, Works
  <2> QED
    BY <1>1, <2>1, <2>2, CompleteFits
<1>7. CASE Expire \/ Escape
  BY <1>1, <1>7 DEF Expire, Escape
<1> QED
  BY <1>4, <1>5, <1>6, <1>7

(***************************************************************************)
(* The calls of the session that leave the recorder alone.                 *)
(***************************************************************************)
\* A stream that is asked to stop keeps its status.
LEMMA AskedSource ==
    ASSUME NEW s \in Sources, NEW d \in BOOLEAN
    PROVE  LET t == [s EXCEPT !.shutdown = d] IN t \in Sources /\ t.status = s.status
BY DEF Sources

\* What FailStart leaves of a session that had no recorder and no request left
\* to wait for.
LEMMA FailedStart ==
    ASSUME NEW s \in Sessions, FailStart(s), source \in Sources
    PROVE  /\ session' \in Sessions /\ session'.request = 0 /\ session'.pc \in {"idle", "unlive"}
           /\ session'.recorder = s.recorder /\ session'.recorderPending = s.recorderPending
           /\ session'.active = s.active /\ session'.wanted = s.wanted
           /\ session'.evidence = (IF s.evidence = "none" THEN "failed" ELSE s.evidence)
           /\ source' \in Sources /\ source'.status = source.status
<1> USE ShowcaseAssumption
<1>1. PICK l \in BOOLEAN, k \in BOOLEAN, p \in {"idle", "unlive"}, e \in Evidence :
         /\ e = (IF s.evidence = "none" THEN "failed" ELSE s.evidence)
         /\ session' = [s EXCEPT !.request = 0, !.evidence = e, !.frame = 0, !.fence = 0, !.live = l,
                                 !.sourcePending = k, !.pc = p]
  <2>1. PICK l \in BOOLEAN : l = (s.live /\ ~s.owns)
    BY DEF Sessions
  <2>2. PICK k \in BOOLEAN : k = (s.sourcePending \/ (s.owns /\ s.live))
    BY DEF Sessions
  <2>3. PICK p \in {"idle", "unlive"} : p = IF s.owns /\ s.live THEN "unlive" ELSE "idle"
    OBVIOUS
  <2>4. PICK e : e = (IF s.evidence = "none" THEN "failed" ELSE s.evidence)
    OBVIOUS
  <2>5. e \in Evidence
    BY <2>4 DEF Sessions, Evidence
  <2>6. session' = [s EXCEPT !.request = 0, !.evidence = e, !.frame = 0, !.fence = 0, !.live = l,
                             !.sourcePending = k, !.pc = p]
    BY <2>1, <2>2, <2>3, <2>4 DEF FailStart
  <2> QED
    BY <2>4, <2>5, <2>6
<1>2. p \in Calls /\ 0 \in 0 .. MaxFrames /\ 0 \in Nat
  BY DEF Calls
<1>3. session' \in Sessions
  <2>1. PICK a : a = [s EXCEPT !.request = 0, !.evidence = e, !.frame = 0]
    OBVIOUS
  <2>2. a \in Sessions
    BY <1>2, <2>1 DEF Sessions
  <2>3. PICK c : c = [a EXCEPT !.fence = 0, !.live = l]
    OBVIOUS
  <2>4. c \in Sessions
    BY <1>2, <2>2, <2>3 DEF Sessions
  <2>5. session' = [c EXCEPT !.sourcePending = k, !.pc = p]
    BY <1>1, <2>1, <2>3
  <2> QED
    BY <1>2, <2>4, <2>5 DEF Sessions
<1>4. PICK d \in BOOLEAN : source' = [source EXCEPT !.shutdown = d]
  <2>1. PICK d \in BOOLEAN : d = (source.shutdown \/ (s.owns /\ s.live))
    BY DEF Sources
  <2> QED
    BY <2>1 DEF FailStart
<1>5. source' \in Sources /\ source'.status = source.status
  BY <1>4, AskedSource
<1> QED
  BY <1>1, <1>3, <1>5 DEF Sessions

\* The checks of a session that fails its start, or ends a wait for a stream.
LEMMA BackToIdle ==
    ASSUME RecordingInv, UNCHANGED recorder, UNCHANGED revoked, UNCHANGED stops,
           SlotFits(box', work'), Len(box'.requests) = Len(box.requests),
           session' \in Sessions, session'.request = 0, session'.pc \in {"idle", "unlive", "frame"},
           session'.pc = "frame" => ~session.recorder,
           session'.recorder = session.recorder,
           session'.recorderPending = session.recorderPending,
           session'.active = session.active, session'.wanted = session.wanted,
           session'.evidence = "finalized" => session.evidence = "finalized",
           source' \in Sources, source'.status = source.status
    PROVE  RecordingInv'
<1>1. stopper' = stopper
  BY DEF recorder
<1>2. SessionFits(session, box, stopper) /\ box.requests \in Seq(Requests)
  BY InvParts DEF Boxes, Requests
<1>3. SessionFits(session', box', stopper')
  <2>1. session'.request \in 0 .. Len(box'.requests)
    BY <1>2
  <2> QED
    BY <1>1, <1>2, <2>1 DEF SessionFits
<1>4. InUse(session') <=> InUse(session)
  BY DEF InUse
<1>5. StatusFits(source'.status) /\ source'.status.latest >= source.status.latest /\ stops' \in {0, 1}
  BY InvParts, StatusStep
<1> QED
  BY <1>3, <1>4, <1>5, QuietStep

\* The waits for a stream, and their ends.
LEMMA WaitSteps ==
    ASSUME RecordingInv, \/ FirstFrameSeen \/ GiveUpFirst \/ NoFrame \/ StreamJoined \/ StopLive
    PROVE  RecordingInv'
<1>1. /\ SlotFits(box, work) /\ SessionFits(session, box, stopper) /\ session \in Sessions
      /\ source \in Sources
  BY InvParts
<1>2. /\ UNCHANGED recorder /\ UNCHANGED revoked /\ UNCHANGED stops /\ UNCHANGED box /\ UNCHANGED work
  BY DEF FirstFrameSeen, GiveUpFirst, NoFrame, StreamJoined, StopLive
<1>3. session.request = 0 /\ (session.pc = "first" => ~session.recorder)
  BY <1>1 DEF SessionFits, FirstFrameSeen, GiveUpFirst, NoFrame, StreamJoined, StopLive
<1>4. CASE FirstFrameSeen
  <2>1. session' = [session EXCEPT !.live = TRUE, !.pc = "frame"] /\ source' = source /\ session.pc = "first"
    BY <1>4 DEF FirstFrameSeen
  <2>2. /\ session' \in Sessions /\ session'.request = 0 /\ session'.pc = "frame"
        /\ session'.recorder = session.recorder /\ session'.recorderPending = session.recorderPending
        /\ session'.active = session.active /\ session'.wanted = session.wanted
        /\ session'.evidence = session.evidence
    BY <1>1, <1>3, <2>1 DEF Sessions, Calls
  <2> QED
    BY <1>1, <1>2, <1>3, <2>1, <2>2, BackToIdle
<1>5. CASE GiveUpFirst
  <2>1. session' = [session EXCEPT !.pc = "idle"] /\ source' = [source EXCEPT !.shutdown = TRUE]
    BY <1>5 DEF GiveUpFirst
  <2>2. /\ session' \in Sessions /\ session'.request = 0 /\ session'.pc = "idle"
        /\ session'.recorder = session.recorder /\ session'.recorderPending = session.recorderPending
        /\ session'.active = session.active /\ session'.wanted = session.wanted
        /\ session'.evidence = session.evidence
    BY <1>1, <1>3, <2>1 DEF Sessions, Calls
  <2>3. source' \in Sources /\ source'.status = source.status
    BY <1>1, <2>1, AskedSource
  <2> QED
    BY <1>1, <1>2, <2>2, <2>3, BackToIdle
<1>6. CASE NoFrame
  <2>1. FailStart(session)
    BY <1>6 DEF NoFrame
  <2>2. /\ session' \in Sessions /\ session'.request = 0 /\ session'.pc \in {"idle", "unlive"}
        /\ session'.recorder = session.recorder /\ session'.recorderPending = session.recorderPending
        /\ session'.active = session.active /\ session'.wanted = session.wanted
        /\ session'.evidence = (IF session.evidence = "none" THEN "failed" ELSE session.evidence)
        /\ source' \in Sources /\ source'.status = source.status
    BY <1>1, <2>1, FailedStart
  <2> QED
    BY <1>1, <1>2, <2>2, BackToIdle
<1>7. CASE StreamJoined
  <2>1. session' = [session EXCEPT !.sourcePending = FALSE, !.pc = "idle"] /\ source' = source
    BY <1>7 DEF StreamJoined
  <2>2. /\ session' \in Sessions /\ session'.request = 0 /\ session'.pc = "idle"
        /\ session'.recorder = session.recorder /\ session'.recorderPending = session.recorderPending
        /\ session'.active = session.active /\ session'.wanted = session.wanted
        /\ session'.evidence = session.evidence
    BY <1>1, <1>3, <2>1 DEF Sessions, Calls
  <2> QED
    BY <1>1, <1>2, <2>1, <2>2, BackToIdle
<1>8. CASE StopLive
  <2>1. /\ session' = [session EXCEPT !.live = FALSE, !.sourcePending = TRUE, !.pc = "unlive"]
        /\ source' = [source EXCEPT !.shutdown = TRUE]
    BY <1>8 DEF StopLive
  <2>2. /\ session' \in Sessions /\ session'.request = 0 /\ session'.pc = "unlive"
        /\ session'.recorder = session.recorder /\ session'.recorderPending = session.recorderPending
        /\ session'.active = session.active /\ session'.wanted = session.wanted
        /\ session'.evidence = session.evidence
    BY <1>1, <1>3, <2>1 DEF Sessions, Calls
  <2>3. source' \in Sources /\ source'.status = source.status
    BY <1>1, <2>1, AskedSource
  <2> QED
    BY <1>1, <1>2, <2>2, <2>3, BackToIdle
<1> QED
  BY <1>4, <1>5, <1>6, <1>7, <1>8

\* recording_start begins: nothing is owed, and a dead stream is replaced.
LEMMA StartStep ==
    ASSUME RecordingInv, Start
    PROVE  RecordingInv'
<1> USE ShowcaseAssumption
<1>1. /\ SlotFits(box, work) /\ SessionFits(session, box, stopper) /\ session \in Sessions
      /\ source \in Sources /\ StatusFits(source.status) /\ stops \in {0, 1}
  BY InvParts
<1>2. /\ UNCHANGED recorder /\ UNCHANGED revoked /\ UNCHANGED stops /\ UNCHANGED work
      /\ stopper' = stopper /\ ~InUse(session) /\ ~session.active /\ session.pc = "idle"
      /\ ~session.recorder /\ ~session.recorderPending
  BY DEF Start, recorder, Unsettled, InUse
<1>3. PICK fresh \in BOOLEAN : fresh = ~(session.live /\ source.open)
  OBVIOUS
<1>4. PICK n : n = IF fresh THEN 0 ELSE source.status.latest
  OBVIOUS
<1>5. n \in 0 .. MaxFrames
  BY <1>1, <1>4 DEF StatusFits, Statuses
<1>6. PICK p : p = IF fresh THEN "first" ELSE "frame"
  OBVIOUS
<1>7. p \in {"first", "frame"} /\ p \in Calls
  BY <1>6 DEF Calls
<1>8. PICK m \in Nat : m = session.starts + 1
  BY <1>1 DEF Sessions
<1>9. PICK l \in BOOLEAN : l = ~fresh
  OBVIOUS
<1>10. session' = [session EXCEPT !.starts = m, !.since = stops, !.owns = fresh, !.fence = n,
                                  !.live = l, !.pc = p]
  BY <1>3, <1>4, <1>6, <1>8, <1>9 DEF Start
<1>11. /\ session' \in Sessions /\ session'.pc = p /\ session'.request = session.request
       /\ session'.recorder = session.recorder /\ session'.recorderPending = session.recorderPending
       /\ session'.active = session.active /\ session'.wanted = session.wanted
       /\ session'.evidence = session.evidence
  BY <1>1, <1>5, <1>7, <1>10 DEF Sessions
<1>12. /\ source' \in Sources /\ StatusFits(source'.status)
  <2>1. CASE fresh
    <3>1. source' = Opened(stops)
      BY <1>3, <2>1 DEF Start
    <3>2. FreshStatus \in Statuses /\ ~FreshStatus.paused
      BY DEF FreshStatus, Statuses
    <3>3. PICK st \in Statuses : st = FreshStatus
      BY <3>2
    <3>4. PICK c : c = [status |-> st, open |-> FALSE, since |-> 0, shutdown |-> FALSE, pauses |-> 0]
      OBVIOUS
    <3>5. 0 \in 0 .. MaxPauses
      OBVIOUS
    <3>6. c \in Sources /\ c.status = FreshStatus
      BY <3>3, <3>4, <3>5 DEF Sources
    <3>7. Opened(stops) = [c EXCEPT !.open = TRUE, !.since = stops]
      BY <3>3, <3>4 DEF Opened, Closed
    <3>8. Opened(stops) \in Sources /\ Opened(stops).status = FreshStatus
      BY <1>1, <3>6, <3>7 DEF Sources
    <3> QED
      BY <3>1, <3>2, <3>8 DEF StatusFits
  <2>2. CASE ~fresh
    BY <1>1, <1>3, <2>2 DEF Start
  <2> QED
    BY <2>1, <2>2
<1>13. SlotFits(box', work') /\ session.request = 0 /\ 0 \in 0 .. Len(box'.requests)
  <2>1. session.request = 0
    BY <1>1, <1>2 DEF SessionFits
  <2>2. CASE fresh
    <3>1. box' = Empty /\ work.request = 0
      BY <1>3, <2>2 DEF Start, WorkerBusy
    <3>2. Empty \in Boxes(1 .. MaxFrames) /\ Empty.owner = 0 /\ Len(Empty.requests) = 0
      BY DEF Empty, Boxes
    <3> QED
      BY <1>1, <1>2, <2>1, <3>1, <3>2 DEF SlotFits
  <2>3. CASE ~fresh
    <3>1. box' = box
      BY <1>3, <2>3 DEF Start
    <3> QED
      BY <1>1, <1>2, <2>1, <3>1, RequestOf DEF SlotFits
  <2> QED
    BY <2>2, <2>3
<1>14. SessionFits(session', box', stopper')
  BY <1>1, <1>2, <1>7, <1>11, <1>13 DEF SessionFits
<1>15. ~InUse(session')
  BY <1>2, <1>11 DEF InUse
<1> QED
  BY <1>1, <1>2, <1>11, <1>12, <1>13, <1>14, <1>15, QuietStep

\* The two requests of a start.
LEMMA AskSteps ==
    ASSUME RecordingInv, TakeFrame \/ AskEncoded
    PROVE  RecordingInv'
<1> USE ShowcaseAssumption
<1>1. /\ SlotFits(box, work) /\ SessionFits(session, box, stopper) /\ session \in Sessions
      /\ source \in Sources /\ StatusFits(source.status) /\ stops \in {0, 1} /\ enc \in Encoders
      /\ source.status.latest >= source.status.latest /\ box \in Boxes(1 .. MaxFrames)
  BY InvParts, StatusStep DEF TasksFit, EncoderFits
<1>2. /\ UNCHANGED recorder /\ UNCHANGED revoked /\ UNCHANGED stops /\ UNCHANGED work
      /\ UNCHANGED source /\ stopper' = stopper /\ ~Refuses(box)
  BY DEF TakeFrame, AskEncoded, recorder
<1>3. session.since \in Nat
  BY <1>1 DEF Sessions
<1>4. PICK n \in Nat : n = Len(box.requests) + 1
  BY <1>1 DEF Boxes
<1>5. CASE TakeFrame
  <2>1. PICK f : f = source.status.latest
    OBVIOUS
  <2>2. /\ box' = Submit(box, f, session.since)
        /\ session' = [session EXCEPT !.frame = f, !.request = n, !.pc = "prepare"]
        /\ session.pc = "frame" /\ source.status.latest > session.fence
    BY <1>4, <1>5, <2>1 DEF TakeFrame
  <2>3. f \in 1 .. MaxFrames /\ f \in 0 .. MaxFrames
    <3>1. session.fence \in 0 .. MaxFrames /\ f \in 0 .. MaxFrames
      BY <1>1, <2>1 DEF Sessions, StatusFits, Statuses
    <3> QED
      BY <2>1, <2>2, <3>1
  <2>4. SlotFits(box', work') /\ Len(box'.requests) = Len(box.requests) + 1
    BY <1>1, <1>2, <1>3, <2>2, <2>3, SubmitFits
  <2>5. /\ session' \in Sessions /\ session'.pc = "prepare" /\ session'.request = n
        /\ session'.recorder = session.recorder /\ session'.recorderPending = session.recorderPending
        /\ session'.active = session.active /\ session'.wanted = session.wanted
        /\ session'.evidence = session.evidence
    BY <1>1, <2>2, <2>3 DEF Sessions, Calls
  <2>6. n # 0 /\ n \in 0 .. Len(box'.requests)
    BY <1>1, <1>4, <2>4, RequestOf DEF Boxes
  <2>7. SessionFits(session', box', stopper')
    BY <1>1, <1>2, <2>2, <2>5, <2>6 DEF SessionFits
  <2>8. InUse(session') <=> InUse(session)
    BY <2>5 DEF InUse
  <2> QED
    BY <1>1, <1>2, <2>4, <2>5, <2>7, <2>8, QuietStep
<1>6. CASE AskEncoded
  <2>1. /\ box' = Submit(box, enc.first, session.since)
        /\ session' = [session EXCEPT !.recorder = TRUE, !.recorderPending = FALSE,
                                      !.request = n, !.pc = "encoded"]
        /\ session.pc = "ready" /\ enc.first # 0
    BY <1>4, <1>6 DEF AskEncoded
  <2>2. enc.first \in 1 .. MaxFrames
    BY <1>1, <2>1 DEF Encoders
  <2>3. SlotFits(box', work') /\ Len(box'.requests) = Len(box.requests) + 1
    BY <1>1, <1>2, <1>3, <2>1, <2>2, SubmitFits
  <2>4. /\ session' \in Sessions /\ session'.pc = "encoded" /\ session'.request = n
        /\ session'.recorder /\ ~session'.recorderPending
        /\ session'.active = session.active /\ session'.wanted = session.wanted
        /\ session'.evidence = session.evidence
    BY <1>1, <2>1 DEF Sessions, Calls
  <2>5. n # 0 /\ n \in 0 .. Len(box'.requests)
    BY <1>1, <1>4, <2>3 DEF Boxes
  <2>6. stopper = "open" /\ session.recorderPending
    BY <1>1, <2>1 DEF SessionFits
  <2>7. SessionFits(session', box', stopper')
    BY <1>2, <2>4, <2>5, <2>6 DEF SessionFits
  <2>8. InUse(session') /\ InUse(session)
    BY <2>4, <2>6 DEF InUse
  <2> QED
    BY <1>1, <1>2, <2>3, <2>4, <2>7, <2>8, QuietStep
<1> QED
  BY <1>5, <1>6

\* The ends of the two validations that leave the recorder as it is.
LEMMA AnswerSteps ==
    ASSUME RecordingInv, PreparationFails \/ Activated
    PROVE  RecordingInv'
<1> USE ShowcaseAssumption
<1>1. /\ SlotFits(box, work) /\ SessionFits(session, box, stopper) /\ session \in Sessions
      /\ source \in Sources
  BY InvParts
<1>2. /\ UNCHANGED recorder /\ UNCHANGED revoked /\ UNCHANGED stops /\ UNCHANGED work
      /\ stopper' = stopper
  BY DEF PreparationFails, Activated, recorder
<1>3. session.request \in 1 .. Len(box.requests)
  BY <1>1 DEF SessionFits, PreparationFails, Activated
<1>4. SlotFits(box', work') /\ Len(box'.requests) = Len(box.requests)
  <2>1. box' \in {CloseFailed(box, session.request, FALSE), AfterAnswer(box, session.request)}
    BY DEF PreparationFails, Activated, Abandon
  <2>2. SlotFits(AfterAnswer(box, session.request), work)
        /\ Len(AfterAnswer(box, session.request).requests) = Len(box.requests)
    BY <1>1, <1>3, AfterAnswerFits
  <2>3. SlotFits(CloseFailed(box, session.request, FALSE), work)
        /\ Len(CloseFailed(box, session.request, FALSE).requests) = Len(box.requests)
    BY <1>1, <1>3, CloseFits
  <2> QED
    BY <1>2, <2>1, <2>2, <2>3
<1>5. CASE PreparationFails
  <2>1. FailStart(session)
    BY <1>5 DEF PreparationFails
  <2>2. /\ session' \in Sessions /\ session'.request = 0 /\ session'.pc \in {"idle", "unlive"}
        /\ session'.recorder = session.recorder /\ session'.recorderPending = session.recorderPending
        /\ session'.active = session.active /\ session'.wanted = session.wanted
        /\ session'.evidence = (IF session.evidence = "none" THEN "failed" ELSE session.evidence)
        /\ source' \in Sources /\ source'.status = source.status
    BY <1>1, <2>1, FailedStart
  <2> QED
    BY <1>1, <1>2, <1>4, <2>2, BackToIdle
<1>6. CASE Activated
  <2>1. /\ session' = [session EXCEPT !.request = 0, !.active = TRUE, !.evidence = "none",
                                      !.frame = 0, !.fence = 0, !.pc = "idle"]
        /\ source' = source /\ session.pc = "encoded"
    BY <1>6 DEF Activated
  <2>2. "none" \in Evidence /\ 0 \in 0 .. MaxFrames /\ "idle" \in Calls
    BY DEF Evidence, Calls
  <2>3. /\ session' \in Sessions /\ session'.request = 0 /\ session'.pc = "idle"
        /\ session'.recorder = session.recorder /\ session'.recorderPending = session.recorderPending
        /\ session'.wanted = session.wanted /\ session'.evidence = "none"
    BY <1>1, <2>1, <2>2 DEF Sessions
  <2>4. session.recorder /\ 0 \in 0 .. Len(box'.requests)
    BY <1>1, <1>3, <1>4, <2>1 DEF SessionFits
  <2>5. SessionFits(session', box', stopper')
    BY <1>1, <1>2, <2>3, <2>4 DEF SessionFits
  <2>6. InUse(session') <=> InUse(session)
    BY <2>3 DEF InUse
  <2>7. /\ StatusFits(source'.status) /\ source'.status.latest >= source.status.latest
        /\ stops' \in {0, 1}
    BY <1>2, <2>1, InvParts, StatusStep
  <2> QED
    BY <1>1, <1>2, <1>4, <2>1, <2>3, <2>5, <2>6, <2>7, QuietStep
<1> QED
  BY <1>5, <1>6

(***************************************************************************)
(* The calls of the session that start, stop or give back the recorder.    *)
(***************************************************************************)
\* The stop request reaches the tasks, or its sender is gone.
LEMMA StopperMoves ==
    ASSUME TasksFit, UNCHANGED <<shown, prod, chan, ack, enc, media, public, revoked>>,
           stopper = "open" \/ stopper' = stopper
    PROVE  TasksFit'
<1>1. LeavingSaw'
  BY DEF TasksFit, LeavingSaw
<1>2. Ended'
  BY DEF TasksFit, Ended
<1> QED
  BY <1>1, <1>2 DEF TasksFit, EncoderFits, Finalized, SegmentsFit

\* finalize_owned_recording_video begins: the frame to keep is one the
\* producer was shown.
LEMMA FinalizingStep ==
    ASSUME RecordingInv, UNCHANGED <<shown, prod, chan, ack, enc, media, public, revoked, stops, source>>,
           session' = Finalizing(session), stopper' = "sent", stopper = "open", InUse(session),
           SlotFits(box', work'), Len(box'.requests) = Len(box.requests)
    PROVE  RecordingInv'
<1> USE ShowcaseAssumption
<1>1. /\ SessionFits(session, box, stopper) /\ session \in Sessions /\ WatchFits /\ TasksFit
      /\ SlotFits(box, work)
  BY InvParts
<1>2. TasksFit'
  BY <1>1, StopperMoves
<1>3. PICK w : w = Wanted
  OBVIOUS
<1>4. w \in 0 .. MaxFrames /\ w <= shown.status.latest
  <2>1. shown.status.latest \in 0 .. MaxFrames
    BY <1>1 DEF WatchFits, Statuses
  <2> QED
    BY <1>3, <2>1 DEF Wanted
<1>5. session' = [session EXCEPT !.active = FALSE, !.recorder = FALSE, !.recorderPending = TRUE,
                     !.evidence = "unknown", !.request = 0, !.pc = "drain", !.frame = 0, !.fence = 0,
                     !.wanted = w]
  BY <1>3 DEF Finalizing
<1>6. "unknown" \in Evidence /\ 0 \in 0 .. MaxFrames /\ "drain" \in Calls
  BY DEF Evidence, Calls
<1>7. /\ session' \in Sessions /\ session'.request = 0 /\ session'.pc = "drain"
      /\ ~session'.recorder /\ session'.recorderPending /\ ~session'.active /\ session'.wanted = w
  <2>1. PICK a : a = [session EXCEPT !.active = FALSE, !.recorder = FALSE, !.recorderPending = TRUE,
                                     !.evidence = "unknown"]
    OBVIOUS
  <2>2. a \in Sessions /\ ~a.recorder /\ a.recorderPending /\ ~a.active
    BY <1>1, <1>6, <2>1 DEF Sessions
  <2>3. session' = [a EXCEPT !.request = 0, !.pc = "drain", !.frame = 0, !.fence = 0, !.wanted = w]
    BY <1>5, <2>1
  <2>4. PICK c : c = [a EXCEPT !.request = 0, !.pc = "drain", !.frame = 0]
    OBVIOUS
  <2>5. /\ c \in Sessions /\ c.request = 0 /\ c.pc = "drain" /\ c.recorder = a.recorder
        /\ c.recorderPending = a.recorderPending /\ c.active = a.active
    BY <1>6, <2>2, <2>4 DEF Sessions
  <2>6. session' = [c EXCEPT !.fence = 0, !.wanted = w]
    BY <2>3, <2>4
  <2>7. /\ session' \in Sessions /\ session'.request = c.request /\ session'.pc = c.pc
        /\ session'.recorder = c.recorder /\ session'.recorderPending = c.recorderPending
        /\ session'.active = c.active /\ session'.wanted = w
    BY <1>4, <1>6, <2>5, <2>6 DEF Sessions
  <2> QED
    BY <2>2, <2>5, <2>7
<1>8. SessionFits(session', box', stopper')
  <2>1. 0 \in 0 .. Len(box'.requests)
    BY <1>1, RequestOf DEF SlotFits
  <2> QED
    BY <1>7, <2>1 DEF SessionFits
<1>9. InUse(session') /\ InUse(session')
  BY <1>7 DEF InUse
<1>10. WatchFits'
  <2>1. prod.leaving => shown.status = prod.seen
    BY <1>1 DEF TasksFit, LeavingSaw
  <2>2. /\ source' \in Sources /\ shown' \in [status : Statuses, open : BOOLEAN]
        /\ StatusFits(source'.status) /\ StatusFits(shown'.status) /\ stops' \in {0, 1}
    BY <1>1 DEF WatchFits
  <2>3. shown.open => shown.status.latest <= source.status.latest
    BY <1>1 DEF WatchFits
  <2> QED
    BY <1>4, <1>7, <2>1, <2>2, <2>3 DEF WatchFits
<1>11. RecorderOwned' /\ RecordedInFull'
  BY <1>7, <1>9 DEF RecorderOwned, RecordedInFull
<1> QED
  BY <1>2, <1>8, <1>10, <1>11 DEF RecordingInv

\* The recorder is refused, or stopped.
LEMMA FinalizeSteps ==
    ASSUME RecordingInv, RefuseEncoded \/ EncodedFails \/ RecordingStop
    PROVE  RecordingInv'
<1>1. SlotFits(box, work) /\ SessionFits(session, box, stopper) /\ session \in Sessions
  BY InvParts
<1>2. /\ UNCHANGED <<shown, prod, chan, ack, enc, media, public, revoked, stops, source>>
      /\ session' = Finalizing(session) /\ stopper' = "sent" /\ UNCHANGED work
  BY DEF RefuseEncoded, EncodedFails, RecordingStop
<1>3. stopper = "open" /\ InUse(session)
  BY <1>1 DEF SessionFits, RefuseEncoded, EncodedFails, RecordingStop, InUse
<1>4. SlotFits(box', work') /\ Len(box'.requests) = Len(box.requests)
  <2>1. CASE RefuseEncoded \/ RecordingStop
    BY <1>1, <1>2, <2>1 DEF RefuseEncoded, RecordingStop
  <2>2. CASE EncodedFails
    <3>1. session.request \in 1 .. Len(box.requests)
      BY <1>1, <2>2 DEF SessionFits, EncodedFails
    <3>2. box' \in {CloseFailed(box, session.request, FALSE), AfterAnswer(box, session.request)}
      BY <2>2 DEF EncodedFails, Abandon
    <3>3. SlotFits(AfterAnswer(box, session.request), work)
          /\ Len(AfterAnswer(box, session.request).requests) = Len(box.requests)
      BY <1>1, <3>1, AfterAnswerFits
    <3>4. SlotFits(CloseFailed(box, session.request, FALSE), work)
          /\ Len(CloseFailed(box, session.request, FALSE).requests) = Len(box.requests)
      BY <1>1, <3>1, CloseFits
    <3> QED
      BY <1>2, <3>2, <3>3, <3>4
  <2> QED
    BY <2>1, <2>2
<1> QED
  BY <1>2, <1>3, <1>4, FinalizingStep

\* The future of a call is dropped.
LEMMA DroppedStep ==
    ASSUME RecordingInv, Dropped
    PROVE  RecordingInv'
<1> USE ShowcaseAssumption
<1>1. /\ SlotFits(box, work) /\ SessionFits(session, box, stopper) /\ session \in Sessions
      /\ source \in Sources /\ WatchFits /\ TasksFit /\ RecorderOwned /\ RecordedInFull
  BY InvParts
<1>2. /\ UNCHANGED <<shown, prod, chan, ack, enc, media, public, revoked, stops, work>>
      /\ session' = [session EXCEPT !.pc = "idle", !.request = 0, !.frame = 0, !.fence = 0]
      /\ stopper' = IF session.pc = "ready" THEN "dropped" ELSE stopper
      /\ box' = IF session.request # 0 THEN Abandon(box, session.request) ELSE box
  BY DEF Dropped
<1>3. PICK d \in BOOLEAN : source' = [source EXCEPT !.shutdown = d]
  <2>1. PICK d \in BOOLEAN : d = (source.shutdown \/ session.pc = "first")
    BY <1>1 DEF Sources
  <2> QED
    BY <2>1 DEF Dropped
<1>4. source' \in Sources /\ source'.status = source.status
  BY <1>1, <1>3, AskedSource
<1>5. SlotFits(box', work') /\ Len(box'.requests) = Len(box.requests)
  <2>1. session.request \in 0 .. Len(box.requests)
    BY <1>1 DEF SessionFits
  <2>2. CASE session.request = 0
    BY <1>1, <1>2, <2>2
  <2>3. CASE session.request # 0
    <3>1. session.request \in 1 .. Len(box.requests)
      BY <2>1, <2>3
    <3>2. box' = CloseFailed(box, session.request, FALSE)
      BY <1>2, <2>3 DEF Abandon
    <3> QED
      BY <1>1, <1>2, <3>1, <3>2, CloseFits
  <2> QED
    BY <2>2, <2>3
<1>6. "idle" \in Calls /\ 0 \in 0 .. MaxFrames /\ 0 \in 0 .. Len(box'.requests)
  BY <1>5, RequestOf DEF Calls, SlotFits
<1>7. /\ session' \in Sessions /\ session'.request = 0 /\ session'.pc = "idle"
      /\ session'.recorder = session.recorder /\ session'.recorderPending = session.recorderPending
      /\ session'.active = session.active /\ session'.wanted = session.wanted
      /\ session'.evidence = session.evidence
  BY <1>1, <1>2, <1>6 DEF Sessions
<1>8. stopper = "open" \/ stopper' = stopper
  BY <1>1, <1>2 DEF SessionFits
<1>9. TasksFit'
  BY <1>1, <1>2, <1>8, StopperMoves
<1>10. SessionFits(session', box', stopper')
  BY <1>1, <1>2, <1>6, <1>7 DEF SessionFits
<1>11. (InUse(session') <=> InUse(session)) /\ (stopper' = "sent" => stopper = "sent")
  BY <1>2, <1>7 DEF InUse
<1>12. WatchFits'
  BY <1>1, <1>2, <1>4, <1>7, <1>11 DEF WatchFits
<1>13. RecorderOwned' /\ RecordedInFull'
  BY <1>1, <1>2, <1>7, <1>11 DEF RecorderOwned, RecordedInFull, Joined
<1> QED
  BY <1>5, <1>9, <1>10, <1>12, <1>13 DEF RecordingInv

\* Both tasks are joined: what the stop reports as finalized is complete.
LEMMA DrainedStep ==
    ASSUME RecordingInv, Drained
    PROVE  RecordingInv'
<1> USE ShowcaseAssumption
<1>1. /\ SlotFits(box, work) /\ SessionFits(session, box, stopper) /\ session \in Sessions
      /\ source \in Sources /\ WatchFits /\ TasksFit /\ StatusFits(source.status) /\ stops \in {0, 1}
  BY InvParts
<1>2. /\ UNCHANGED recorder /\ UNCHANGED revoked /\ UNCHANGED stops /\ UNCHANGED work /\ UNCHANGED box
      /\ UNCHANGED <<shown, prod, chan, ack, enc, media, public, stopper>>
      /\ session.pc = "drain" /\ Joined
  BY DEF Drained, recorder
<1>3. PICK o : o = StopOutcome
  OBVIOUS
<1>4. o \in Evidence /\ o = public.outcome
  BY <1>1, <1>3 DEF TasksFit, EncoderFits, Publics, StopOutcome, Evidence
<1>5. PICK i \in BOOLEAN : i = (session.issue \/ o # "finalized")
  BY <1>1 DEF Sessions
<1>6. PICK t : t = [session EXCEPT !.recorderPending = FALSE, !.evidence = o, !.issue = i]
  OBVIOUS
<1>7. /\ t \in Sessions /\ ~t.recorderPending /\ t.evidence = o /\ t.recorder = session.recorder
      /\ t.request = session.request /\ t.active = session.active /\ t.wanted = session.wanted
  BY <1>1, <1>4, <1>6 DEF Sessions
<1>8. /\ session' \in Sessions /\ session'.pc \in {"idle", "unlive"} /\ session'.evidence = o
      /\ ~session'.recorderPending /\ session'.recorder = session.recorder
      /\ session'.request = session.request /\ session'.active = session.active
      /\ session'.wanted = session.wanted
      /\ source' \in Sources /\ source'.status = source.status
  <2>1. CASE session.owns /\ session.live
    <3>1. /\ session' = [t EXCEPT !.live = FALSE, !.sourcePending = TRUE, !.pc = "unlive"]
          /\ source' = [source EXCEPT !.shutdown = TRUE]
      BY <1>3, <1>5, <1>6, <2>1 DEF Drained
    <3>2. source' \in Sources /\ source'.status = source.status
      BY <1>1, <3>1, AskedSource
    <3>3. "unlive" \in Calls
      BY DEF Calls
    <3> QED
      BY <1>7, <3>1, <3>2, <3>3 DEF Sessions
  <2>2. CASE ~(session.owns /\ session.live)
    <3>1. session' = [t EXCEPT !.pc = "idle"] /\ source' = source
      BY <1>3, <1>5, <1>6, <2>2 DEF Drained
    <3>2. "idle" \in Calls
      BY DEF Calls
    <3> QED
      BY <1>1, <1>7, <3>1, <3>2 DEF Sessions
  <2> QED
    BY <2>1, <2>2
<1>9. stopper = "sent" /\ session.request = 0 /\ ~session.recorder /\ session.recorderPending
  BY <1>1, <1>2 DEF SessionFits
<1>10. SessionFits(session', box', stopper')
  BY <1>1, <1>2, <1>8, <1>9 DEF SessionFits
<1>11. ~InUse(session') /\ InUse(session)
  BY <1>8, <1>9 DEF InUse
<1>12. TasksFit'
  BY <1>1, <1>2, TasksUntouched
<1>13. WatchFits'
  BY <1>1, <1>2, <1>8, <1>11 DEF WatchFits
<1>14. ASSUME o = "finalized"
       PROVE  /\ Joined /\ media.partial = 0 /\ media.manifest = media.finished
              /\ (~revoked /\ session.wanted > prod.applied => enc.last >= session.wanted)
  <2>1. Finalized /\ Ended /\ ProducerFits(prod) /\ enc \in Encoders
    BY <1>1 DEF TasksFit, EncoderFits
  <2>2. /\ enc.pc = "done" /\ prod.fwd # 0 /\ media.partial = 0 /\ media.manifest = media.finished
        /\ (~revoked => prod.pc = "ended" /\ prod.fwd <= enc.last)
    BY <1>4, <1>14, <2>1 DEF Finalized
  <2>3. ~revoked =>
          prod.leaving /\ (prod.fwd >= prod.seen.latest \/ prod.applied >= prod.seen.latest)
    BY <1>4, <1>9, <1>14, <2>1, <2>2 DEF Ended
  <2>4. prod.leaving => session.wanted <= prod.seen.latest
    BY <1>1, <1>9, <1>11 DEF WatchFits
  <2>5. /\ prod.fwd \in Int /\ prod.applied \in Int /\ prod.seen.latest \in Int /\ enc.last \in Int
        /\ session.wanted \in Int
    BY <1>1, <2>1 DEF ProducerFits, Producers, Statuses, Encoders, Sessions
  <2> QED
    BY <1>2, <2>2, <2>3, <2>4, <2>5
<1>15. RecordedInFull'
  BY <1>2, <1>8, <1>14 DEF RecordedInFull, Joined
<1>16. RecorderOwned'
  BY <1>2 DEF RecorderOwned, Joined
<1> QED
  BY <1>1, <1>2, <1>10, <1>12, <1>13, <1>15, <1>16 DEF RecordingInv

\* A recorder is started: two fresh tasks, an empty channel, no segment.
LEMMA FreshTasks ==
    ASSUME revoked' \in BOOLEAN, prod' = [NoProducer EXCEPT !.pc = "read"],
           enc' = [NoEncoder EXCEPT !.pc = "first"], chan' = <<>>, ack' = "none",
           media' = NoMedia, public' = NoPublic, stopper' = "open"
    PROVE  TasksFit'
<1> USE ShowcaseAssumption
<1>1. FreshStatus \in Statuses
  BY DEF FreshStatus, Statuses
<1>2. PICK z \in 0 .. MaxFrames : z = 0
  OBVIOUS
<1>3. NoProducer \in Producers
  <2>1. NoProducer = [pc |-> "off", seen |-> FreshStatus, fwd |-> z, applied |-> z, paused |-> FALSE,
                      plan |-> <<>>, leaving |-> FALSE]
    BY <1>2 DEF NoProducer
  <2>2. <<>> \in Plans
    BY DEF Plans
  <2> QED
    BY <1>1, <2>1, <2>2 DEF Producers
<1>4. /\ prod' \in Producers /\ prod'.pc = "read" /\ ~prod'.paused /\ ~prod'.leaving /\ prod'.fwd = 0
  <2>1. ~NoProducer.paused /\ ~NoProducer.leaving /\ NoProducer.fwd = 0
    BY DEF NoProducer
  <2> QED
    BY <1>3, <2>1 DEF Producers
<1>5. enc' \in Encoders /\ enc'.pc = "first" /\ enc'.last = 0
  <2>1. NoEncoder \in Encoders /\ NoEncoder.last = 0
    BY <1>2 DEF NoEncoder, Encoders
  <2> QED
    BY <2>1 DEF Encoders
<1>6. media' \in Medias /\ media'.partial = 0
  BY DEF NoMedia, Medias
<1>7. public' \in Publics /\ public'.outcome = "none"
  BY DEF NoPublic, Publics
<1>8. ProducerFits(prod')
  BY <1>4 DEF ProducerFits
<1>9. ChannelFits(chan', ack', prod')
  BY <1>4 DEF ChannelFits
<1>10. Delivered(chan', enc'.last, prod'.fwd)
  BY <1>4, <1>5 DEF Delivered
<1>11. EncoderFits'
  BY <1>4, <1>5, <1>6, <1>7, <1>10 DEF EncoderFits
<1>12. Finalized' /\ Ended' /\ LeavingSaw' /\ SegmentsFit'
  BY <1>4, <1>5, <1>7 DEF Finalized, Ended, LeavingSaw, SegmentsFit
<1> QED
  BY <1>8, <1>9, <1>11, <1>12 DEF TasksFit

\* The first validation succeeds, and the recorder is started.
LEMMA PreparedStep ==
    ASSUME RecordingInv, Prepared
    PROVE  RecordingInv'
<1>1. /\ SlotFits(box, work) /\ SessionFits(session, box, stopper) /\ session \in Sessions
      /\ source \in Sources /\ WatchFits /\ TasksFit /\ StatusFits(source.status) /\ stops \in {0, 1}
  BY InvParts
<1>2. /\ UNCHANGED <<source, revoked, work, stops>> /\ box' = AfterAnswer(box, session.request)
      /\ session.pc = "prepare" /\ Spawned
  BY DEF Prepared
<1>3. TasksFit'
  <2>1. revoked' \in BOOLEAN
    BY <1>1, <1>2 DEF TasksFit, EncoderFits
  <2> QED
    BY <1>2, <2>1, FreshTasks DEF Spawned
<1>4. session.request \in 1 .. Len(box.requests) /\ ~session.recorder
  BY <1>1, <1>2 DEF SessionFits
<1>5. SlotFits(box', work') /\ Len(box'.requests) = Len(box.requests)
  BY <1>1, <1>2, <1>4, AfterAnswerFits
<1>6. PICK e : e = IF session.evidence = "none" THEN "unknown" ELSE session.evidence
  OBVIOUS
<1>7. e \in Evidence /\ "ready" \in Calls
  BY <1>1, <1>6 DEF Sessions, Evidence, Calls
<1>8. session' = [session EXCEPT !.request = 0, !.pc = "ready", !.recorderPending = TRUE, !.evidence = e]
  BY <1>6 DEF Prepared
<1>9. /\ session' \in Sessions /\ session'.request = 0 /\ session'.pc = "ready"
      /\ session'.recorder = session.recorder /\ session'.recorderPending
      /\ session'.active = session.active
  BY <1>1, <1>7, <1>8 DEF Sessions
<1>10. stopper' = "open" /\ 0 \in 0 .. Len(box'.requests)
  BY <1>2, <1>4, <1>5 DEF Spawned
<1>11. SessionFits(session', box', stopper')
  BY <1>1, <1>4, <1>9, <1>10 DEF SessionFits
<1>12. WatchFits'
  <2>1. shown' = [status |-> source.status, open |-> TRUE]
    BY <1>2 DEF Spawned
  <2>2. source.status \in Statuses /\ source.status.latest <= source.status.latest
    BY <1>1, StatusStep DEF StatusFits, Statuses
  <2>3. shown' \in [status : Statuses, open : BOOLEAN] /\ shown'.status = source.status
    BY <2>1, <2>2
  <2> QED
    BY <1>1, <1>2, <1>10, <2>2, <2>3 DEF WatchFits
<1>13. RecorderOwned' /\ RecordedInFull'
  BY <1>9 DEF RecorderOwned, RecordedInFull, InUse
<1> QED
  BY <1>3, <1>5, <1>11, <1>12, <1>13 DEF RecordingInv

\* The encoder ended before its first frame: both tasks are joined.
LEMMA StartupFailsStep ==
    ASSUME RecordingInv, StartupFails
    PROVE  RecordingInv'
<1>1. /\ SlotFits(box, work) /\ SessionFits(session, box, stopper) /\ session \in Sessions
      /\ source \in Sources /\ WatchFits /\ TasksFit /\ StatusFits(source.status) /\ stops \in {0, 1}
      /\ ProducerFits(prod) /\ ChannelFits(chan, ack, prod) /\ EncoderFits /\ Finalized /\ LeavingSaw
  BY InvParts DEF TasksFit
<1>2. /\ UNCHANGED <<shown, chan, ack, enc, media, public, stopper, revoked, box, work, stops>>
      /\ session.pc = "ready" /\ enc.first = 0 /\ enc.pc = "done"
      /\ prod' = [prod EXCEPT !.pc = "ended", !.plan = <<>>]
  BY DEF StartupFails, ProducerEnds
<1>3. PICK s : s = [session EXCEPT !.recorderPending = FALSE, !.evidence = "failed"]
  OBVIOUS
<1>4. /\ s \in Sessions /\ ~s.recorderPending /\ s.evidence = "failed" /\ s.recorder = session.recorder
      /\ s.active = session.active /\ s.wanted = session.wanted
  BY <1>1, <1>3 DEF Sessions, Evidence
<1>5. FailStart(s)
  BY <1>3 DEF StartupFails
<1>6. /\ session' \in Sessions /\ session'.request = 0 /\ session'.pc \in {"idle", "unlive"}
      /\ session'.recorder = session.recorder /\ ~session'.recorderPending
      /\ session'.active = session.active /\ session'.evidence = "failed"
      /\ source' \in Sources /\ source'.status = source.status
  BY <1>1, <1>4, <1>5, FailedStart
<1>7. ~session.recorder /\ stopper = "open" /\ 0 \in 0 .. Len(box.requests)
  BY <1>1, <1>2, RequestOf DEF SessionFits, SlotFits
<1>8. SessionFits(session', box', stopper')
  BY <1>1, <1>2, <1>6, <1>7 DEF SessionFits
<1>9. /\ prod' \in Producers /\ prod'.pc = "ended" /\ prod'.paused = prod.paused
      /\ prod'.fwd = prod.fwd /\ prod'.leaving = prod.leaving /\ prod'.seen = prod.seen
  <2>1. prod \in Producers /\ <<>> \in Plans
    BY <1>1 DEF ProducerFits, Plans
  <2> QED
    BY <1>2, <2>1 DEF Producers
<1>10. ProducerFits(prod')
  BY <1>1, <1>9 DEF ProducerFits
<1>11. ack # "waiting"
  BY <1>1, <1>2 DEF EncoderFits
<1>12. ChannelFits(chan', ack', prod')
  BY <1>1, <1>2, <1>9, <1>11 DEF ChannelFits
<1>13. EncoderFits'
  BY <1>1, <1>2, <1>9, <1>11 DEF EncoderFits
<1>14. public.outcome # "finalized"
  BY <1>1, <1>2 DEF Finalized
<1>15. Finalized' /\ Ended' /\ LeavingSaw' /\ SegmentsFit'
  BY <1>1, <1>2, <1>9, <1>14 DEF Finalized, Ended, LeavingSaw, SegmentsFit
<1>16. TasksFit'
  BY <1>10, <1>12, <1>13, <1>15 DEF TasksFit
<1>17. ~InUse(session') /\ Joined'
  BY <1>2, <1>6, <1>7, <1>9 DEF InUse, Joined
<1>18. WatchFits'
  BY <1>1, <1>2, <1>6, <1>17 DEF WatchFits
<1>19. RecorderOwned' /\ RecordedInFull'
  BY <1>6, <1>17 DEF RecorderOwned, RecordedInFull
<1> QED
  BY <1>1, <1>2, <1>8, <1>16, <1>18, <1>19 DEF RecordingInv

(***************************************************************************)
(* The tasks.                                                              *)
(***************************************************************************)
\* The relay of the status, and the end of the authorization.
LEMMA RelaySteps ==
    ASSUME RecordingInv, Own, RelayCopies \/ RelayEnds \/ Revoke
    PROVE  RecordingInv'
<1>1. /\ SlotFits(box, work) /\ SessionFits(session, box, stopper)
      /\ source \in Sources /\ WatchFits /\ TasksFit /\ StatusFits(source.status)
      /\ RecorderOwned /\ RecordedInFull
  BY InvParts
<1>2. /\ UNCHANGED <<source, prod, chan, ack, enc, media, public, stopper>>
      /\ UNCHANGED <<box, session, work, stops>>
  BY DEF RelayCopies, RelayEnds, Revoke, Own
<1>3. CASE RelayCopies
  <2>1. shown.open /\ shown' = [shown EXCEPT !.status = source.status] /\ UNCHANGED revoked
    BY <1>3 DEF RelayCopies
  <2>2. /\ shown' \in [status : Statuses, open : BOOLEAN] /\ shown'.status = source.status
        /\ shown.status.latest \in Int /\ source.status.latest \in Int
    BY <1>1, <2>1 DEF WatchFits, StatusFits, Statuses
  <2>3. LeavingSaw'
    BY <1>1, <1>2, <2>1 DEF TasksFit, LeavingSaw
  <2>4. TasksFit'
    BY <1>1, <1>2, <2>1, <2>3 DEF TasksFit, EncoderFits, Finalized, Ended, SegmentsFit
  <2>5. InUse(session) /\ stopper = "sent" => session.wanted <= source.status.latest
    <3>1. session.wanted \in Int
      BY <1>1 DEF SessionFits, Sessions
    <3> QED
      BY <1>1, <2>1, <2>2, <3>1 DEF WatchFits
  <2>6. WatchFits'
    BY <1>1, <1>2, <2>2, <2>5 DEF WatchFits
  <2>7. RecorderOwned' /\ RecordedInFull'
    BY <1>1, <1>2, <2>1 DEF RecorderOwned, RecordedInFull, Joined
  <2> QED
    BY <1>1, <1>2, <2>4, <2>6, <2>7 DEF RecordingInv
<1>4. CASE RelayEnds
  <2>1. shown.open /\ shown' = [shown EXCEPT !.open = FALSE] /\ UNCHANGED revoked
    BY <1>4 DEF RelayEnds
  <2>2. /\ shown' \in [status : Statuses, open : BOOLEAN] /\ shown'.status = shown.status
        /\ ~shown'.open
    BY <1>1, <2>1 DEF WatchFits
  <2>3. LeavingSaw'
    BY <1>1, <1>2, <2>1 DEF TasksFit, LeavingSaw
  <2>4. TasksFit'
    BY <1>1, <1>2, <2>1, <2>3 DEF TasksFit, EncoderFits, Finalized, Ended, SegmentsFit
  <2>5. WatchFits'
    BY <1>1, <1>2, <2>2 DEF WatchFits
  <2>6. RecorderOwned' /\ RecordedInFull'
    BY <1>1, <1>2, <2>1 DEF RecorderOwned, RecordedInFull, Joined
  <2> QED
    BY <1>1, <1>2, <2>4, <2>5, <2>6 DEF RecordingInv
<1>5. CASE Revoke
  <2>1. revoked' = TRUE /\ UNCHANGED shown
    BY <1>5 DEF Revoke
  <2>2. TasksFit'
    BY <1>1, <1>2, <2>1 DEF TasksFit, EncoderFits, Finalized, Ended, SegmentsFit, LeavingSaw
  <2>3. WatchFits'
    BY <1>1, <1>2, <2>1 DEF WatchFits
  <2>4. RecorderOwned' /\ RecordedInFull'
    BY <1>1, <1>2, <2>1 DEF RecorderOwned, RecordedInFull, Joined
  <2> QED
    BY <1>1, <1>2, <2>2, <2>3, <2>4 DEF RecordingInv
<1> QED
  BY <1>3, <1>4, <1>5

\* A step of a task that runs: its recorder is in use.
LEMMA TaskStep ==
    ASSUME RecordingInv, Own, UNCHANGED <<source, shown, stopper>>, ~Joined, TasksFit',
           InUse(session) /\ stopper = "sent" /\ prod'.leaving => session.wanted <= prod'.seen.latest
    PROVE  RecordingInv'
<1>1. /\ SlotFits(box, work) /\ SessionFits(session, box, stopper) /\ WatchFits /\ RecorderOwned
  BY InvParts
<1>2. UNCHANGED <<box, session, work, stops>>
  BY DEF Own
<1>3. InUse(session)
  BY <1>1 DEF RecorderOwned
<1>4. WatchFits'
  BY <1>1, <1>2 DEF WatchFits
<1>5. RecorderOwned' /\ RecordedInFull'
  BY <1>2, <1>3 DEF RecorderOwned, RecordedInFull, InUse
<1> QED
  BY <1>1, <1>2, <1>4, <1>5 DEF RecordingInv

\* The short sequences a plan is made of.
LEMMA ShortPlans ==
    /\ <<"frame">> \o <<"boundary">> = <<"frame", "boundary">>
    /\ <<>> \o <<"boundary">> = <<"boundary">>
    /\ <<"boundary">> \o <<"resumed">> = <<"boundary", "resumed">>
    /\ <<"boundary">> \o <<>> = <<"boundary">>
    /\ <<>> \o <<"resumed">> = <<"resumed">>
    /\ <<>> \o <<>> = <<>>
<1>0. ASSUME NEW x, NEW y
      PROVE  <<x>> \o <<y>> = <<x, y>>
  <2>1. PICK s : s = <<x>>
    OBVIOUS
  <2>2. PICK t : t = <<y>>
    OBVIOUS
  <2>3. s \in Seq({x, y}) /\ Len(s) = 1 /\ s[1] = x
    BY <2>1
  <2>4. t \in Seq({x, y}) /\ Len(t) = 1 /\ t[1] = y
    BY <2>2
  <2>5. PICK S : S = {x, y}
    OBVIOUS
  <2>6. ASSUME NEW a \in Seq(S), NEW b \in Seq(S), Len(a) = 1, Len(b) = 1
        PROVE  a \o b = <<a[1], b[1]>>
    <3>1. a \o b \in Seq(S) /\ Len(a \o b) = 2
      BY <2>6
    <3>2. (a \o b)[1] = a[1]
      BY <2>6
    <3>3. ASSUME NEW i \in 1 .. Len(b)
          PROVE  (a \o b)[Len(a) + i] = b[i]
      OBVIOUS
    <3>4. (a \o b)[2] = b[1]
      <4>1. 1 \in 1 .. Len(b) /\ Len(a) + 1 = 2
        BY <2>6
      <4>2. (a \o b)[Len(a) + 1] = b[1]
        BY <3>3, <4>1
      <4> QED
        BY <4>1, <4>2
    <3>5. ASSUME NEW u \in Seq(S), Len(u) = 2
          PROVE  u = <<u[1], u[2]>>
      BY <3>5
    <3> QED
      BY <3>1, <3>2, <3>4, <3>5
  <2> QED
    BY <2>1, <2>2, <2>3, <2>4, <2>5, <2>6
<1>1. <<"frame">> \o <<"boundary">> = <<"frame", "boundary">>
  BY <1>0
<1>2. <<>> \o <<"boundary">> = <<"boundary">>
  OBVIOUS
<1>3. <<"boundary">> \o <<"resumed">> = <<"boundary", "resumed">>
  BY <1>0
<1>4. <<"boundary">> \o <<>> = <<"boundary">>
  OBVIOUS
<1>5. <<>> \o <<"resumed">> = <<"resumed">>
  OBVIOUS
<1>6. <<>> \o <<>> = <<>>
  OBVIOUS
<1> QED
  BY <1>1, <1>2, <1>3, <1>4, <1>5, <1>6

\* Plans that differ in a place differ.
LEMMA PlansDiffer ==
    /\ <<>> # <<"try">>
    /\ <<>> # <<"frame">>
    /\ <<>> # <<"boundary">>
    /\ <<>> # <<"resumed">>
    /\ <<>> # <<"frame", "boundary">>
    /\ <<>> # <<"boundary", "resumed">>
    /\ <<"try">> # <<"frame">>
    /\ <<"try">> # <<"boundary">>
    /\ <<"try">> # <<"resumed">>
    /\ <<"try">> # <<"frame", "boundary">>
    /\ <<"try">> # <<"boundary", "resumed">>
    /\ <<"frame">> # <<"boundary">>
    /\ <<"frame">> # <<"resumed">>
    /\ <<"frame">> # <<"frame", "boundary">>
    /\ <<"frame">> # <<"boundary", "resumed">>
    /\ <<"boundary">> # <<"resumed">>
    /\ <<"boundary">> # <<"frame", "boundary">>
    /\ <<"boundary">> # <<"boundary", "resumed">>
    /\ <<"resumed">> # <<"frame", "boundary">>
    /\ <<"resumed">> # <<"boundary", "resumed">>
    /\ <<"frame", "boundary">> # <<"boundary", "resumed">>
<1>1. <<>> # <<"try">>
  OBVIOUS
<1>2. <<>> # <<"frame">>
  OBVIOUS
<1>3. <<>> # <<"boundary">>
  OBVIOUS
<1>4. <<>> # <<"resumed">>
  OBVIOUS
<1>5. <<>> # <<"frame", "boundary">>
  OBVIOUS
<1>6. <<>> # <<"boundary", "resumed">>
  OBVIOUS
<1>7. <<"try">> # <<"frame">>
  OBVIOUS
<1>8. <<"try">> # <<"boundary">>
  OBVIOUS
<1>9. <<"try">> # <<"resumed">>
  OBVIOUS
<1>10. <<"try">> # <<"frame", "boundary">>
  OBVIOUS
<1>11. <<"try">> # <<"boundary", "resumed">>
  OBVIOUS
<1>12. <<"frame">> # <<"boundary">>
  OBVIOUS
<1>13. <<"frame">> # <<"resumed">>
  OBVIOUS
<1>14. <<"frame">> # <<"frame", "boundary">>
  OBVIOUS
<1>15. <<"frame">> # <<"boundary", "resumed">>
  OBVIOUS
<1>16. <<"boundary">> # <<"resumed">>
  OBVIOUS
<1>17. <<"boundary">> # <<"frame", "boundary">>
  OBVIOUS
<1>18. <<"boundary">> # <<"boundary", "resumed">>
  OBVIOUS
<1>19. <<"resumed">> # <<"frame", "boundary">>
  OBVIOUS
<1>20. <<"resumed">> # <<"boundary", "resumed">>
  OBVIOUS
<1>21. <<"frame", "boundary">> # <<"boundary", "resumed">>
  OBVIOUS
<1> QED
  BY <1>1, <1>2, <1>3, <1>4, <1>5, <1>6, <1>7, <1>8, <1>9, <1>10, <1>11, <1>12, <1>13, <1>14, <1>15, <1>16, <1>17, <1>18, <1>19, <1>20, <1>21

\* What apply_status plans, case by case.
LEMMA PlanCases ==
    ASSUME NEW st, NEW p, NEW g \in BOOLEAN, st.paused \in BOOLEAN, p.paused \in BOOLEAN
    PROVE  /\ st.paused /\ p.paused => Plan(st, p, g) = <<>>
           /\ st.paused /\ ~p.paused /\ NewFrame(st, p) => Plan(st, p, g) = <<"frame", "boundary">>
           /\ st.paused /\ ~p.paused /\ ~NewFrame(st, p) => Plan(st, p, g) = <<"boundary">>
           /\ ~st.paused /\ p.paused /\ Resumes(st, p) => Plan(st, p, g) = <<"resumed">>
           /\ ~st.paused /\ p.paused /\ ~Resumes(st, p) => Plan(st, p, g) = <<>>
           /\ ~st.paused /\ ~p.paused /\ MissedPause(st, p) /\ Resumes(st, p) =>
                Plan(st, p, g) = <<"boundary", "resumed">>
           /\ ~st.paused /\ ~p.paused /\ MissedPause(st, p) /\ ~Resumes(st, p) =>
                Plan(st, p, g) = <<"boundary">>
           /\ ~st.paused /\ ~p.paused /\ ~MissedPause(st, p) /\ NewFrame(st, p) =>
                Plan(st, p, g) = IF g THEN <<"frame">> ELSE <<"try">>
           /\ ~st.paused /\ ~p.paused /\ ~MissedPause(st, p) /\ ~NewFrame(st, p) =>
                Plan(st, p, g) = <<>>
<1>1. PICK b : b = IF MissedPause(st, p) /\ ~p.paused THEN <<"boundary">> ELSE <<>>
  OBVIOUS
<1>2. PICK f : f = IF NewFrame(st, p) THEN <<IF g \/ st.paused THEN "frame" ELSE "try">> ELSE <<>>
  OBVIOUS
<1>3. PICK r : r = IF Resumes(st, p) THEN <<"resumed">> ELSE <<>>
  OBVIOUS
<1>4. Plan(st, p, g) = CASE st.paused /\ p.paused -> <<>>
                         [] st.paused /\ ~p.paused -> f \o <<"boundary">>
                         [] ~st.paused /\ PausedBefore(st, p) -> b \o r
                         [] OTHER -> f
  BY <1>1, <1>2, <1>3 DEF Plan
<1>5. /\ st.paused /\ p.paused => Plan(st, p, g) = <<>>
      /\ st.paused /\ ~p.paused => Plan(st, p, g) = f \o <<"boundary">>
      /\ ~st.paused /\ PausedBefore(st, p) => Plan(st, p, g) = b \o r
      /\ ~st.paused /\ ~PausedBefore(st, p) => Plan(st, p, g) = f
  BY <1>4
<1>6. /\ p.paused => PausedBefore(st, p)
      /\ ~p.paused => (PausedBefore(st, p) <=> MissedPause(st, p))
  BY DEF PausedBefore
<1> QED
  BY <1>1, <1>2, <1>3, <1>5, <1>6, ShortPlans

\* A status is read: the plan sends what the encoder still has to know.
LEMMA ReadFits ==
    ASSUME NEW p, ProducerFits(p), p.pc \in {"read", "wait"}, NEW st, StatusFits(st),
           ~NothingToRecord(st, p), NEW g \in BOOLEAN, NEW l \in BOOLEAN, l => g,
           NEW q, q = [p EXCEPT !.pc = "send", !.seen = st, !.leaving = l, !.plan = Plan(st, p, g)]
    PROVE  ProducerFits(q)
<1> USE ShowcaseAssumption
<1>1. /\ p \in Producers /\ (p.paused => p.fwd # 0)
      /\ p.paused \in BOOLEAN /\ p.fwd \in 0 .. MaxFrames /\ p.applied \in 0 .. MaxFrames
  BY DEF ProducerFits, Producers
<1>2. /\ st \in Statuses /\ st.paused \in BOOLEAN /\ st.latest \in 0 .. MaxFrames
      /\ st.fence \in 0 .. MaxFrames /\ (st.paused => st.fence >= st.latest)
  BY DEF StatusFits, Statuses
<1>3. PICK x : x = Plan(st, p, g)
  OBVIOUS
<1>4. /\ st.paused /\ p.paused => x = <<>>
      /\ st.paused /\ ~p.paused /\ NewFrame(st, p) => x = <<"frame", "boundary">>
      /\ st.paused /\ ~p.paused /\ ~NewFrame(st, p) => x = <<"boundary">>
      /\ ~st.paused /\ p.paused /\ Resumes(st, p) => x = <<"resumed">>
      /\ ~st.paused /\ p.paused /\ ~Resumes(st, p) => x = <<>>
      /\ ~st.paused /\ ~p.paused /\ MissedPause(st, p) /\ Resumes(st, p) => x = <<"boundary", "resumed">>
      /\ ~st.paused /\ ~p.paused /\ MissedPause(st, p) /\ ~Resumes(st, p) => x = <<"boundary">>
      /\ ~st.paused /\ ~p.paused /\ ~MissedPause(st, p) /\ NewFrame(st, p) =>
           x = IF g THEN <<"frame">> ELSE <<"try">>
      /\ ~st.paused /\ ~p.paused /\ ~MissedPause(st, p) /\ ~NewFrame(st, p) => x = <<>>
  BY <1>1, <1>2, <1>3, PlanCases
<1>5. x \in Plans
  BY <1>1, <1>2, <1>4 DEF Plans
<1>6. /\ q \in Producers /\ q.pc = "send" /\ q.seen = st /\ q.leaving = l /\ q.plan = x
      /\ q.fwd = p.fwd /\ q.paused = p.paused
  BY <1>1, <1>2, <1>3, <1>5 DEF Producers
<1>7. /\ NewFrame(st, p) <=> st.latest > p.fwd
      /\ MissedPause(st, p) => p.fwd # 0
      /\ Resumes(st, p) => st.latest > p.fwd
      /\ (p.paused \/ MissedPause(st, p)) /\ ~st.paused /\ ~Resumes(st, p) =>
            p.fwd >= st.latest \/ st.fence >= st.latest
      /\ st.paused /\ ~NewFrame(st, p) => p.fwd # 0
  BY <1>1, <1>2 DEF NewFrame, MissedPause, Resumes, PausedBefore, NothingToRecord
<1>8. q.plan \in IF q.seen.paused
                 THEN IF q.paused THEN {<<>>} ELSE {<<"frame", "boundary">>, <<"boundary">>}
                 ELSE IF q.paused THEN {<<>>, <<"resumed">>}
                      ELSE {<<>>, <<"try">>, <<"frame">>, <<"boundary">>, <<"boundary", "resumed">>}
  BY <1>1, <1>2, <1>4, <1>6
<1>9. q.plan \in {<<"boundary">>, <<"boundary", "resumed">>} => q.fwd # 0
  BY <1>1, <1>2, <1>4, <1>6, <1>7, PlansDiffer
<1>10. q.plan \in {<<"try">>, <<"frame">>, <<"resumed">>, <<"frame", "boundary">>,
                   <<"boundary", "resumed">>} => q.seen.latest > q.fwd
  BY <1>1, <1>2, <1>4, <1>6, <1>7, PlansDiffer
<1>11. q.leaving => q.plan # <<"try">>
  BY <1>1, <1>2, <1>4, <1>6, PlansDiffer
<1>12. q.leaving /\ q.plan \in {<<>>, <<"boundary">>} => Settled(q)
  <2>1. SUFFICES ASSUME x \in {<<>>, <<"boundary">>}
                 PROVE  p.fwd >= st.latest \/ st.fence >= st.latest
    BY <1>6 DEF Settled
  <2>2. ~NewFrame(st, p) => p.fwd >= st.latest
    BY <1>1, <1>2, <1>7
  <2> QED
    BY <1>1, <1>2, <1>4, <1>7, <2>1, <2>2, PlansDiffer
<1>13. PlanFits(q)
  BY <1>8, <1>9, <1>10, <1>11, <1>12 DEF PlanFits
<1> QED
  BY <1>1, <1>6, <1>13 DEF ProducerFits

\* The parts of what the tasks keep.
LEMMA TasksParts ==
    ASSUME TasksFit
    PROVE  /\ ProducerFits(prod) /\ ChannelFits(chan, ack, prod) /\ EncoderFits /\ Finalized
           /\ Ended /\ LeavingSaw /\ SegmentsFit
           /\ prod \in Producers /\ prod.pc \in {"off", "read", "wait", "send", "ack", "ended"}
           /\ prod.seen \in Statuses /\ prod.seen.latest \in 0 .. MaxFrames
           /\ prod.seen.fence \in 0 .. MaxFrames
           /\ prod.fwd \in 0 .. MaxFrames /\ prod.applied \in 0 .. MaxFrames
           /\ prod.paused \in BOOLEAN /\ prod.leaving \in BOOLEAN /\ prod.plan \in Plans
           /\ enc \in Encoders /\ enc.last \in 0 .. MaxFrames /\ media \in Medias /\ public \in Publics
           /\ revoked \in BOOLEAN /\ chan \in Seq(Events)
<1>1. /\ ProducerFits(prod) /\ ChannelFits(chan, ack, prod) /\ EncoderFits /\ Finalized
      /\ Ended /\ LeavingSaw /\ SegmentsFit
  BY DEF TasksFit
<1>2. prod \in Producers
  BY <1>1 DEF ProducerFits
<1>3. /\ enc \in Encoders /\ media \in Medias /\ public \in Publics /\ revoked \in BOOLEAN
      /\ chan \in Seq(Events)
  BY <1>1 DEF EncoderFits, ChannelFits
<1>4. enc.last \in 0 .. MaxFrames
  BY <1>3 DEF Encoders
<1> QED
  BY <1>1, <1>2, <1>3, <1>4 DEF Producers, Statuses

\* The producer stops; the reason is one that Ended names.
LEMMA ProducerStops ==
    ASSUME TasksFit, prod.pc # "off", prod.pc # "ended",
           NEW st \in Statuses,
           prod' = [prod EXCEPT !.pc = "ended", !.plan = <<>>, !.seen = st],
           UNCHANGED <<shown, chan, enc, media, public, stopper, revoked>>,
           ack # "waiting", ack' = ack \/ ack' = "none",
           prod.leaving => prod.seen = st,
           \/ prod.fwd = 0 \/ revoked \/ (enc.pc = "done" /\ public.outcome # "finalized")
           \/ stopper = "dropped"
    PROVE  TasksFit'
<1>1. /\ ProducerFits(prod) /\ ChannelFits(chan, ack, prod) /\ EncoderFits /\ Finalized
      /\ LeavingSaw /\ prod \in Producers
  BY TasksParts
<1>2. /\ prod' \in Producers /\ prod'.pc = "ended" /\ prod'.paused = prod.paused /\ prod'.seen = st
      /\ prod'.fwd = prod.fwd /\ prod'.leaving = prod.leaving
  BY <1>1 DEF Producers, Plans
<1>3. ProducerFits(prod')
  BY <1>1, <1>2 DEF ProducerFits
<1>4. ChannelFits(chan', ack', prod')
  <2>1. ack' # "waiting" /\ ack' \in {"none", "waiting", "given", "refused"}
    BY <1>1 DEF ChannelFits
  <2> QED
    BY <1>1, <1>2, <2>1 DEF ChannelFits
<1>5. EncoderFits'
  BY <1>1, <1>2 DEF EncoderFits
<1>6. Finalized'
  BY <1>1, <1>2 DEF Finalized
<1>7. Ended' /\ LeavingSaw' /\ SegmentsFit'
  BY <1>1, <1>2 DEF Ended, LeavingSaw, SegmentsFit
<1> QED
  BY <1>3, <1>4, <1>5, <1>6, <1>7 DEF TasksFit

\* initialize, synchronize_changed_status and flush_for_stop.
LEMMA ReadSteps ==
    ASSUME RecordingInv, Own, ProducerReads \/ ProducerFlushes
    PROVE  RecordingInv'
<1>1. TasksFit /\ WatchFits /\ StatusFits(shown.status) /\ session \in Sessions
  BY InvParts DEF WatchFits
<1>2. /\ ProducerFits(prod) /\ ChannelFits(chan, ack, prod) /\ EncoderFits /\ Finalized
      /\ LeavingSaw /\ SegmentsFit /\ prod \in Producers
  BY <1>1, TasksParts
<1>3. PICK g \in BOOLEAN, l \in BOOLEAN :
         /\ Read(g, l) /\ l = g
         /\ l => \/ stopper = "sent"
                 \/ stopper = "open" /\ shown.status = prod.seen /\ ~shown.open
  BY DEF ProducerReads, ProducerFlushes
<1>4. /\ prod.pc \in {"read", "wait"}
      /\ UNCHANGED <<source, shown, revoked, chan, ack, enc, media, public, stopper>>
  BY DEF ProducerReads, ProducerFlushes
<1>5. ~prod.leaving /\ ack # "waiting"
  BY <1>2, <1>4 DEF ProducerFits, ChannelFits
<1>6. PICK st : st = shown.status
  OBVIOUS
<1>7. st \in Statuses /\ StatusFits(st)
  BY <1>1, <1>6 DEF StatusFits
<1>8. ~Joined
  BY <1>4 DEF Joined
<1>9. CASE NothingToRecord(st, prod)
  <2>1. prod' = [prod EXCEPT !.pc = "ended", !.plan = <<>>, !.seen = st]
    BY <1>3, <1>6, <1>9 DEF Read, ProducerEnds
  <2>2. prod.fwd = 0
    BY <1>9 DEF NothingToRecord
  <2>3. TasksFit'
    BY <1>1, <1>4, <1>5, <1>7, <2>1, <2>2, ProducerStops
  <2>4. ~prod'.leaving
    BY <1>2, <1>5, <2>1 DEF Producers
  <2> QED
    BY <1>4, <1>8, <2>3, <2>4, TaskStep
<1>10. CASE ~NothingToRecord(st, prod)
  <2>1. prod' = [prod EXCEPT !.pc = "send", !.seen = st, !.leaving = l, !.plan = Plan(st, prod, g)]
    BY <1>3, <1>6, <1>10 DEF Read
  <2>2. ProducerFits(prod')
    BY <1>2, <1>3, <1>4, <1>7, <1>10, <2>1, ReadFits
  <2>3. /\ prod'.pc = "send" /\ prod'.seen = st /\ prod'.leaving = l /\ prod'.fwd = prod.fwd
        /\ prod'.paused = prod.paused
    BY <1>2, <2>1 DEF Producers
  <2>4. ChannelFits(chan', ack', prod')
    BY <1>2, <1>4, <1>5, <2>3 DEF ChannelFits
  <2>5. EncoderFits'
    BY <1>2, <1>4, <2>3 DEF EncoderFits
  <2>6. Finalized' /\ Ended'
    BY <1>2, <1>4, <2>3 DEF Finalized, Ended
  <2>7. LeavingSaw'
    BY <1>3, <1>4, <1>6, <2>3 DEF LeavingSaw
  <2>8. SegmentsFit'
    BY <1>2, <1>4, <2>3 DEF SegmentsFit
  <2>9. TasksFit'
    BY <2>2, <2>4, <2>5, <2>6, <2>7, <2>8 DEF TasksFit
  <2>10. InUse(session) /\ stopper = "sent" /\ prod'.leaving => session.wanted <= prod'.seen.latest
    BY <1>1, <1>6, <2>3 DEF WatchFits
  <2> QED
    BY <1>4, <1>8, <2>9, <2>10, TaskStep
<1> QED
  BY <1>9, <1>10

\* The stop channel is gone, the receiver is gone, or the encoder refused.
LEMMA BrokenSteps ==
    ASSUME RecordingInv, Own, ProducerLeaves \/ ProducerBroken
    PROVE  RecordingInv'
<1>1. TasksFit /\ WatchFits
  BY InvParts
<1>2. /\ ProducerFits(prod) /\ ChannelFits(chan, ack, prod) /\ EncoderFits /\ Finalized
      /\ prod \in Producers /\ prod.seen \in Statuses /\ enc \in Encoders
  BY <1>1, TasksParts
<1>3. /\ UNCHANGED <<source, shown, revoked, chan, enc, media, public, stopper>>
      /\ prod' = [prod EXCEPT !.pc = "ended", !.plan = <<>>] /\ (ack' = ack \/ ack' = "none")
      /\ prod.pc \in {"wait", "send", "ack"}
  BY DEF ProducerLeaves, ProducerBroken, ProducerEnds
<1>4. ack # "waiting"
  BY <1>2 DEF ChannelFits, ProducerLeaves, ProducerBroken
<1>5. revoked \/ (enc.pc = "done" /\ public.outcome # "finalized") \/ stopper = "dropped"
  <2>1. CASE ProducerLeaves
    BY <2>1 DEF ProducerLeaves
  <2>2. CASE ProducerBroken /\ prod.pc = "ack"
    BY <1>2, <2>2 DEF ProducerBroken, EncoderFits
  <2>3. CASE ProducerBroken /\ prod.pc = "send"
    <3>1. enc.pc \in {"off", "done"}
      BY <2>3 DEF ProducerBroken, Receiving
    <3>2. enc.pc = "done"
      BY <1>2, <2>3, <3>1 DEF EncoderFits
    <3> QED
      BY <1>2, <2>3, <3>2 DEF Finalized
  <2> QED
    BY <2>1, <2>2, <2>3 DEF ProducerBroken
<1>6. prod' = [prod EXCEPT !.pc = "ended", !.plan = <<>>, !.seen = prod.seen]
  BY <1>2, <1>3 DEF Producers
<1>7. TasksFit'
  BY <1>1, <1>2, <1>3, <1>4, <1>5, <1>6, ProducerStops
<1>8. ~Joined
  BY <1>3 DEF Joined
<1>9. prod'.leaving = prod.leaving /\ prod'.seen = prod.seen
  BY <1>2, <1>3 DEF Producers
<1>10. InUse(session) /\ stopper = "sent" /\ prod'.leaving => session.wanted <= prod'.seen.latest
  BY <1>1, <1>9 DEF WatchFits
<1> QED
  BY <1>3, <1>7, <1>8, <1>10, TaskStep

\* The next event of a plan, and the rest of it.
LEMMA PlanHeads ==
    /\ Head(<<"try">>) = "try" /\ Tail(<<"try">>) = <<>>
    /\ Head(<<"frame">>) = "frame" /\ Tail(<<"frame">>) = <<>>
    /\ Head(<<"boundary">>) = "boundary" /\ Tail(<<"boundary">>) = <<>>
    /\ Head(<<"resumed">>) = "resumed" /\ Tail(<<"resumed">>) = <<>>
    /\ Head(<<"frame", "boundary">>) = "frame" /\ Tail(<<"frame", "boundary">>) = <<"boundary">>
    /\ Head(<<"boundary", "resumed">>) = "boundary" /\ Tail(<<"boundary", "resumed">>) = <<"resumed">>
OBVIOUS

\* An event at the end of the channel.
LEMMA Appended ==
    ASSUME NEW q \in Seq(Events), NEW e \in Events
    PROVE  /\ Append(q, e) \in Seq(Events) /\ Len(Append(q, e)) = Len(q) + 1 /\ Len(q) \in Nat
           /\ Append(q, e)[Len(q) + 1] = e /\ Append(q, e) # <<>>
           /\ \A i \in 1 .. Len(q) : Append(q, e)[i] = q[i]
OBVIOUS

\* What a frame that is sent delivers.
LEMMA SentFrame ==
    ASSUME NEW q \in Seq(Events), NEW e \in Events, e.kind # "boundary", NEW last, NEW n \in Int, e.seq >= n
    PROVE  Delivered(Append(q, e), last, n)
<1>1. PICK r : r = Append(q, e)
  OBVIOUS
<1>2. Len(r) = Len(q) + 1 /\ Len(q) \in Nat /\ r[Len(q) + 1] = e
  BY <1>1, Appended
<1>3. PICK k : k = Len(q) + 1
  OBVIOUS
<1>4. k \in 1 .. Len(r) /\ r[k] = e /\ \A j \in 1 .. Len(r) : ~(j > k)
  BY <1>2, <1>3
<1> QED
  BY <1>1, <1>4 DEF Delivered

\* A boundary that is sent changes nothing about what is delivered.
LEMMA SentBoundary ==
    ASSUME NEW q \in Seq(Events), NEW e \in Events, e.kind = "boundary", NEW last, NEW n,
           Delivered(q, last, n)
    PROVE  Delivered(Append(q, e), last, n)
<1>1. PICK r : r = Append(q, e)
  OBVIOUS
<1>2. /\ Len(r) = Len(q) + 1 /\ Len(q) \in Nat /\ r[Len(q) + 1] = e
      /\ \A i \in 1 .. Len(q) : r[i] = q[i]
  BY <1>1, Appended
<1>3. \A i \in 1 .. Len(r) : i \in 1 .. Len(q) \/ i = Len(q) + 1
  BY <1>2
<1>4. CASE n <= last /\ \A i \in 1 .. Len(q) : q[i].kind = "boundary"
  <2>1. \A i \in 1 .. Len(r) : r[i].kind = "boundary"
    BY <1>2, <1>3, <1>4
  <2> QED
    BY <1>1, <1>4, <2>1 DEF Delivered
<1>5. CASE \E i \in 1 .. Len(q) : /\ q[i].kind # "boundary" /\ q[i].seq >= n
                                  /\ \A j \in 1 .. Len(q) : j > i => q[j].kind = "boundary"
  <2>1. PICK i \in 1 .. Len(q) : /\ q[i].kind # "boundary" /\ q[i].seq >= n
                                 /\ \A j \in 1 .. Len(q) : j > i => q[j].kind = "boundary"
    BY <1>5
  <2>2. i \in 1 .. Len(r) /\ r[i] = q[i]
    BY <1>2
  <2>3. \A j \in 1 .. Len(r) : j > i => r[j].kind = "boundary"
    BY <1>2, <1>3, <2>1
  <2> QED
    BY <1>1, <2>1, <2>2, <2>3 DEF Delivered
<1> QED
  BY <1>4, <1>5 DEF Delivered

\* What is left of a plan whose frame was sent.
LEMMA PlanLeft ==
    ASSUME NEW p, ~p.paused, p.fwd # 0, Settled(p),
           \/ p.plan = <<"boundary">> /\ p.seen.paused
           \/ p.plan = <<>> /\ ~p.seen.paused
    PROVE  PlanFits(p)
<1>1. CASE p.plan = <<"boundary">> /\ p.seen.paused
  BY <1>1, PlansDiffer DEF PlanFits
<1>2. CASE p.plan = <<>> /\ ~p.seen.paused
  BY <1>2, PlansDiffer DEF PlanFits
<1> QED
  BY <1>1, <1>2

\* A frame is sent, by send_latest or send_latest_guaranteed.
LEMMA FrameSent ==
    ASSUME TasksFit, prod.pc = "send", Receiving, Len(chan) < Depth,
           prod.plan \in {<<"try">>, <<"frame">>, <<"frame", "boundary">>},
           chan' = Sent("frame"), ack' = ack,
           prod' = [prod EXCEPT !.plan = Tail(prod.plan), !.fwd = prod.seen.latest],
           UNCHANGED <<shown, enc, media, public, stopper, revoked>>
    PROVE  TasksFit' /\ prod'.leaving = prod.leaving /\ prod'.seen = prod.seen
<1> USE ShowcaseAssumption
<1>1. /\ ProducerFits(prod) /\ ChannelFits(chan, ack, prod) /\ EncoderFits /\ Finalized
      /\ Ended /\ LeavingSaw /\ SegmentsFit /\ prod \in Producers
      /\ prod.seen.latest \in 0 .. MaxFrames /\ prod.fwd \in 0 .. MaxFrames
      /\ chan \in Seq(Events) /\ prod.paused \in BOOLEAN
  BY TasksParts
<1>2. PlanFits(prod) /\ ack # "waiting"
  BY <1>1 DEF ProducerFits, ChannelFits
<1>3. /\ ~prod.paused /\ prod.seen.latest > prod.fwd
      /\ (prod.plan = <<"frame", "boundary">> => prod.seen.paused)
      /\ (prod.plan \in {<<"try">>, <<"frame">>} => ~prod.seen.paused)
      /\ (prod.leaving => prod.plan # <<"try">>)
  BY <1>1, <1>2, PlansDiffer DEF PlanFits
<1>4. PICK t : t = Tail(prod.plan)
  OBVIOUS
<1>5. /\ t \in {<<>>, <<"boundary">>} /\ t \in Plans
      /\ (t = <<"boundary">> <=> prod.plan = <<"frame", "boundary">>)
  BY <1>4, PlanHeads, PlansDiffer DEF Plans
<1>6. /\ prod' \in Producers /\ prod'.pc = "send" /\ prod'.plan = t /\ prod'.fwd = prod.seen.latest
      /\ prod'.seen = prod.seen /\ prod'.leaving = prod.leaving /\ prod'.paused = prod.paused
  BY <1>1, <1>4, <1>5 DEF Producers
<1>7. prod'.fwd # 0
  BY <1>1, <1>3, <1>6
<1>8. PlanFits(prod')
  <2>1. Settled(prod')
    BY <1>1, <1>6 DEF Settled
  <2>2. CASE t = <<"boundary">>
    <3>1. prod'.seen.paused /\ ~prod'.paused /\ prod'.plan = <<"boundary">>
      BY <1>3, <1>5, <1>6, <2>2
    <3> QED
      BY <1>7, <2>1, <3>1, PlanLeft
  <2>3. CASE t = <<>>
    <3>1. prod.plan \in {<<"try">>, <<"frame">>}
      BY <1>5, <2>3, PlansDiffer
    <3>2. ~prod'.seen.paused /\ ~prod'.paused /\ prod'.plan = <<>>
      BY <1>3, <1>6, <2>3, <3>1
    <3> QED
      BY <1>7, <2>1, <3>2, PlanLeft
  <2> QED
    BY <1>5, <2>2, <2>3
<1>9. ProducerFits(prod')
  BY <1>3, <1>6, <1>8 DEF ProducerFits
<1>10. PICK e : e = [kind |-> "frame", seq |-> prod.seen.latest]
  OBVIOUS
<1>11. e \in Events /\ e.kind = "frame" /\ e.seq = prod.seen.latest /\ chan' = Append(chan, e)
  BY <1>1, <1>10 DEF Events, Sent
<1>12. /\ chan' \in Seq(Events) /\ Len(chan') = Len(chan) + 1 /\ Len(chan) \in Nat
       /\ chan'[Len(chan) + 1] = e /\ \A i \in 1 .. Len(chan) : chan'[i] = chan[i]
  BY <1>1, <1>11, Appended, SMTT(60)
<1>13. ChannelFits(chan', ack', prod')
  <2>1. \A i \in 1 .. Len(chan') : i \in 1 .. Len(chan) \/ i = Len(chan) + 1
    BY <1>12
  <2>2. \A i \in 1 .. Len(chan) : chan[i].kind = "frame" /\ chan[i].seq # 0
    BY <1>1, <1>2 DEF ChannelFits
  <2>3. \A i \in 1 .. Len(chan') : chan'[i].kind = "frame" /\ chan'[i].seq # 0
    BY <1>6, <1>7, <1>11, <1>12, <2>1, <2>2
  <2>4. Len(chan') <= Depth
    BY <1>12
  <2>5. ack' \in {"none", "waiting", "given", "refused"} /\ ack' # "waiting"
    BY <1>1, <1>2 DEF ChannelFits
  <2> QED
    BY <1>6, <1>7, <1>12, <2>3, <2>4, <2>5 DEF ChannelFits
<1>14. Delivered(chan', enc'.last, prod'.fwd)
  <2>1. e.kind # "boundary" /\ prod'.fwd \in Int /\ e.seq >= prod'.fwd
    BY <1>1, <1>6, <1>11
  <2> QED
    BY <1>1, <1>11, <2>1, SentFrame
<1>15. EncoderFits'
  BY <1>1, <1>2, <1>6, <1>7, <1>14 DEF EncoderFits
<1>16. Finalized'
  BY <1>1 DEF Finalized, Receiving
<1>17. Ended' /\ LeavingSaw' /\ SegmentsFit'
  BY <1>1, <1>3, <1>6 DEF Ended, LeavingSaw, SegmentsFit
<1> QED
  BY <1>6, <1>9, <1>13, <1>15, <1>16, <1>17 DEF TasksFit

\* An event that asks for an acknowledgement is sent.
LEMMA RequestSent ==
    ASSUME TasksFit, prod.pc = "send", Receiving, Len(chan) < Depth, NEW k \in {"boundary", "resumed"},
           prod.plan # <<>>, Head(prod.plan) = k,
           chan' = Sent(k), ack' = "waiting", prod' = [prod EXCEPT !.pc = "ack"],
           UNCHANGED <<shown, enc, media, public, stopper, revoked>>
    PROVE  TasksFit' /\ prod'.leaving = prod.leaving /\ prod'.seen = prod.seen
<1> USE ShowcaseAssumption
<1>1. /\ ProducerFits(prod) /\ ChannelFits(chan, ack, prod) /\ EncoderFits /\ Finalized
      /\ Ended /\ LeavingSaw /\ SegmentsFit /\ prod \in Producers
      /\ prod.seen.latest \in 0 .. MaxFrames /\ prod.fwd \in 0 .. MaxFrames
      /\ chan \in Seq(Events) /\ prod.paused \in BOOLEAN /\ prod.plan \in Plans
  BY TasksParts
<1>2. PlanFits(prod) /\ ack # "waiting" /\ (prod.paused => prod.fwd # 0)
  BY <1>1 DEF ProducerFits, ChannelFits
<1>3. \/ prod.plan \in {<<"boundary">>, <<"boundary", "resumed">>} /\ k = "boundary"
      \/ prod.plan = <<"resumed">> /\ k = "resumed"
  BY <1>1, PlanHeads DEF Plans
<1>4. prod.plan = <<"resumed">> => prod.paused /\ prod.seen.latest > prod.fwd
  BY <1>1, <1>2, PlansDiffer DEF PlanFits
<1>5. prod.fwd # 0
  BY <1>2, <1>3, <1>4 DEF PlanFits
<1>6. /\ prod' \in Producers /\ prod'.pc = "ack" /\ prod'.plan = prod.plan /\ prod'.fwd = prod.fwd
      /\ prod'.seen = prod.seen /\ prod'.leaving = prod.leaving /\ prod'.paused = prod.paused
  BY <1>1 DEF Producers
<1>7. PlanFits(prod')
  BY <1>2, <1>6 DEF PlanFits, Settled
<1>8. ProducerFits(prod')
  BY <1>2, <1>6, <1>7 DEF ProducerFits
<1>9. PICK e : e = [kind |-> k, seq |-> prod.seen.latest]
  OBVIOUS
<1>10. e \in Events /\ e.kind = k /\ e.seq = prod.seen.latest /\ chan' = Append(chan, e)
  BY <1>1, <1>9 DEF Events, Sent
<1>11. /\ chan' \in Seq(Events) /\ Len(chan') = Len(chan) + 1 /\ Len(chan) \in Nat /\ chan' # <<>>
       /\ chan'[Len(chan) + 1] = e /\ \A i \in 1 .. Len(chan) : chan'[i] = chan[i]
  BY <1>1, <1>10, Appended
<1>12. ChannelFits(chan', ack', prod')
  <2>1. \A i \in 1 .. Len(chan') : i \in 1 .. Len(chan) \/ i = Len(chan')
    BY <1>11
  <2>2. \A i \in 1 .. Len(chan) : chan[i].kind = "frame" /\ chan[i].seq # 0
    BY <1>1, <1>2 DEF ChannelFits
  <2>3. chan'[Len(chan')] = e
    BY <1>11
  <2>4. \A i \in 1 .. Len(chan') : i < Len(chan') => chan'[i].kind = "frame"
    BY <1>11, <2>1, <2>2
  <2>5. k # "boundary" => prod.seen.latest # 0
    BY <1>1, <1>3, <1>4
  <2>6. \A i \in 1 .. Len(chan') : chan'[i].kind # "boundary" => chan'[i].seq # 0
    BY <1>10, <1>11, <2>1, <2>2, <2>3, <2>5
  <2>7. Len(chan') <= Depth
    BY <1>11
  <2> QED
    BY <1>5, <1>6, <1>10, <1>11, <2>3, <2>4, <2>6, <2>7 DEF ChannelFits
<1>13. Delivered(chan, enc.last, prod.fwd) => Delivered(chan', enc'.last, prod'.fwd)
  <2>1. CASE k = "boundary"
    BY <1>1, <1>6, <1>10, <2>1, SentBoundary
  <2>2. CASE k = "resumed"
    <3>1. e.kind # "boundary" /\ prod'.fwd \in Int /\ e.seq >= prod'.fwd
      BY <1>1, <1>3, <1>4, <1>6, <1>10, <2>2
    <3> QED
      BY <1>1, <1>10, <3>1, SentFrame
  <2> QED
    BY <2>1, <2>2
<1>14. EncoderFits'
  BY <1>1, <1>5, <1>6, <1>13 DEF EncoderFits, Receiving
<1>15. Finalized'
  BY <1>1 DEF Finalized, Receiving
<1>16. Ended' /\ LeavingSaw'
  BY <1>1, <1>6 DEF Ended, LeavingSaw
<1>17. SegmentsFit'
  <2>1. prod.paused => media.partial = 0 /\ Len(chan) = 0
    BY <1>1 DEF SegmentsFit
  <2> QED
    BY <1>6, <1>11, <2>1 DEF SegmentsFit
<1> QED
  BY <1>6, <1>8, <1>12, <1>14, <1>15, <1>16, <1>17 DEF TasksFit

\* send_latest, send_latest_guaranteed, send_pause_boundary and
\* send_resume_frame_guaranteed.
LEMMA SendSteps ==
    ASSUME RecordingInv, Own, ProducerTries \/ ProducerSends
    PROVE  RecordingInv'
<1>1. TasksFit /\ WatchFits
  BY InvParts
<1>2. /\ ProducerFits(prod) /\ ChannelFits(chan, ack, prod) /\ EncoderFits /\ Finalized
      /\ Ended /\ LeavingSaw /\ SegmentsFit /\ prod \in Producers /\ prod.plan \in Plans
  BY <1>1, TasksParts
<1>3. /\ UNCHANGED <<source, shown, revoked, enc, media, public, stopper>>
      /\ prod.pc = "send" /\ prod.plan # <<>>
  BY DEF ProducerTries, ProducerSends
<1>4. ~Joined
  BY <1>3 DEF Joined
<1>5. SUFFICES TasksFit' /\ prod'.leaving = prod.leaving /\ prod'.seen = prod.seen
  <2>1. InUse(session) /\ stopper = "sent" /\ prod'.leaving => session.wanted <= prod'.seen.latest
    BY <1>1, <1>5 DEF WatchFits
  <2> QED
    BY <1>3, <1>4, <1>5, <2>1, TaskStep
<1>6. CASE ProducerTries
  <2>1. prod.plan = <<"try">> /\ UNCHANGED ack
    BY <1>2, <1>6, PlanHeads DEF ProducerTries, Plans
  <2>2. CASE Receiving /\ Len(chan) < Depth
    <3>1. chan' = Sent("frame") /\ prod' = [prod EXCEPT !.plan = Tail(prod.plan), !.fwd = prod.seen.latest]
      BY <1>6, <2>2 DEF ProducerTries
    <3> QED
      BY <1>1, <1>3, <2>1, <2>2, <3>1, FrameSent
  <2>3. CASE ~(Receiving /\ Len(chan) < Depth)
    <3>1. chan' = chan /\ prod' = [prod EXCEPT !.plan = <<>>]
      <4>1. prod' = [prod EXCEPT !.plan = Tail(prod.plan), !.fwd = prod.fwd] /\ chan' = chan
        BY <1>6, <2>3 DEF ProducerTries
      <4> QED
        BY <1>2, <2>1, <4>1, PlanHeads DEF Producers
    <3>2. /\ prod' \in Producers /\ prod'.pc = "send" /\ prod'.plan = <<>> /\ prod'.fwd = prod.fwd
          /\ prod'.seen = prod.seen /\ prod'.leaving = prod.leaving /\ prod'.paused = prod.paused
      <4>1. <<>> \in Plans
        BY DEF Plans
      <4> QED
        BY <1>2, <1>3, <3>1, <4>1 DEF Producers
    <3>3. PlanFits(prod)
      BY <1>2, <1>3 DEF ProducerFits
    <3>4. ~prod.paused /\ ~prod.seen.paused /\ ~prod.leaving
      BY <2>1, <3>3, PlansDiffer DEF PlanFits
    <3>5. PlanFits(prod')
      BY <3>2, <3>4, PlansDiffer DEF PlanFits
    <3>6. ProducerFits(prod')
      BY <3>2, <3>4, <3>5 DEF ProducerFits
    <3>7. ChannelFits(chan', ack', prod')
      BY <1>2, <1>3, <2>1, <3>1, <3>2 DEF ChannelFits
    <3>8. EncoderFits' /\ Finalized'
      BY <1>2, <1>3, <2>1, <3>1, <3>2 DEF EncoderFits, Finalized
    <3>9. Ended' /\ LeavingSaw' /\ SegmentsFit'
      BY <1>2, <1>3, <2>1, <3>1, <3>2 DEF Ended, LeavingSaw, SegmentsFit
    <3> QED
      BY <3>2, <3>6, <3>7, <3>8, <3>9 DEF TasksFit
  <2> QED
    BY <2>2, <2>3
<1>7. CASE ProducerSends /\ Head(prod.plan) = "frame"
  <2>1. prod.plan \in {<<"frame">>, <<"frame", "boundary">>}
    BY <1>2, <1>3, <1>7, PlanHeads DEF Plans
  <2>2. /\ Receiving /\ Len(chan) < Depth /\ chan' = Sent("frame") /\ ack' = ack
        /\ prod' = [prod EXCEPT !.plan = Tail(prod.plan), !.fwd = prod.seen.latest]
    BY <1>7 DEF ProducerSends
  <2> QED
    BY <1>1, <1>3, <2>1, <2>2, FrameSent
<1>8. CASE ProducerSends /\ Head(prod.plan) # "frame"
  <2>1. Head(prod.plan) \in {"boundary", "resumed"}
    BY <1>2, <1>3, <1>8, PlanHeads DEF Plans, ProducerSends
  <2>2. /\ Receiving /\ Len(chan) < Depth /\ chan' = Sent(Head(prod.plan)) /\ ack' = "waiting"
        /\ prod' = [prod EXCEPT !.pc = "ack"]
    BY <1>8 DEF ProducerSends
  <2> QED
    BY <1>1, <1>3, <2>1, <2>2, RequestSent
<1> QED
  BY <1>6, <1>7, <1>8

\* The encoder has closed the segment, or opened the next one.
LEMMA AcknowledgedStep ==
    ASSUME RecordingInv, Own, ProducerAcknowledged
    PROVE  RecordingInv'
<1> USE ShowcaseAssumption
<1>1. TasksFit /\ WatchFits
  BY InvParts
<1>2. /\ ProducerFits(prod) /\ ChannelFits(chan, ack, prod) /\ EncoderFits /\ Finalized
      /\ Ended /\ LeavingSaw /\ SegmentsFit /\ prod \in Producers /\ prod.plan \in Plans
      /\ prod.seen.latest \in 0 .. MaxFrames /\ prod.fwd \in 0 .. MaxFrames
      /\ prod.paused \in BOOLEAN /\ enc.last \in 0 .. MaxFrames
  BY <1>1, TasksParts
<1>3. /\ UNCHANGED <<source, shown, revoked, chan, enc, media, public, stopper>>
      /\ prod.pc = "ack" /\ ack = "given" /\ ack' = "none"
      /\ prod' = [prod EXCEPT !.pc = "send", !.plan = Tail(prod.plan),
                              !.paused = Head(prod.plan) = "boundary",
                              !.fwd = IF Head(prod.plan) = "resumed" THEN prod.seen.latest ELSE prod.fwd]
  BY DEF ProducerAcknowledged
<1>4. ~Joined
  BY <1>3 DEF Joined
<1>5. PlanFits(prod) /\ chan = <<>> /\ (prod.paused => prod.fwd # 0)
  BY <1>2, <1>3 DEF ProducerFits, ChannelFits
<1>6. prod.plan \in {<<"boundary">>, <<"boundary", "resumed">>, <<"resumed">>}
  BY <1>2, <1>3, PlanHeads DEF ProducerFits, Plans
<1>7. PICK t, f, b : /\ t = Tail(prod.plan) /\ b = (Head(prod.plan) = "boundary")
                     /\ f = IF Head(prod.plan) = "resumed" THEN prod.seen.latest ELSE prod.fwd
  OBVIOUS
<1>8. \/ /\ prod.plan = <<"boundary">> /\ Head(prod.plan) = "boundary"
         /\ t = <<>> /\ b = TRUE /\ f = prod.fwd /\ f # 0 /\ ~prod.paused
         /\ (prod.leaving => Settled(prod))
      \/ /\ prod.plan = <<"boundary", "resumed">> /\ Head(prod.plan) = "boundary"
         /\ t = <<"resumed">> /\ b = TRUE /\ f = prod.fwd /\ f # 0 /\ ~prod.seen.paused
         /\ prod.seen.latest > f
      \/ /\ prod.plan = <<"resumed">> /\ Head(prod.plan) = "resumed"
         /\ t = <<>> /\ b = FALSE /\ f = prod.seen.latest /\ ~prod.seen.paused /\ f # 0
         /\ prod.seen.latest > prod.fwd
  <2>1. CASE prod.plan = <<"boundary">>
    <3>1. t = <<>> /\ b = TRUE /\ f = prod.fwd /\ Head(prod.plan) = "boundary"
      BY <1>7, <2>1, PlanHeads
    <3>2. prod.fwd # 0 /\ ~prod.paused /\ (prod.leaving => Settled(prod))
      BY <1>2, <1>5, <2>1, PlansDiffer DEF PlanFits
    <3> QED
      BY <2>1, <3>1, <3>2
  <2>2. CASE prod.plan = <<"boundary", "resumed">>
    <3>1. t = <<"resumed">> /\ b = TRUE /\ f = prod.fwd /\ Head(prod.plan) = "boundary"
      BY <1>7, <2>2, PlanHeads
    <3>2. prod.fwd # 0 /\ ~prod.seen.paused /\ prod.seen.latest > prod.fwd
      BY <1>2, <1>5, <2>2, PlansDiffer DEF PlanFits
    <3> QED
      BY <2>2, <3>1, <3>2
  <2>3. CASE prod.plan = <<"resumed">>
    <3>1. t = <<>> /\ b = FALSE /\ f = prod.seen.latest /\ Head(prod.plan) = "resumed"
      BY <1>7, <2>3, PlanHeads
    <3>2. ~prod.seen.paused /\ prod.seen.latest > prod.fwd
      BY <1>2, <1>5, <2>3, PlansDiffer DEF PlanFits
    <3>3. f # 0
      BY <1>2, <3>1, <3>2
    <3> QED
      BY <2>3, <3>1, <3>2, <3>3
  <2> QED
    BY <1>6, <2>1, <2>2, <2>3
<1>9. b \in BOOLEAN /\ f \in 0 .. MaxFrames /\ t \in Plans /\ f # 0 /\ t \in {<<>>, <<"resumed">>}
  BY <1>2, <1>8 DEF Plans
<1>10. prod' = [prod EXCEPT !.pc = "send", !.plan = t, !.paused = b, !.fwd = f]
  BY <1>3, <1>7
<1>11. /\ prod' \in Producers /\ prod'.pc = "send" /\ prod'.plan = t /\ prod'.fwd = f
       /\ prod'.seen = prod.seen /\ prod'.leaving = prod.leaving /\ prod'.paused = b
  BY <1>2, <1>9, <1>10 DEF Producers
<1>12. PlanFits(prod')
  <2>1. t = <<>> /\ prod'.leaving => Settled(prod')
    BY <1>2, <1>8, <1>11, PlansDiffer DEF Settled
  <2>2. t = <<"resumed">> => prod'.seen.latest > prod'.fwd /\ ~prod'.seen.paused /\ prod'.paused
    BY <1>8, <1>11, PlansDiffer
  <2>3. ~prod'.paused => ~prod'.seen.paused
    BY <1>8, <1>11
  <2>4. CASE t = <<>>
    BY <1>11, <2>1, <2>3, <2>4, PlansDiffer DEF PlanFits
  <2>5. CASE t = <<"resumed">>
    BY <1>11, <2>2, <2>5, PlansDiffer DEF PlanFits
  <2> QED
    BY <1>9, <2>4, <2>5
<1>13. ProducerFits(prod')
  BY <1>9, <1>11, <1>12 DEF ProducerFits
<1>14. ChannelFits(chan', ack', prod')
  BY <1>2, <1>3, <1>5, <1>11 DEF ChannelFits
<1>15. Delivered(chan, enc.last, prod.fwd) => Delivered(chan', enc'.last, prod'.fwd)
  <2>1. chan' = <<>> /\ enc'.last = enc.last
    BY <1>3, <1>5
  <2>2. Delivered(<<>>, enc.last, f) <=> f <= enc.last
    BY DEF Delivered
  <2>3. Delivered(<<>>, enc.last, prod.fwd) <=> prod.fwd <= enc.last
    BY DEF Delivered
  <2>4. prod.plan = <<"resumed">> => f <= enc.last
    BY <1>2, <1>3, <1>8, PlansDiffer DEF EncoderFits
  <2>5. prod.plan # <<"resumed">> => f = prod.fwd
    BY <1>8
  <2> QED
    BY <1>5, <1>11, <2>1, <2>2, <2>3, <2>4, <2>5
<1>16. EncoderFits'
  BY <1>2, <1>3, <1>9, <1>11, <1>15 DEF EncoderFits
<1>17. Finalized' /\ Ended' /\ LeavingSaw'
  BY <1>2, <1>3, <1>9, <1>11 DEF Finalized, Ended, LeavingSaw
<1>18. SegmentsFit'
  BY <1>2, <1>3, <1>5, <1>8, <1>11 DEF SegmentsFit
<1>19. TasksFit'
  BY <1>13, <1>14, <1>16, <1>17, <1>18 DEF TasksFit
<1>20. InUse(session) /\ stopper = "sent" /\ prod'.leaving => session.wanted <= prod'.seen.latest
  BY <1>1, <1>11 DEF WatchFits
<1> QED
  BY <1>3, <1>4, <1>19, <1>20, TaskStep

\* The end of apply_status.
LEMMA AppliedStep ==
    ASSUME RecordingInv, Own, ProducerApplied
    PROVE  RecordingInv'
<1> USE ShowcaseAssumption
<1>1. TasksFit /\ WatchFits
  BY InvParts
<1>2. /\ ProducerFits(prod) /\ ChannelFits(chan, ack, prod) /\ EncoderFits /\ Finalized
      /\ Ended /\ LeavingSaw /\ SegmentsFit /\ prod \in Producers
      /\ prod.seen.latest \in 0 .. MaxFrames /\ prod.fwd \in 0 .. MaxFrames
      /\ prod.seen.fence \in 0 .. MaxFrames /\ prod.applied \in 0 .. MaxFrames
      /\ prod.paused \in BOOLEAN /\ public \in Publics /\ prod.seen \in Statuses
  BY <1>1, TasksParts
<1>3. /\ UNCHANGED <<source, shown, revoked, chan, ack, enc, media, stopper>>
      /\ prod.pc = "send" /\ prod.plan = <<>> /\ public' = Projected
  BY DEF ProducerApplied
<1>4. ~Joined
  BY <1>3 DEF Joined
<1>5. PICK a : a = IF prod.seen.fence > prod.applied THEN prod.seen.fence ELSE prod.applied
  OBVIOUS
<1>6. a \in 0 .. MaxFrames /\ a >= prod.seen.fence
  BY <1>2, <1>5
<1>7. PICK x : x = IF prod.leaving THEN "ended" ELSE "wait"
  OBVIOUS
<1>8. prod' = [prod EXCEPT !.pc = x, !.applied = a]
  BY <1>5, <1>7 DEF ProducerApplied
<1>9. /\ prod' \in Producers /\ prod'.pc = x /\ prod'.plan = prod.plan /\ prod'.fwd = prod.fwd
      /\ prod'.seen = prod.seen /\ prod'.leaving = prod.leaving /\ prod'.paused = prod.paused
      /\ prod'.applied = a /\ x \in {"wait", "ended"}
  <2>1. x \in {"wait", "ended"}
    BY <1>7
  <2> QED
    BY <1>2, <1>6, <1>8, <2>1 DEF Producers
<1>10. public' \in Publics /\ public'.outcome = public.outcome
  <2>1. PICK y \in BOOLEAN : y = (prod.seen.paused \/ (prod.paused /\ public.paused))
    OBVIOUS
  <2>2. PICK z \in BOOLEAN : z = (public.terminal \/ prod.seen.terminal)
    OBVIOUS
  <2>3. public' = [public EXCEPT !.paused = y, !.terminal = z]
    BY <1>3, <2>1, <2>2 DEF Projected
  <2> QED
    BY <1>2, <2>3 DEF Publics
<1>11. PlanFits(prod) /\ ack # "waiting"
  BY <1>2, <1>3 DEF ProducerFits, ChannelFits
<1>12. ProducerFits(prod')
  BY <1>2, <1>7, <1>9 DEF ProducerFits
<1>13. ChannelFits(chan', ack', prod')
  BY <1>2, <1>3, <1>9, <1>11 DEF ChannelFits
<1>14. EncoderFits'
  BY <1>2, <1>3, <1>9, <1>10 DEF EncoderFits
<1>15. Finalized' /\ LeavingSaw'
  BY <1>2, <1>3, <1>9, <1>10 DEF Finalized, LeavingSaw
<1>16. Ended'
  <2>1. prod.leaving => prod.fwd >= prod.seen.latest \/ a >= prod.seen.latest
    <3>1. prod.leaving => Settled(prod)
      BY <1>3, <1>11 DEF PlanFits
    <3> QED
      BY <1>2, <1>6, <3>1 DEF Settled
  <2>2. prod'.pc = "ended" => prod.leaving
    BY <1>7, <1>9
  <2> QED
    BY <1>9, <2>1, <2>2 DEF Ended
<1>17. SegmentsFit'
  BY <1>2, <1>3, <1>9 DEF SegmentsFit
<1>18. TasksFit'
  BY <1>12, <1>13, <1>14, <1>15, <1>16, <1>17 DEF TasksFit
<1>19. InUse(session) /\ stopper = "sent" /\ prod'.leaving => session.wanted <= prod'.seen.latest
  BY <1>1, <1>9 DEF WatchFits
<1> QED
  BY <1>3, <1>4, <1>18, <1>19, TaskStep

\* A channel without events fits whoever does not wait.
LEMMA EmptyChannel ==
    ASSUME NEW a \in {"none", "given", "refused"}, NEW p
    PROVE  ChannelFits(<<>>, a, p)
<1>1. PICK q : q = <<>>
  OBVIOUS
<1>2. q \in Seq(Events) /\ Len(q) = 0 /\ \A i \in 1 .. Len(q) : FALSE
  BY <1>1
<1>3. Len(q) <= Depth
  BY <1>2, ShowcaseAssumption
<1>4. ChannelFits(q, a, p)
  BY <1>1, <1>2, <1>3 DEF ChannelFits
<1> QED
  BY <1>1, <1>4

\* The encoder thread returns.
LEMMA ReturnsStep ==
    ASSUME TasksFit, enc.pc \in {"first", "run", "finish"}, NEW o \in {"failed", "finalized"},
           EncoderReturns(o, FALSE), UNCHANGED <<shown, prod, stopper, revoked>>,
           media' \in Medias, media.partial = 0 => media'.partial = 0,
           o = "finalized" => /\ enc.first # 0 /\ prod.fwd # 0 /\ media'.partial = 0
                              /\ media'.manifest = media'.finished
                              /\ (~revoked => prod.pc = "ended" /\ prod.fwd <= enc.last)
    PROVE  TasksFit'
<1>1. /\ ProducerFits(prod) /\ ChannelFits(chan, ack, prod) /\ EncoderFits /\ Finalized
      /\ Ended /\ LeavingSaw /\ SegmentsFit /\ enc \in Encoders /\ public \in Publics
  BY TasksParts
<1>2. enc' = [enc EXCEPT !.pc = "done"] /\ chan' = <<>> /\ ack' = IF ack = "waiting" THEN "refused" ELSE ack
  BY DEF EncoderReturns
<1>3. enc' \in Encoders /\ enc'.pc = "done" /\ enc'.first = enc.first /\ enc'.last = enc.last
  BY <1>1, <1>2 DEF Encoders
<1>4. public' \in Publics /\ public'.outcome = o
  <2>1. PICK z \in BOOLEAN : z = (public.terminal \/ FALSE)
    OBVIOUS
  <2>2. public' = [public EXCEPT !.outcome = o, !.terminal = z]
    BY <2>1 DEF EncoderReturns
  <2> QED
    BY <1>1, <2>2 DEF Publics
<1>5. /\ ack' # "waiting" /\ ack' \in {"none", "waiting", "given", "refused"}
      /\ (ack' = "given" <=> ack = "given") /\ (ack = "refused" => ack' = "refused")
      /\ (ack' = "refused" => ack \in {"waiting", "refused"})
  BY <1>1, <1>2 DEF ChannelFits
<1>6. ProducerFits(prod')
  BY <1>1
<1>7. ChannelFits(chan', ack', prod')
  BY <1>2, <1>5, EmptyChannel
<1>8. EncoderFits'
  <2>1. prod'.pc = "ack" /\ ack' = "refused" => revoked' \/ (enc'.pc = "done" /\ public'.outcome # "finalized")
    BY <1>3, <1>4
  <2> QED
    BY <1>1, <1>2, <1>3, <1>4, <1>5, <2>1 DEF EncoderFits
<1>9. Finalized'
  BY <1>3, <1>4 DEF Finalized
<1>10. Ended' /\ LeavingSaw'
  BY <1>1, <1>3, <1>4 DEF Ended, LeavingSaw
<1>11. SegmentsFit'
  BY <1>1, <1>2, <1>3, <1>5 DEF SegmentsFit
<1> QED
  BY <1>6, <1>7, <1>8, <1>9, <1>10, <1>11 DEF TasksFit

\* A step of the encoder that keeps what the tasks keep.
LEMMA EncoderTaskStep ==
    ASSUME RecordingInv, Own, UNCHANGED <<source, shown, stopper, prod>>,
           enc.pc \in {"first", "run", "finish"}, TasksFit'
    PROVE  RecordingInv'
<1>1. ~Joined
  BY DEF Joined
<1>2. InUse(session) /\ stopper = "sent" /\ prod'.leaving => session.wanted <= prod'.seen.latest
  BY InvParts DEF WatchFits
<1> QED
  BY <1>1, <1>2, TaskStep

\* The first event of the channel, and the others.
LEMMA HeadIs ==
    ASSUME NEW q \in Seq(Events), q # <<>>
    PROVE  /\ Head(q) \in Events /\ Head(q) = q[1] /\ Len(q) \in Nat /\ Len(q) >= 1
           /\ Tail(q) \in Seq(Events) /\ Len(Tail(q)) = Len(q) - 1
           /\ \A i \in 1 .. Len(q) - 1 : Tail(q)[i] = q[i + 1]
OBVIOUS

\* An event that asks for an acknowledgement is the only one in the channel.
LEMMA RequestIsLast ==
    ASSUME TasksFit, chan # <<>>, NextEvent.kind \in {"boundary", "resumed"}
    PROVE  /\ Tail(chan) = <<>> /\ Len(chan) = 1 /\ ack = "waiting" /\ prod.pc = "ack"
           /\ NextEvent.kind = Head(prod.plan) /\ NextEvent.seq = prod.seen.latest
<1>1. ChannelFits(chan, ack, prod) /\ chan \in Seq(Events)
  BY TasksParts
<1>2. /\ NextEvent = chan[1] /\ Len(chan) \in Nat /\ Len(chan) >= 1 /\ Tail(chan) \in Seq(Events)
      /\ Len(Tail(chan)) = Len(chan) - 1
  BY <1>1, HeadIs DEF NextEvent
<1>3. 1 \in 1 .. Len(chan) /\ chan[1].kind # "frame"
  BY <1>2
<1>4. ack = "waiting" /\ ~(1 < Len(chan))
  BY <1>1, <1>3 DEF ChannelFits
<1>5. Len(chan) = 1
  BY <1>2, <1>4
<1>6. Tail(chan) = <<>>
  <2>1. PICK q : q = Tail(chan)
    OBVIOUS
  <2>2. q \in Seq(Events) /\ Len(q) = 0
    BY <1>2, <1>5, <2>1
  <2>3. q = <<>>
    BY <2>2
  <2> QED
    BY <2>1, <2>3
<1> QED
  BY <1>1, <1>2, <1>4, <1>5, <1>6 DEF ChannelFits

\* A frame that is taken out of the channel leaves a channel.
LEMMA FrameTaken ==
    ASSUME TasksFit, chan # <<>>, NextEvent.kind = "frame"
    PROVE  /\ ChannelFits(Tail(chan), ack, prod) /\ NextEvent \in Events /\ NextEvent.seq # 0
           /\ ack = "waiting" => Tail(chan) # <<>>
           /\ ~(prod.pc = "ack" /\ ack = "given") /\ prod.fwd # 0
<1>1. ChannelFits(chan, ack, prod) /\ chan \in Seq(Events) /\ ProducerFits(prod)
  BY TasksParts
<1>2. PICK q : q = Tail(chan)
  OBVIOUS
<1>3. /\ NextEvent = chan[1] /\ NextEvent \in Events /\ Len(chan) \in Nat /\ Len(chan) >= 1
      /\ q \in Seq(Events) /\ Len(q) = Len(chan) - 1
      /\ \A i \in 1 .. Len(chan) - 1 : q[i] = chan[i + 1]
  BY <1>1, <1>2, HeadIs DEF NextEvent
<1>4. prod.fwd # 0 /\ ~(prod.pc = "ack" /\ ack = "given") /\ NextEvent.seq # 0
  BY <1>1, <1>3 DEF ChannelFits
<1>5. ack = "waiting" => Len(chan) # 1
  <2>1. SUFFICES ASSUME ack = "waiting", Len(chan) = 1 PROVE FALSE
    OBVIOUS
  <2>2. chan[1].kind = Head(prod.plan) /\ prod.pc = "ack"
    BY <1>1, <2>1 DEF ChannelFits
  <2>3. Head(prod.plan) \in {"boundary", "resumed"}
    BY <1>1, <2>2 DEF ProducerFits
  <2> QED
    BY <1>3, <2>2, <2>3
<1>6. \A i \in 1 .. Len(q) : i + 1 \in 1 .. Len(chan) /\ q[i] = chan[i + 1] /\ (i < Len(q) <=> i + 1 < Len(chan))
  BY <1>3
<1>7. ack = "waiting" => q # <<>> /\ q[Len(q)] = chan[Len(chan)]
  BY <1>3, <1>5
<1>8. Len(q) <= Depth
  <2>1. Depth \in Nat /\ Len(chan) <= Depth
    BY <1>1, ShowcaseAssumption DEF ChannelFits
  <2> QED
    BY <1>3, <2>1
<1>9. ChannelFits(q, ack, prod)
  BY <1>1, <1>3, <1>4, <1>6, <1>7, <1>8 DEF ChannelFits
<1> QED
  BY <1>2, <1>3, <1>4, <1>7, <1>9

\* An event that is handled stays delivered.
LEMMA TakenDelivered ==
    ASSUME NEW q \in Seq(Events), q # <<>>, NEW last, NEW n, Delivered(q, last, n)
    PROVE  /\ Head(q).kind # "boundary" => Delivered(Tail(q), Head(q).seq, n)
           /\ Head(q).kind = "boundary" => Delivered(Tail(q), last, n)
<1>1. PICK r : r = Tail(q)
  OBVIOUS
<1>2. /\ Head(q) = q[1] /\ Len(q) \in Nat /\ Len(q) >= 1 /\ Len(r) = Len(q) - 1
      /\ \A i \in 1 .. Len(q) - 1 : r[i] = q[i + 1]
  BY <1>1, HeadIs
<1>3. \A i \in 1 .. Len(r) : i + 1 \in 1 .. Len(q) /\ r[i] = q[i + 1]
  BY <1>2
<1>4. CASE n <= last /\ \A i \in 1 .. Len(q) : q[i].kind = "boundary"
  <2>1. q[1].kind = "boundary" /\ \A i \in 1 .. Len(r) : r[i].kind = "boundary"
    BY <1>2, <1>3, <1>4
  <2> QED
    BY <1>1, <1>2, <1>4, <2>1 DEF Delivered
<1>5. CASE \E i \in 1 .. Len(q) : /\ q[i].kind # "boundary" /\ q[i].seq >= n
                                  /\ \A j \in 1 .. Len(q) : j > i => q[j].kind = "boundary"
  <2>1. PICK i \in 1 .. Len(q) : /\ q[i].kind # "boundary" /\ q[i].seq >= n
                                 /\ \A j \in 1 .. Len(q) : j > i => q[j].kind = "boundary"
    BY <1>5
  <2>2. CASE i = 1
    <3>1. \A j \in 1 .. Len(r) : r[j].kind = "boundary"
      BY <1>3, <2>1, <2>2
    <3>2. n <= Head(q).seq
      BY <1>2, <2>1, <2>2
    <3> QED
      BY <1>1, <1>2, <2>1, <2>2, <3>1, <3>2 DEF Delivered
  <2>3. CASE i # 1
    <3>1. PICK k \in 1 .. Len(r) : k = i - 1 /\ k + 1 = i
      BY <1>2, <2>3
    <3>2. r[k] = q[i]
      BY <1>3, <3>1
    <3>3. \A j \in 1 .. Len(r) : j > k => r[j].kind = "boundary"
      BY <1>3, <2>1, <3>1
    <3> QED
      BY <1>1, <2>1, <3>2, <3>3 DEF Delivered
  <2> QED
    BY <2>2, <2>3
<1> QED
  BY <1>4, <1>5 DEF Delivered

\* The encoder answers an event that asks for an acknowledgement.
LEMMA RequestHandled ==
    ASSUME TasksFit, chan # <<>>, NextEvent.kind \in {"boundary", "resumed"},
           enc.pc \in {"first", "run"}, chan' = Tail(chan), ack' = "given",
           UNCHANGED <<shown, prod, stopper, revoked, public>>,
           enc' \in Encoders, media' \in Medias, enc'.pc \in {"first", "run"},
           enc'.pc = "run" => enc'.first # 0, enc'.pc = "first" => media'.partial = 0,
           NextEvent.kind = "boundary" => media'.partial = 0 /\ enc'.last = enc.last,
           NextEvent.kind = "resumed" => media'.partial # 0 /\ enc'.last = NextEvent.seq
    PROVE  TasksFit'
<1> USE ShowcaseAssumption
<1>1. /\ ProducerFits(prod) /\ ChannelFits(chan, ack, prod) /\ EncoderFits /\ Finalized
      /\ Ended /\ LeavingSaw /\ SegmentsFit /\ chan \in Seq(Events)
      /\ prod.seen.latest \in 0 .. MaxFrames
  BY TasksParts
<1>2. /\ Tail(chan) = <<>> /\ ack = "waiting" /\ prod.pc = "ack"
      /\ NextEvent.kind = Head(prod.plan) /\ NextEvent.seq = prod.seen.latest
  BY RequestIsLast
<1>3. ProducerFits(prod')
  BY <1>1
<1>4. chan' = <<>> /\ prod' = prod /\ prod.fwd # 0
  BY <1>1, <1>2 DEF ChannelFits
<1>5. ChannelFits(chan', ack', prod')
  BY <1>4, EmptyChannel
<1>6. Delivered(chan, enc.last, prod.fwd) => Delivered(chan', enc'.last, prod'.fwd)
  BY <1>1, <1>4, TakenDelivered DEF NextEvent
<1>7. EncoderFits'
  <2>1. Head(prod'.plan) = "resumed" => enc'.last >= prod'.seen.latest
    BY <1>1, <1>2, <1>4
  <2>2. public \in Publics /\ revoked \in BOOLEAN
    BY <1>1 DEF EncoderFits
  <2>3. ~revoked' /\ enc'.pc \in {"first", "run", "finish"} => Delivered(chan', enc'.last, prod'.fwd)
    BY <1>1, <1>6 DEF EncoderFits
  <2> QED
    BY <1>2, <1>4, <2>1, <2>2, <2>3 DEF EncoderFits
<1>8. Finalized'
  BY <1>1 DEF Finalized
<1>9. Ended' /\ LeavingSaw'
  BY <1>1, <1>2 DEF Ended, LeavingSaw
<1>10. SegmentsFit'
  BY <1>2, <1>4 DEF SegmentsFit
<1> QED
  BY <1>3, <1>5, <1>7, <1>8, <1>9, <1>10 DEF TasksFit

\* While a frame is in the channel the producer is not paused.
LEMMA FrameMeansRunning ==
    ASSUME TasksFit, chan # <<>>, NextEvent.kind = "frame"
    PROVE  /\ ~(prod.paused /\ prod.pc \in {"read", "wait", "send"})
           /\ ~(prod.paused /\ prod.pc = "ack" /\ ack = "waiting")
<1>1. SegmentsFit /\ chan \in Seq(Events)
  BY TasksParts
<1>2. ack = "waiting" => Tail(chan) # <<>>
  BY FrameTaken
<1>3. Len(chan) = 1 => Tail(chan) = <<>>
  <2>1. PICK q : q = Tail(chan)
    OBVIOUS
  <2>2. q \in Seq(Events) /\ Len(q) = Len(chan) - 1 /\ Len(chan) \in Nat
    BY <1>1, <2>1, HeadIs
  <2>3. Len(q) = 0 => q = <<>>
    BY <2>2
  <2> QED
    BY <2>1, <2>2, <2>3
<1> QED
  BY <1>1, <1>2, <1>3 DEF SegmentsFit

\* The encoder takes a frame into a segment.
LEMMA FrameHandled ==
    ASSUME TasksFit, chan # <<>>, NextEvent.kind = "frame",
           enc.pc \in {"first", "run"}, chan' = Tail(chan), ack' = ack,
           UNCHANGED <<shown, prod, stopper, revoked, public>>,
           enc' \in Encoders, media' \in Medias, enc'.pc = "run", enc'.first # 0,
           media'.partial # 0, enc'.last = NextEvent.seq
    PROVE  TasksFit'
<1>1. /\ ProducerFits(prod) /\ ChannelFits(chan, ack, prod) /\ EncoderFits /\ Finalized
      /\ Ended /\ LeavingSaw /\ SegmentsFit /\ chan \in Seq(Events)
  BY TasksParts
<1>2. /\ ChannelFits(Tail(chan), ack, prod) /\ ~(prod.pc = "ack" /\ ack = "given")
      /\ prod.fwd # 0
  BY FrameTaken
<1>3. ProducerFits(prod') /\ prod' = prod
  BY <1>1
<1>4. ChannelFits(chan', ack', prod')
  BY <1>2, <1>3
<1>5. Delivered(chan, enc.last, prod.fwd) => Delivered(chan', enc'.last, prod'.fwd)
  BY <1>1, <1>3, TakenDelivered DEF NextEvent
<1>6. EncoderFits'
  <2>1. public \in Publics /\ revoked \in BOOLEAN
    BY <1>1 DEF EncoderFits
  <2>2. ~revoked' /\ enc'.pc \in {"first", "run", "finish"} => Delivered(chan', enc'.last, prod'.fwd)
    BY <1>1, <1>5 DEF EncoderFits
  <2>3. prod'.pc = "ack" /\ ack' = "refused" => revoked'
    BY <1>1, <1>3 DEF EncoderFits
  <2> QED
    BY <1>2, <1>3, <2>1, <2>2, <2>3 DEF EncoderFits
<1>7. Finalized'
  BY <1>1 DEF Finalized
<1>8. Ended' /\ LeavingSaw'
  BY <1>1 DEF Ended, LeavingSaw
<1>9. SegmentsFit'
  BY <1>2, <1>3, FrameMeansRunning DEF SegmentsFit
<1> QED
  BY <1>3, <1>4, <1>6, <1>7, <1>8, <1>9 DEF TasksFit

\* What the segments become.
LEMMA MediaSteps ==
    ASSUME NEW m \in Medias
    PROVE  /\ BeginSegment(m) \in Medias /\ BeginSegment(m).partial # 0
           /\ AddSample(m) \in Medias /\ AddSample(m).partial # 0
           /\ FinalizeSegment(m) \in Medias /\ FinalizeSegment(m).partial = 0
           /\ FinalizeSegment(m).finished = m.finished + m.partial
           /\ FinalizeSegment(m).manifest = m.manifest
<1>1. Manifested(m) \in Medias /\ Manifested(m).partial = m.partial
  BY DEF Manifested, Medias
<1>2. PICK n \in Medias : n = Manifested(m) /\ n.partial = m.partial
  BY <1>1
<1>3. BeginSegment(m) = [n EXCEPT !.partial = 1] /\ AddSample(m) = [n EXCEPT !.partial = n.partial + 1]
  BY <1>2 DEF BeginSegment, AddSample
<1>4. n.partial \in Nat
  BY DEF Medias
<1>5. BeginSegment(m) \in Medias /\ BeginSegment(m).partial # 0
  BY <1>3 DEF Medias
<1>6. AddSample(m) \in Medias /\ AddSample(m).partial # 0
  BY <1>3, <1>4 DEF Medias
<1>7. m.finished \in Nat /\ m.partial \in Nat
  BY DEF Medias
<1>8. /\ FinalizeSegment(m) \in Medias /\ FinalizeSegment(m).partial = 0
      /\ FinalizeSegment(m).finished = m.finished + m.partial
      /\ FinalizeSegment(m).manifest = m.manifest
  <2>1. PICK f \in Nat : f = m.finished + m.partial
    BY <1>7
  <2>2. FinalizeSegment(m) = [m EXCEPT !.finished = f, !.partial = 0]
    BY <2>1 DEF FinalizeSegment
  <2>3. PICK n0 \in Nat : n0 = 0
    OBVIOUS
  <2>4. FinalizeSegment(m) = [m EXCEPT !.finished = f, !.partial = n0]
    BY <2>2, <2>3
  <2>5. FinalizeSegment(m) \in Medias
    BY <2>4 DEF Medias
  <2> QED
    BY <2>1, <2>2, <2>5 DEF Medias
<1> QED
  BY <1>5, <1>6, <1>8

\* receive_first_frame, admission and the ready signal.
LEMMA FirstSteps ==
    ASSUME TasksFit, FirstBoundary \/ FirstFrame \/ NoFirstFrame
    PROVE  TasksFit'
<1>1. /\ EncoderFits /\ chan \in Seq(Events) /\ enc \in Encoders /\ media \in Medias
  BY TasksParts DEF EncoderFits
<1>2. CASE FirstBoundary
  <2>1. /\ enc.pc = "first" /\ chan # <<>> /\ NextEvent.kind = "boundary" /\ chan' = Tail(chan)
        /\ ack' = "given" /\ UNCHANGED <<shown, revoked, prod, enc, media, public, stopper>>
    BY <1>2 DEF FirstBoundary
  <2>2. media.partial = 0
    BY <1>1, <2>1 DEF EncoderFits
  <2>3. /\ enc' \in Encoders /\ media' \in Medias /\ enc'.pc = "first" /\ media'.partial = 0
        /\ enc'.last = enc.last
    BY <1>1, <2>1, <2>2
  <2> QED
    BY <2>1, <2>3, RequestHandled
<1>3. CASE FirstFrame
  <2>1. /\ enc.pc = "first" /\ chan # <<>> /\ NextEvent.kind # "boundary"
        /\ UNCHANGED <<shown, revoked, prod, stopper>>
    BY <1>3 DEF FirstFrame
  <2>2. CASE EncoderReturns("failed", FALSE) /\ media' = media
    BY <1>1, <2>1, <2>2, ReturnsStep
  <2>3. CASE /\ enc' = [pc |-> "run", first |-> NextEvent.seq, last |-> NextEvent.seq]
             /\ media' = BeginSegment(media) /\ chan' = Tail(chan)
             /\ ack' = Answers(NextEvent, "given") /\ public' = public
    <3>1. media' \in Medias /\ media'.partial # 0
      BY <1>1, <2>3, MediaSteps
    <3>2. NextEvent \in Events /\ NextEvent = chan[1] /\ 1 \in 1 .. Len(chan)
      BY <1>1, <2>1, HeadIs DEF NextEvent
    <3>3. NextEvent.seq # 0 /\ NextEvent.seq \in 0 .. MaxFrames /\ NextEvent.kind \in {"frame", "resumed"}
      BY <2>1, <3>2, TasksParts DEF Events, ChannelFits
    <3>4. enc' \in Encoders /\ enc'.pc = "run" /\ enc'.first # 0 /\ enc'.last = NextEvent.seq
      BY <2>3, <3>3 DEF Encoders
    <3>5. CASE NextEvent.kind = "frame"
      <4>1. ack' = ack
        BY <2>3, <3>5 DEF Answers
      <4> QED
        BY <2>1, <2>3, <3>1, <3>4, <3>5, <4>1, FrameHandled
    <3>6. CASE NextEvent.kind = "resumed"
      <4>1. ack' = "given"
        BY <2>3, <3>6 DEF Answers
      <4> QED
        BY <2>1, <2>3, <3>1, <3>4, <3>6, <4>1, RequestHandled
    <3> QED
      BY <3>3, <3>5, <3>6
  <2> QED
    BY <1>3, <2>2, <2>3 DEF FirstFrame
<1>4. CASE NoFirstFrame
  <2>1. /\ enc.pc = "first" /\ EncoderReturns("failed", FALSE)
        /\ UNCHANGED <<shown, revoked, prod, media, stopper>>
    BY <1>4 DEF NoFirstFrame
  <2> QED
    BY <1>1, <2>1, ReturnsStep
<1> QED
  BY <1>2, <1>3, <1>4

\* The end of the authorization.
LEMMA RevokedStep ==
    ASSUME TasksFit, EncoderRevoked
    PROVE  TasksFit'
<1>1. /\ ProducerFits(prod) /\ ChannelFits(chan, ack, prod) /\ EncoderFits /\ Finalized
      /\ Ended /\ LeavingSaw /\ SegmentsFit /\ chan \in Seq(Events)
      /\ enc \in Encoders /\ public \in Publics
  BY TasksParts
<1>2. /\ enc.pc = "run" /\ chan # <<>> /\ revoked /\ chan' = Tail(chan)
      /\ ack' = Answers(NextEvent, "refused") /\ enc' = [enc EXCEPT !.pc = "finish"]
      /\ public' = [public EXCEPT !.terminal = TRUE]
      /\ UNCHANGED <<shown, revoked, prod, media, stopper>>
  BY DEF EncoderRevoked
<1>3. enc' \in Encoders /\ enc'.pc = "finish" /\ enc'.first = enc.first /\ enc'.last = enc.last
  BY <1>1, <1>2 DEF Encoders
<1>4. public' \in Publics /\ public'.outcome = public.outcome
  BY <1>1, <1>2 DEF Publics
<1>5. NextEvent \in Events /\ NextEvent.kind \in {"frame", "boundary", "resumed"}
  BY <1>1, <1>2, HeadIs DEF NextEvent, Events
<1>6. CASE NextEvent.kind = "frame"
  <2>1. ack' = ack
    BY <1>2, <1>6 DEF Answers
  <2>2. /\ ChannelFits(Tail(chan), ack, prod) /\ ~(prod.pc = "ack" /\ ack = "given")
    BY <1>2, <1>6, FrameTaken
  <2>3. ProducerFits(prod') /\ prod' = prod /\ ChannelFits(chan', ack', prod')
    BY <1>1, <1>2, <2>1, <2>2
  <2>4. EncoderFits'
    BY <1>1, <1>2, <1>3, <1>4, <2>1, <2>2 DEF EncoderFits
  <2>5. Finalized' /\ Ended' /\ LeavingSaw'
    BY <1>1, <1>2, <1>3, <1>4 DEF Finalized, Ended, LeavingSaw
  <2>6. SegmentsFit'
    BY <1>2, <1>3, <1>6, <2>1, <2>2, FrameMeansRunning DEF SegmentsFit
  <2> QED
    BY <2>3, <2>4, <2>5, <2>6 DEF TasksFit
<1>7. CASE NextEvent.kind \in {"boundary", "resumed"}
  <2>1. ack' = "refused"
    BY <1>2, <1>7 DEF Answers
  <2>2. Tail(chan) = <<>> /\ prod.pc = "ack"
    BY <1>2, <1>7, RequestIsLast
  <2>3. ProducerFits(prod') /\ prod' = prod /\ ChannelFits(chan', ack', prod')
    BY <1>1, <1>2, <2>1, <2>2, EmptyChannel
  <2>4. EncoderFits'
    BY <1>1, <1>2, <1>3, <1>4, <2>1 DEF EncoderFits
  <2>5. Finalized' /\ Ended' /\ LeavingSaw'
    BY <1>1, <1>2, <1>3, <1>4 DEF Finalized, Ended, LeavingSaw
  <2>6. SegmentsFit'
    BY <1>2, <1>3, <2>1, <2>2 DEF SegmentsFit
  <2> QED
    BY <2>3, <2>4, <2>5, <2>6 DEF TasksFit
<1> QED
  BY <1>5, <1>6, <1>7

\* EncoderEvent::Pause, ::Resumed and ::Frame.
LEMMA EncodeSteps ==
    ASSUME TasksFit, EncodePause \/ EncodeResume \/ EncodeFrame
    PROVE  TasksFit'
<1>1. /\ EncoderFits /\ chan \in Seq(Events) /\ enc \in Encoders /\ media \in Medias
  BY TasksParts DEF EncoderFits
<1>2. /\ enc.pc = "run" /\ chan # <<>> /\ UNCHANGED <<shown, revoked, prod, stopper>>
  BY DEF EncodePause, EncodeResume, EncodeFrame, Admitted
<1>3. enc.first # 0 /\ NextEvent \in Events /\ NextEvent.seq \in 0 .. MaxFrames
  BY <1>1, <1>2, HeadIs DEF EncoderFits, NextEvent, Events
<1>4. CASE EncoderReturns("failed", FALSE) /\ media' = media
  BY <1>1, <1>2, <1>4, ReturnsStep
<1>5. PICK e : e = [enc EXCEPT !.last = NextEvent.seq]
  OBVIOUS
<1>6. e \in Encoders /\ e.pc = "run" /\ e.first # 0 /\ e.last = NextEvent.seq
  BY <1>1, <1>2, <1>3, <1>5 DEF Encoders
<1>7. CASE EncodePause /\ ~(EncoderReturns("failed", FALSE) /\ media' = media)
  <2>1. /\ NextEvent.kind = "boundary" /\ media' = FinalizeSegment(media)
        /\ chan' = Tail(chan) /\ ack' = "given" /\ UNCHANGED <<enc, public>>
    BY <1>7 DEF EncodePause, Admitted
  <2>2. /\ media' \in Medias /\ media'.partial = 0 /\ enc' \in Encoders /\ enc'.pc = "run"
        /\ enc'.first # 0 /\ enc'.last = enc.last
    BY <1>1, <1>2, <1>3, <2>1, MediaSteps
  <2> QED
    BY <1>2, <2>1, <2>2, RequestHandled
<1>8. CASE EncodeResume /\ ~(EncoderReturns("failed", FALSE) /\ media' = media)
  <2>1. /\ NextEvent.kind = "resumed" /\ media' = BeginSegment(media) /\ enc' = e
        /\ chan' = Tail(chan) /\ ack' = "given" /\ UNCHANGED public
    BY <1>5, <1>8 DEF EncodeResume, Admitted
  <2>2. /\ media' \in Medias /\ media'.partial # 0 /\ enc' \in Encoders /\ enc'.pc = "run"
        /\ enc'.first # 0 /\ enc'.last = NextEvent.seq
    BY <1>1, <1>6, <2>1, MediaSteps
  <2> QED
    BY <1>2, <2>1, <2>2, RequestHandled
<1>9. CASE EncodeFrame /\ ~(EncoderReturns("failed", FALSE) /\ media' = media)
  <2>1. /\ NextEvent.kind = "frame" /\ enc' = e /\ chan' = Tail(chan) /\ UNCHANGED <<ack, public>>
        /\ media.partial # 0
        /\ media' \in {media, AddSample(media), BeginSegment(FinalizeSegment(media))}
    BY <1>5, <1>9 DEF EncodeFrame, Admitted
  <2>2. media' \in Medias /\ media'.partial # 0
    <3>1. PICK m : m = FinalizeSegment(media)
      OBVIOUS
    <3>2. m \in Medias
      BY <1>1, <3>1, MediaSteps
    <3>3. BeginSegment(m) \in Medias /\ BeginSegment(m).partial # 0
      BY <3>2, MediaSteps
    <3>4. AddSample(media) \in Medias /\ AddSample(media).partial # 0
      BY <1>1, MediaSteps
    <3> QED
      BY <1>1, <2>1, <3>1, <3>3, <3>4
  <2>3. enc' \in Encoders /\ enc'.pc = "run" /\ enc'.first # 0 /\ enc'.last = NextEvent.seq
    BY <1>6, <2>1
  <2> QED
    BY <1>2, <2>1, <2>2, <2>3, FrameHandled
<1> QED
  BY <1>4, <1>7, <1>8, <1>9

\* The end of the channel, and the end of the recording.
LEMMA FinishSteps ==
    ASSUME TasksFit, EncoderDrained \/ EncoderFinishes
    PROVE  TasksFit'
<1>1. /\ ProducerFits(prod) /\ ChannelFits(chan, ack, prod) /\ EncoderFits /\ Finalized
      /\ Ended /\ LeavingSaw /\ SegmentsFit /\ chan \in Seq(Events)
      /\ enc \in Encoders /\ public \in Publics /\ media \in Medias
  BY TasksParts DEF EncoderFits
<1>2. CASE EncoderDrained
  <2>1. /\ enc.pc = "run" /\ chan = <<>> /\ prod.pc = "ended" /\ enc' = [enc EXCEPT !.pc = "finish"]
        /\ UNCHANGED <<shown, revoked, prod, chan, ack, media, public, stopper>>
    BY <1>2 DEF EncoderDrained
  <2>2. enc' \in Encoders /\ enc'.pc = "finish" /\ enc'.first = enc.first /\ enc'.last = enc.last
    BY <1>1, <2>1 DEF Encoders
  <2>3. ProducerFits(prod') /\ ChannelFits(chan', ack', prod')
    BY <1>1, <2>1
  <2>4. EncoderFits'
    <3>1. ~revoked => Delivered(chan', enc'.last, prod'.fwd)
      BY <1>1, <2>1, <2>2 DEF EncoderFits
    <3> QED
      BY <1>1, <2>1, <2>2, <3>1 DEF EncoderFits
  <2>5. Finalized' /\ Ended' /\ LeavingSaw' /\ SegmentsFit'
    BY <1>1, <2>1, <2>2 DEF Finalized, Ended, LeavingSaw, SegmentsFit
  <2> QED
    BY <2>3, <2>4, <2>5 DEF TasksFit
<1>3. CASE EncoderFinishes
  <2>1. enc.pc = "finish" /\ UNCHANGED <<shown, revoked, prod, stopper>>
    BY <1>3 DEF EncoderFinishes
  <2>2. PICK fault \in Faulty :
          /\ EncoderReturns(IF fault \/ ~Covered(media) THEN "failed" ELSE "finalized", FALSE)
          /\ media' \in IF fault THEN {media, FinalizeSegment(media)} ELSE {FinalizeSegment(media)}
    BY <1>3 DEF EncoderFinishes
  <2>3. PICK o : o = IF fault \/ ~Covered(media) THEN "failed" ELSE "finalized"
    OBVIOUS
  <2>4. o \in {"failed", "finalized"} /\ EncoderReturns(o, FALSE)
    BY <2>2, <2>3
  <2>5. media' \in Medias /\ (media.partial = 0 => media'.partial = 0)
    BY <1>1, <2>2, MediaSteps
  <2>6. o = "finalized" => /\ enc.first # 0 /\ prod.fwd # 0 /\ media'.partial = 0
                           /\ media'.manifest = media'.finished
                           /\ (~revoked => prod.pc = "ended" /\ prod.fwd <= enc.last)
    <3>1. SUFFICES ASSUME o = "finalized"
                   PROVE  /\ enc.first # 0 /\ prod.fwd # 0 /\ media'.partial = 0
                          /\ media'.manifest = media'.finished
                          /\ (~revoked => prod.pc = "ended" /\ prod.fwd <= enc.last)
      OBVIOUS
    <3>2. ~fault /\ Covered(media)
      BY <2>3, <3>1
    <3>3. media' = FinalizeSegment(media)
      BY <2>2, <3>2
    <3>4. media'.partial = 0 /\ media'.manifest = media'.finished
      BY <1>1, <3>2, <3>3, MediaSteps DEF Covered
    <3>5. enc.first # 0 /\ prod.fwd # 0
      BY <1>1, <2>1 DEF EncoderFits
    <3>6. ~revoked => chan = <<>> /\ prod.pc = "ended" /\ Delivered(chan, enc.last, prod.fwd)
      BY <1>1, <2>1 DEF EncoderFits
    <3>7. Delivered(<<>>, enc.last, prod.fwd) => prod.fwd <= enc.last
      BY DEF Delivered
    <3> QED
      BY <3>4, <3>5, <3>6, <3>7
  <2> QED
    BY <2>1, <2>4, <2>5, <2>6, ReturnsStep
<1> QED
  BY <1>2, <1>3

\* Every step of the encoder.
LEMMA EncoderSteps ==
    ASSUME RecordingInv, Own, EncoderStep
    PROVE  RecordingInv'
<1>1. TasksFit
  BY InvParts
<1>2. enc.pc \in {"first", "run", "finish"} /\ UNCHANGED <<source, shown, stopper, prod>>
  BY DEF EncoderStep, FirstBoundary, FirstFrame, NoFirstFrame, EncoderRevoked, EncodePause,
         EncodeResume, EncodeFrame, EncoderDrained, EncoderFinishes, Admitted
<1>3. TasksFit'
  BY <1>1, FirstSteps, RevokedStep, EncodeSteps, FinishSteps DEF EncoderStep
<1> QED
  BY <1>2, <1>3, EncoderTaskStep

(***************************************************************************)
(* The invariant.                                                          *)
(***************************************************************************)
\* A session without a recorder.
LEMMA InitialTasks ==
    ASSUME NoRecorder, revoked = FALSE
    PROVE  TasksFit /\ Joined /\ ~prod.leaving
<1> USE ShowcaseAssumption
<1>1. /\ prod = NoProducer /\ chan = <<>> /\ ack = "none" /\ enc = NoEncoder
      /\ media = NoMedia /\ public = NoPublic /\ stopper = "open"
  BY DEF NoRecorder
<1>2. FreshStatus \in Statuses
  BY DEF FreshStatus, Statuses
<1>3. /\ prod \in Producers /\ prod.pc = "off" /\ ~prod.paused /\ ~prod.leaving
  BY <1>1, <1>2 DEF NoProducer, Producers, Plans
<1>4. ProducerFits(prod)
  BY <1>3 DEF ProducerFits
<1>5. ChannelFits(chan, ack, prod)
  BY <1>1, EmptyChannel
<1>6. enc \in Encoders /\ media \in Medias /\ public \in Publics /\ enc.pc = "off"
      /\ media.partial = 0 /\ public.outcome = "none"
  BY <1>1 DEF NoEncoder, NoMedia, NoPublic, Encoders, Medias, Publics
<1>7. EncoderFits
  BY <1>1, <1>3, <1>6 DEF EncoderFits
<1>8. Finalized /\ Ended /\ LeavingSaw /\ SegmentsFit
  BY <1>3, <1>6 DEF Finalized, Ended, LeavingSaw, SegmentsFit
<1> QED
  BY <1>3, <1>4, <1>5, <1>6, <1>7, <1>8 DEF TasksFit, Joined

\* The invariant holds at first.
LEMMA RecordingInitially == RecordingInit => RecordingInv
<1> SUFFICES ASSUME RecordingInit PROVE RecordingInv
  OBVIOUS
<1> USE ShowcaseAssumption
<1>1. /\ source \in {Closed, Opened(0)} /\ shown = [status |-> FreshStatus, open |-> FALSE]
      /\ revoked = FALSE /\ stops = 0 /\ NoRecorder /\ box = Empty /\ work = Idle
  BY DEF RecordingInit
<1>2. TasksFit /\ Joined /\ ~prod.leaving /\ stopper = "open"
  BY <1>1, InitialTasks DEF NoRecorder
<1>3. StatusFits(FreshStatus) /\ FreshStatus \in Statuses
  BY DEF StatusFits, FreshStatus, Statuses
<1>4. source \in Sources /\ source.status = FreshStatus /\ source.open \in BOOLEAN
  <2>1. Closed \in Sources /\ Closed.status = FreshStatus
    BY <1>3 DEF Closed, Sources
  <2>2. Opened(0) \in Sources /\ Opened(0).status = FreshStatus
    BY <2>1 DEF Opened, Sources
  <2> QED
    BY <1>1, <2>1, <2>2 DEF Sources
<1>5. PICK v \in BOOLEAN : v = source.open
  BY <1>4
<1>6. session = [pc |-> "idle", starts |-> 0, live |-> v, owns |-> FALSE,
                 recorder |-> FALSE, active |-> FALSE, since |-> 0, fence |-> 0, frame |-> 0,
                 request |-> 0, wanted |-> 0, recorderPending |-> FALSE,
                 sourcePending |-> FALSE, issue |-> FALSE, evidence |-> "none"]
  BY <1>5 DEF RecordingInit
<1>7. /\ session \in Sessions /\ session.pc = "idle" /\ session.request = 0 /\ ~session.recorder
      /\ ~session.active /\ ~session.recorderPending /\ session.evidence = "none"
  BY <1>6 DEF Sessions, Calls, Evidence
<1>8. PICK q : q = <<>>
  OBVIOUS
<1>9. q \in Seq(Requests) /\ Len(q) = 0
  BY <1>8
<1>10. box = [stopped |-> FALSE, owner |-> 0, requests |-> q]
  BY <1>1, <1>8 DEF Empty
<1>11. box \in Boxes(1 .. MaxFrames) /\ box.owner = 0 /\ Len(box.requests) = 0
  BY <1>9, <1>10 DEF Boxes, Requests
<1>12. work \in Works /\ work.request = 0 /\ work.pc = "idle"
  BY <1>1 DEF Idle, Works
<1>13. SlotFits(box, work)
  BY <1>11, <1>12 DEF SlotFits
<1>14. SessionFits(session, box, stopper)
  BY <1>2, <1>7, <1>11 DEF SessionFits
<1>15. WatchFits
  BY <1>1, <1>2, <1>3, <1>4, <1>7 DEF WatchFits, InUse
<1>16. RecorderOwned /\ RecordedInFull
  BY <1>2, <1>7 DEF RecorderOwned, RecordedInFull
<1> QED
  BY <1>2, <1>13, <1>14, <1>15, <1>16 DEF RecordingInv

\* Nothing changes when no part of the state does.
LEMMA RecordingStutters == RecordingInv /\ UNCHANGED recordingVars => RecordingInv'
<1> SUFFICES ASSUME RecordingInv, UNCHANGED recordingVars PROVE RecordingInv'
  OBVIOUS
<1>1. UNCHANGED <<box, work, session, stopper, source, shown, stops, prod, chan, ack, enc,
                  media, public, revoked>>
  BY DEF recordingVars
<1>2. /\ SlotFits(box, work) /\ SessionFits(session, box, stopper) /\ WatchFits /\ TasksFit
      /\ RecorderOwned /\ RecordedInFull
  BY InvParts
<1>3. SlotFits(box', work') /\ SessionFits(session', box', stopper')
  BY <1>1, <1>2
<1>4. WatchFits'
  BY <1>1, <1>2 DEF WatchFits
<1>5. ProducerFits(prod') /\ ChannelFits(chan', ack', prod')
  BY <1>1, <1>2 DEF TasksFit
<1>6. EncoderFits'
  BY <1>1, <1>2, TasksParts DEF EncoderFits
<1>7. Finalized' /\ Ended' /\ LeavingSaw' /\ SegmentsFit'
  BY <1>1, <1>2, TasksParts DEF Finalized, Ended, LeavingSaw, SegmentsFit
<1>8. RecorderOwned' /\ RecordedInFull'
  BY <1>1, <1>2 DEF RecorderOwned, RecordedInFull, Joined
<1> QED
  BY <1>3, <1>4, <1>5, <1>6, <1>7, <1>8 DEF RecordingInv, TasksFit

\* Every step keeps the invariant.
LEMMA RecordingSteps == RecordingInv /\ RecordingNext => RecordingInv'
<1> SUFFICES ASSUME RecordingInv, RecordingNext PROVE RecordingInv'
  OBVIOUS
<1>1. CASE Worker
  BY <1>1, StreamSteps, ServiceSteps DEF Worker
<1>2. CASE Session
  BY <1>2, AskSteps, PreparedStep, AnswerSteps, FinalizeSteps, StartupFailsStep, DrainedStep,
     WaitSteps DEF Session
<1>3. CASE Tasks
  <2>1. CASE (RelayCopies \/ RelayEnds) /\ Own
    BY <2>1, RelaySteps
  <2>2. CASE ProducerStep /\ Own
    BY <2>2, ReadSteps, BrokenSteps, SendSteps, AcknowledgedStep, AppliedStep DEF ProducerStep
  <2>3. CASE EncoderStep /\ Own
    BY <2>3, EncoderSteps
  <2> QED
    BY <1>3, <2>1, <2>2, <2>3 DEF Tasks
<1>4. CASE Environment
  <2>1. CASE Revoke /\ Own
    BY <2>1, RelaySteps
  <2>2. CASE \/ Publish \/ Pause \/ WorkerFails \/ Escape \/ Start \/ RecordingStop \/ StopLive
             \/ Dropped
    BY <2>2, StreamSteps, ServiceSteps, StartStep, FinalizeSteps, WaitSteps, DroppedStep
  <2> QED
    BY <1>4, <2>1, <2>2 DEF Environment
<1>5. CASE Timeouts
  BY <1>5, ServiceSteps, WaitSteps DEF Timeouts
<1> QED
  BY <1>1, <1>2, <1>3, <1>4, <1>5 DEF RecordingNext

\* The session, its mailbox, its worker and the two tasks of its recorder fit
\* together in every reachable state: a request in flight owns the slot, a
\* recorder is owned or marked pending until it is joined, the encoder has the
\* frames that were forwarded or they are still in the channel, and the
\* segments follow the acknowledged pauses.
THEOREM RecordingInvariant == RecordingSpec => []RecordingInv
<1>1. RecordingInv /\ [RecordingNext]_recordingVars => RecordingInv'
  BY RecordingSteps, RecordingStutters
<1> QED
  BY <1>1, RecordingInitially, PTL DEF RecordingSpec

\* What recording_stop reports as finalized is finished, however the user, the
\* lease, the worker and the encoder interleaved with the drain.
THEOREM RecordedInFullHolds == RecordingSpec => []RecordedInFull
<1>1. RecordingInv => RecordedInFull
  BY DEF RecordingInv
<1> QED
  BY <1>1, RecordingInvariant, PTL

\* No call that was dropped leaves a task behind that nobody owns, and the slot
\* of the mailbox stays with the work in flight.
THEOREM NothingUnownedHolds == RecordingSpec => []NothingUnowned
<1>1. RecordingInv => NothingUnowned
  <2> SUFFICES ASSUME RecordingInv PROVE NothingUnowned
    OBVIOUS
  <2>1. /\ SlotFits(box, work) /\ SessionFits(session, box, stopper) /\ WatchFits /\ TasksFit
        /\ RecorderOwned
    BY InvParts
  <2>2. /\ ProducerFits(prod) /\ ChannelFits(chan, ack, prod) /\ EncoderFits /\ prod \in Producers
    BY <2>1, TasksParts
  <2>3. /\ source \in [status : Statuses, open : BOOLEAN, since : 0 .. 1, shutdown : BOOLEAN,
                       pauses : 0 .. MaxPauses]
        /\ shown \in [status : Statuses, open : BOOLEAN]
    <3>1. 0 .. 1 = {0, 1}
      OBVIOUS
    <3> QED
      BY <2>1, <3>1 DEF WatchFits, Sources
  <2>4. prod.pc \in {"off", "read", "wait", "send", "ack", "ended"}
    BY <2>2 DEF Producers
  <2>5. Len(chan) <= Depth /\ ack \in {"none", "waiting", "given", "refused"}
    BY <2>2 DEF ChannelFits
  <2>6. /\ enc \in [pc : {"off", "first", "run", "finish", "done"},
                    first : 0 .. MaxFrames, last : 0 .. MaxFrames]
        /\ media \in [finished : Nat, partial : Nat, manifest : Nat]
        /\ public \in [paused : BOOLEAN, terminal : BOOLEAN,
                       outcome : {"none", "failed", "finalized"}]
    BY <2>2 DEF EncoderFits, Encoders, Medias, Publics
  <2>7. session.pc \in Calls /\ session.evidence \in Evidence
    BY <2>1 DEF SessionFits, Sessions
  <2>8. box \in Boxes(1 .. MaxFrames) /\ work.request \in 0 .. Len(box.requests)
        /\ (work.request # 0 => box.owner = work.request)
    BY <2>1 DEF SlotFits
  <2>9. RecordingTypeOK
    BY <2>3, <2>4, <2>5, <2>6, <2>7, <2>8 DEF RecordingTypeOK
  <2> QED
    BY <2>1, <2>8, <2>9 DEF NothingUnowned, RecorderOwned, InUse, WorkerBusy
<1> QED
  BY <1>1, RecordingInvariant, PTL

\* Only apply_status and the start of a recorder change the pause that the
\* recorder shows.
LEMMA PauseShown ==
    ASSUME RecordingInv, RecordingNext
    PROVE  ProducerApplied \/ Prepared \/ public'.paused = public.paused
<1>1. public \in Publics
  BY InvParts, TasksParts
<1>2. CASE Worker \/ Timeouts
  BY <1>2 DEF Worker, Timeouts, WorkerLeaves, WorkerTakes, WorkerValidates, WorkerAnswers, Expire,
              FirstFrameSeen, GiveUpFirst, NoFrame, recorder
<1>3. CASE Session
  BY <1>3 DEF Session, TakeFrame, PreparationFails, AskEncoded, RefuseEncoded, StartupFails,
              Activated, EncodedFails, Drained, StreamJoined, recorder
<1>4. CASE Environment
  BY <1>4 DEF Environment, Publish, Pause, WorkerFails, Escape, Start, RecordingStop, StopLive,
              Dropped, Revoke, recorder
<1>5. CASE RelayCopies \/ RelayEnds \/ ProducerStep
  BY <1>5 DEF RelayCopies, RelayEnds, ProducerStep, ProducerReads, ProducerFlushes, ProducerLeaves,
              ProducerTries, ProducerSends, ProducerBroken, ProducerAcknowledged
<1>6. CASE EncoderStep
  <2>1. ASSUME NEW o, EncoderReturns(o, FALSE) PROVE public'.paused = public.paused
    BY <1>1, <2>1 DEF EncoderReturns, Publics
  <2>2. EncoderRevoked => public'.paused = public.paused
    BY <1>1 DEF EncoderRevoked, Publics
  <2>3. CASE FirstBoundary \/ FirstFrame \/ NoFirstFrame
    BY <2>1, <2>3 DEF FirstBoundary, FirstFrame, NoFirstFrame
  <2>4. CASE EncodePause \/ EncodeResume \/ EncodeFrame
    BY <2>1, <2>4 DEF EncodePause, EncodeResume, EncodeFrame
  <2>5. CASE EncoderDrained \/ EncoderFinishes
    BY <2>1, <2>5 DEF EncoderDrained, EncoderFinishes
  <2> QED
    BY <1>6, <2>2, <2>3, <2>4, <2>5 DEF EncoderStep
<1> QED
  BY <1>2, <1>3, <1>4, <1>5, <1>6 DEF RecordingNext, Tasks

\* The recorder says it is paused only once the segment before the pause is
\* closed, and stops saying so only with the next segment open.
THEOREM PausedIsDurableHolds == RecordingSpec => PausedIsDurable
<1>1. ASSUME RecordingInv, [RecordingNext]_recordingVars
      PROVE  [/\ ~public.paused /\ public'.paused => media.partial = 0
              /\ public.paused /\ ~public'.paused /\ enc'.pc = "run" => media.partial # 0
             ]_recordingVars
  <2>1. CASE UNCHANGED recordingVars
    BY <2>1
  <2>2. CASE RecordingNext
    <3>1. /\ ProducerFits(prod) /\ SegmentsFit /\ public \in Publics /\ prod.paused \in BOOLEAN
      BY <1>1, InvParts, TasksParts
    <3>2. CASE ProducerApplied
      <4>1. /\ prod.pc = "send" /\ prod.plan = <<>> /\ UNCHANGED <<enc, media>> /\ public' = Projected
        BY <3>2 DEF ProducerApplied
      <4>2. public'.paused = (prod.seen.paused \/ (prod.paused /\ public.paused))
        BY <3>1, <4>1 DEF Projected, Publics
      <4>3. prod.seen.paused => prod.paused
        BY <3>1, <4>1, PlansDiffer DEF ProducerFits, PlanFits
      <4>4. (prod.paused => media.partial = 0) /\ (~prod.paused /\ enc.pc = "run" => media.partial # 0)
        BY <3>1, <4>1 DEF SegmentsFit
      <4> QED
        BY <4>1, <4>2, <4>3, <4>4
    <3>3. CASE Prepared
      <4>1. public' = NoPublic /\ enc' = [NoEncoder EXCEPT !.pc = "first"]
        BY <3>3 DEF Prepared, Spawned
      <4>2. ~public'.paused /\ enc'.pc = "first"
        BY <4>1 DEF NoPublic, NoEncoder
      <4> QED
        BY <4>2
    <3>4. CASE public'.paused = public.paused
      BY <3>4
    <3> QED
      BY <1>1, <2>2, <3>2, <3>3, <3>4, PauseShown
  <2> QED
    BY <1>1, <2>1, <2>2
<1> QED
  BY <1>1, RecordingInvariant, PTL DEF RecordingSpec, PausedIsDurable

=============================================================================
