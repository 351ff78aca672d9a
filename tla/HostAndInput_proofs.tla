------------------------ MODULE HostAndInput_proofs ------------------------
(***************************************************************************)
(* Two components that share no state: the connections of a Host and their *)
(* turns at raw input, and the native input calls made in such a turn.     *)
(*                                                                         *)
(* For every number of connections, sessions and stops: the raw-input FIFO *)
(* is a lock, a stop reaches the requests the code looks at again, and a   *)
(* tombstone is final.                                                     *)
(*                                                                         *)
(* For every set of requests, of any number of keys, clicks, points and    *)
(* steps, and every number of disturbances: a call of the fast or of the   *)
(* guarded path releases what it pressed, its fences bound what goes       *)
(* astray, and its result is honest.  The argument keeps two accounts.     *)
(* What is down is due at a named place of the fast path (Due), owed by    *)
(* the transaction of the guarded path (OwedKeys), or stuck by a refusal   *)
(* of the system in a call that reports it (Clean).  What was injected     *)
(* while the target is away, or behind a stop, is none where a check has   *)
(* just passed and at most one injection later (FastStray, GuardStray).    *)
(***************************************************************************)
EXTENDS HostControl, NativeInput, SequenceTheorems, FiniteSetTheorems, WellFoundedInduction, TLAPS

(***************************************************************************)
(* The inductive invariant.                                                *)
(***************************************************************************)
Past == {"cleared"} \cup Dispatched
InService == {"queued"} \cup Past
Sessions == Session \cup {NoSession}
Tasks == {Idle} \cup Opening \cup Waiting \cup Acting

\* NotInterrupted of a session when the generation is g.
Live(x, g) == ~x.interrupted /\ (x.kind = "desktop" \/ x.active => x.generation = g)

\* A session: its tombstone is final, and it knows of no stop that has not
\* happened, so the next stop makes it differ.
SessionFit(x, g) ==
    x # NoSession => /\ x.generation <= g
                     /\ x.interrupted => ~x.active

\* A request in service: its session is there, and a stop or a revocation that
\* found it in the queue, or a pixel action on its way out, can still be seen
\* in the session until the request is refused or can go no further.
RequestFit(t, ss, g) ==
    /\ t.stage \in {"waiting"} \cup InService => ss[t.slot] # NoSession
    /\ t.stage \in InService =>
        LET x == ss[t.slot]
        IN  /\ x.kind = t.kind
            /\ t.stage = "queued" => t.stale # "cleared"
            /\ t.stage = "queued" /\ t.stale = "queued" => ~Live(x, g) \/ x.revoked \/ ~x.active
            /\ t.stage = "cleared" /\ t.stale = "queued" /\ Revalidates(t.op, t.kind) => ~x.active
            /\ t.stage = "cleared" /\ t.stale = "cleared" /\ t.kind = "pixels" =>
                  ~x.active \/ x.generation # g
            /\ t.stage \in Dispatched /\ Revalidates(t.op, t.kind) => t.stale # "queued"
            /\ t.stage \in Dispatched /\ t.kind = "pixels" /\ t.op = "action" => t.stale = "no"

ConnectionFit(c) ==
    /\ \A s \in Slots : SessionFit(sessions[c][s], generation)
    /\ RequestFit(task[c], sessions[c], generation)
    /\ task[c].stage = "opening" => task[c].openedAt <= generation

\* A request that has, or will have, a place in the FIFO.
InTurn(t) == t.stage \in InService /\ UsesTurn(t.op)

\* Whoever is past the queue with a request that uses the input is its head.
HolderIsHead ==
    \A c \in Conns : task[c].stage \in Past /\ UsesTurn(task[c].op) => OwnsTurn(c)

Turns == TurnsBelongToRequests /\ HolderIsHead

Inv == TypeOK /\ Turns /\ \A c \in Conns : ConnectionFit(c)

(***************************************************************************)
(* Sessions and requests as records.                                       *)
(***************************************************************************)
\* The absence of a session is none of the sessions.
LEMMA SessionOrNone ==
    ASSUME NEW x \in Sessions
    PROVE  /\ x # NoSession <=> x \in Session
           /\ x.kind \in Kinds => x \in Session
BY HostControlAssumption DEF Sessions, Session, NoSession

\* The stage of a request says which kind of record it is.
LEMMA StageOf ==
    ASSUME NEW t \in Tasks
    PROVE  /\ t.stage = "idle" => t = Idle
           /\ t.stage = "opening" => t \in Opening
           /\ t.stage = "waiting" => t \in Waiting
           /\ t.stage \in InService => t \in Acting
           /\ t.stage \in InService \cup {"idle", "opening", "waiting"}
BY DEF Tasks, Idle, Opening, Waiting, Acting, InService, Past, Dispatched

\* A connection without a request in service needs no turn ...
LEMMA RestTurn ==
    ASSUME NEW t, t.stage \in {"idle", "opening", "waiting"}
    PROVE  ~InTurn(t) /\ t.stage \notin Past
BY DEF InTurn, InService, Past, Dispatched

\* ... and unless it waits, nothing is asked of its sessions.
LEMMA RestFit ==
    ASSUME NEW t, NEW ss, NEW g, t.stage \in {"idle", "opening"}
    PROVE  RequestFit(t, ss, g)
BY DEF RequestFit, InService, Past, Dispatched

\* The check of the code against the current generation.
LEMMA LiveIsNotInterrupted ==
    ASSUME NEW x PROVE NotInterrupted(x) <=> Live(x, generation)
BY DEF NotInterrupted, BannerInterrupted, Live

\* A stopped session keeps everything but its control.
LEMMA StoppedFields ==
    ASSUME NEW x \in Session
    PROVE  LET y == Stopped(x)
           IN  /\ y \in Session
               /\ y.kind = x.kind /\ y.generation = x.generation /\ y.revoked = x.revoked
               /\ y.interrupted /\ ~y.active
BY DEF Stopped, Session

\* What the second look makes of a session leaves it fit and is as strict.
LEMMA CheckedFields ==
    ASSUME NEW x \in Session, NEW g \in Nat, SessionFit(x, g)
    PROVE  /\ Checked(x) \in Session
           /\ Checked(x).kind = x.kind
           /\ SessionFit(Checked(x), g)
<1>1. CASE Checked(x) = x
  BY <1>1
<1>2. CASE Checked(x) = Stopped(x)
  <2>1. x # NoSession
    BY SessionOrNone DEF Sessions
  <2> QED
    BY <1>2, <2>1, StoppedFields DEF SessionFit
<1> QED
  BY <1>1, <1>2 DEF Checked

\* A stop that finds a request marks it and changes nothing else of it.
LEMMA StaledFields ==
    ASSUME NEW t \in Tasks
    PROVE  /\ Staled(t) \in Tasks
           /\ Staled(t).stage = t.stage
           /\ t.stage \notin {"queued", "cleared"} => Staled(t) = t
           /\ t.stage \in InService =>
                 /\ Staled(t).op = t.op /\ Staled(t).kind = t.kind /\ Staled(t).slot = t.slot
                 /\ Staled(t).stale \in {t.stale, t.stage}
<1>1. CASE Staled(t) = t
  BY <1>1, StageOf DEF Acting
<1>2. CASE Staled(t) # t
  <2>1. t \in Acting /\ t.stage \in {"queued", "cleared"}
    BY <1>2, StageOf DEF Staled, InService, Past
  <2>2. Staled(t) = [t EXCEPT !.stale = t.stage]
    BY <1>2 DEF Staled
  <2>3. /\ Staled(t) \in Acting
        /\ Staled(t).stage = t.stage /\ Staled(t).op = t.op /\ Staled(t).kind = t.kind
        /\ Staled(t).slot = t.slot /\ Staled(t).stale = t.stage
    BY <2>1, <2>2 DEF Acting
  <2> QED
    BY <2>1, <2>3 DEF Tasks
<1> QED
  BY <1>1, <1>2

\* The next stage of a request in service.
LEMMA StageFields ==
    ASSUME NEW t \in Acting, NEW st \in InService
    PROVE  LET u == [t EXCEPT !.stage = st]
           IN  /\ u \in Acting /\ u \in Tasks
               /\ u.stage = st /\ u.op = t.op /\ u.kind = t.kind
               /\ u.slot = t.slot /\ u.stale = t.stale
BY DEF Acting, Tasks, InService, Past, Dispatched

(***************************************************************************)
(* What a step of one connection has to show.                              *)
(***************************************************************************)
\* Connections are independent but for the queue: a step of c keeps the others.
LEMMA OneConnection ==
    ASSUME Inv, NEW c \in Conns, NEW t \in Tasks, NEW ss \in [Slots -> Sessions],
           generation' = generation,
           connected' \in [Conns -> BOOLEAN],
           observed' \in [Conns -> 0 .. MaxGeneration],
           queue' \in Seq(Conns),
           task' = [task EXCEPT ![c] = t],
           sessions' = [sessions EXCEPT ![c] = ss],
           \A s \in Slots : SessionFit(ss[s], generation),
           RequestFit(t, ss, generation),
           t.stage = "opening" => t.openedAt <= generation
    PROVE  TypeOK' /\ \A d \in Conns : ConnectionFit(d)'
<1>1. TypeOK'
  BY DEF Inv, TypeOK, Tasks, Sessions
<1>2. ASSUME NEW d \in Conns PROVE ConnectionFit(d)'
  <2>1. CASE d = c
    <3>1. task'[d] = t /\ sessions'[d] = ss
      BY <2>1 DEF Inv, TypeOK
    <3> QED
      BY <3>1 DEF ConnectionFit
  <2>2. CASE d # c
    <3>1. task'[d] = task[d] /\ sessions'[d] = sessions[d] /\ ConnectionFit(d)
      BY <2>2 DEF Inv, TypeOK
    <3> QED
      BY <3>1 DEF ConnectionFit
  <2> QED
    BY <2>1, <2>2
<1> QED
  BY <1>1, <1>2

\* The same when the sessions stay as they are.
LEMMA OneTask ==
    ASSUME Inv, NEW c \in Conns, NEW t \in Tasks,
           generation' = generation,
           connected' \in [Conns -> BOOLEAN],
           observed' \in [Conns -> 0 .. MaxGeneration],
           queue' \in Seq(Conns),
           task' = [task EXCEPT ![c] = t],
           sessions' = sessions,
           RequestFit(t, sessions[c], generation),
           t.stage = "opening" => t.openedAt <= generation
    PROVE  TypeOK' /\ \A d \in Conns : ConnectionFit(d)'
<1>1. sessions[c] \in [Slots -> Sessions] /\ sessions' = [sessions EXCEPT ![c] = sessions[c]]
  BY DEF Inv, TypeOK, Sessions
<1>2. \A s \in Slots : SessionFit(sessions[c][s], generation)
  BY DEF Inv, ConnectionFit
<1> HIDE DEF Inv
<1> QED
  BY <1>1, <1>2, OneConnection

\* The same when one session changes.
LEMMA OneSession ==
    ASSUME Inv, NEW c \in Conns, NEW s \in Slots, NEW x \in Sessions, NEW t \in Tasks,
           generation' = generation,
           connected' \in [Conns -> BOOLEAN],
           observed' \in [Conns -> 0 .. MaxGeneration],
           queue' \in Seq(Conns),
           task' = [task EXCEPT ![c] = t],
           SetSession(c, s, x),
           SessionFit(x, generation),
           RequestFit(t, [sessions[c] EXCEPT ![s] = x], generation),
           t.stage # "opening"
    PROVE  TypeOK' /\ \A d \in Conns : ConnectionFit(d)'
<1> DEFINE ss == [sessions[c] EXCEPT ![s] = x]
<1>1. ss \in [Slots -> Sessions] /\ sessions' = [sessions EXCEPT ![c] = ss]
  BY DEF Inv, TypeOK, Sessions, SetSession
<1>2. \A r \in Slots : SessionFit(ss[r], generation)
  BY DEF Inv, TypeOK, ConnectionFit
<1> HIDE DEF ss
<1>3. RequestFit(t, ss, generation)
  BY DEF ss
<1> QED
  BY <1>1, <1>2, <1>3, OneConnection

(***************************************************************************)
(* The queue.                                                              *)
(***************************************************************************)
\* Everyone in the queue has a request in its turn, and is there once.
LEMMA TurnsAre ==
    Turns <=> /\ \A i \in DOMAIN queue : InTurn(task[queue[i]])
              /\ \A i, j \in DOMAIN queue : queue[i] = queue[j] => i = j
              /\ HolderIsHead
BY DEF Turns, TurnsBelongToRequests, InTurn, InService, Past, UsesTurn

\* The queue stays: no request loses its need of a turn, none takes one that
\* is not the head's.
LEMMA QueueStays ==
    ASSUME Inv, queue' = queue,
           \A d \in Conns : InTurn(task[d]) => InTurn(task'[d]),
           \A d \in Conns : task'[d].stage \in Past /\ UsesTurn(task'[d].op) => OwnsTurn(d)
    PROVE  Turns'
<1>1. \A i \in DOMAIN queue : queue[i] \in Conns
  BY DEF Inv, TypeOK
<1>2. \A i \in DOMAIN queue' : InTurn(task'[queue'[i]])
  BY <1>1, TurnsAre DEF Inv
<1>3. \A i, j \in DOMAIN queue' : queue'[i] = queue'[j] => i = j
  BY TurnsAre DEF Inv
<1>4. HolderIsHead'
  BY DEF HolderIsHead, OwnsTurn
<1> QED
  BY <1>2, <1>3, <1>4 DEF Turns, TurnsBelongToRequests, InTurn, InService, Past, UsesTurn

\* One request goes on and the queue stays.
LEMMA TaskKeepsQueue ==
    ASSUME Inv, queue' = queue, NEW c \in Conns, NEW t, task' = [task EXCEPT ![c] = t],
           InTurn(task[c]) => InTurn(t),
           t.stage \in Past /\ UsesTurn(t.op) => OwnsTurn(c)
    PROVE  Turns'
<1>1. \A d \in Conns : task'[d] = IF d = c THEN t ELSE task[d]
  BY DEF Inv, TypeOK
<1>2. \A d \in Conns : InTurn(task[d]) => InTurn(task'[d])
  BY <1>1
<1>3. \A d \in Conns : task'[d].stage \in Past /\ UsesTurn(task'[d].op) => OwnsTurn(d)
  BY <1>1 DEF Inv, Turns, HolderIsHead
<1> QED
  BY <1>2, <1>3, QueueStays

\* A request that needs its turn takes the place behind all others.
LEMMA AppendTurn ==
    ASSUME Inv, NEW c \in Conns, NEW t, task' = [task EXCEPT ![c] = t],
           ~InTurn(task[c]), InTurn(t), t.stage \notin Past,
           queue' = Append(queue, c)
    PROVE  queue' \in Seq(Conns) /\ Turns'
<1>1. \A d \in Conns : task'[d] = IF d = c THEN t ELSE task[d]
  BY DEF Inv, TypeOK
<1>2. /\ queue \in Seq(Conns) /\ queue' \in Seq(Conns)
      /\ Len(queue) \in Nat
      /\ DOMAIN queue = 1 .. Len(queue)
      /\ DOMAIN queue' = 1 .. (Len(queue) + 1)
      /\ \A i \in DOMAIN queue : queue'[i] = queue[i] /\ queue[i] \in Conns
      /\ queue'[Len(queue) + 1] = c
  BY DEF Inv, TypeOK
<1>3. \A i \in DOMAIN queue : InTurn(task[queue[i]]) /\ queue[i] # c
  BY <1>2, TurnsAre DEF Inv
<1>4. \A i \in DOMAIN queue' : InTurn(task'[queue'[i]])
  BY <1>1, <1>2, <1>3
<1>5. \A i, j \in DOMAIN queue' : queue'[i] = queue'[j] => i = j
  <2>1. \A i, j \in DOMAIN queue : queue[i] = queue[j] => i = j
    BY TurnsAre DEF Inv
  <2> QED
    BY <1>2, <1>3, <2>1
<1>6. HolderIsHead'
  <2> SUFFICES ASSUME NEW d \in Conns, task'[d].stage \in Past, UsesTurn(task'[d].op)
               PROVE  OwnsTurn(d)'
    BY DEF HolderIsHead
  <2>1. OwnsTurn(d)
    BY <1>1 DEF Inv, Turns, HolderIsHead
  <2>2. 1 \in DOMAIN queue /\ queue[1] = d
    BY <1>2, <2>1, EmptySeq DEF OwnsTurn
  <2>3. queue' # <<>> /\ queue'[1] = d
    BY <1>2, <2>2
  <2> QED
    BY <1>2, <2>3 DEF OwnsTurn
<1> QED
  BY <1>2, <1>4, <1>5, <1>6 DEF Turns, TurnsBelongToRequests, InTurn, InService, Past, UsesTurn

\* The request of c is answered: its place goes with it, and only its place.
LEMMA AnswerReleases ==
    ASSUME Inv, NEW c \in Conns, Answer(c), InTurn(task[c]) => OwnsTurn(c)
    PROVE  queue' \in Seq(Conns) /\ Turns'
<1>1. \A d \in Conns : task'[d] = IF d = c THEN Idle ELSE task[d]
  BY DEF Inv, TypeOK, Answer, SetTask
<1>2. ~InTurn(Idle) /\ Idle.stage \notin Past
  BY RestTurn DEF Idle
<1>3. queue \in Seq(Conns) /\ Len(queue) \in Nat /\ DOMAIN queue = 1 .. Len(queue)
  BY DEF Inv, TypeOK
<1>4. \A d \in Conns : task'[d].stage \in Past /\ UsesTurn(task'[d].op) => d # c /\ OwnsTurn(d)
  BY <1>1, <1>2 DEF Inv, Turns, HolderIsHead
<1>5. CASE OwnsTurn(c)
  <2>1. queue # <<>> /\ queue[1] = c /\ queue' = Tail(queue) /\ Len(queue) >= 1
    BY <1>3, <1>5, EmptySeq DEF Answer, Released, OwnsTurn
  <2>2. /\ queue' \in Seq(Conns)
        /\ DOMAIN queue' = 1 .. (Len(queue) - 1)
        /\ \A i \in DOMAIN queue' : queue'[i] = queue[i + 1] /\ queue'[i] \in Conns
    BY <1>3, <2>1
  <2>3. \A i, j \in DOMAIN queue : queue[i] = queue[j] => i = j
    BY TurnsAre DEF Inv
  <2>4. \A i \in DOMAIN queue' : i + 1 \in DOMAIN queue /\ i + 1 # 1 /\ queue'[i] # c
    BY <1>3, <2>1, <2>2, <2>3
  <2>5. \A i \in DOMAIN queue' : InTurn(task'[queue'[i]])
    BY <1>1, <2>2, <2>4, TurnsAre DEF Inv
  <2>6. \A i, j \in DOMAIN queue' : queue'[i] = queue'[j] => i = j
    BY <1>3, <2>2, <2>3, <2>4
  <2>7. HolderIsHead'
    BY <1>4, <1>5 DEF HolderIsHead, OwnsTurn
  <2> QED
    BY <2>2, <2>5, <2>6, <2>7 DEF Turns, TurnsBelongToRequests, InTurn, InService, Past, UsesTurn
<1>6. CASE ~OwnsTurn(c)
  <2>1. queue' = queue /\ task' = [task EXCEPT ![c] = Idle]
    BY <1>6 DEF Answer, Released, SetTask
  <2> QED
    BY <1>2, <1>3, <1>6, <2>1, TaskKeepsQueue
<1> QED
  BY <1>5, <1>6

(***************************************************************************)
(* The invariant is inductive: opening, closing, waiting.                  *)
(***************************************************************************)
\* The facts of Inv about one connection.
LEMMA InvOf ==
    ASSUME Inv, NEW c \in Conns
    PROVE  /\ generation \in 0 .. MaxGeneration /\ generation \in Nat
           /\ task[c] \in Tasks /\ sessions[c] \in [Slots -> Sessions]
           /\ task = [task EXCEPT ![c] = task[c]]
           /\ sessions = [sessions EXCEPT ![c] = sessions[c]]
           /\ ConnectionFit(c)
           /\ task[c].stage \in Past /\ UsesTurn(task[c].op) => OwnsTurn(c)
           /\ connected \in [Conns -> BOOLEAN]
           /\ observed \in [Conns -> 0 .. MaxGeneration]
           /\ queue \in Seq(Conns)
BY HostControlAssumption DEF Inv, TypeOK, Tasks, Sessions, Turns, HolderIsHead

\* A connection between two requests, or in a wait, becomes idle.
LEMMA BecomesIdle ==
    ASSUME Inv, NEW c \in Conns, NEW ss \in [Slots -> Sessions],
           task[c].stage \in {"idle", "opening", "waiting"},
           generation' = generation, queue' = queue,
           connected' \in [Conns -> BOOLEAN],
           observed' \in [Conns -> 0 .. MaxGeneration],
           task' = [task EXCEPT ![c] = Idle],
           sessions' = [sessions EXCEPT ![c] = ss],
           \A s \in Slots : SessionFit(ss[s], generation)
    PROVE  Inv'
<1>1. Idle \in Tasks /\ Idle.stage = "idle"
  BY DEF Tasks, Idle
<1>2. ~InTurn(task[c]) /\ ~InTurn(Idle) /\ Idle.stage \notin Past /\ RequestFit(Idle, ss, generation)
  BY <1>1, RestFit, RestTurn
<1>3. TypeOK' /\ \A d \in Conns : ConnectionFit(d)'
  BY <1>1, <1>2, InvOf, OneConnection
<1>4. Turns'
  BY <1>2, TaskKeepsQueue
<1> QED
  BY <1>3, <1>4 DEF Inv

\* An idle connection changes one of its sessions.
LEMMA IdleSession ==
    ASSUME Inv, NEW c \in Conns, NEW s \in Slots, NEW x \in Sessions,
           task[c].stage \in {"idle", "opening", "waiting"},
           task' = [task EXCEPT ![c] = Idle],
           SetSession(c, s, x), SessionFit(x, generation),
           UNCHANGED <<generation, connected, observed, queue>>
    PROVE  Inv'
<1> DEFINE ss == [sessions[c] EXCEPT ![s] = x]
<1>1. ss \in [Slots -> Sessions]
  BY InvOf
<1>2. \A r \in Slots : SessionFit(ss[r], generation)
  BY InvOf DEF ConnectionFit
<1>3. sessions' = [sessions EXCEPT ![c] = ss]
  BY DEF SetSession
<1>4. /\ connected' \in [Conns -> BOOLEAN] /\ observed' \in [Conns -> 0 .. MaxGeneration]
      /\ generation' = generation /\ queue' = queue
  BY InvOf
<1> HIDE DEF ss
<1> QED
  BY <1>1, <1>2, <1>3, <1>4, BecomesIdle

\* No session at all is fit.
LEMMA NoneFit == NoSession \in Sessions /\ \A g : SessionFit(NoSession, g)
BY DEF Sessions, SessionFit

\* A connection is accepted: it takes the generation as it finds it.
LEMMA ConnectStep ==
    ASSUME Inv, NEW c \in Conns, Connect(c) PROVE Inv'
<1>1. /\ connected' \in [Conns -> BOOLEAN] /\ observed' \in [Conns -> 0 .. MaxGeneration]
      /\ generation' = generation /\ queue' = queue /\ queue' \in Seq(Conns)
      /\ task' = [task EXCEPT ![c] = task[c]] /\ sessions' = sessions
  BY InvOf DEF Connect
<1>2. /\ RequestFit(task[c], sessions[c], generation)
      /\ task[c].stage = "opening" => task[c].openedAt <= generation
  BY InvOf DEF ConnectionFit
<1>3. TypeOK' /\ \A d \in Conns : ConnectionFit(d)'
  BY <1>1, <1>2, InvOf, OneTask
<1>4. Turns'
  BY <1>1, InvOf, TaskKeepsQueue
<1> QED
  BY <1>3, <1>4 DEF Inv

\* A connection that ends takes its sessions along.
LEMMA DisconnectStep ==
    ASSUME Inv, NEW c \in Conns, Disconnect(c) PROVE Inv'
<1>1. /\ connected' \in [Conns -> BOOLEAN] /\ observed' \in [Conns -> 0 .. MaxGeneration]
      /\ generation' = generation /\ queue' = queue
      /\ task' = [task EXCEPT ![c] = Idle]
      /\ sessions' = [sessions EXCEPT ![c] = Removed(c)]
      /\ task[c].stage \in {"idle", "opening", "waiting"}
  BY InvOf DEF Disconnect, SetTask
<1>2. Removed(c) \in [Slots -> Sessions] /\ \A s \in Slots : SessionFit(Removed(c)[s], generation)
  BY NoneFit DEF Removed
<1> QED
  BY <1>1, <1>2, BecomesIdle

\* The open request keeps the generation it began with.
LEMMA OpenBeginStep ==
    ASSUME Inv, NEW c \in Conns, NEW s \in Slots, NEW kind \in Kinds, OpenBegin(c, s, kind)
    PROVE  Inv'
<1> DEFINE t == [stage |-> "opening", slot |-> s, kind |-> kind, openedAt |-> generation]
<1>1. t \in Opening /\ t.stage = "opening" /\ t.openedAt = generation
  BY InvOf DEF Opening
<1>2. /\ task' = [task EXCEPT ![c] = t] /\ task[c] = Idle /\ sessions' = sessions
      /\ UNCHANGED <<generation, connected, observed, queue>>
  BY DEF OpenBegin, SetTask
<1> HIDE DEF t
<1>3. t \in Tasks /\ t.openedAt <= generation
  BY <1>1, InvOf DEF Tasks
<1>4. RequestFit(t, sessions[c], generation) /\ t.stage \notin Past /\ ~InTurn(task[c])
  BY <1>1, <1>2, RestFit, RestTurn DEF Idle
<1>5. TypeOK' /\ \A d \in Conns : ConnectionFit(d)'
  BY <1>2, <1>3, <1>4, InvOf, OneTask
<1>6. Turns'
  BY <1>2, <1>4, TaskKeepsQueue
<1> QED
  BY <1>5, <1>6 DEF Inv

\* The new session knows the generation of its request or the current one.
LEMMA OpenFinishStep ==
    ASSUME Inv, NEW c \in Conns, OpenFinish(c) PROVE Inv'
<1> DEFINE t == task[c]
           x == [kind |-> t.kind,
                 generation |-> IF t.kind = "desktop" THEN t.openedAt ELSE generation,
                 openedAt |-> t.openedAt,
                 active |-> TRUE, interrupted |-> FALSE, revoked |-> FALSE]
<1>1. t.stage = "opening" /\ SetSession(c, t.slot, x) /\ task' = [task EXCEPT ![c] = Idle]
  BY DEF OpenFinish, SetTask
<1>2. t \in Opening /\ t.openedAt <= generation
  BY <1>1, InvOf, StageOf DEF ConnectionFit
<1>3. t.slot \in Slots /\ t.kind \in Kinds /\ t.openedAt \in 0 .. MaxGeneration
  BY <1>2 DEF Opening
<1>4. x \in Session
  BY <1>3, InvOf DEF Session
<1>5. x.generation <= generation /\ ~x.interrupted
  BY <1>2, InvOf
<1> HIDE DEF x
<1>6. SessionFit(x, generation)
  BY <1>5 DEF SessionFit
<1> QED
  BY <1>1, <1>3, <1>4, <1>6, IdleSession DEF OpenFinish, Sessions

\* A failed open leaves nothing behind.
LEMMA OpenFailStep ==
    ASSUME Inv, NEW c \in Conns, OpenFail(c) PROVE Inv'
<1>1. /\ connected' \in [Conns -> BOOLEAN] /\ observed' \in [Conns -> 0 .. MaxGeneration]
      /\ generation' = generation /\ queue' = queue
      /\ task' = [task EXCEPT ![c] = Idle]
      /\ sessions' = [sessions EXCEPT ![c] = sessions[c]]
      /\ task[c].stage \in {"idle", "opening", "waiting"}
  BY InvOf DEF OpenFail, SetTask
<1>2. \A s \in Slots : SessionFit(sessions[c][s], generation)
  BY InvOf DEF ConnectionFit
<1> QED
  BY <1>1, <1>2, InvOf, BecomesIdle

\* An idle connection changes a session and nothing else.
LEMMA IdleSets ==
    ASSUME Inv, NEW c \in Conns, NEW s \in Slots, NEW x \in Sessions,
           task[c] = Idle, SetSession(c, s, x), SessionFit(x, generation),
           UNCHANGED <<generation, connected, observed, task, queue>>
    PROVE  Inv'
<1>1. task[c].stage = "idle" /\ task' = [task EXCEPT ![c] = Idle]
  BY InvOf DEF Idle
<1> QED
  BY <1>1, IdleSession

\* StopSession and IdleReap: the session goes.
LEMMA RemoveStep ==
    ASSUME Inv, NEW c \in Conns, NEW s \in Slots, StopSession(c, s) \/ IdleReap(c, s)
    PROVE  Inv'
BY NoneFit, IdleSets DEF StopSession, IdleReap

\* Expired, Refused, BannerFails, Resume: the session changes in place.
LEMMA SessionStep ==
    ASSUME Inv, NEW c \in Conns, NEW s \in Slots,
           Expired(c, s) \/ Refused(c, s) \/ BannerFails(c, s) \/ Resume(c, s)
    PROVE  Inv'
<1> DEFINE x == sessions[c][s]
<1>1. x \in Session /\ x # NoSession
  <2>1. x \in Sessions
    BY InvOf
  <2>2. x.kind \in Kinds \/ x # NoSession
    BY DEF Expired, Refused, BannerFails, Resume, Authorized
  <2> QED
    BY <2>1, <2>2, SessionOrNone
<1>2. SessionFit(x, generation) /\ x.generation <= generation
  BY <1>1, InvOf DEF ConnectionFit, SessionFit
<1>3. generation \in Nat /\ generation \in 0 .. MaxGeneration
  BY InvOf
<1>4. CASE Expired(c, s)
  <2>1. Stopped(x) \in Sessions /\ SessionFit(Stopped(x), generation)
    BY <1>1, <1>2, StoppedFields DEF Sessions, SessionFit
  <2> QED
    BY <1>4, <2>1, IdleSets DEF Expired
<1>5. CASE Refused(c, s)
  <2>1. Checked(x) \in Sessions /\ SessionFit(Checked(x), generation)
    BY <1>1, <1>2, <1>3, CheckedFields DEF Sessions
  <2> QED
    BY <1>5, <2>1, IdleSets DEF Refused
<1>6. CASE BannerFails(c, s)
  <2> DEFINE y == [x EXCEPT !.active = FALSE]
  <2>1. y \in Session /\ y.generation = x.generation /\ ~y.active
    BY <1>1 DEF Session
  <2>2. SetSession(c, s, y) /\ task[c] = Idle
    BY <1>6 DEF BannerFails
  <2>3. UNCHANGED <<generation, connected, observed, task, queue>>
    BY <1>6 DEF BannerFails
  <2> HIDE DEF y
  <2>4. y \in Sessions /\ SessionFit(y, generation)
    BY <1>2, <2>1 DEF Sessions, SessionFit
  <2> QED
    BY <2>2, <2>3, <2>4, IdleSets
<1>7. CASE Resume(c, s)
  <2> DEFINE z == [x EXCEPT !.active = TRUE]
             y == [z EXCEPT !.generation = generation]
  <2>1. z \in Session /\ z.interrupted = x.interrupted
    BY <1>1 DEF Session
  <2>2. ~x.interrupted
    BY <1>7 DEF Resume, Authorized, NotInterrupted
  <2>3. SetSession(c, s, y) /\ task[c] = Idle
    BY <1>7 DEF Resume, Authorized
  <2>4. UNCHANGED <<generation, connected, observed, task, queue>>
    BY <1>7 DEF Resume
  <2> HIDE DEF z
  <2>5. y \in Session /\ y.generation = generation /\ y.interrupted = z.interrupted
    BY <1>3, <2>1 DEF Session
  <2> HIDE DEF y
  <2>6. y \in Sessions /\ SessionFit(y, generation)
    BY <1>3, <2>1, <2>2, <2>5 DEF Sessions, SessionFit
  <2> QED
    BY <2>3, <2>4, <2>6, IdleSets
<1> QED
  BY <1>4, <1>5, <1>6, <1>7

\* The wait of c ends with a look at its session.
LEMMA EndWaitStep ==
    ASSUME Inv, NEW c \in Conns, EndWait(c) PROVE Inv'
<1> DEFINE s == task[c].slot
           x == sessions[c][s]
<1>1. s \in Slots /\ x # NoSession
  BY InvOf, StageOf DEF EndWait, ConnectionFit, RequestFit, Waiting
<1>2. x \in Session /\ SessionFit(x, generation) /\ generation \in Nat
  BY <1>1, InvOf, SessionOrNone DEF ConnectionFit
<1>3. Checked(x) \in Sessions /\ SessionFit(Checked(x), generation)
  BY <1>2, CheckedFields DEF Sessions
<1>4. task[c].stage = "waiting" /\ task' = [task EXCEPT ![c] = Idle] /\ SetSession(c, s, Checked(x))
  BY DEF EndWait, SetTask
<1> QED
  BY <1>1, <1>3, <1>4, IdleSession DEF EndWait

\* The 250 ms tick stops the sessions whose lease is gone.
LEMMA StateRefreshStep ==
    ASSUME Inv, NEW c \in Conns, StateRefresh(c) PROVE Inv'
<1> DEFINE f(x) == IF x # NoSession /\ x.kind \in Bound /\ x.revoked THEN Stopped(x) ELSE x
           ss == [s \in Slots |-> f(sessions[c][s])]
<1>1. /\ connected' \in [Conns -> BOOLEAN] /\ observed' \in [Conns -> 0 .. MaxGeneration]
      /\ generation' = generation /\ queue' = queue
      /\ task' = [task EXCEPT ![c] = Idle] /\ task[c].stage = "idle"
      /\ sessions' = [sessions EXCEPT ![c] = ss]
  BY InvOf DEF StateRefresh, Idle
<1>2. ASSUME NEW s \in Slots
      PROVE  f(sessions[c][s]) \in Sessions /\ SessionFit(f(sessions[c][s]), generation)
  <2>1. sessions[c][s] \in Sessions /\ SessionFit(sessions[c][s], generation)
    BY InvOf DEF ConnectionFit
  <2>2. CASE f(sessions[c][s]) = sessions[c][s]
    BY <2>1, <2>2
  <2>3. CASE f(sessions[c][s]) # sessions[c][s]
    <3>1. f(sessions[c][s]) = Stopped(sessions[c][s]) /\ sessions[c][s] # NoSession
      BY <2>3
    <3>2. sessions[c][s] \in Session
      BY <2>1, <3>1, SessionOrNone
    <3> QED
      BY <2>1, <3>1, <3>2, StoppedFields DEF Sessions, SessionFit
  <2> QED
    BY <2>2, <2>3
<1> HIDE DEF f
<1>3. ss \in [Slots -> Sessions] /\ \A s \in Slots : SessionFit(ss[s], generation)
  BY <1>2
<1> HIDE DEF ss
<1> QED
  BY <1>1, <1>3, BecomesIdle

\* The 50 ms tick stops every session of the connection.
LEMMA InterruptPollStep ==
    ASSUME Inv, NEW c \in Conns, InterruptPoll(c) PROVE Inv'
<1> DEFINE ss == [s \in Slots |-> IF s \in Owned(c) THEN Stopped(sessions[c][s]) ELSE NoSession]
<1>1. /\ connected' \in [Conns -> BOOLEAN] /\ observed' \in [Conns -> 0 .. MaxGeneration]
      /\ generation' = generation /\ queue' = queue
      /\ task' = [task EXCEPT ![c] = Idle]
      /\ task[c].stage \in {"idle", "opening", "waiting"}
      /\ sessions' = [sessions EXCEPT ![c] = ss]
  BY InvOf DEF InterruptPoll, SetTask
<1>2. ASSUME NEW s \in Slots
      PROVE  ss[s] \in Sessions /\ SessionFit(ss[s], generation)
  <2>1. sessions[c][s] \in Sessions /\ SessionFit(sessions[c][s], generation)
    BY InvOf DEF ConnectionFit
  <2>2. CASE s \in Owned(c)
    <3>1. sessions[c][s] \in Session /\ sessions[c][s] # NoSession
      BY <2>1, <2>2, SessionOrNone DEF Owned
    <3>2. ss[s] = Stopped(sessions[c][s])
      BY <2>2
    <3> QED
      BY <2>1, <3>1, <3>2, StoppedFields DEF Sessions, SessionFit
  <2>3. CASE s \notin Owned(c)
    BY <2>3, NoneFit
  <2> QED
    BY <2>2, <2>3
<1>3. ss \in [Slots -> Sessions]
  BY <1>2
<1> HIDE DEF ss
<1> QED
  BY <1>1, <1>2, <1>3, BecomesIdle

(***************************************************************************)
(* The invariant is inductive: stops and revocations.                      *)
(***************************************************************************)
\* A stop differs from every generation a session knows, so it is visible in
\* the session of every request it marks.
LEMMA StopFit ==
    ASSUME NEW g \in Nat, NEW t \in Tasks, NEW ss \in [Slots -> Sessions],
           \A s \in Slots : SessionFit(ss[s], g), RequestFit(t, ss, g)
    PROVE  /\ \A s \in Slots : SessionFit(ss[s], g + 1)
           /\ RequestFit(Staled(t), ss, g + 1)
<1>1. \A s \in Slots : ss[s] # NoSession => ss[s] \in Session /\ ss[s].generation \in Nat
                                            /\ ss[s].generation <= g
  <2> SUFFICES ASSUME NEW s \in Slots, ss[s] # NoSession
               PROVE  ss[s] \in Session /\ ss[s].generation \in Nat /\ ss[s].generation <= g
    OBVIOUS
  <2>1. ss[s] \in Session
    BY SessionOrNone
  <2> QED
    BY <2>1, HostControlAssumption DEF Session, SessionFit
<1>2. \A s \in Slots : SessionFit(ss[s], g + 1)
  BY <1>1 DEF SessionFit
<1>3. CASE t.stage \in InService
  <2> DEFINE x == ss[t.slot]
             u == Staled(t)
  <2>1. t \in Acting /\ t.slot \in Slots /\ t.stale \in {"no", "queued", "cleared"}
    BY <1>3, StageOf DEF Acting
  <2>2. /\ x \in Session /\ x # NoSession /\ x.generation \in Nat /\ x.generation <= g
        /\ x.active \in BOOLEAN /\ x.kind = t.kind
    BY <1>1, <1>3, <2>1 DEF RequestFit, Session
  <2>3. /\ u.stage = t.stage /\ u.op = t.op /\ u.kind = t.kind /\ u.slot = t.slot
        /\ u.stale \in {t.stale, t.stage}
    BY <1>3, StaledFields
  <2>4. x.active => ~Live(x, g + 1)
    BY <2>2 DEF Live
  <2>5. x.generation # g + 1
    BY <2>2
  <2>6. CASE t.stage = "queued"
    <3>1. t.stale # "cleared"
      BY <1>3, <2>6 DEF RequestFit
    <3> QED
      BY <1>2, <2>2, <2>3, <2>4, <2>6, <3>1 DEF RequestFit, Dispatched
  <2>7. CASE t.stage = "cleared"
    <3>1. u.stale = "queued" => t.stale = "queued"
      BY <2>3, <2>7
    <3>2. t.stale = "queued" /\ Revalidates(t.op, t.kind) => ~x.active
      BY <1>3, <2>7 DEF RequestFit
    <3> QED
      BY <1>2, <2>2, <2>3, <2>5, <2>7, <3>1, <3>2 DEF RequestFit, Dispatched
  <2>8. CASE t.stage \in Dispatched
    <3>1. u = t
      BY <2>8, StaledFields DEF Dispatched
    <3> QED
      BY <1>2, <1>3, <2>2, <2>8, <3>1 DEF RequestFit, Dispatched
  <2> QED
    BY <1>3, <2>6, <2>7, <2>8 DEF InService, Past
<1>4. CASE t.stage \notin InService
  <2>1. Staled(t) = t
    BY <1>4, StaledFields DEF InService, Past
  <2> QED
    BY <1>2, <1>4, <2>1 DEF RequestFit
<1> QED
  BY <1>2, <1>3, <1>4

\* A stop keeps every connection that it does not drain fit.
LEMMA StopKeeps ==
    ASSUME Inv, NEW d \in Conns, generation' = generation + 1,
           sessions'[d] = sessions[d], task'[d] = Staled(task[d])
    PROVE  ConnectionFit(d)' /\ task'[d] \in Tasks
<1>1. /\ \A s \in Slots : SessionFit(sessions[d][s], generation + 1)
      /\ RequestFit(Staled(task[d]), sessions[d], generation + 1)
  BY InvOf, StopFit DEF ConnectionFit
<1>2. Staled(task[d]).stage = task[d].stage /\ Staled(task[d]) \in Tasks
  BY InvOf, StaledFields
<1>3. task'[d].stage = "opening" => task'[d].openedAt <= generation + 1
  <2> SUFFICES ASSUME task'[d].stage = "opening" PROVE task'[d].openedAt <= generation + 1
    OBVIOUS
  <2>1. task[d] \in Opening /\ task'[d] = task[d] /\ task[d].openedAt <= generation
    BY <1>2, InvOf, StageOf, StaledFields DEF ConnectionFit
  <2>2. task[d].openedAt \in Nat /\ generation \in Nat
    BY <2>1, InvOf, HostControlAssumption DEF Opening
  <2> QED
    BY <2>1, <2>2
<1> QED
  BY <1>1, <1>2, <1>3 DEF ConnectionFit

\* A stop takes nobody's need of a turn, and gives nobody the turn.
LEMMA StopTurn ==
    ASSUME Inv, NEW d \in Conns, NEW u, u = Staled(task[d])
    PROVE  /\ InTurn(task[d]) => InTurn(u)
           /\ u.stage \in Past /\ UsesTurn(u.op) => OwnsTurn(d)
<1>1. task[d] \in Tasks /\ (task[d].stage \in Past /\ UsesTurn(task[d].op) => OwnsTurn(d))
  BY InvOf
<1>2. u.stage = task[d].stage /\ (task[d].stage \in InService => u.op = task[d].op)
  BY <1>1, StaledFields
<1> QED
  BY <1>1, <1>2 DEF InTurn, InService

\* Escape: every request in the queue or behind it is marked.
LEMMA EscapeStep ==
    ASSUME Inv, Escape PROVE Inv'
<1>1. /\ generation' = generation + 1 /\ generation < MaxGeneration
      /\ task' = [c \in Conns |-> Staled(task[c])]
      /\ UNCHANGED <<connected, observed, sessions, queue>>
  BY DEF Escape
<1>2. \A d \in Conns : ConnectionFit(d)' /\ task'[d] \in Tasks
  BY <1>1, StopKeeps
<1>3. generation' \in 0 .. MaxGeneration
  BY <1>1, HostControlAssumption DEF Inv, TypeOK
<1>4. TypeOK'
  BY <1>1, <1>2, <1>3 DEF Inv, TypeOK, Tasks
<1>5. Turns'
  <2>1. \A d \in Conns : InTurn(task[d]) => InTurn(task'[d])
    BY <1>1, StopTurn
  <2>2. \A d \in Conns : task'[d].stage \in Past /\ UsesTurn(task'[d].op) => OwnsTurn(d)
    BY <1>1, StopTurn
  <2> QED
    BY <1>1, <2>1, <2>2, QueueStays
<1> QED
  BY <1>2, <1>4, <1>5 DEF Inv

\* interrupt_all: the sessions of the caller are gone, the other requests marked.
LEMMA InterruptAllStep ==
    ASSUME Inv, NEW c \in Conns, InterruptAll(c) PROVE Inv'
<1>1. /\ generation' = generation + 1 /\ generation < MaxGeneration
      /\ sessions' = [sessions EXCEPT ![c] = Removed(c)]
      /\ task' = [d \in Conns |-> IF d = c THEN Idle ELSE Staled(task[d])]
      /\ connected' = connected /\ queue' = queue
      /\ task[c].stage \in {"idle", "opening", "waiting"}
  BY DEF InterruptAll
<1>2. generation' \in 0 .. MaxGeneration
  BY <1>1, HostControlAssumption DEF Inv, TypeOK
<1>3. Removed(c) \in [Slots -> Sessions] /\ \A s \in Slots : SessionFit(Removed(c)[s], generation')
  BY NoneFit DEF Removed
<1>4. Idle \in Tasks /\ Idle.stage = "idle"
  BY DEF Tasks, Idle
<1>5. ASSUME NEW d \in Conns PROVE ConnectionFit(d)' /\ task'[d] \in Tasks
  <2>1. CASE d = c
    <3>1. sessions'[d] = Removed(c) /\ task'[d] = Idle
      BY <1>1, <2>1 DEF Inv, TypeOK
    <3>2. RequestFit(Idle, Removed(c), generation')
      BY <1>4, RestFit
    <3> QED
      BY <1>3, <1>4, <3>1, <3>2 DEF ConnectionFit
  <2>2. CASE d # c
    <3>1. sessions'[d] = sessions[d] /\ task'[d] = Staled(task[d])
      BY <1>1, <2>2 DEF Inv, TypeOK
    <3> QED
      BY <1>1, <3>1, StopKeeps
  <2> QED
    BY <2>1, <2>2
<1>6. observed' \in [Conns -> 0 .. MaxGeneration]
  BY <1>1, <1>2 DEF Inv, TypeOK, InterruptAll
<1>7. sessions' \in [Conns -> [Slots -> Sessions]]
  BY <1>1, <1>3 DEF Inv, TypeOK, Sessions
<1>8. TypeOK'
  BY <1>1, <1>2, <1>5, <1>6, <1>7 DEF Inv, TypeOK, Tasks, Sessions
<1>9. Turns'
  <2>1. ~InTurn(task[c]) /\ Idle.stage \notin Past
    BY <1>1, <1>4, RestTurn
  <2>2. \A d \in Conns : InTurn(task[d]) => InTurn(task'[d])
    BY <1>1, <2>1, StopTurn
  <2>3. \A d \in Conns : task'[d].stage \in Past /\ UsesTurn(task'[d].op) => OwnsTurn(d)
    BY <1>1, <2>1, StopTurn
  <2> QED
    BY <1>1, <2>2, <2>3, QueueStays
<1> QED
  BY <1>5, <1>8, <1>9 DEF Inv

\* A revocation shows in the session at once; only what the lease covers is marked.
LEMMA RevokeLeaseStep ==
    ASSUME Inv, NEW c \in Conns, NEW s \in Slots, RevokeLease(c, s) PROVE Inv'
<1> DEFINE x == sessions[c][s]
           y == [x EXCEPT !.revoked = TRUE]
           t == task[c]
           u == IF t.stage = "queued" /\ t.slot = s THEN Staled(t) ELSE t
           ss == [sessions[c] EXCEPT ![s] = y]
<1>1. /\ SetSession(c, s, y) /\ x.kind \in Bound
      /\ UNCHANGED <<generation, connected, observed, queue>>
  BY DEF RevokeLease
<1>2. task' = [task EXCEPT ![c] = u]
  BY InvOf DEF RevokeLease
<1>3. x \in Sessions /\ SessionFit(x, generation) /\ t \in Tasks
      /\ RequestFit(t, sessions[c], generation)
      /\ (t.stage = "opening" => t.openedAt <= generation)
  BY InvOf DEF ConnectionFit
<1>4. x # NoSession /\ x \in Session
  <2>1. NoSession.kind \notin Bound
    BY DEF NoSession, Bound
  <2> QED
    BY <1>1, <1>3, <2>1, SessionOrNone
<1>5. /\ y \in Session /\ y.kind = x.kind /\ y.generation = x.generation /\ y.active = x.active
      /\ y.interrupted = x.interrupted /\ y.revoked
  BY <1>4 DEF Session
<1> HIDE DEF y
<1>6. y \in Sessions /\ y # NoSession /\ SessionFit(y, generation)
  <2>1. y \in Sessions /\ y # NoSession
    BY <1>5, SessionOrNone DEF Sessions
  <2> QED
    BY <1>3, <1>4, <1>5, <2>1 DEF SessionFit
<1>7. ss \in [Slots -> Sessions] /\ ss[s] = y /\ \A r \in Slots : r # s => ss[r] = sessions[c][r]
  BY <1>6, InvOf
<1>8. sessions' = [sessions EXCEPT ![c] = ss]
  BY <1>1 DEF SetSession
<1>9. u \in Tasks /\ u.stage = t.stage /\ (t.stage \notin InService => u = t)
  BY <1>3, StaledFields DEF InService, Past
<1>10. \A r \in Slots : SessionFit(ss[r], generation)
  BY <1>6, <1>7, InvOf DEF ConnectionFit
<1>11. t.stage \in InService => /\ t \in Acting /\ u.op = t.op /\ u.kind = t.kind /\ u.slot = t.slot
                                /\ (t.slot = s => u.stale \in {t.stale, t.stage})
                                /\ (t.slot # s => u = t)
  BY <1>3, StageOf, StaledFields
<1>12. t.stage = "queued" \/ u = t
  OBVIOUS
<1> HIDE DEF ss, u
<1>13. RequestFit(u, ss, generation)
  <2>1. CASE t.stage \in InService /\ t.slot = s
    <3>1. t.kind = x.kind /\ u.kind = x.kind /\ u.slot = s /\ u.op = t.op
      BY <1>1, <1>3, <1>11, <2>1 DEF RequestFit
    <3>2. CASE t.stage = "queued"
      <4>1. u.stale # "cleared"
        BY <1>3, <1>11, <2>1, <3>2 DEF RequestFit
      <4> QED
        BY <1>1, <1>5, <1>6, <1>7, <1>9, <3>1, <3>2, <4>1 DEF RequestFit, Dispatched
    <3>3. CASE t.stage = "cleared"
      <4>1. u = t
        BY <1>12, <3>3
      <4> QED
        BY <1>1, <1>3, <1>5, <1>6, <1>7, <2>1, <3>1, <3>3, <4>1 DEF RequestFit, Dispatched
    <3>4. CASE t.stage \in Dispatched
      <4>1. u = t
        BY <1>12, <3>4 DEF Dispatched
      <4> QED
        BY <1>1, <1>3, <1>5, <1>6, <1>7, <2>1, <3>1, <3>4, <4>1 DEF RequestFit, Dispatched
    <3> QED
      BY <2>1, <3>2, <3>3, <3>4 DEF InService, Past
  <2>2. CASE t.stage \in InService /\ t.slot # s
    <3>1. u = t /\ t.slot \in Slots /\ ss[t.slot] = sessions[c][t.slot]
      BY <1>7, <1>11, <2>2 DEF Acting
    <3> QED
      BY <1>3, <3>1 DEF RequestFit
  <2>3. CASE t.stage = "waiting"
    <3>1. u = t /\ t.slot \in Slots
      BY <1>3, <1>12, <2>3, StageOf DEF Waiting
    <3>2. ss[t.slot] # NoSession
      BY <1>3, <1>6, <1>7, <2>3, <3>1 DEF RequestFit
    <3> QED
      BY <2>3, <3>1, <3>2 DEF RequestFit, InService, Past, Dispatched
  <2>4. CASE t.stage \in {"idle", "opening"}
    BY <1>9, <2>4, RestFit
  <2> QED
    BY <1>3, <2>1, <2>2, <2>3, <2>4, StageOf
<1>14. TypeOK' /\ \A d \in Conns : ConnectionFit(d)'
  <2>1. u.stage = "opening" => u.openedAt <= generation
    BY <1>3, <1>9 DEF InService, Past, Dispatched
  <2>2. /\ connected' \in [Conns -> BOOLEAN] /\ observed' \in [Conns -> 0 .. MaxGeneration]
        /\ generation' = generation /\ queue' \in Seq(Conns)
    BY <1>1, InvOf
  <2> QED
    BY <1>2, <1>7, <1>8, <1>9, <1>10, <1>13, <2>1, <2>2, OneConnection
<1>15. Turns'
  <2>1. u.stage \in Past /\ UsesTurn(u.op) => OwnsTurn(c)
    BY <1>9, <1>11, InvOf DEF InService
  <2>2. InTurn(t) => InTurn(u)
    BY <1>9, <1>11 DEF InTurn
  <2> QED
    BY <1>1, <1>2, <2>1, <2>2, TaskKeepsQueue
<1> QED
  BY <1>14, <1>15 DEF Inv

(***************************************************************************)
(* The invariant is inductive: requests in service.                        *)
(***************************************************************************)
\* A wait begins on a session that is there.
LEMMA BeginWaitStep ==
    ASSUME Inv, NEW c \in Conns, NEW s \in Slots, BeginWait(c, s) PROVE Inv'
<1> DEFINE t == [stage |-> "waiting", slot |-> s]
<1>1. t \in Waiting /\ t.stage = "waiting" /\ t.slot = s
  BY DEF Waiting
<1>2. /\ task' = [task EXCEPT ![c] = t] /\ task[c] = Idle /\ sessions' = sessions
      /\ UNCHANGED <<generation, connected, observed, queue>>
      /\ sessions[c][s] # NoSession
  BY DEF BeginWait, Authorized, SetTask
<1> HIDE DEF t
<1>3. t \in Tasks /\ t.stage \notin Past /\ ~InTurn(task[c])
  BY <1>1, <1>2, RestTurn DEF Tasks, Idle
<1>4. RequestFit(t, sessions[c], generation)
  BY <1>1, <1>2 DEF RequestFit, InService, Past, Dispatched
<1>5. TypeOK' /\ \A d \in Conns : ConnectionFit(d)'
  BY <1>1, <1>2, <1>3, <1>4, InvOf, OneTask
<1>6. Turns'
  BY <1>2, <1>3, TaskKeepsQueue
<1> QED
  BY <1>5, <1>6 DEF Inv

\* An accepted request takes its place in the queue, if it needs one.
LEMMA BeginStep ==
    ASSUME Inv, NEW c \in Conns, NEW s \in Slots, NEW op \in Ops, Begin(c, s, op) PROVE Inv'
<1> DEFINE x == sessions[c][s]
           t == [stage |-> "queued", slot |-> s, op |-> op, kind |-> x.kind, stale |-> "no"]
<1>1. /\ task' = [task EXCEPT ![c] = t] /\ task[c] = Idle /\ sessions' = sessions
      /\ UNCHANGED <<generation, connected, observed>>
      /\ queue' = IF UsesTurn(op) THEN Append(queue, c) ELSE queue
      /\ x # NoSession
  BY DEF Begin, Authorized, SetTask
<1>2. x \in Session /\ x.kind \in Kinds
  BY <1>1, InvOf, SessionOrNone DEF Session
<1>3. t \in Acting /\ t.stage = "queued" /\ t.slot = s /\ t.op = op /\ t.kind = x.kind /\ t.stale = "no"
  BY <1>2 DEF Acting
<1> HIDE DEF t
<1>4. t \in Tasks /\ t.stage \notin Past /\ ~InTurn(task[c]) /\ (UsesTurn(op) => InTurn(t))
  BY <1>1, <1>3, RestTurn DEF Tasks, Idle, InTurn, InService, Past, Dispatched
<1>5. RequestFit(t, sessions[c], generation)
  BY <1>1, <1>3 DEF RequestFit, Dispatched
<1>6. queue' \in Seq(Conns) /\ Turns'
  <2>1. CASE UsesTurn(op)
    BY <1>1, <1>4, <2>1, AppendTurn
  <2>2. CASE ~UsesTurn(op)
    BY <1>1, <1>4, <2>2, InvOf, TaskKeepsQueue
  <2> QED
    BY <2>1, <2>2
<1>7. TypeOK' /\ \A d \in Conns : ConnectionFit(d)'
  BY <1>1, <1>3, <1>4, <1>5, <1>6, InvOf, OneTask
<1> QED
  BY <1>6, <1>7 DEF Inv

\* A request in service and its session.
LEMMA ServiceOf ==
    ASSUME Inv, NEW c \in Conns, task[c].stage \in InService
    PROVE  LET x == sessions[c][task[c].slot]
           IN  /\ task[c] \in Acting /\ task[c].slot \in Slots
               /\ x \in Session /\ x # NoSession /\ x.kind = task[c].kind
               /\ SessionFit(x, generation)
               /\ Checked(x) \in Sessions /\ SessionFit(Checked(x), generation)
               /\ Checked(x) # NoSession /\ Checked(x).kind = x.kind
<1> DEFINE x == sessions[c][task[c].slot]
<1>1. task[c] \in Acting /\ task[c].slot \in Slots
  BY InvOf, StageOf DEF Acting
<1>2. x \in Sessions /\ x # NoSession /\ x.kind = task[c].kind /\ SessionFit(x, generation)
  BY <1>1, InvOf DEF ConnectionFit, RequestFit
<1>3. x \in Session /\ generation \in Nat
  BY <1>2, SessionOrNone, InvOf
<1>4. Checked(x) \in Session /\ SessionFit(Checked(x), generation) /\ Checked(x).kind = x.kind
  BY <1>2, <1>3, CheckedFields
<1>5. Checked(x) \in Sessions /\ Checked(x) # NoSession
  BY <1>4, SessionOrNone DEF Sessions
<1> QED
  BY <1>1, <1>2, <1>3, <1>4, <1>5

\* A request is answered and its session, if it changes, stays fit.
LEMMA AnswerStep ==
    ASSUME Inv, NEW c \in Conns, NEW x \in Sessions,
           task[c].stage \in InService, Answer(c), InTurn(task[c]) => OwnsTurn(c),
           SetSession(c, task[c].slot, x), SessionFit(x, generation),
           UNCHANGED <<generation, connected, observed>>
    PROVE  Inv'
<1>1. queue' \in Seq(Conns) /\ Turns'
  BY AnswerReleases
<1>2. Idle \in Tasks /\ Idle.stage = "idle"
  BY DEF Tasks, Idle
<1>3. \A ss : RequestFit(Idle, ss, generation)
  BY <1>2, RestFit
<1>4. task' = [task EXCEPT ![c] = Idle] /\ task[c].slot \in Slots
  BY ServiceOf DEF Answer, SetTask
<1>5. TypeOK' /\ \A d \in Conns : ConnectionFit(d)'
  BY <1>1, <1>2, <1>3, <1>4, InvOf, OneSession
<1> QED
  BY <1>1, <1>5 DEF Inv

\* The same when the session stays as it is.
LEMMA AnswerOnly ==
    ASSUME Inv, NEW c \in Conns, task[c].stage \in InService, Answer(c),
           InTurn(task[c]) => OwnsTurn(c),
           UNCHANGED <<generation, connected, observed, sessions>>
    PROVE  Inv'
<1> DEFINE x == sessions[c][task[c].slot]
<1>1. x \in Sessions /\ SessionFit(x, generation) /\ task[c].slot \in Slots
  BY ServiceOf DEF Sessions
<1>2. SetSession(c, task[c].slot, x)
  BY <1>1 DEF SetSession, Inv, TypeOK
<1> HIDE DEF x
<1> QED
  BY <1>1, <1>2, AnswerStep

\* A request past the queue holds the turn it needs.
LEMMA PastHolds ==
    ASSUME Inv, NEW c \in Conns, task[c].stage \in Past
    PROVE  task[c].stage \in InService /\ (InTurn(task[c]) => OwnsTurn(c))
BY InvOf DEF InTurn, InService

\* A request in service goes on to its next stage.
LEMMA StageStep ==
    ASSUME Inv, NEW c \in Conns, NEW st \in Past, task[c].stage \in InService,
           SetTask(c, [task[c] EXCEPT !.stage = st]),
           InTurn(task[c]) => OwnsTurn(c),
           RequestFit([task[c] EXCEPT !.stage = st], sessions[c], generation),
           UNCHANGED <<generation, connected, observed, sessions, queue>>
    PROVE  Inv'
<1> DEFINE u == [task[c] EXCEPT !.stage = st]
<1>1. task[c] \in Acting /\ st \in InService
  BY ServiceOf DEF InService
<1>2. u \in Tasks /\ u.stage = st /\ u.op = task[c].op
  BY <1>1, StageFields
<1>3. task' = [task EXCEPT ![c] = u]
  BY DEF SetTask
<1>4. RequestFit(u, sessions[c], generation)
  OBVIOUS
<1> HIDE DEF u
<1>5. /\ InTurn(task[c]) => InTurn(u)
      /\ u.stage \in Past /\ UsesTurn(u.op) => OwnsTurn(c)
      /\ u.stage # "opening"
  BY <1>1, <1>2 DEF InTurn, Past, Dispatched
<1>6. TypeOK' /\ \A d \in Conns : ConnectionFit(d)'
  BY <1>2, <1>3, <1>4, <1>5, InvOf, OneTask
<1>7. Turns'
  BY <1>3, <1>5, TaskKeepsQueue
<1> QED
  BY <1>6, <1>7 DEF Inv

\* The second look: a stale request is refused where the code revalidates.
LEMMA AcquireStep ==
    ASSUME Inv, NEW c \in Conns, Acquire(c) PROVE Inv'
<1> DEFINE t == task[c]
           x == sessions[c][t.slot]
           u == [t EXCEPT !.stage = "cleared"]
<1>1. t.stage = "queued" /\ t.stage \in InService /\ (UsesTurn(t.op) => OwnsTurn(c))
      /\ UNCHANGED <<generation, connected, observed>>
  BY DEF Acquire, InService
<1>2. InTurn(t) => OwnsTurn(c)
  BY <1>1 DEF InTurn
<1>3. CASE Revalidates(t.op, t.kind) /\ (~NotInterrupted(x) \/ x.revoked)
  <2>1. SetSession(c, t.slot, Checked(x)) /\ Answer(c)
    BY <1>3 DEF Acquire
  <2> QED
    BY <1>1, <1>2, <2>1, ServiceOf, AnswerStep
<1>4. CASE ~(Revalidates(t.op, t.kind) /\ (~NotInterrupted(x) \/ x.revoked))
  <2>1. SetTask(c, u) /\ UNCHANGED <<sessions, queue>>
    BY <1>4 DEF Acquire
  <2>2. /\ u.stage = "cleared" /\ u.op = t.op /\ u.kind = t.kind /\ u.slot = t.slot
        /\ u.stale = t.stale
    BY <1>1, ServiceOf, StageFields DEF InService, Past
  <2>3. /\ x # NoSession /\ x.kind = t.kind
        /\ t.stale # "cleared"
        /\ t.stale = "queued" => ~Live(x, generation) \/ x.revoked \/ ~x.active
    BY <1>1, InvOf DEF ConnectionFit, RequestFit
  <2>4. t.stale = "queued" /\ Revalidates(t.op, t.kind) => ~x.active
    BY <1>4, <2>3, LiveIsNotInterrupted
  <2>5. RequestFit(u, sessions[c], generation)
    BY <2>2, <2>3, <2>4 DEF RequestFit, Dispatched
  <2>6. "cleared" \in Past
    BY DEF Past
  <2> QED
    BY <1>1, <1>2, <2>1, <2>5, <2>6, StageStep
<1> QED
  BY <1>3, <1>4

\* The last gate: what a stop has marked does not go out where the code looks.
LEMMA DispatchStep ==
    ASSUME Inv, NEW c \in Conns, Dispatch(c) PROVE Inv'
<1> DEFINE t == task[c]
           x == sessions[c][t.slot]
           u == [t EXCEPT !.stage = "sent"]
<1>1. /\ t.stage = "cleared" /\ FinalGate(x, t.op) /\ SetTask(c, u)
      /\ UNCHANGED <<generation, connected, observed, sessions, queue>>
  BY DEF Dispatch
<1>2. t.stage \in InService /\ t.stage \in Past /\ "sent" \in Past /\ "sent" \in InService
      /\ "sent" \in Dispatched
  BY <1>1 DEF InService, Past, Dispatched
<1>3. /\ u.stage = "sent" /\ u.op = t.op /\ u.kind = t.kind /\ u.slot = t.slot
      /\ u.stale = t.stale
  BY <1>2, ServiceOf, StageFields
<1>4. /\ x # NoSession /\ x.kind = t.kind
      /\ t.stale = "queued" /\ Revalidates(t.op, t.kind) => ~x.active
      /\ t.stale = "cleared" /\ t.kind = "pixels" => ~x.active \/ x.generation # generation
  BY <1>1, <1>2, InvOf DEF ConnectionFit, RequestFit
<1>5. x.active /\ (x.kind = "pixels" /\ t.op = "action" => x.generation = generation)
  BY <1>1 DEF FinalGate
<1>6. Revalidates(t.op, t.kind) => t.stale # "queued"
  BY <1>4, <1>5
<1>7. t.kind = "pixels" /\ t.op = "action" => t.stale = "no"
  <2>1. t.stale \in {"no", "queued", "cleared"}
    BY <1>2, ServiceOf DEF Acting
  <2> QED
    BY <1>4, <1>5, <1>6, <2>1 DEF Revalidates, Bound
<1>8. RequestFit(u, sessions[c], generation)
  BY <1>2, <1>3, <1>4, <1>6, <1>7 DEF RequestFit
<1> QED
  BY <1>1, <1>2, <1>8, PastHolds, StageStep

\* RefusedByCore, Complete, Capture: the answer, and nothing else.
LEMMA EndStep ==
    ASSUME Inv, NEW c \in Conns, RefusedByCore(c) \/ Complete(c) \/ Capture(c) PROVE Inv'
<1>1. /\ task[c].stage \in Past /\ Answer(c)
      /\ UNCHANGED <<generation, connected, observed, sessions>>
  BY DEF RefusedByCore, Complete, Capture, Past, Dispatched
<1> QED
  BY <1>1, PastHolds, AnswerOnly

\* An unknown outcome gives up the control of the window.
LEMMA CompleteUnknownStep ==
    ASSUME Inv, NEW c \in Conns, CompleteUnknown(c) PROVE Inv'
<1> DEFINE x == sessions[c][task[c].slot]
           y == [x EXCEPT !.active = FALSE]
<1>1. /\ task[c].stage \in Past /\ Answer(c) /\ SetSession(c, task[c].slot, y)
      /\ UNCHANGED <<generation, connected, observed>>
  BY DEF CompleteUnknown, Past, Dispatched
<1>2. x \in Session /\ SessionFit(x, generation) /\ x # NoSession
  BY <1>1, PastHolds, ServiceOf
<1>3. y \in Session /\ y.generation = x.generation /\ ~y.active
  BY <1>2 DEF Session
<1> HIDE DEF y
<1>4. y \in Sessions /\ SessionFit(y, generation)
  BY <1>2, <1>3 DEF Sessions, SessionFit
<1> QED
  BY <1>1, <1>4, PastHolds, AnswerStep

\* A request that was dispatched stays as fit in its later stages.
LEMMA LaterStage ==
    ASSUME Inv, NEW c \in Conns, task[c].stage \in Dispatched, NEW st \in Dispatched
    PROVE  LET u == [task[c] EXCEPT !.stage = st]
           IN  /\ u \in Tasks /\ u.stage = st /\ u.slot = task[c].slot /\ u.op = task[c].op
               /\ RequestFit(u, sessions[c], generation)
<1> DEFINE t == task[c]
           u == [t EXCEPT !.stage = st]
<1>1. t.stage \in InService /\ st \in InService
  BY DEF InService, Past
<1>2. /\ u \in Tasks /\ u.stage = st /\ u.op = t.op /\ u.kind = t.kind /\ u.slot = t.slot
      /\ u.stale = t.stale
  BY <1>1, ServiceOf, StageFields
<1>3. RequestFit(t, sessions[c], generation)
  BY InvOf DEF ConnectionFit
<1> HIDE DEF u
<1>4. RequestFit(u, sessions[c], generation)
  BY <1>1, <1>2, <1>3 DEF RequestFit, Dispatched
<1> QED
  BY <1>2, <1>4 DEF u

\* The action is done and a snapshot is asked for: the turn is kept.
LEMMA CompleteThenCaptureStep ==
    ASSUME Inv, NEW c \in Conns, CompleteThenCapture(c) PROVE Inv'
<1>1. /\ task[c].stage \in Dispatched /\ "delay" \in Dispatched
      /\ task[c].stage \in Past /\ "delay" \in Past
      /\ SetTask(c, [task[c] EXCEPT !.stage = "delay"])
      /\ UNCHANGED <<generation, connected, observed, sessions, queue>>
  BY DEF CompleteThenCapture, Past, Dispatched
<1>2. RequestFit([task[c] EXCEPT !.stage = "delay"], sessions[c], generation)
  BY <1>1, LaterStage
<1> QED
  BY <1>1, <1>2, PastHolds, StageStep

\* One slice of the delay: the session is looked at, the turn kept or released.
LEMMA DelayStep ==
    ASSUME Inv, NEW c \in Conns, Delay(c) PROVE Inv'
<1> DEFINE t == task[c]
           x == sessions[c][t.slot]
           u == [t EXCEPT !.stage = "capture"]
           ss == [sessions[c] EXCEPT ![t.slot] = Checked(x)]
<1>1. /\ t.stage \in Dispatched /\ t.stage \in Past /\ "capture" \in Dispatched
      /\ SetSession(c, t.slot, Checked(x))
      /\ UNCHANGED <<generation, connected, observed>>
  BY DEF Delay, Past, Dispatched
<1>2. CASE NotInterrupted(x)
  <2>1. SetTask(c, u) /\ queue' = queue
    BY <1>2 DEF Delay
  <2>2. Checked(x) = x
    BY <1>2 DEF Checked, NotInterrupted
  <2>3. sessions' = sessions
    BY <1>1, <2>2 DEF SetSession, Inv, TypeOK
  <2>4. RequestFit(u, sessions[c], generation) /\ "capture" \in Past
    BY <1>1, LaterStage DEF Past
  <2> QED
    BY <1>1, <2>1, <2>3, <2>4, PastHolds, StageStep
<1>3. CASE ~NotInterrupted(x)
  <2>1. Answer(c)
    BY <1>3 DEF Delay
  <2> QED
    BY <1>1, <2>1, PastHolds, ServiceOf, AnswerStep
<1> QED
  BY <1>2, <1>3

(***************************************************************************)
(* The theorems.                                                           *)
(***************************************************************************)
\* The invariant holds when the Host starts.
LEMMA InvInit == Init => Inv
<1> SUFFICES ASSUME Init PROVE Inv
  OBVIOUS
<1>1. TypeOK
  BY HostControlAssumption DEF Init, TypeOK
<1>2. queue = <<>> /\ Idle.stage = "idle" /\ \A c \in Conns : task[c] = Idle
  BY DEF Init, Idle
<1>3. Turns
  BY <1>2 DEF Turns, TurnsBelongToRequests, HolderIsHead, Past, Dispatched
<1>4. ASSUME NEW c \in Conns PROVE ConnectionFit(c)
  <2>1. \A s \in Slots : sessions[c][s] = NoSession
    BY DEF Init
  <2> QED
    BY <1>2, <2>1, RestFit, NoneFit DEF ConnectionFit
<1> QED
  BY <1>1, <1>3, <1>4 DEF Inv

\* Every step keeps it.
LEMMA InvStep == Inv /\ [Next]_vars => Inv'
<1> SUFFICES ASSUME Inv, [Next]_vars PROVE Inv'
  OBVIOUS
<1>1. CASE Escape
  BY <1>1, EscapeStep
<1>2. ASSUME NEW c \in Conns, Connect(c) \/ Disconnect(c) PROVE Inv'
  BY <1>2, ConnectStep, DisconnectStep
<1>3. ASSUME NEW c \in Conns, InterruptAll(c) \/ InterruptPoll(c) PROVE Inv'
  BY <1>3, InterruptAllStep, InterruptPollStep
<1>4. ASSUME NEW c \in Conns, StateRefresh(c) \/ EndWait(c) PROVE Inv'
  BY <1>4, StateRefreshStep, EndWaitStep
<1>5. ASSUME NEW c \in Conns, Serve(c) PROVE Inv'
  BY <1>5, OpenFinishStep, OpenFailStep, AcquireStep, DispatchStep, EndStep,
     CompleteUnknownStep, CompleteThenCaptureStep, DelayStep DEF Serve
<1>6. ASSUME NEW c \in Conns, NEW s \in Slots, Use(c, s) PROVE Inv'
  BY <1>6, OpenBeginStep, RemoveStep, RevokeLeaseStep, SessionStep, BeginWaitStep, BeginStep
     DEF Use
<1>7. CASE UNCHANGED vars
  BY <1>7 DEF vars, Inv, TypeOK, Turns, TurnsBelongToRequests, HolderIsHead, OwnsTurn, ConnectionFit
<1> QED
  BY <1>1, <1>2, <1>3, <1>4, <1>5, <1>6, <1>7 DEF Next

\* The invariant implies the properties of the run.
LEMMA InvImplies == Inv => InputTurns /\ StopReachesQueued /\ TombstoneIsFinal
<1> SUFFICES ASSUME Inv PROVE InputTurns /\ StopReachesQueued /\ TombstoneIsFinal
  OBVIOUS
<1>1. RawInputExclusive
  <2> SUFFICES ASSUME NEW c \in Conns, NEW d \in Conns, c # d,
                      task[c].stage \in Past, task[d].stage \in Past,
                      task[c].op # "semantic", task[d].op # "semantic"
               PROVE  FALSE
    BY DEF RawInputExclusive, Past
  <2>1. OwnsTurn(c) /\ OwnsTurn(d)
    BY InvOf DEF UsesTurn
  <2> QED
    BY <2>1 DEF OwnsTurn
<1>2. InputTurns
  BY <1>1 DEF Inv, Turns, InputTurns
<1>3. StopReachesQueued
  BY InvOf DEF StopReachesQueued, ConnectionFit, RequestFit, Revalidates, InService, Past
<1>4. TombstoneIsFinal
  BY InvOf DEF TombstoneIsFinal, ConnectionFit, SessionFit
<1> QED
  BY <1>2, <1>3, <1>4

\* Inv is an invariant of the Host.
LEMMA Invariant == Spec => []Inv
BY InvInit, InvStep, PTL DEF Spec

\* For every number of connections and sessions the raw-input FIFO is a lock:
\* at most one connection is past it, and no place outlives its request.
THEOREM InputTurnsHold == Spec => []InputTurns
BY Invariant, InvImplies, PTL

\* A stop or a revocation that meets a queued request keeps it from native
\* input wherever execute_action and the window mutations revalidate.
THEOREM StopReachesQueuedHolds == Spec => []StopReachesQueued
BY Invariant, InvImplies, PTL

\* A session with the Host's tombstone never controls its window again.
THEOREM TombstoneHolds == Spec => []TombstoneIsFinal
BY Invariant, InvImplies, PTL

-----------------------------------------------------------------------------
(* What the state looks like. *)

\* The history is a record of its seven parts.
TrailIs ==
    /\ trail = [touched |-> trail.touched, pressed |-> trail.pressed, downs |-> trail.downs,
                astray |-> trail.astray, late |-> trail.late, stuck |-> trail.stuck,
                drift |-> trail.drift]
    /\ trail.touched \in BOOLEAN
    /\ trail.downs \in Nat /\ trail.astray \in Nat /\ trail.late \in Nat
    /\ trail.drift \in Int

WorldOK ==
    /\ fg \in Relations /\ window \in WindowStates /\ desk \in BOOLEAN
    /\ stops \in Nat /\ popup \in {"none", "open", "closed"}

DeviceOK == TrailIs /\ cursor \in Int /\ faults \in Nat

Phases == {"idle", "gate", "request", "raise", "attach", "focus", "queued", "settle", "final", "done"}
Refusals == {"interrupted", "desktop", "target", "minimized", "failed", "refused"}
Activation ==
    [phase : Phases, gen : Nat, attached : SUBSET Queues, result : Refusals \cup {"none", "ok"}]

Attempt == [has : BOOLEAN, residual : Int, command : Int, motion : Int]

ModifierPcs == {"click", "modifiersup", "modifiersretry", "hold"}
CountedPcs == {"takeback", "keysup"}
DragPcs == {"probe", "fence", "step", "slide", "up"}
QuietPcs == {"activating", "preflight", "modifiers", "keys", "cursor", "touch", "source",
             "prebatch", "batch"}
ClickPcs == {"preflight", "modifiers", "click", "takeback", "emergency", "modifiersup",
             "modifiersretry", "finish"}
CallPcs == {"idle", "return", "down"} \cup ClickPcs \cup QuietPcs \cup DragPcs
           \cup CountedPcs \cup ModifierPcs

Statuses == {"none", "error", "rejected", "succeeded"}
Sents == {"none", "NotSent", "Sent", "Unknown"}

CallRecord ==
    [req : ForegroundRequest \cup {"none"}, pc : CallPcs,
     stage : {"none", "implicit", "first", "glide", "dispatch"}, tries : Nat, i : Nat,
     n : Nat, gen : Nat, failed : BOOLEAN, path : BOOLEAN, last : Attempt, trust : Int,
     seen : Int, status : Statuses, sent : Sents]

\* Everything that can go down; "c" is the letter a text is made of.
Names == KeyNames \cup Buttons \cup {"c", "none"}
InputEvents == ({"move", "slide"} \X Int) \cup ({"down", "up"} \X Names)

GuardPcs == {"idle", "prepare", "leases", "check", "dispatch", "owing", "cleanup", "post", "return"}
GuardRecord ==
    [req : GuardedRequest \cup {"none"}, pc : GuardPcs, i : Nat, gen : Nat,
     todo : Seq(InputEvents), owed : Seq(InputEvents), got : {"none", "some", "tried"},
     balanced : BOOLEAN, failed : BOOLEAN, status : Statuses, sent : Sents]

InputTypeOK ==
    /\ WorldOK /\ DeviceOK
    /\ act \in Activation /\ call \in CallRecord /\ guard \in GuardRecord

-----------------------------------------------------------------------------
(* What is down, and who will release it. *)

\* Every key that is down is one of X, or the system refused its release; then
\* the call has failed or never pressed the key.
Clean(X, failed) ==
    \A k \in held : k \in X \/ (k \in trail.stuck /\ (failed \/ k \notin trail.pressed))

\* Nothing has been done yet.
Calm ==
    /\ ~trail.touched /\ trail.pressed = {} /\ trail.downs = 0
    /\ trail.astray = 0 /\ trail.late = 0

FirstKeys(keys, n) == {keys[m] : m \in 1 .. n}

\* What a fast call still has to release.
Due(c) ==
    IF c.pc \in ModifierPcs THEN FirstKeys(c.req.keys, Len(c.req.keys))
    ELSE IF c.pc = "emergency" THEN FirstKeys(c.req.keys, Len(c.req.keys)) \cup {c.req.button}
    ELSE IF c.pc \in CountedPcs THEN FirstKeys(c.req.keys, c.n)
    ELSE IF c.pc \in DragPcs THEN {c.req.button} ELSE {}

\* A call that has failed or will not succeed.
Lost(c) == IF c.pc = "return" THEN c.status # "succeeded" ELSE c.failed

\* The last press in the events has no release behind it.
PressedLast(events, k) ==
    \E i \in DOMAIN events :
        /\ IsDown(events[i], k)
        /\ \A j \in DOMAIN events : j > i => ~IsUp(events[j], k)

\* What a guarded call still has to release.
OwedKeys(g) ==
    {k \in Lifted(g.owed) : NoUp(g.todo, k)} \cup {k \in Pressed(g.todo) : PressedLast(g.todo, k)}

-----------------------------------------------------------------------------
(* The fast path: where a call is and what holds there. *)

FastShape ==
    /\ call.req \in ForegroundRequest
    /\ call.req.kind \in {"click", "drag"} => call.req.clicks > 0
    /\ call.pc \in QuietPcs => Calm /\ call.i = 0 /\ ~call.failed
    /\ call.pc \in {"hold", "down"} \cup DragPcs => ~call.failed
    /\ call.pc \in {"takeback", "emergency"} => call.failed
    /\ call.pc \in CountedPcs => call.n =< Len(call.req.keys)
    /\ call.pc \in {"keys", "hold", "keysup"} => call.req.kind = "keys"
    /\ call.pc = "hold" => call.n = Len(call.req.keys)
    /\ call.pc = "cursor" => call.req.kind = "move"
    /\ call.pc \in ClickPcs => call.req.kind = "click"
    /\ call.pc \in {"touch", "source", "down", "prebatch", "batch"} \cup DragPcs =>
            call.req.kind = "drag"
    /\ call.pc = "touch" => Backend = "touch"
    /\ call.pc \in {"prebatch", "batch"} => Backend = "combined"
    /\ call.pc \in {"source", "down"} => Backend # "combined"
    /\ call.pc = "slide" => Backend = "relative"
    /\ call.pc = "step" => Backend # "relative"

\* Injections of a drag beside its target.
FastStray ==
    call.req.kind = "drag" =>
        /\ Backend = "combined" => trail.astray =< 1
        /\ Backend = "relative" => trail.astray =< 2
        /\ call.pc = "down" => trail.astray =< 1
        /\ call.pc \in {"batch", "slide"} => trail.astray = 0
        /\ call.pc = "step" /\ Backend \in Fenced => trail.astray = 0

\* Where the call itself has brought the cursor, or read it last.
Brought == cursor - trail.drift

\* A complete path has brought its load to the spot or one unit beside it.
Dropped ==
    \/ Brought = call.req.destination
    \/ /\ Backend = "relative" /\ call.last.motion = 0
       /\ Abs(Brought - call.req.destination) = 1

FastResult ==
    /\ call.pc = "return" /\ call.sent = "NotSent" => ~trail.touched
    /\ call.path => call.pc \in {"up", "return"} /\ Dropped
    /\ call.pc \in {"fence", "slide"} /\ Backend = "relative" => Brought = call.seen
    /\ call.pc = "return" /\ call.req.kind = "drag" /\ call.status = "succeeded"
            => Backend = "touch" \/ call.path

FastDowns ==
    /\ trail.downs =< call.req.clicks
    /\ call.pc = "click" => trail.downs =< call.i /\ call.i < call.req.clicks
    /\ call.pc = "down" => trail.downs = 0

FastInv ==
    /\ act.phase # "idle" <=> call.pc = "activating"
    /\ act.phase # "focus" => act.attached = {}
    /\ call.pc # "idle" =>
        /\ Clean(Due(call), Lost(call))
        /\ FastShape /\ FastStray /\ FastResult /\ FastDowns

-----------------------------------------------------------------------------
(* The guarded path. *)

GuardShape ==
    /\ guard.req \in GuardedRequest
    /\ guard.req.kind \in {"click", "drag"} => guard.req.clicks > 0
    /\ guard.pc \in {"prepare", "leases"} => Calm /\ guard.owed = <<>>
    /\ guard.pc \in {"post", "return"} => guard.owed = <<>>
    /\ guard.pc # "owing" => guard.todo = <<>>
    /\ guard.pc \in {"prepare", "leases", "check", "dispatch"} => ~guard.failed
    /\ guard.pc \in {"leases", "check", "dispatch", "owing"} =>
            Admissible(guard.req) /\ guard.i \in 1 .. Len(Script(guard.req))
    /\ guard.pc = "leases" => guard.i = 1
    /\ guard.pc = "return" /\ guard.status = "succeeded" => ~guard.failed
    /\ \A j \in DOMAIN guard.owed : guard.owed[j][1] = "up"

\* Injections beside the target, or behind a stop.
GuardStray ==
    /\ trail.astray =< 1 /\ trail.late =< 1
    /\ guard.gen =< stops
    /\ trail.late > 0 => guard.gen < stops
    /\ guard.pc = "dispatch" => trail.astray = 0 /\ trail.late = 0

GuardResult ==
    /\ guard.got = "none" => ~trail.touched
    /\ guard.owed # <<>> \/ guard.todo # <<>> => guard.got # "none"
    /\ guard.pc = "return" /\ guard.sent = "NotSent" => ~trail.touched

\* The first step of a click that presses the button.
FirstClick(r) == IF r.keys = <<>> THEN 2 ELSE 3

\* Button presses that a script makes before its step i.
PressBudget(r, i) ==
    CASE r.kind = "click" -> IF i =< FirstClick(r) THEN 0 ELSE i - FirstClick(r)
      [] r.kind = "drag" -> IF i =< r.points + 2 THEN 0 ELSE 1
      [] OTHER -> 0

GuardDowns ==
    /\ trail.downs =< guard.req.clicks
    /\ guard.pc \in {"check", "dispatch"} => trail.downs =< PressBudget(guard.req, guard.i)
    /\ guard.pc = "owing" /\ ~guard.failed => trail.downs =< PressBudget(guard.req, guard.i + 1)

GuardInv ==
    guard.pc # "idle" =>
        /\ Clean(OwedKeys(guard), guard.failed)
        /\ GuardShape /\ GuardStray /\ GuardResult /\ GuardDowns

-----------------------------------------------------------------------------
(* The invariant. *)

OneCall == call.pc = "idle" \/ guard.pc = "idle"
IdleInv == call.pc = "idle" /\ guard.pc = "idle" => Calm /\ Clean({}, FALSE)

WorldInv ==
    /\ Exact => window = "ok"
    /\ guard.pc = "idle" => popup = "none"
    /\ ~Away => trail.astray = 0

InputInv == InputTypeOK /\ OneCall /\ IdleInv /\ WorldInv /\ FastInv /\ GuardInv

-----------------------------------------------------------------------------
(* SendInput. *)

\* The events a batch loses to a cut are its last ones.
LEMMA CutBatch ==
    ASSUME NEW S, NEW batch \in Seq(S), NEW n \in 0 .. Len(batch)
    PROVE  /\ SubSeq(batch, 1, n) \in Seq(S) /\ Len(SubSeq(batch, 1, n)) = n
           /\ \A a \in 1 .. n : SubSeq(batch, 1, n)[a] = batch[a]
           /\ SubSeq(batch, n + 1, Len(batch)) \in Seq(S)
           /\ Len(SubSeq(batch, n + 1, Len(batch))) = Len(batch) - n
           /\ \A a \in 1 .. Len(batch) - n :
                SubSeq(batch, n + 1, Len(batch))[a] = batch[n + a]
  OBVIOUS

\* Presses and releases of the part that was inserted.
LEMMA InsertedKeys ==
    ASSUME NEW S, NEW batch \in Seq(S), NEW n \in 0 .. Len(batch), NEW done, NEW k,
           done = SubSeq(batch, 1, n)
    PROVE  /\ k \in Pressed(done) <=> \E a \in 1 .. n : IsDown(batch[a], k)
           /\ k \in Lifted(done) <=> \E a \in 1 .. n : IsUp(batch[a], k)
           /\ NoUp(done, k) <=> \A a \in 1 .. n : ~IsUp(batch[a], k)
  <1>1. /\ done \in Seq(S) /\ Len(done) = n /\ DOMAIN done = 1 .. n
        /\ \A a \in 1 .. n : done[a] = batch[a]
    BY CutBatch
  <1>2. k \in Pressed(done) <=> \E a \in 1 .. n : IsDown(batch[a], k)
    BY <1>1 DEF Pressed, IsDown
  <1>3. k \in Lifted(done) <=> \E a \in 1 .. n : IsUp(batch[a], k)
    BY <1>1 DEF Lifted, IsUp
  <1>4. NoUp(done, k) <=> \A a \in 1 .. n : ~IsUp(batch[a], k)
    BY <1>1 DEF NoUp
  <1> QED  BY <1>2, <1>3, <1>4

\* Releases of the part that was refused.
LEMMA RefusedKeys ==
    ASSUME NEW S, NEW batch \in Seq(S), NEW n \in 0 .. Len(batch), NEW rest, NEW k,
           rest = SubSeq(batch, n + 1, Len(batch))
    PROVE  k \in Lifted(rest) <=> \E a \in n + 1 .. Len(batch) : IsUp(batch[a], k)
  <1>1. /\ rest \in Seq(S) /\ DOMAIN rest = 1 .. Len(batch) - n
        /\ \A a \in 1 .. Len(batch) - n : rest[a] = batch[n + a]
    BY CutBatch
  <1>2. ASSUME k \in Lifted(rest) PROVE \E a \in n + 1 .. Len(batch) : IsUp(batch[a], k)
    <2>1. PICK b \in DOMAIN rest : rest[b][1] = "up" /\ rest[b][2] = k
      BY <1>2 DEF Lifted
    <2>2. PICK a \in n + 1 .. Len(batch) : a = n + b
      BY <1>1
    <2> QED  BY <1>1, <2>1, <2>2 DEF IsUp
  <1>3. ASSUME NEW a \in n + 1 .. Len(batch), IsUp(batch[a], k) PROVE k \in Lifted(rest)
    <2>1. PICK b \in 1 .. Len(batch) - n : a = n + b
      <3>1. a - n \in 1 .. Len(batch) - n /\ a = n + (a - n)  OBVIOUS
      <3> QED  BY <3>1
    <2>2. rest[b] = batch[a]
      BY <1>1, <2>1
    <2> QED  BY <1>1, <1>3, <2>1, <2>2 DEF Lifted, IsUp
  <1> QED  BY <1>2, <1>3

\* What a batch leaves behind, key by key.
LEMMA SubmitKeys ==
    ASSUME NEW S, NEW batch \in Seq(S), NEW n \in 0 .. Len(batch), NEW begun,
           Submit(batch, n, begun), NEW k
    PROVE  /\ k \in held' => \/ k \in held /\ \A a \in 1 .. n : ~IsUp(batch[a], k)
                             \/ \E a \in 1 .. n :
                                    /\ IsDown(batch[a], k)
                                    /\ \A b \in 1 .. n : b > a => ~IsUp(batch[b], k)
           /\ k \in trail'.stuck <=>
                \/ k \in trail.stuck /\ \A a \in 1 .. n : ~IsUp(batch[a], k)
                \/ k \in held /\ \E a \in n + 1 .. Len(batch) : IsUp(batch[a], k)
           /\ k \in trail'.pressed <=>
                k \in trail.pressed \/ \E a \in 1 .. n : IsDown(batch[a], k)
  <1>1. PICK done : done = SubSeq(batch, 1, n)
    OBVIOUS
  <1>2. PICK rest : rest = SubSeq(batch, n + 1, Len(batch))
    OBVIOUS
  <1>3. DOMAIN done = 1 .. n /\ \A a \in 1 .. n : done[a] = batch[a]
    BY <1>1, CutBatch
  <1>4. k \in held' => StaysDown(done, k)
    BY <1>1 DEF Submit
  <1>5. /\ trail'.stuck = (trail.stuck \ Lifted(done)) \cup (Lifted(rest) \cap held)
        /\ trail'.pressed = trail.pressed \cup Pressed(done)
    BY <1>1, <1>2 DEF Submit, Trace
  <1>6. /\ k \in Pressed(done) <=> \E a \in 1 .. n : IsDown(batch[a], k)
        /\ k \in Lifted(done) <=> \E a \in 1 .. n : IsUp(batch[a], k)
        /\ NoUp(done, k) <=> \A a \in 1 .. n : ~IsUp(batch[a], k)
    BY <1>1, InsertedKeys
  <1>7. k \in Lifted(rest) <=> \E a \in n + 1 .. Len(batch) : IsUp(batch[a], k)
    BY <1>2, RefusedKeys
  <1>8. k \in held' => \/ k \in held /\ \A a \in 1 .. n : ~IsUp(batch[a], k)
                       \/ \E a \in 1 .. n :
                            /\ IsDown(batch[a], k)
                            /\ \A b \in 1 .. n : b > a => ~IsUp(batch[b], k)
    <2> SUFFICES ASSUME k \in held', ~(k \in held /\ \A a \in 1 .. n : ~IsUp(batch[a], k))
                 PROVE  \E a \in 1 .. n :
                            /\ IsDown(batch[a], k)
                            /\ \A b \in 1 .. n : b > a => ~IsUp(batch[b], k)
      OBVIOUS
    <2>1. ~(k \in held /\ NoUp(done, k))
      BY <1>6
    <2>2. PICK i \in 1 .. n : /\ IsDown(done[i], k)
                             /\ \A j \in 1 .. n : j > i => ~IsUp(done[j], k)
      BY <1>3, <1>4, <2>1 DEF StaysDown
    <2>3. IsDown(batch[i], k)
      BY <1>3, <2>2
    <2>4. \A b \in 1 .. n : b > i => ~IsUp(batch[b], k)
      BY <1>3, <2>2
    <2> QED  BY <2>3, <2>4
  <1> QED  BY <1>5, <1>6, <1>7, <1>8

\* A batch keeps the books: what was due is due still, was released, or was
\* refused in a call that fails; what the batch pressed is due or released by
\* the batch itself.
LEMMA SubmitClean ==
    ASSUME NEW S, NEW batch \in Seq(S), NEW n \in 0 .. Len(batch), NEW begun,
           Submit(batch, n, begun),
           NEW X, NEW Y, NEW f \in BOOLEAN, NEW h \in BOOLEAN,
           Clean(X, f), f => h, NEW k \in held', k \notin Y,
           k \in X => \/ \E a \in 1 .. n : IsUp(batch[a], k)
                      \/ h /\ \E a \in n + 1 .. Len(batch) : IsUp(batch[a], k),
           \A a \in 1 .. n : IsDown(batch[a], k) =>
                \E b \in 1 .. n : b > a /\ IsUp(batch[b], k)
    PROVE  k \in trail'.stuck /\ (h \/ k \notin trail'.pressed)
  <1>1. /\ k \in held' => \/ k \in held /\ \A a \in 1 .. n : ~IsUp(batch[a], k)
                          \/ \E a \in 1 .. n :
                                /\ IsDown(batch[a], k)
                                /\ \A b \in 1 .. n : b > a => ~IsUp(batch[b], k)
        /\ k \in trail'.stuck <=>
                \/ k \in trail.stuck /\ \A a \in 1 .. n : ~IsUp(batch[a], k)
                \/ k \in held /\ \E a \in n + 1 .. Len(batch) : IsUp(batch[a], k)
        /\ k \in trail'.pressed <=>
                k \in trail.pressed \/ \E a \in 1 .. n : IsDown(batch[a], k)
    BY SubmitKeys
  <1>2. k \in held /\ \A a \in 1 .. n : ~IsUp(batch[a], k)
    BY <1>1
  <1>3. \A a \in 1 .. n : ~IsDown(batch[a], k)
    BY <1>2
  <1>4. CASE k \in X
    BY <1>1, <1>2, <1>4
  <1>5. CASE k \notin X
    BY <1>1, <1>2, <1>3, <1>5 DEF Clean
  <1> QED  BY <1>4, <1>5

\* How many button presses a batch can hold.
LEMMA PressesBound ==
    ASSUME NEW S, NEW batch \in Seq(S), NEW n \in 0 .. Len(batch), NEW done,
           done = SubSeq(batch, 1, n)
    PROVE  /\ Presses(done) \in Nat
           /\ (\A a \in 1 .. n : ~(batch[a][1] = "down" /\ batch[a][2] \in Buttons)) =>
                Presses(done) = 0
           /\ \A c \in 1 .. n :
                (\A a \in 1 .. n : batch[a][1] = "down" /\ batch[a][2] \in Buttons => a = c) =>
                    Presses(done) =< 1
  <1>1. DOMAIN done = 1 .. n /\ \A a \in 1 .. n : done[a] = batch[a]
    BY CutBatch
  <1>2. PICK P : P = {j \in DOMAIN done : done[j][1] = "down" /\ done[j][2] \in Buttons}
    OBVIOUS
  <1>3. Presses(done) = Cardinality(P) /\ P \subseteq 1 .. n
    BY <1>1, <1>2 DEF Presses
  <1>4. IsFiniteSet(1 .. n)
    BY FS_Interval
  <1>5. IsFiniteSet(P) /\ Cardinality(P) \in Nat
    BY <1>3, <1>4, FS_Subset, FS_CardinalityType
  <1>6. ASSUME \A a \in 1 .. n : ~(batch[a][1] = "down" /\ batch[a][2] \in Buttons)
        PROVE  Presses(done) = 0
    <2>1. P = {}
      BY <1>1, <1>2, <1>6
    <2> QED  BY <1>3, <2>1, FS_EmptySet
  <1>7. ASSUME NEW c \in 1 .. n,
               \A a \in 1 .. n : batch[a][1] = "down" /\ batch[a][2] \in Buttons => a = c
        PROVE  Presses(done) =< 1
    <2>1. P \subseteq {c}
      BY <1>1, <1>2, <1>7
    <2>2. IsFiniteSet({c}) /\ Cardinality({c}) = 1
      BY FS_Singleton
    <2>3. Cardinality(P) =< Cardinality({c})
      BY <2>1, <2>2, FS_Subset
    <2> QED  BY <1>3, <2>2, <2>3
  <1> QED  BY <1>3, <1>5, <1>6, <1>7

\* What some events add to the history.
LEMMA TraceTrail ==
    ASSUME NEW S, NEW done \in Seq(S), NEW rest, NEW begun, NEW p \in Nat, p = Presses(done),
           trail' = Trace(done, rest, begun), TrailIs
    PROVE  /\ TrailIs'
           /\ trail'.touched <=> trail.touched \/ done # <<>>
           /\ trail'.downs =< trail.downs + p
           /\ trail'.astray = trail.astray \/ (Away /\ trail'.astray =< trail.astray + 1)
           /\ trail'.late = trail.late \/ (stops # begun /\ trail'.late =< trail.late + 1)
           /\ OnlyReleases(done) => trail'.astray = trail.astray /\ trail'.late = trail.late
           /\ trail'.stuck = (trail.stuck \ Lifted(done)) \cup (Lifted(rest) \cap held)
           /\ trail'.pressed = trail.pressed \cup Pressed(done)
           /\ (\A i \in DOMAIN done : ~Moves(done[i])) => trail'.drift = trail.drift
           /\ (\E i \in DOMAIN done : Moves(done[i])) => trail'.drift = 0
  <1>1. /\ trail' = [touched |-> trail'.touched, pressed |-> trail'.pressed,
                     downs |-> trail'.downs, astray |-> trail'.astray,
                     late |-> trail'.late, stuck |-> trail'.stuck, drift |-> trail'.drift]
        /\ trail'.touched = (trail.touched \/ done # <<>>)
        /\ trail'.downs = AtMost(3, trail.downs + p)
        /\ trail'.astray = IF Away /\ done # <<>> /\ ~OnlyReleases(done)
                           THEN AtMost(3, trail.astray + 1) ELSE trail.astray
        /\ trail'.late = IF stops # begun /\ done # <<>> /\ ~OnlyReleases(done)
                         THEN AtMost(2, trail.late + 1) ELSE trail.late
        /\ trail'.stuck = (trail.stuck \ Lifted(done)) \cup (Lifted(rest) \cap held)
        /\ trail'.pressed = trail.pressed \cup Pressed(done)
        /\ trail'.drift = IF \A i \in DOMAIN done : ~Moves(done[i]) THEN trail.drift ELSE 0
    BY DEF Trace
  <1>2. /\ trail.touched \in BOOLEAN /\ trail.downs \in Nat
        /\ trail.astray \in Nat /\ trail.late \in Nat /\ trail.drift \in Int
    BY DEF TrailIs
  <1>3. trail'.downs \in Nat /\ trail'.downs =< trail.downs + p
    BY <1>1, <1>2 DEF AtMost
  <1>4. /\ trail'.astray \in Nat
        /\ trail'.astray = trail.astray \/ (Away /\ trail'.astray =< trail.astray + 1)
    BY <1>1, <1>2 DEF AtMost
  <1>5. /\ trail'.late \in Nat
        /\ trail'.late = trail.late \/ (stops # begun /\ trail'.late =< trail.late + 1)
    BY <1>1, <1>2 DEF AtMost
  <1>6. trail'.touched \in BOOLEAN /\ (trail'.touched <=> trail.touched \/ done # <<>>)
    BY <1>1, <1>2
  <1>7. /\ (\A i \in DOMAIN done : ~Moves(done[i])) => trail'.drift = trail.drift
        /\ (\E i \in DOMAIN done : Moves(done[i])) => trail'.drift = 0
        /\ trail'.drift \in Int
    BY <1>1, <1>2
  <1>8. TrailIs'
    BY <1>1, <1>3, <1>4, <1>5, <1>6, <1>7 DEF TrailIs
  <1>9. OnlyReleases(done) => trail'.astray = trail.astray /\ trail'.late = trail.late
    BY <1>1
  <1> QED  BY <1>1, <1>3, <1>4, <1>5, <1>6, <1>7, <1>8, <1>9

\* What a batch adds to the history.
LEMMA SubmitTrail ==
    ASSUME NEW S, NEW batch \in Seq(S), NEW n \in 0 .. Len(batch), NEW begun,
           Submit(batch, n, begun), TrailIs
    PROVE  /\ TrailIs'
           /\ trail'.touched <=> trail.touched \/ n > 0
           /\ trail'.downs =< trail.downs + Presses(SubSeq(batch, 1, n))
           /\ trail'.astray = trail.astray \/ (Away /\ trail'.astray =< trail.astray + 1)
           /\ trail'.late = trail.late \/ (stops # begun /\ trail'.late =< trail.late + 1)
           /\ (\A a \in 1 .. n : batch[a][1] = "up") =>
                trail'.astray = trail.astray /\ trail'.late = trail.late
           /\ (\A a \in 1 .. n : ~Moves(batch[a])) => trail'.drift = trail.drift
           /\ (\E a \in 1 .. n : Moves(batch[a])) => trail'.drift = 0
  <1>1. PICK done : done = SubSeq(batch, 1, n)
    OBVIOUS
  <1>2. PICK rest : rest = SubSeq(batch, n + 1, Len(batch))
    OBVIOUS
  <1>3. PICK p \in Nat : p = Presses(done)
    BY <1>1, PressesBound
  <1>4. /\ done \in Seq(S) /\ Len(done) = n
        /\ DOMAIN done = 1 .. n /\ (\A a \in 1 .. n : done[a] = batch[a])
    BY <1>1, CutBatch
  <1>5. trail' = Trace(done, rest, begun)
    BY <1>1, <1>2 DEF Submit
  <1>6. done # <<>> <=> n > 0
    BY <1>4, EmptySeq
  <1>7. (\A a \in 1 .. n : batch[a][1] = "up") => OnlyReleases(done)
    BY <1>4 DEF OnlyReleases
  <1>8. /\ TrailIs'
        /\ trail'.touched <=> trail.touched \/ done # <<>>
        /\ trail'.downs =< trail.downs + p
        /\ trail'.astray = trail.astray \/ (Away /\ trail'.astray =< trail.astray + 1)
        /\ trail'.late = trail.late \/ (stops # begun /\ trail'.late =< trail.late + 1)
        /\ OnlyReleases(done) => trail'.astray = trail.astray /\ trail'.late = trail.late
        /\ (\A i \in DOMAIN done : ~Moves(done[i])) => trail'.drift = trail.drift
        /\ (\E i \in DOMAIN done : Moves(done[i])) => trail'.drift = 0
    BY <1>3, <1>4, <1>5, TraceTrail
  <1>9. /\ (\A a \in 1 .. n : ~Moves(batch[a])) => trail'.drift = trail.drift
        /\ (\E a \in 1 .. n : Moves(batch[a])) => trail'.drift = 0
    BY <1>4, <1>8
  <1> QED  BY <1>1, <1>3, <1>6, <1>7, <1>8, <1>9

\* Where a batch leaves the cursor.
LEMMA SubmitCursor ==
    ASSUME NEW batch \in Seq(InputEvents), NEW n \in 0 .. Len(batch), NEW begun,
           Submit(batch, n, begun), cursor \in Int, faults \in Nat
    PROVE  /\ cursor' \in Int /\ faults' \in Nat
           /\ (\A a \in 1 .. n : ~Moves(batch[a])) => cursor' = cursor
  <1>1. PICK done : done = SubSeq(batch, 1, n)
    OBVIOUS
  <1>2. DOMAIN done = 1 .. n /\ (\A a \in 1 .. n : done[a] = batch[a])
    BY <1>1, CutBatch
  <1>3. CursorFollows(done)
    BY <1>1 DEF Submit
  <1>4. \A a \in 1 .. n : Moves(batch[a]) => batch[a][2] \in Int
    <2> SUFFICES ASSUME NEW a \in 1 .. n, Moves(batch[a]) PROVE batch[a][2] \in Int
      OBVIOUS
    <2>1. batch[a] \in InputEvents
      OBVIOUS
    <2> QED  BY <2>1 DEF InputEvents, Moves
  <1>5. cursor' \in Int
    BY <1>2, <1>3, <1>4 DEF CursorFollows
  <1>6. (\A a \in 1 .. n : ~Moves(batch[a])) => cursor' = cursor
    BY <1>2, <1>3 DEF CursorFollows
  <1>7. faults' \in Nat
    BY DEF Submit
  <1> QED  BY <1>5, <1>6, <1>7

\* A batch of one event.
LEMMA SingleEvent ==
    ASSUME NEW e \in InputEvents
    PROVE  <<e>> \in Seq(InputEvents) /\ Len(<<e>>) = 1 /\ <<e>>[1] = e
  OBVIOUS

\* The events of the model.
LEMMA EventKinds ==
    /\ \A x \in Int : /\ Move(x) \in InputEvents /\ Slide(x) \in InputEvents
                      /\ Move(x)[1] = "move" /\ Move(x)[2] = x
                      /\ Slide(x)[1] = "slide" /\ Slide(x)[2] = x
    /\ \A k \in Names : /\ Down(k) \in InputEvents /\ Up(k) \in InputEvents
                        /\ Down(k)[1] = "down" /\ Down(k)[2] = k
                        /\ Up(k)[1] = "up" /\ Up(k)[2] = k
  BY DEF Move, Slide, Down, Up, InputEvents

\* A single move or slide.
LEMMA SubmitMove ==
    ASSUME NEW e \in InputEvents, Moves(e), NEW begun, Submit(<<e>>, 1, begun)
    PROVE  cursor' = IF e[1] = "move" THEN e[2] ELSE cursor + e[2]
  <1>1. PICK done : done = SubSeq(<<e>>, 1, 1)
    OBVIOUS
  <1>2. DOMAIN done = 1 .. 1 /\ (\A a \in 1 .. 1 : done[a] = e)
    BY <1>1, SingleEvent, CutBatch
  <1>3. CursorFollows(done)
    BY <1>1 DEF Submit
  <1> QED  BY <1>2, <1>3 DEF CursorFollows

-----------------------------------------------------------------------------
(* Steps of the fast path. *)

\* What a step of a fast call has to establish.
FastArrives == call'.pc # "idle" /\ InputTypeOK' /\ WorldInv' /\ FastInv'

\* While a fast call runs there is no guarded one.
LEMMA FastStepHolds ==
    ASSUME InputInv, guard.pc = "idle", guard' = guard, FastArrives
    PROVE  InputInv'
  BY DEF InputInv, FastArrives, OneCall, IdleInv, GuardInv

\* The rest of the desktop around a batch.
LEMMA SubmitSide ==
    ASSUME WorldOK, DeviceOK, WorldInv, UNCHANGED <<world, guard>>,
           NEW batch \in Seq(InputEvents), NEW n \in 0 .. Len(batch), NEW begun,
           Submit(batch, n, begun)
    PROVE  WorldOK' /\ DeviceOK' /\ WorldInv'
  <1>1. fg' = fg /\ window' = window /\ desk' = desk /\ stops' = stops /\ popup' = popup
    BY DEF world
  <1>2. TrailIs /\ cursor \in Int /\ faults \in Nat
    BY DEF DeviceOK
  <1>3. cursor' \in Int /\ faults' \in Nat
    BY <1>2, SubmitCursor
  <1>4. TrailIs' /\ (trail'.astray = trail.astray \/ Away)
    BY <1>2, SubmitTrail
  <1>5. Away' <=> Away
    BY <1>1 DEF Away
  <1> QED  BY <1>1, <1>3, <1>4, <1>5 DEF WorldOK, DeviceOK, WorldInv, Exact

\* A call that only goes on.
SameCall ==
    /\ call'.req = call.req /\ call'.i = call.i /\ call'.n = call.n
    /\ call'.failed = call.failed /\ call'.path = call.path /\ call'.last = call.last

\* A call that moves on keeps everything but its place.
LEMMA CallMoves ==
    ASSUME call \in CallRecord, NEW p \in CallPcs, call' = [call EXCEPT !.pc = p]
    PROVE  call' \in CallRecord /\ call'.pc = p /\ SameCall
  BY DEF CallRecord, SameCall

\* A call that returns.
LEMMA CallReturns ==
    ASSUME call \in CallRecord, NEW st \in Statuses, NEW se \in Sents, call' = Return(call, st, se)
    PROVE  /\ call' \in CallRecord /\ call'.pc = "return"
           /\ call'.status = st /\ call'.sent = se /\ SameCall
  <1>0. "return" \in CallPcs
    BY DEF CallPcs
  <1>1. call' \in CallRecord
    BY <1>0 DEF CallRecord, Return
  <1>2. call'.pc = "return" /\ call'.status = st /\ call'.sent = se
    BY DEF CallRecord, Return
  <1>3. SameCall
    BY DEF CallRecord, SameCall, Return
  <1> QED  BY <1>1, <1>2, <1>3

\* The back end is a function of the request.
LEMMA SameBackend ==
    ASSUME call'.req = call.req
    PROVE  Backend' = Backend
  BY DEF Backend, SelectBackend

\* A call returns: what its result must not hide.
LEMMA FastReturns ==
    ASSUME InputInv, call.pc # "idle", NEW st \in Statuses, NEW se \in Sents,
           call' = Return(call, st, se), guard' = guard,
           act' \in Activation, act'.phase = "idle", act'.attached = {},
           WorldOK', DeviceOK', WorldInv',
           \A k \in held' : k \in trail'.stuck /\ (st # "succeeded" \/ k \notin trail'.pressed),
           call.req.kind = "drag" /\ Backend = "combined" => trail'.astray =< 1,
           call.req.kind = "drag" /\ Backend = "relative" => trail'.astray =< 2,
           se = "NotSent" => ~trail'.touched,
           call.path => cursor' = cursor /\ trail'.drift = trail.drift,
           call.req.kind = "drag" /\ st = "succeeded" => Backend = "touch" \/ call.path,
           trail'.downs =< call.req.clicks
    PROVE  FastArrives
  <1>1. call \in CallRecord /\ guard \in GuardRecord /\ FastShape /\ FastResult
    BY DEF InputInv, InputTypeOK, FastInv
  <1>2. /\ call' \in CallRecord /\ call'.pc = "return"
        /\ call'.status = st /\ call'.sent = se /\ SameCall
    BY <1>1, CallReturns
  <1>3. Backend' = Backend
    BY <1>2, SameBackend DEF SameCall
  <1>4. Due(call)' = {} /\ (Lost(call)' <=> st # "succeeded")
    BY <1>2 DEF Due, Lost, ModifierPcs, CountedPcs, DragPcs
  <1>5. Clean(Due(call), Lost(call))'
    BY <1>4 DEF Clean
  <1>6. FastShape'
    BY <1>1, <1>2 DEF FastShape, SameCall, QuietPcs, DragPcs, CountedPcs, ClickPcs
  <1>7. FastStray'
    BY <1>2, <1>3 DEF FastStray, SameCall
  <1>8. call.path => Dropped'
    BY <1>1, <1>2, <1>3 DEF FastResult, Dropped, Brought, SameCall
  <1>9. FastResult'
    BY <1>2, <1>3, <1>8 DEF FastResult, SameCall
  <1>10. FastDowns'
    BY <1>2 DEF FastDowns, SameCall
  <1> QED  BY <1>1, <1>2, <1>5, <1>6, <1>7, <1>9, <1>10 DEF FastArrives, InputTypeOK, FastInv

\* A step that leaves the desktop alone.
LEMMA DeskSame ==
    ASSUME InputInv, UNCHANGED <<world, device, faults, guard>>
    PROVE  /\ WorldOK' /\ DeviceOK' /\ WorldInv' /\ guard' \in GuardRecord
           /\ held' = held /\ trail' = trail /\ cursor' = cursor
  <1>1. fg' = fg /\ window' = window /\ desk' = desk /\ stops' = stops /\ popup' = popup
    BY DEF world
  <1>2. held' = held /\ trail' = trail /\ cursor' = cursor /\ faults' = faults /\ guard' = guard
    BY DEF device
  <1>3. WorldOK /\ DeviceOK /\ WorldInv /\ guard \in GuardRecord
    BY DEF InputInv, InputTypeOK
  <1> QED  BY <1>1, <1>2, <1>3 DEF WorldOK, DeviceOK, TrailIs, WorldInv, Away, Exact

\* What is known while a call has done nothing.
LEMMA QuietFacts ==
    ASSUME InputInv, call.pc \in QuietPcs
    PROVE  /\ call.pc # "idle" /\ guard.pc = "idle" /\ call \in CallRecord
           /\ FastShape /\ Calm /\ call.i = 0 /\ call.failed = FALSE /\ call.path = FALSE
           /\ Due(call) = {} /\ Lost(call) = FALSE /\ Clean({}, FALSE)
           /\ \A k \in held : k \in trail.stuck
  <1>1. call.pc # "idle" /\ call.pc # "up" /\ call.pc # "return"
    BY DEF QuietPcs
  <1>2. guard.pc = "idle" /\ call \in CallRecord
    BY <1>1 DEF InputInv, OneCall, InputTypeOK
  <1>3. FastShape /\ FastResult /\ Clean(Due(call), Lost(call))
    BY <1>1 DEF InputInv, FastInv
  <1>4. Calm /\ call.i = 0 /\ ~call.failed /\ ~call.path
    BY <1>1, <1>3 DEF FastShape, FastResult
  <1>5. call.failed = FALSE /\ call.path = FALSE
    BY <1>2, <1>4 DEF CallRecord
  <1>6. Due(call) = {} /\ Lost(call) = FALSE
    BY <1>5 DEF Due, Lost, QuietPcs, ModifierPcs, CountedPcs, DragPcs
  <1>7. Clean({}, FALSE)
    BY <1>3, <1>6
  <1> QED  BY <1>1, <1>2, <1>3, <1>4, <1>5, <1>6, <1>7 DEF Clean

\* A call that gives up before it has done anything.
LEMMA QuietReturns ==
    ASSUME InputInv, call.pc \in QuietPcs, NEW st \in Statuses, st # "succeeded", NEW se \in Sents,
           call' = Return(call, st, se), UNCHANGED <<world, device, faults, guard>>,
           act' \in Activation, act'.phase = "idle", act'.attached = {}
    PROVE  FastArrives
  <1>1. /\ call.pc # "idle" /\ FastShape /\ Calm /\ call.path = FALSE
        /\ \A k \in held : k \in trail.stuck
    BY QuietFacts
  <1>2. /\ WorldOK' /\ DeviceOK' /\ WorldInv'
        /\ held' = held /\ trail' = trail /\ cursor' = cursor
    BY DeskSame
  <1>3. trail'.astray = 0 /\ ~trail'.touched /\ trail'.downs = 0
    BY <1>1, <1>2 DEF Calm
  <1>4. trail'.downs =< call.req.clicks
    BY <1>1, <1>3 DEF FastShape, ForegroundRequest
  <1>5. trail'.astray =< 1 /\ trail'.astray =< 2
    BY <1>3
  <1>6. \A k \in held' : k \in trail'.stuck /\ (st # "succeeded" \/ k \notin trail'.pressed)
    BY <1>1, <1>2
  <1> QED  BY <1>1, <1>2, <1>3, <1>4, <1>5, <1>6, FastReturns

\* A call that goes on and has done nothing yet.
LEMMA QuietMoves ==
    ASSUME InputInv, call.pc \in QuietPcs, UNCHANGED <<world, device, faults, guard>>,
           call' \in CallRecord, call'.pc \in QuietPcs, call'.req = call.req, call'.i = call.i,
           call'.failed = call.failed, call'.path = call.path,
           act' \in Activation, act'.phase # "idle" <=> call'.pc = "activating",
           act'.phase # "focus" => act'.attached = {},
           call'.pc = "keys" => call.req.kind = "keys",
           call'.pc = "cursor" => call.req.kind = "move",
           call'.pc \in {"preflight", "modifiers"} => call.req.kind = "click",
           call'.pc \in {"touch", "source", "prebatch", "batch"} => call.req.kind = "drag",
           call'.pc = "touch" => Backend = "touch",
           call'.pc \in {"prebatch", "batch"} => Backend = "combined",
           call'.pc = "source" => Backend # "combined"
    PROVE  FastArrives
  <1>1. /\ FastShape /\ Calm /\ call.i = 0 /\ call.path = FALSE /\ call.failed = FALSE
        /\ \A k \in held : k \in trail.stuck
    BY QuietFacts
  <1>2. /\ WorldOK' /\ DeviceOK' /\ WorldInv' /\ guard' \in GuardRecord
        /\ held' = held /\ trail' = trail /\ cursor' = cursor
    BY DeskSame
  <1>3. Backend' = Backend
    BY SameBackend
  <1>4. Calm' /\ trail'.astray = 0 /\ trail'.downs = 0 /\ trail'.pressed = {}
    BY <1>1, <1>2 DEF Calm
  <1>5. Due(call)' = {}
    BY DEF Due, QuietPcs, ModifierPcs, CountedPcs, DragPcs
  <1>6. Clean(Due(call), Lost(call))'
    BY <1>1, <1>2, <1>4, <1>5 DEF Clean
  <1>7. FastShape'
    BY <1>1, <1>3, <1>4
    DEF FastShape, QuietPcs, DragPcs, CountedPcs, ClickPcs
  <1>8. FastStray'
    BY <1>4 DEF FastStray, QuietPcs
  <1>9. FastResult'
    BY <1>1 DEF FastResult, QuietPcs
  <1>10. FastDowns'
    <2>1. call.req.clicks \in Nat
      BY <1>1 DEF FastShape, ForegroundRequest
    <2> QED  BY <1>4, <2>1 DEF FastDowns, QuietPcs
  <1>11. call'.pc # "idle"
    BY DEF QuietPcs
  <1> QED  BY <1>2, <1>6, <1>7, <1>8, <1>9, <1>10, <1>11 DEF FastArrives, InputTypeOK, FastInv

-----------------------------------------------------------------------------
(* Activation. *)

\* The end of an activation leaves no queue attached.
LEMMA EndedOK ==
    ASSUME act \in Activation, NEW r \in Refusals \cup {"ok"}, act' = Ended(r)
    PROVE  act' \in Activation /\ act'.phase = "done" /\ act'.attached = {}
  <1>1. PICK v \in Refusals \cup {"none", "ok"} :
            v = IF stops # act.gen THEN "interrupted" ELSE r
    BY DEF Refusals
  <1>2. PICK d \in Phases : d = "done"
    BY DEF Phases
  <1>3. PICK q \in SUBSET Queues : q = {}
    OBVIOUS
  <1>4. act' = [act EXCEPT !.phase = d, !.attached = q, !.result = v]
    BY <1>1, <1>2, <1>3 DEF Ended
  <1>5. act' \in Activation
    BY <1>4 DEF Activation
  <1> QED  BY <1>2, <1>3, <1>4, <1>5 DEF Activation

\* The next rung of an activation keeps what is attached.
LEMMA ToOK ==
    ASSUME act \in Activation, NEW p \in Phases, act' = To(p)
    PROVE  act' \in Activation /\ act'.phase = p /\ act'.attached = act.attached
  BY DEF Activation, To

\* An activation changes the foreground at most to the target itself.
LEMMA ActivationKeeps ==
    ASSUME InputInv, act.phase # "idle", act' \in Activation, act'.phase # "idle",
           act'.phase # "focus" => act'.attached = {},
           fg' = fg \/ (fg' = "ExactTarget" /\ window = "ok"),
           UNCHANGED <<window, desk, stops, popup, device, faults, call, guard>>
    PROVE  InputInv'
  <1>1. call.pc = "activating" /\ call.pc \in QuietPcs
    BY DEF InputInv, FastInv, QuietPcs
  <1>2. /\ FastShape /\ Calm /\ guard.pc = "idle" /\ Clean(Due(call), Lost(call))
        /\ FastStray /\ FastResult /\ FastDowns
    BY <1>1, QuietFacts DEF InputInv, FastInv
  <1>3. held' = held /\ trail' = trail /\ cursor' = cursor /\ call' = call /\ guard' = guard
    BY DEF device
  <1>4. fg' \in Relations /\ (fg' = "ExactTarget" => window = "ok")
    BY RelationsAssumption DEF InputInv, InputTypeOK, WorldOK, WorldInv, Exact
  <1>5. WorldOK' /\ DeviceOK'
    BY <1>3, <1>4 DEF InputInv, InputTypeOK, WorldOK, DeviceOK, TrailIs
  <1>6. WorldInv'
    BY <1>2, <1>3, <1>4 DEF InputInv, WorldInv, Exact, Calm
  <1>7. /\ Backend' = Backend /\ Due(call)' = Due(call) /\ (Calm' <=> Calm)
        /\ (Lost(call)' <=> Lost(call))
    BY <1>3, SameBackend DEF Due, Lost, Calm
  <1>8. Clean(Due(call), Lost(call))'
    BY <1>2, <1>3, <1>7 DEF Clean
  <1>9. FastShape' /\ FastStray'
    BY <1>2, <1>3, <1>7 DEF FastShape, FastStray
  <1>10. FastResult' /\ FastDowns'
    BY <1>1, <1>2, <1>3, <1>7 DEF FastResult, FastDowns
  <1>11. FastInv'
    BY <1>1, <1>3, <1>8, <1>9, <1>10 DEF FastInv
  <1>12. InputTypeOK'
    BY <1>3, <1>5 DEF InputInv, InputTypeOK
  <1>13. FastArrives
    BY <1>1, <1>3, <1>6, <1>11, <1>12 DEF FastArrives
  <1> QED  BY <1>2, <1>3, <1>13, FastStepHolds

\* Every rung of the ladder.
LEMMA ActivationHolds ==
    ASSUME InputInv, ActivationStep, UNCHANGED <<call, guard>>
    PROVE  InputInv'
  <1>1. /\ act \in Activation /\ WorldOK /\ (Exact => window = "ok")
        /\ act.phase # "focus" => act.attached = {}
    BY DEF InputInv, InputTypeOK, WorldInv, FastInv
  <1>2. /\ Available \in {"ok", "target", "minimized"} /\ (Available = "ok" => window = "ok")
        /\ Gate \in {"ok", "interrupted", "desktop"}
    BY <1>1 DEF Available, Gate, WorldOK, WindowStates
  <1>3. ASSUME NEW r \in Refusals \cup {"ok"}, act' = Ended(r), act.phase # "idle",
               fg' = fg \/ (fg' = "ExactTarget" /\ window = "ok"),
               UNCHANGED <<window, desk, stops, popup, device, faults>>
        PROVE  InputInv'
    <2>1. act' \in Activation /\ act'.phase = "done" /\ act'.attached = {}
      BY <1>1, <1>3, EndedOK
    <2> QED  BY <1>3, <2>1, ActivationKeeps
  <1>4. ASSUME NEW p \in Phases, p # "idle", act' = To(p), act.phase # "idle", act.phase # "focus",
               fg' = fg \/ (fg' = "ExactTarget" /\ window = "ok"),
               UNCHANGED <<window, desk, stops, popup, device, faults>>
        PROVE  InputInv'
    <2>1. act' \in Activation /\ act'.phase = p /\ act'.attached = {}
      BY <1>1, <1>4, ToOK
    <2> QED  BY <1>4, <2>1, ActivationKeeps
  <1>5. {"ok", "target", "minimized", "interrupted", "desktop", "failed", "refused"}
            \subseteq Refusals \cup {"ok"}
        /\ {"request", "raise", "attach", "queued", "settle", "final"} \subseteq Phases
    BY DEF Refusals, Phases
  <1>6. UNCHANGED world => UNCHANGED <<fg, window, desk, stops, popup>>
    BY DEF world
  <1>7. CASE ActivationGate
    BY <1>2, <1>3, <1>4, <1>5, <1>6, <1>7 DEF ActivationGate
  <1>8. CASE ActivationRequest
    BY <1>1, <1>2, <1>3, <1>4, <1>5, <1>8 DEF ActivationRequest, Granted
  <1>9. CASE ActivationRaise
    BY <1>1, <1>2, <1>3, <1>4, <1>5, <1>9 DEF ActivationRaise, Granted
  <1>10. CASE ActivationAttach
    <2>1. act.phase # "idle" /\ UNCHANGED <<window, desk, stops, popup, device, faults>>
      BY <1>10 DEF ActivationAttach
    <2>2. CASE Gate # "ok" /\ act' = Ended(Gate) /\ UNCHANGED fg
      BY <1>2, <1>3, <1>5, <2>1, <2>2
    <2>3. CASE Gate = "ok" /\ act' = Ended("failed") /\ UNCHANGED fg
      BY <1>3, <1>5, <2>1, <2>3
    <2>4. ASSUME NEW q \in SUBSET Queues, NEW g \in {Exact, window = "ok"},
                 act' = [To("focus") EXCEPT !.attached = q], Granted(g)
          PROVE  InputInv'
      <3>1. fg' = fg \/ (fg' = "ExactTarget" /\ window = "ok")
        BY <1>1, <2>4 DEF Granted
      <3>2. PICK p \in Phases : p = "focus"
        BY DEF Phases
      <3>3. act' = [act EXCEPT !.phase = p, !.attached = q]
        BY <2>4, <3>2 DEF To
      <3>4. act' \in Activation /\ act'.phase = "focus"
        BY <1>1, <3>2, <3>3 DEF Activation
      <3> QED  BY <2>1, <3>1, <3>4, ActivationKeeps
    <2> QED  BY <1>10, <2>2, <2>3, <2>4 DEF ActivationAttach
  <1>11. CASE ActivationFocus
    <2>1. PICK g \in {Exact, FocusAvailable /\ window = "ok"} : AttachedFocus(g)
      BY <1>11 DEF ActivationFocus
    <2>2. act.phase # "idle" /\ UNCHANGED <<window, desk, stops, popup, device, faults>>
      BY <1>11 DEF ActivationFocus
    <2>3. CASE FocusRefusal # "ok"
      <3>1. FocusRefusal \in {"ok", "target", "interrupted", "desktop"}
        BY <1>2 DEF FocusRefusal
      <3>2. PICK r \in Refusals \cup {"ok"} : r = FocusRefusal
        BY <1>5, <3>1
      <3> QED  BY <1>3, <2>1, <2>2, <2>3, <3>2 DEF AttachedFocus
    <2>4. CASE FocusRefusal = "ok"
      <3>1. fg' = fg \/ (fg' = "ExactTarget" /\ window = "ok")
        <4>1. fg' = IF g THEN "ExactTarget" ELSE fg
          BY <2>1, <2>4 DEF AttachedFocus, Granted
        <4>2. g => window = "ok"
          BY <1>1, <2>1
        <4> QED  BY <4>1, <4>2
      <3>2. PICK p \in Phases, q \in SUBSET Queues : p = "queued" /\ q = {}
        BY <1>5
      <3>3. act' = [act EXCEPT !.phase = p, !.attached = q]
        BY <2>1, <2>4, <3>2 DEF AttachedFocus, To
      <3>4. act' \in Activation /\ act'.phase = "queued" /\ act'.attached = {}
        BY <1>1, <3>2, <3>3 DEF Activation
      <3> QED  BY <2>2, <3>1, <3>4, ActivationKeeps
    <2> QED  BY <2>3, <2>4
  <1>12. CASE ActivationQueued
    BY <1>1, <1>2, <1>3, <1>4, <1>5, <1>12 DEF ActivationQueued, Granted
  <1>13. CASE ActivationSettle
    BY <1>2, <1>3, <1>4, <1>5, <1>6, <1>13 DEF ActivationSettle
  <1>14. CASE ActivationFinal
    <2>1. PICK r \in Refusals \cup {"ok"} :
                r = IF window = "gone" THEN "target" ELSE IF Exact THEN "ok" ELSE "refused"
      BY <1>5
    <2> QED  BY <1>3, <1>6, <1>14, <2>1 DEF ActivationFinal
  <1> QED
    BY <1>7, <1>8, <1>9, <1>10, <1>11, <1>12, <1>13, <1>14 DEF ActivationStep

-----------------------------------------------------------------------------
(* The beginning of a fast call. *)

\* A held click becomes a drag with as many presses.
LEMMA EffectiveOK ==
    ASSUME NEW r \in Foreground
    PROVE  /\ Effective(r) \in ForegroundRequest
           /\ Effective(r).kind \in {"click", "drag"} => Effective(r).clicks > 0
  <1>1. /\ r \in ForegroundRequest
        /\ r.kind \in {"click", "drag"} => r.clicks > 0
    BY RequestsAssumption
  <1>2. CASE r.kind = "click" /\ r.hold
    <2>1. PICK a \in {"click", "drag", "keys", "move"}, b \in Nat, d \in Int :
            a = "drag" /\ b = 2 /\ d = Source
      BY DEF Source
    <2>2. Effective(r) = [r EXCEPT !.kind = a, !.points = b, !.destination = d]
      BY <1>2, <2>1 DEF Effective
    <2>3. Effective(r) \in ForegroundRequest
      BY <1>1, <2>2 DEF ForegroundRequest
    <2>4. Effective(r).clicks = r.clicks
      BY <1>1, <2>2 DEF ForegroundRequest
    <2> QED  BY <1>1, <1>2, <2>3, <2>4
  <1>3. CASE ~(r.kind = "click" /\ r.hold)
    BY <1>1, <1>3 DEF Effective
  <1> QED  BY <1>2, <1>3

\* A fast call starts with nothing done, activating or already refused.
LEMMA BeginHolds ==
    ASSUME InputInv, guard.pc = "idle", guard' = guard, NEW r \in Foreground, ForegroundBegin(r)
    PROVE  InputInv'
  <1>1. PICK e \in ForegroundRequest :
            e = Effective(r) /\ (e.kind \in {"click", "drag"} => e.clicks > 0)
    BY EffectiveOK
  <1>2. /\ call.pc = "idle" /\ act \in Activation /\ act.phase = "idle" /\ act.attached = {}
        /\ Calm /\ Clean({}, FALSE) /\ stops \in Nat
    BY DEF InputInv, FastInv, ForegroundBegin, IdleInv, InputTypeOK, WorldOK
  <1>3. UNCHANGED <<world, device, faults, guard>>
    BY DEF ForegroundBegin, deviceVars
  <1>4. /\ WorldOK' /\ DeviceOK' /\ WorldInv' /\ guard' \in GuardRecord
        /\ held' = held /\ trail' = trail /\ cursor' = cursor
    BY <1>3, DeskSame
  <1>5. PICK c : c = [NoCall EXCEPT !.gen = stops, !.req = e]
    OBVIOUS
  <1>6. /\ c \in CallRecord /\ c.req = e /\ c.i = 0 /\ c.failed = FALSE /\ c.path = FALSE
    <2>1. c = [req |-> e, pc |-> "idle", stage |-> "none", tries |-> 0, i |-> 0, n |-> 0,
               gen |-> stops, failed |-> FALSE, path |-> FALSE, last |-> NoAttempt, trust |-> 0,
               seen |-> 0, status |-> "none", sent |-> "none"]
      BY <1>5 DEF NoCall
    <2>2. NoAttempt \in Attempt /\ "idle" \in CallPcs
      BY DEF NoAttempt, Attempt, CallPcs
    <2> QED  BY <1>2, <2>1, <2>2 DEF CallRecord, Statuses, Sents
  <1>7. ASSUME call' \in CallRecord, call'.pc \in {"return", "activating"}, call'.req = e,
               call'.i = 0, call'.failed = FALSE, call'.path = FALSE,
               call'.pc = "return" => call'.status # "succeeded",
               act' \in Activation, act'.phase # "idle" <=> call'.pc = "activating",
               act'.attached = {}
        PROVE  InputInv'
    <2>1. Calm' /\ trail'.astray = 0 /\ trail'.downs = 0 /\ ~trail'.touched /\ trail'.pressed = {}
      BY <1>2, <1>4 DEF Calm
    <2>2. Due(call)' = {}
      BY <1>7 DEF Due, ModifierPcs, CountedPcs, DragPcs
    <2>3. Clean(Due(call), Lost(call))'
      BY <1>2, <1>4, <2>1, <2>2 DEF Clean
    <2>4. FastShape'
      BY <1>1, <1>7, <2>1 DEF FastShape, QuietPcs, DragPcs, CountedPcs, ClickPcs
    <2>5. FastStray'
      BY <1>7, <2>1 DEF FastStray
    <2>6. FastResult'
      BY <1>7, <2>1 DEF FastResult
    <2>7. FastDowns'
      <3>1. e.clicks \in Nat
        BY <1>1 DEF ForegroundRequest
      <3> QED  BY <1>7, <2>1, <3>1 DEF FastDowns
    <2>8. FastArrives
      BY <1>4, <1>7, <2>3, <2>4, <2>5, <2>6, <2>7 DEF FastArrives, InputTypeOK, FastInv
    <2> QED  BY <2>8, FastStepHolds
  <1>8. ASSUME NEW st \in {"error", "rejected"}, call' = Return(c, st, "NotSent"), act' = act
        PROVE  InputInv'
    <2>1. PICK p \in CallPcs, s \in Statuses, t \in Sents : p = "return" /\ s = st /\ t = "NotSent"
      BY DEF CallPcs, Statuses, Sents
    <2>2. call' = [c EXCEPT !.pc = p, !.status = s, !.sent = t]
      BY <1>8, <2>1 DEF Return
    <2>3. call' \in CallRecord
      BY <1>6, <2>2 DEF CallRecord
    <2>4. /\ call'.pc = "return" /\ call'.status # "succeeded" /\ call'.req = e
          /\ call'.i = 0 /\ call'.failed = FALSE /\ call'.path = FALSE
      BY <1>6, <2>1, <2>2 DEF CallRecord
    <2> QED  BY <1>2, <1>7, <1>8, <2>3, <2>4
  <1>9. ASSUME call' = Activating(c, FirstStage(e)), act' = ActivationStarts
        PROVE  InputInv'
    <2>1. PICK p \in CallPcs, s \in {"none", "implicit", "first", "glide", "dispatch"} :
                p = "activating" /\ s = FirstStage(e)
      BY DEF CallPcs, QuietPcs, FirstStage
    <2>2. call' = [c EXCEPT !.pc = p, !.stage = s]
      BY <1>9, <2>1 DEF Activating
    <2>3. call' \in CallRecord
      BY <1>6, <2>2 DEF CallRecord
    <2>4. /\ call'.pc = "activating" /\ call'.req = e
          /\ call'.i = 0 /\ call'.failed = FALSE /\ call'.path = FALSE
      BY <1>6, <2>1, <2>2 DEF CallRecord
    <2>5. act' \in Activation /\ act'.phase = "gate" /\ act'.attached = {}
      BY <1>2, <1>9 DEF ActivationStarts, NoActivation, Activation, Phases
    <2> QED  BY <1>7, <2>3, <2>4, <2>5
  <1>10. \/ call' = Return(c, "error", "NotSent") /\ act' = act
         \/ call' = Return(c, "rejected", "NotSent") /\ act' = act
         \/ call' = Activating(c, FirstStage(e)) /\ act' = ActivationStarts
    BY <1>1, <1>5 DEF ForegroundBegin
  <1> QED  BY <1>8, <1>9, <1>10

\* Both ways the activation record is left.
LEMMA ActivationRecords ==
    ASSUME WorldOK
    PROVE  /\ NoActivation \in Activation /\ NoActivation.phase = "idle" /\ NoActivation.attached = {}
           /\ ActivationStarts \in Activation /\ ActivationStarts.phase = "gate"
           /\ ActivationStarts.attached = {}
  BY DEF WorldOK, ActivationStarts, NoActivation, Activation, Phases

\* A call goes on to another step that has done nothing.
LEMMA QuietGoes ==
    ASSUME InputInv, call.pc \in QuietPcs, UNCHANGED <<world, device, faults, guard>>,
           NEW p \in QuietPcs, p # "activating", call' = [call EXCEPT !.pc = p],
           act' \in Activation, act'.phase = "idle", act'.attached = {},
           p = "keys" => call.req.kind = "keys",
           p = "cursor" => call.req.kind = "move",
           p \in {"preflight", "modifiers"} => call.req.kind = "click",
           p \in {"touch", "source", "prebatch", "batch"} => call.req.kind = "drag",
           p = "touch" => Backend = "touch",
           p \in {"prebatch", "batch"} => Backend = "combined",
           p = "source" => Backend # "combined"
    PROVE  FastArrives
  <1>1. call \in CallRecord /\ p \in CallPcs
    BY DEF InputInv, InputTypeOK, CallPcs
  <1>2. call' \in CallRecord /\ call'.pc = p /\ SameCall
    BY <1>1, CallMoves
  <1> QED  BY <1>2, QuietMoves DEF SameCall

\* An activation begins, the first of a call or another one.
LEMMA QuietActivates ==
    ASSUME InputInv, call.pc \in QuietPcs, UNCHANGED <<world, device, faults, guard>>,
           NEW s \in {"none", "implicit", "first", "glide", "dispatch"}, NEW t \in Nat,
           call' = [Activating(call, s) EXCEPT !.tries = t], act' = ActivationStarts
    PROVE  FastArrives
  <1>1. call \in CallRecord /\ WorldOK
    BY DEF InputInv, InputTypeOK
  <1>2. PICK p \in CallPcs : p = "activating"
    BY DEF CallPcs, QuietPcs
  <1>3. call' = [call EXCEPT !.pc = p, !.stage = s, !.tries = t]
    BY <1>2 DEF Activating
  <1>4. call' \in CallRecord
    BY <1>1, <1>3 DEF CallRecord
  <1>5. /\ call'.pc = "activating" /\ call'.req = call.req /\ call'.i = call.i
        /\ call'.failed = call.failed /\ call'.path = call.path
    BY <1>1, <1>2, <1>3 DEF CallRecord
  <1>6. act' \in Activation /\ act'.phase = "gate" /\ act'.attached = {}
    BY <1>1, ActivationRecords
  <1>7. call'.pc \in QuietPcs
    BY <1>5 DEF QuietPcs
  <1> QED  BY <1>4, <1>5, <1>6, <1>7, QuietMoves

\* The step behind the last activation.
LEMMA DispatchArrives ==
    ASSUME InputInv, call.pc = "activating", UNCHANGED <<world, device, faults, guard>>,
           call' = Dispatching(call), act' = NoActivation
    PROVE  FastArrives
  <1>1. call.pc \in QuietPcs /\ WorldOK
    BY DEF QuietPcs, InputInv, InputTypeOK
  <1>2. FastShape
    BY <1>1, QuietFacts
  <1>3. call.req.kind \in {"click", "drag", "keys", "move"} /\ call.req.elevated \in BOOLEAN
    BY <1>2 DEF FastShape, ForegroundRequest
  <1>4. act' \in Activation /\ act'.phase = "idle" /\ act'.attached = {}
    BY <1>1, ActivationRecords
  <1>5. CASE call.req.kind = "click"
    <2>1. call' = [call EXCEPT !.pc = "preflight"] /\ "preflight" \in QuietPcs
      BY <1>5 DEF Dispatching, QuietPcs
    <2> QED  BY <1>1, <1>4, <1>5, <2>1, QuietGoes
  <1>6. CASE call.req.kind = "keys"
    <2>1. call' = [call EXCEPT !.pc = "keys"] /\ "keys" \in QuietPcs
      BY <1>6 DEF Dispatching, QuietPcs
    <2> QED  BY <1>1, <1>4, <1>6, <2>1, QuietGoes
  <1>7. CASE call.req.kind = "move"
    <2>1. call' = [call EXCEPT !.pc = "cursor"] /\ "cursor" \in QuietPcs
      BY <1>7 DEF Dispatching, QuietPcs
    <2> QED  BY <1>1, <1>4, <1>7, <2>1, QuietGoes
  <1>8. CASE call.req.kind = "drag"
    <2>1. \/ Backend = "touch" /\ call' = [call EXCEPT !.pc = "touch"]
          \/ call' = Return(call, "error", "Unknown")
          \/ Backend = "combined" /\ call' = [call EXCEPT !.pc = "prebatch"]
          \/ Backend # "combined" /\ call' = [call EXCEPT !.pc = "source"]
      BY <1>8 DEF Dispatching, Backend, AttemptFailed
    <2>2. {"touch", "prebatch", "source"} \subseteq QuietPcs
      BY DEF QuietPcs
    <2>3. CASE Backend = "touch" /\ call' = [call EXCEPT !.pc = "touch"]
      BY <1>1, <1>4, <1>8, <2>2, <2>3, QuietGoes
    <2>4. CASE call' = Return(call, "error", "Unknown")
      <3>1. "error" \in Statuses /\ "Unknown" \in Sents
        BY DEF Statuses, Sents
      <3> QED  BY <1>1, <1>4, <2>4, <3>1, QuietReturns
    <2>5. CASE Backend = "combined" /\ call' = [call EXCEPT !.pc = "prebatch"]
      BY <1>1, <1>4, <1>8, <2>2, <2>5, QuietGoes
    <2>6. CASE Backend # "combined" /\ call' = [call EXCEPT !.pc = "source"]
      BY <1>1, <1>4, <1>8, <2>2, <2>6, QuietGoes
    <2> QED  BY <2>1, <2>3, <2>4, <2>5, <2>6
  <1> QED  BY <1>3, <1>5, <1>6, <1>7, <1>8

\* The result of an activation: again, give up, or go on.
LEMMA ActivatedArrives ==
    ASSUME InputInv, Activated, guard' = guard
    PROVE  FastArrives
  <1>1. /\ call.pc = "activating" /\ call.pc \in QuietPcs /\ WorldOK /\ call \in CallRecord
        /\ UNCHANGED <<world, device, faults, guard>>
    BY DEF Activated, QuietPcs, InputInv, InputTypeOK
  <1>2. /\ NoActivation \in Activation /\ NoActivation.phase = "idle" /\ NoActivation.attached = {}
        /\ "error" \in Statuses /\ "NotSent" \in Sents /\ "Unknown" \in Sents
    BY <1>1, ActivationRecords DEF Statuses, Sents
  <1>3. CASE act.result # "ok" /\ RefusedClick
    <2>1. call' = [call EXCEPT !.tries = 1] /\ act' = ActivationStarts
      BY <1>3 DEF Activated
    <2>2. PICK t \in Nat : t = 1
      OBVIOUS
    <2>3. call' = [Activating(call, call.stage) EXCEPT !.tries = t]
      BY <1>1, <2>1, <2>2 DEF Activating, CallRecord
    <2>4. call.stage \in {"none", "implicit", "first", "glide", "dispatch"}
      BY <1>1 DEF CallRecord
    <2> QED  BY <1>1, <2>1, <2>3, <2>4, QuietActivates
  <1>4. CASE act.result # "ok" /\ ~RefusedClick
    <2>1. act' = NoActivation
      BY <1>4 DEF Activated
    <2>2. PICK se \in Sents : call' = Return(call, "error", se)
      BY <1>2, <1>4 DEF Activated, ActivationFailed, AttemptFailed
    <2> QED  BY <1>1, <1>2, <2>1, <2>2, QuietReturns
  <1>5. CASE call' = Return(call, "error", "NotSent") /\ act' = NoActivation
    BY <1>1, <1>2, <1>5, QuietReturns
  <1>6. CASE call' = Dispatching(call) /\ act' = NoActivation
    BY <1>1, <1>6, DispatchArrives
  <1>7. CASE call' = Activating(call, StageAfter(call.req, call.stage)) /\ act' = ActivationStarts
    <2>1. PICK s \in {"none", "implicit", "first", "glide", "dispatch"} :
                s = StageAfter(call.req, call.stage)
      BY DEF StageAfter
    <2>2. PICK t \in Nat : t = call.tries
      BY <1>1 DEF CallRecord
    <2>3. call' = [Activating(call, s) EXCEPT !.tries = t]
      BY <1>1, <1>7, <2>1, <2>2 DEF Activating, CallRecord
    <2> QED  BY <1>1, <1>7, <2>1, <2>3, QuietActivates
  <1> QED  BY <1>3, <1>4, <1>5, <1>6, <1>7 DEF Activated

\* The last look before a click.
LEMMA ClickPreflightArrives ==
    ASSUME InputInv, ClickPreflight, guard' = guard
    PROVE  FastArrives
  <1>1. /\ call.pc = "preflight" /\ call.pc \in QuietPcs /\ WorldOK /\ call \in CallRecord
        /\ UNCHANGED <<world, device, faults, guard>>
    BY DEF ClickPreflight, QuietPcs, InputInv, InputTypeOK
  <1>2. /\ act \in Activation /\ act.phase = "idle" /\ act.attached = {} /\ call.req.kind = "click"
    BY <1>1, QuietFacts DEF InputInv, InputTypeOK, FastInv, FastShape, ClickPcs
  <1>3. \/ call' = [call EXCEPT !.pc = "modifiers"] /\ act' = act
        \/ call' = [Activating(call, "dispatch") EXCEPT !.tries = 1] /\ act' = ActivationStarts
        \/ call' = AttemptFailed(call) /\ act' = act
    BY DEF ClickPreflight
  <1>4. CASE call' = [call EXCEPT !.pc = "modifiers"] /\ act' = act
    <2>1. "modifiers" \in QuietPcs
      BY DEF QuietPcs
    <2> QED  BY <1>1, <1>2, <1>4, <2>1, QuietGoes
  <1>5. CASE call' = [Activating(call, "dispatch") EXCEPT !.tries = 1] /\ act' = ActivationStarts
    BY <1>1, <1>5, QuietActivates
  <1>6. CASE call' = AttemptFailed(call) /\ act' = act
    <2>1. "error" \in Statuses /\ "Unknown" \in Sents
      BY DEF Statuses, Sents
    <2> QED  BY <1>1, <1>2, <1>6, <2>1, QuietReturns DEF AttemptFailed
  <1> QED  BY <1>3, <1>4, <1>5, <1>6

\* The look of the combined back end before its batch.
LEMMA CombinedFenceArrives ==
    ASSUME InputInv, CombinedFence, guard' = guard
    PROVE  FastArrives
  <1>1. /\ call.pc = "prebatch" /\ call.pc \in QuietPcs
        /\ UNCHANGED <<world, device, faults, guard>> /\ act' = act
    BY DEF CombinedFence, QuietPcs, deviceVars
  <1>2. /\ act \in Activation /\ act.phase = "idle" /\ act.attached = {}
        /\ call.req.kind = "drag" /\ Backend = "combined"
    BY <1>1, QuietFacts DEF InputInv, InputTypeOK, FastInv, FastShape
  <1>3. "batch" \in QuietPcs /\ "rejected" \in Statuses /\ "NotSent" \in Sents
    BY DEF QuietPcs, Statuses, Sents
  <1>4. CASE call' = [call EXCEPT !.pc = "batch"]
    BY <1>1, <1>2, <1>3, <1>4, QuietGoes
  <1>5. CASE call' = Return(call, "rejected", "NotSent")
    BY <1>1, <1>2, <1>3, <1>5, QuietReturns
  <1> QED  BY <1>4, <1>5 DEF CombinedFence

-----------------------------------------------------------------------------
(* Batches of the fast path. *)

\* Presses of keys, in their order.
LEMMA DownsShape ==
    ASSUME NEW ks \in Seq(KeyNames), NEW ds, ds = [j \in DOMAIN ks |-> Down(ks[j])]
    PROVE  /\ ds \in Seq(InputEvents) /\ Len(ds) = Len(ks)
           /\ \A a \in 1 .. Len(ks) : ds[a][1] = "down" /\ ds[a][2] = ks[a] /\ ks[a] \notin Buttons
  <1>1. ASSUME NEW a \in 1 .. Len(ks) PROVE Down(ks[a]) \in InputEvents /\ ks[a] \notin Buttons
    <2>1. ks[a] \in KeyNames
      OBVIOUS
    <2>2. ks[a] \in Names /\ ks[a] \notin Buttons
      BY <2>1 DEF KeyNames, Names
    <2> QED  BY <2>2, EventKinds
  <1>2. DOMAIN ks = 1 .. Len(ks) /\ Len(ks) \in Nat
    OBVIOUS
  <1>3. ds \in [1 .. Len(ks) -> InputEvents]
    BY <1>1, <1>2
  <1>4. ds \in Seq(InputEvents) /\ Len(ds) = Len(ks)
    BY <1>2, <1>3
  <1>5. \A a \in 1 .. Len(ks) : ds[a] = Down(ks[a])
    BY <1>2
  <1> QED  BY <1>1, <1>4, <1>5 DEF Down

\* Releases of keys, the last one first.
LEMMA UpsShape ==
    ASSUME NEW ks \in Seq(KeyNames)
    PROVE  /\ Ups(ks) \in Seq(InputEvents) /\ Len(Ups(ks)) = Len(ks)
           /\ \A a \in 1 .. Len(ks) : Ups(ks)[a][1] = "up" /\ Ups(ks)[a][2] = ks[Len(ks) + 1 - a]
  <1>1. DOMAIN ks = 1 .. Len(ks) /\ Len(ks) \in Nat
    OBVIOUS
  <1>2. \A a \in 1 .. Len(ks) : Len(ks) + 1 - a \in 1 .. Len(ks)
    OBVIOUS
  <1>3. ASSUME NEW a \in 1 .. Len(ks) PROVE Up(ks[Len(ks) + 1 - a]) \in InputEvents
    <2>1. ks[Len(ks) + 1 - a] \in KeyNames
      BY <1>2
    <2> QED  BY <2>1, EventKinds DEF Names
  <1>4. Ups(ks) \in [1 .. Len(ks) -> InputEvents]
    BY <1>1, <1>3 DEF Ups
  <1>5. Ups(ks) \in Seq(InputEvents) /\ Len(Ups(ks)) = Len(ks)
    BY <1>1, <1>4
  <1>6. \A a \in 1 .. Len(ks) : Ups(ks)[a] = Up(ks[Len(ks) + 1 - a])
    BY <1>1 DEF Ups
  <1> QED  BY <1>5, <1>6 DEF Up

\* The first m keys, released in reverse: each is released or refused.
LEMMA UpsRelease ==
    ASSUME NEW ks \in Seq(KeyNames), NEW n \in 0 .. Len(ks), NEW k \in FirstKeys(ks, Len(ks))
    PROVE  \/ \E a \in 1 .. n : IsUp(Ups(ks)[a], k)
           \/ \E a \in n + 1 .. Len(ks) : IsUp(Ups(ks)[a], k)
  <1>1. PICK m \in 1 .. Len(ks) : k = ks[m]
    BY DEF FirstKeys
  <1>0. Len(ks) + 1 - m \in 1 .. Len(ks)
    OBVIOUS
  <1>2. PICK a \in 1 .. Len(ks) : a = Len(ks) + 1 - m
    BY <1>0
  <1>3. Ups(ks)[a][1] = "up" /\ Ups(ks)[a][2] = ks[Len(ks) + 1 - a]
    BY UpsShape
  <1>4. Len(ks) + 1 - a = m
    BY <1>2
  <1>5. IsUp(Ups(ks)[a], k)
    BY <1>1, <1>3, <1>4 DEF IsUp
  <1> QED  BY <1>5

\* A call in the middle of its input.
BusyPcs == CallPcs \ {"idle", "return", "activating"}

\* What is known in the middle of the input of a fast call.
LEMMA BusyFacts ==
    ASSUME InputInv, call.pc \in BusyPcs
    PROVE  /\ call.pc # "idle" /\ guard.pc = "idle" /\ call \in CallRecord /\ guard \in GuardRecord
           /\ act \in Activation /\ act.phase = "idle" /\ act.attached = {}
           /\ WorldOK /\ DeviceOK /\ TrailIs /\ WorldInv /\ cursor \in Int /\ faults \in Nat
           /\ Clean(Due(call), Lost(call)) /\ Lost(call) = call.failed
           /\ FastShape /\ FastStray /\ FastResult /\ FastDowns
           /\ call.req \in ForegroundRequest /\ call.req.keys \in Seq(KeyNames)
           /\ call.req.clicks \in Nat /\ call.req.button \in Names
           /\ trail.downs \in Nat /\ trail.astray \in Nat
           /\ call.failed \in BOOLEAN /\ call.i \in Nat /\ call.n \in Nat
  <1>1. call.pc # "idle" /\ call.pc # "activating" /\ call.pc # "return"
    BY DEF BusyPcs
  <1>2. /\ guard.pc = "idle" /\ call \in CallRecord /\ guard \in GuardRecord
        /\ act \in Activation /\ WorldOK /\ DeviceOK /\ WorldInv
    BY <1>1 DEF InputInv, OneCall, InputTypeOK
  <1>3. /\ act.phase = "idle" /\ act.attached = {} /\ Clean(Due(call), Lost(call))
        /\ FastShape /\ FastStray /\ FastResult /\ FastDowns
    BY <1>1 DEF InputInv, FastInv
  <1>4. TrailIs /\ cursor \in Int /\ faults \in Nat /\ trail.downs \in Nat /\ trail.astray \in Nat
    BY <1>2 DEF DeviceOK, TrailIs
  <1>5. /\ call.req \in ForegroundRequest /\ call.req.keys \in Seq(KeyNames)
        /\ call.req.clicks \in Nat /\ call.req.button \in Names
    BY <1>3 DEF FastShape, ForegroundRequest, Names
  <1>6. call.failed \in BOOLEAN /\ call.i \in Nat /\ call.n \in Nat
    BY <1>2 DEF CallRecord
  <1>7. Lost(call) = call.failed
    BY <1>1 DEF Lost
  <1> QED  BY <1>1, <1>2, <1>3, <1>4, <1>5, <1>6, <1>7

\* A batch of a fast call: the books, the history and the desktop around it.
LEMMA FastSubmit ==
    ASSUME InputInv, call.pc \in BusyPcs, UNCHANGED <<world, act, guard>>,
           NEW batch \in Seq(InputEvents), NEW n \in 0 .. Len(batch),
           Submit(batch, n, call.gen), NEW Y, NEW h \in BOOLEAN, call.failed => h,
           \A k \in Due(call) : \/ k \in Y
                                \/ \E a \in 1 .. n : IsUp(batch[a], k)
                                \/ h /\ \E a \in n + 1 .. Len(batch) : IsUp(batch[a], k),
           \A k : \A a \in 1 .. n : IsDown(batch[a], k) =>
                \/ k \in Y
                \/ \E b \in 1 .. n : b > a /\ IsUp(batch[b], k)
    PROVE  /\ \A k \in held' : k \in Y \/ (k \in trail'.stuck /\ (h \/ k \notin trail'.pressed))
           /\ WorldOK' /\ DeviceOK' /\ WorldInv' /\ guard' = guard /\ act' = act
           /\ trail'.downs \in Nat /\ trail'.astray \in Nat
           /\ trail'.downs =< trail.downs + Presses(SubSeq(batch, 1, n))
           /\ Presses(SubSeq(batch, 1, n)) \in Nat
           /\ trail'.touched <=> trail.touched \/ n > 0
           /\ trail'.astray = trail.astray \/ (Away /\ trail'.astray =< trail.astray + 1)
           /\ (\A a \in 1 .. n : batch[a][1] = "up") => trail'.astray = trail.astray
  <1>1. /\ WorldOK /\ DeviceOK /\ WorldInv /\ TrailIs
        /\ Clean(Due(call), call.failed) /\ call.failed \in BOOLEAN
    BY BusyFacts
  <1>2. \A k \in held' : k \in Y \/ (k \in trail'.stuck /\ (h \/ k \notin trail'.pressed))
    <2>1. PICK X : X = Due(call)
      OBVIOUS
    <2>2. PICK f \in BOOLEAN : f = call.failed
      BY <1>1
    <2>3. Clean(X, f) /\ (f => h)
      BY <1>1, <2>1, <2>2
    <2> SUFFICES ASSUME NEW k \in held', k \notin Y
                 PROVE  k \in trail'.stuck /\ (h \/ k \notin trail'.pressed)
      OBVIOUS
    <2>4. k \in X => \/ \E a \in 1 .. n : IsUp(batch[a], k)
                     \/ h /\ \E a \in n + 1 .. Len(batch) : IsUp(batch[a], k)
      <3> HAVE k \in X
      <3>1. k \in Due(call)
        BY <2>1
      <3> QED  BY <3>1
    <2>5. \A a \in 1 .. n : IsDown(batch[a], k) => \E b \in 1 .. n : b > a /\ IsUp(batch[b], k)
      OBVIOUS
    <2> HIDE <2>1, <2>2
    <2> QED  BY <2>3, <2>4, <2>5, SubmitClean
  <1>3. WorldOK' /\ DeviceOK' /\ WorldInv'
    BY <1>1, SubmitSide
  <1>4. /\ TrailIs'
        /\ trail'.touched <=> trail.touched \/ n > 0
        /\ trail'.downs =< trail.downs + Presses(SubSeq(batch, 1, n))
        /\ trail'.astray = trail.astray \/ (Away /\ trail'.astray =< trail.astray + 1)
        /\ (\A a \in 1 .. n : batch[a][1] = "up") => trail'.astray = trail.astray
    BY <1>1, SubmitTrail
  <1>5. trail'.downs \in Nat /\ trail'.astray \in Nat
    BY <1>4 DEF TrailIs
  <1>6. Presses(SubSeq(batch, 1, n)) \in Nat
    BY PressesBound
  <1> QED  BY <1>2, <1>3, <1>4, <1>5, <1>6

\* The next step of a call that has begun its input.
LEMMA FastGoes ==
    ASSUME InputInv, guard' = guard, act' = act, act.phase = "idle",
           WorldOK', DeviceOK', WorldInv', call' \in CallRecord,
           call'.pc \in BusyPcs, Clean(Due(call), Lost(call))',
           FastShape', FastStray', FastResult', FastDowns'
    PROVE  FastArrives
  <1>1. call'.pc # "idle" /\ call'.pc # "activating"
    BY DEF BusyPcs
  <1> QED  BY <1>1 DEF FastArrives, InputTypeOK, InputInv, FastInv

\* The same for what is not a drag.
LEMMA KeyedGoes ==
    ASSUME InputInv, call.pc \in BusyPcs, call.req.kind # "drag", guard' = guard, act' = act,
           WorldOK', DeviceOK', WorldInv', call' \in CallRecord, call'.req = call.req,
           call'.path = call.path,
           call'.pc \in {"click", "takeback", "emergency", "modifiersup", "modifiersretry",
                         "finish", "hold", "keysup"},
           Clean(Due(call), Lost(call))', FastShape', FastDowns'
    PROVE  FastArrives
  <1>1. act.phase = "idle" /\ FastResult /\ call \in CallRecord /\ FastShape
    BY BusyFacts
  <1>2. call'.path => call.pc = "up"
    BY <1>1 DEF FastResult, BusyPcs
  <1>3. call.pc # "up"
    BY <1>1 DEF FastShape, DragPcs
  <1>4. FastStray' /\ FastResult'
    BY <1>2, <1>3 DEF FastStray, FastResult
  <1>5. call'.pc \in BusyPcs
    BY DEF BusyPcs, CallPcs, ClickPcs, CountedPcs, ModifierPcs
  <1> QED  BY <1>1, <1>4, <1>5, FastGoes

-----------------------------------------------------------------------------
(* Clicks. *)

\* All keys of a request are due while its modifiers are down.
LEMMA ModifierDue ==
    ASSUME NEW c, c.pc \in ModifierPcs
    PROVE  Due(c) = FirstKeys(c.req.keys, Len(c.req.keys))
  BY DEF Due

\* The first n keys are due while they are released one by one.
LEMMA CountedDue ==
    ASSUME NEW c, c.pc \in CountedPcs
    PROVE  Due(c) = FirstKeys(c.req.keys, c.n)
  BY DEF Due, CountedPcs, ModifierPcs

\* The cursor and the modifiers of a click.
LEMMA ClickModifiersArrives ==
    ASSUME InputInv, ClickModifiers, guard' = guard
    PROVE  FastArrives
  <1>1. /\ call.pc = "modifiers" /\ call.pc \in BusyPcs /\ call.pc \in QuietPcs
        /\ UNCHANGED <<world, act, guard>>
    BY DEF ClickModifiers, BusyPcs, CallPcs, QuietPcs
  <1>2. /\ call \in CallRecord /\ FastShape /\ FastResult /\ call.req \in ForegroundRequest
        /\ call.req.keys \in Seq(KeyNames) /\ call.req.clicks \in Nat
    BY <1>1, BusyFacts
  <1>3. /\ call.i = 0 /\ call.failed = FALSE /\ trail.downs = 0 /\ Due(call) = {}
        /\ call.req.kind = "click" /\ call.req.clicks > 0
    BY <1>1, <1>2, QuietFacts DEF FastShape, ClickPcs, Calm
  <1>4. PICK ks \in Seq(KeyNames) : ks = call.req.keys
    BY <1>2
  <1>5. PICK ds : ds = [j \in DOMAIN ks |-> Down(ks[j])]
    OBVIOUS
  <1>6. /\ ds \in Seq(InputEvents) /\ Len(ds) = Len(ks)
        /\ \A a \in 1 .. Len(ks) : ds[a][1] = "down" /\ ds[a][2] = ks[a] /\ ks[a] \notin Buttons
    BY <1>5, DownsShape
  <1>7. PICK batch : batch = <<Move(Source)>> \o ds
    OBVIOUS
  <1>8. Move(Source) \in InputEvents /\ Move(Source)[1] = "move"
    BY EventKinds DEF Source
  <1>9. /\ batch \in Seq(InputEvents) /\ Len(batch) = Len(ks) + 1
        /\ batch[1] = Move(Source)
        /\ \A a \in 1 .. Len(ks) : batch[a + 1] = ds[a]
    BY <1>6, <1>7, <1>8
  <1>10. PICK n \in 0 .. Len(ks) :
            /\ Submit(batch, n + 1, call.gen)
            /\ call' = IF n = Len(ks) THEN [call EXCEPT !.pc = "click"]
                       ELSE [call EXCEPT !.failed = TRUE, !.n = n,
                                         !.pc = IF n = 0 THEN "finish" ELSE "takeback"]
    <2>1. ModifierDowns = ds
      BY <1>4, <1>5 DEF ModifierDowns
    <2> QED  BY <1>6, <1>7, <2>1 DEF ClickModifiers
  <1>11. PICK m \in 0 .. Len(batch) : m = n + 1
    BY <1>9
  <1>12. ASSUME NEW a \in 1 .. m
         PROVE  batch[a] = Move(Source) \/ \E b \in 1 .. n : batch[a] = ds[b]
    <2> SUFFICES ASSUME a # 1 PROVE \E b \in 1 .. n : batch[a] = ds[b]
      BY <1>9
    <2>1. PICK b \in 1 .. n : a = b + 1
      <3>1. a - 1 \in 1 .. n /\ a = (a - 1) + 1
        BY <1>11
      <3> QED  BY <3>1
    <2>2. batch[b + 1] = ds[b]
      BY <1>9
    <2> QED  BY <2>1, <2>2
  <1>13. ASSUME NEW a \in 1 .. m, batch[a][1] = "down"
         PROVE  batch[a][2] \in FirstKeys(ks, n) /\ batch[a][2] \notin Buttons
    <2>1. PICK b \in 1 .. n : batch[a] = ds[b]
      BY <1>8, <1>12, <1>13
    <2>2. b \in 1 .. Len(ks)
      OBVIOUS
    <2>3. ds[b][2] = ks[b] /\ ks[b] \notin Buttons
      BY <1>6, <2>2
    <2> QED  BY <2>1, <2>3 DEF FirstKeys
  <1>14. \A a \in 1 .. m : ~(batch[a][1] = "down" /\ batch[a][2] \in Buttons)
    BY <1>13
  <1>15. PICK Y : Y = FirstKeys(ks, n)
    OBVIOUS
  <1>16. PICK h \in BOOLEAN : h <=> n < Len(ks)
    OBVIOUS
  <1>17. /\ \A k \in held' : k \in Y \/ (k \in trail'.stuck /\ (h \/ k \notin trail'.pressed))
         /\ WorldOK' /\ DeviceOK' /\ WorldInv' /\ guard' = guard /\ act' = act
         /\ trail'.downs \in Nat
         /\ trail'.downs =< trail.downs + Presses(SubSeq(batch, 1, m))
    <2>1. \A k : \A a \in 1 .. m : IsDown(batch[a], k) =>
                \/ k \in Y
                \/ \E b \in 1 .. m : b > a /\ IsUp(batch[b], k)
      BY <1>13, <1>15 DEF IsDown
    <2>2. Submit(batch, m, call.gen)
      BY <1>10, <1>11
    <2>3. \A k \in Due(call) : \/ k \in Y
                               \/ \E a \in 1 .. m : IsUp(batch[a], k)
                               \/ h /\ \E a \in m + 1 .. Len(batch) : IsUp(batch[a], k)
      BY <1>3
    <2> QED  BY <1>1, <1>3, <1>9, <2>1, <2>2, <2>3, FastSubmit
  <1>18. trail'.downs = 0
    <2>1. Presses(SubSeq(batch, 1, m)) = 0
      BY <1>9, <1>14, PressesBound
    <2> QED  BY <1>3, <1>17, <2>1
  <1>19. CASE n = Len(ks)
    <2>1. call' = [call EXCEPT !.pc = "click"] /\ "click" \in CallPcs
      BY <1>10, <1>19 DEF CallPcs, ClickPcs
    <2>2. call' \in CallRecord /\ call'.pc = "click" /\ SameCall
      BY <1>2, <2>1, CallMoves
    <2>3. Due(call)' = Y /\ Lost(call)' = FALSE /\ h = FALSE
      BY <1>3, <1>4, <1>15, <1>16, <1>19, <2>2 DEF Due, ModifierPcs, Lost, SameCall
    <2>4. Clean(Due(call), Lost(call))'
      BY <1>17, <2>3 DEF Clean
    <2>5. FastShape'
      BY <1>2, <1>3, <2>2 DEF FastShape, SameCall, QuietPcs, DragPcs, CountedPcs, ClickPcs
    <2>6. FastDowns'
      BY <1>2, <1>3, <1>18, <2>2 DEF FastDowns, SameCall
    <2> QED  BY <1>1, <1>3, <1>17, <2>2, <2>4, <2>5, <2>6, KeyedGoes DEF SameCall
  <1>20. CASE n < Len(ks)
    <2>0. PICK p \in CallPcs : p = IF n = 0 THEN "finish" ELSE "takeback"
      BY DEF CallPcs, ClickPcs
    <2>1. n \in Nat
      OBVIOUS
    <2>2. call' = [call EXCEPT !.failed = TRUE, !.n = n, !.pc = p]
      BY <1>10, <1>20, <2>0
    <2>3. call' \in CallRecord
      BY <1>2, <2>1, <2>2 DEF CallRecord
    <2>4. /\ call'.pc = p /\ call'.failed = TRUE /\ call'.n = n /\ call'.req = call.req
          /\ call'.path = call.path
      BY <1>2, <2>1, <2>2 DEF CallRecord
    <2>5. Due(call)' = Y /\ Lost(call)' = TRUE /\ h = TRUE
      <3>1. n = 0 => Y = {}
        BY <1>15 DEF FirstKeys
      <3>2. Lost(call)' = TRUE /\ h = TRUE
        BY <1>16, <1>20, <2>0, <2>1, <2>4 DEF Lost
      <3>3. Due(call)' = Y
        BY <1>4, <1>15, <2>0, <2>1, <2>4, <3>1 DEF Due, ModifierPcs, CountedPcs, DragPcs
      <3> QED  BY <3>2, <3>3
    <2>6. Clean(Due(call), Lost(call))'
      BY <1>17, <2>5 DEF Clean
    <2>7. FastShape'
      BY <1>2, <1>3, <1>4, <1>20, <2>0, <2>1, <2>4
      DEF FastShape, QuietPcs, DragPcs, CountedPcs, ClickPcs
    <2>8. FastDowns'
      BY <1>2, <1>18, <2>0, <2>1, <2>4 DEF FastDowns
    <2> QED  BY <1>1, <1>3, <1>17, <2>0, <2>1, <2>3, <2>4, <2>6, <2>7, <2>8, KeyedGoes
  <1> QED  BY <1>19, <1>20

\* A batch of releases: all of it, or the call fails, or the keys stay due.
LEMMA FastReleases ==
    ASSUME InputInv, call.pc \in BusyPcs, UNCHANGED <<world, act, guard>>,
           NEW ks \in Seq(KeyNames), NEW n \in 0 .. Len(ks), Submit(Ups(ks), n, call.gen),
           Due(call) = FirstKeys(ks, Len(ks)), NEW Y, NEW h \in BOOLEAN, call.failed => h,
           Due(call) \subseteq Y \/ h \/ n = Len(ks)
    PROVE  /\ \A k \in held' : k \in Y \/ (k \in trail'.stuck /\ (h \/ k \notin trail'.pressed))
           /\ WorldOK' /\ DeviceOK' /\ WorldInv' /\ guard' = guard /\ act' = act
           /\ trail'.downs \in Nat /\ trail'.downs =< trail.downs
  <1>1. PICK batch : batch = Ups(ks)
    OBVIOUS
  <1>2. /\ batch \in Seq(InputEvents) /\ Len(batch) = Len(ks)
        /\ \A a \in 1 .. Len(ks) : batch[a][1] = "up"
    BY <1>1, UpsShape
  <1>3. n \in 0 .. Len(batch) /\ Submit(batch, n, call.gen)
    BY <1>1, <1>2
  <1>4. ASSUME NEW k \in Due(call)
        PROVE  \/ k \in Y
               \/ \E a \in 1 .. n : IsUp(batch[a], k)
               \/ h /\ \E a \in n + 1 .. Len(batch) : IsUp(batch[a], k)
    <2>1. \/ \E a \in 1 .. n : IsUp(batch[a], k)
          \/ \E a \in n + 1 .. Len(ks) : IsUp(batch[a], k)
      BY <1>1, UpsRelease
    <2>2. CASE n = Len(ks)
      BY <2>1, <2>2
    <2>3. CASE n # Len(ks)
      BY <1>2, <2>1, <2>3
    <2> QED  BY <2>2, <2>3
  <1>5. \A k : \A a \in 1 .. n : IsDown(batch[a], k) =>
                \/ k \in Y
                \/ \E b \in 1 .. n : b > a /\ IsUp(batch[b], k)
    BY <1>2 DEF IsDown
  <1>6. Presses(SubSeq(batch, 1, n)) = 0
    <2>1. \A a \in 1 .. n : ~(batch[a][1] = "down" /\ batch[a][2] \in Buttons)
      BY <1>2
    <2> QED  BY <1>2, <1>3, <2>1, PressesBound
  <1>7. trail.downs \in Nat
    BY BusyFacts
  <1>8. /\ \A k \in held' : k \in Y \/ (k \in trail'.stuck /\ (h \/ k \notin trail'.pressed))
        /\ WorldOK' /\ DeviceOK' /\ WorldInv' /\ guard' = guard /\ act' = act
        /\ trail'.downs \in Nat /\ trail'.downs =< trail.downs + Presses(SubSeq(batch, 1, n))
    BY <1>2, <1>3, <1>4, <1>5, FastSubmit
  <1> QED  BY <1>6, <1>7, <1>8

\* One release.
LEMMA FastUp ==
    ASSUME InputInv, call.pc \in BusyPcs, UNCHANGED <<world, act, guard>>,
           NEW b \in Names, NEW n \in 0 .. 1, Submit(<<Up(b)>>, n, call.gen),
           NEW Y, NEW h \in BOOLEAN, call.failed => h,
           Due(call) \subseteq Y \cup {b}, n = 0 => h
    PROVE  /\ \A k \in held' : k \in Y \/ (k \in trail'.stuck /\ (h \/ k \notin trail'.pressed))
           /\ WorldOK' /\ DeviceOK' /\ WorldInv' /\ guard' = guard /\ act' = act
           /\ trail'.downs \in Nat /\ trail'.downs =< trail.downs
           /\ trail'.astray = trail.astray /\ cursor' = cursor /\ trail'.drift = trail.drift
  <1>1. Up(b) \in InputEvents /\ Up(b)[1] = "up" /\ Up(b)[2] = b
    BY EventKinds
  <1>2. PICK batch : batch = <<Up(b)>>
    OBVIOUS
  <1>3. batch \in Seq(InputEvents) /\ Len(batch) = 1 /\ batch[1] = Up(b)
    BY <1>1, <1>2, SingleEvent
  <1>4. n \in 0 .. Len(batch) /\ Submit(batch, n, call.gen)
    BY <1>2, <1>3
  <1>5. \A a \in 1 .. n : batch[a][1] = "up"
    BY <1>1, <1>3
  <1>6. IsUp(batch[1], b)
    BY <1>1, <1>3 DEF IsUp
  <1>7. ASSUME NEW k \in Due(call)
        PROVE  \/ k \in Y
               \/ \E a \in 1 .. n : IsUp(batch[a], k)
               \/ h /\ \E a \in n + 1 .. Len(batch) : IsUp(batch[a], k)
    <2>1. k \in Y \/ k = b
      OBVIOUS
    <2>2. CASE n = 0
      BY <1>3, <1>6, <2>1, <2>2
    <2>3. CASE n = 1
      BY <1>6, <2>1, <2>3
    <2> QED  BY <2>2, <2>3
  <1>8. \A k : \A a \in 1 .. n : IsDown(batch[a], k) =>
                \/ k \in Y
                \/ \E c \in 1 .. n : c > a /\ IsUp(batch[c], k)
    BY <1>5 DEF IsDown
  <1>9. Presses(SubSeq(batch, 1, n)) = 0
    BY <1>3, <1>4, <1>5, PressesBound
  <1>10. trail.downs \in Nat /\ cursor \in Int /\ faults \in Nat /\ TrailIs
    BY BusyFacts
  <1>11. /\ \A k \in held' : k \in Y \/ (k \in trail'.stuck /\ (h \/ k \notin trail'.pressed))
         /\ WorldOK' /\ DeviceOK' /\ WorldInv' /\ guard' = guard /\ act' = act
         /\ trail'.downs \in Nat /\ trail'.downs =< trail.downs + Presses(SubSeq(batch, 1, n))
         /\ (\A a \in 1 .. n : batch[a][1] = "up") => trail'.astray = trail.astray
    BY <1>3, <1>4, <1>7, <1>8, FastSubmit
  <1>12. cursor' = cursor /\ trail'.drift = trail.drift
    <2>1. \A a \in 1 .. n : ~Moves(batch[a])
      BY <1>5 DEF Moves
    <2>2. cursor' = cursor
      BY <1>3, <1>4, <1>10, <2>1, SubmitCursor
    <2>3. trail'.drift = trail.drift
      BY <1>3, <1>4, <1>10, <2>1, SubmitTrail
    <2> QED  BY <2>2, <2>3
  <1> QED  BY <1>5, <1>9, <1>10, <1>11, <1>12

\* Modifiers that went down before a refusal are taken back.
LEMMA ClickTakeBackArrives ==
    ASSUME InputInv, ClickTakeBack, guard' = guard
    PROVE  FastArrives
  <1>1. call.pc = "takeback" /\ call.pc \in BusyPcs /\ UNCHANGED <<world, act, guard>>
    BY DEF ClickTakeBack, BusyPcs, CallPcs, CountedPcs
  <1>2. /\ call \in CallRecord /\ FastShape /\ FastDowns /\ call.req.keys \in Seq(KeyNames)
        /\ call.n \in Nat /\ trail.downs \in Nat /\ call.req.clicks \in Nat
    BY <1>1, BusyFacts
  <1>3. call.failed = TRUE /\ call.req.kind = "click" /\ call.n =< Len(call.req.keys)
    BY <1>1, <1>2 DEF FastShape, ClickPcs, CountedPcs, CallRecord
  <1>4. PICK ks : ks = SubSeq(call.req.keys, 1, call.n)
    OBVIOUS
  <1>5. /\ ks \in Seq(KeyNames) /\ Len(ks) = call.n
        /\ \A m \in 1 .. call.n : ks[m] = call.req.keys[m]
    BY <1>2, <1>3, <1>4
  <1>6. PICK n \in 0 .. Len(ks) : Submit(Ups(ks), n, call.gen)
    <2>1. Len(Ups(ks)) = Len(ks)
      BY <1>5, UpsShape
    <2> QED  BY <1>4, <2>1 DEF ClickTakeBack
  <1>7. Due(call) = FirstKeys(ks, Len(ks))
    BY <1>1, <1>5, CountedDue DEF FirstKeys, CountedPcs
  <1>8. /\ \A k \in held' : k \in {} \/ (k \in trail'.stuck /\ (TRUE \/ k \notin trail'.pressed))
        /\ WorldOK' /\ DeviceOK' /\ WorldInv' /\ guard' = guard /\ act' = act
        /\ trail'.downs \in Nat /\ trail'.downs =< trail.downs
    BY <1>1, <1>5, <1>6, <1>7, FastReleases
  <1>9. call' = [call EXCEPT !.pc = "finish"] /\ "finish" \in CallPcs
    BY DEF ClickTakeBack, CallPcs, ClickPcs
  <1>10. call' \in CallRecord /\ call'.pc = "finish" /\ SameCall
    BY <1>2, <1>9, CallMoves
  <1>11. Due(call)' = {} /\ Lost(call)' = TRUE
    BY <1>3, <1>10 DEF Due, Lost, ModifierPcs, CountedPcs, DragPcs, SameCall
  <1>12. Clean(Due(call), Lost(call))'
    BY <1>8, <1>11 DEF Clean
  <1>13. FastShape'
    BY <1>2, <1>3, <1>10 DEF FastShape, SameCall, QuietPcs, DragPcs, CountedPcs, ClickPcs
  <1>14. FastDowns'
    BY <1>2, <1>8, <1>10 DEF FastDowns, SameCall
  <1> QED  BY <1>1, <1>3, <1>8, <1>10, <1>12, <1>13, <1>14, KeyedGoes DEF SameCall

\* The button of a click whose release was cut.
LEMMA ClickEmergencyUpArrives ==
    ASSUME InputInv, ClickEmergencyUp, guard' = guard
    PROVE  FastArrives
  <1>1. call.pc = "emergency" /\ call.pc \in BusyPcs /\ UNCHANGED <<world, act, guard>>
    BY DEF ClickEmergencyUp, BusyPcs, CallPcs, ClickPcs
  <1>2. /\ call \in CallRecord /\ FastShape /\ FastDowns /\ call.req.keys \in Seq(KeyNames)
        /\ trail.downs \in Nat /\ call.req.clicks \in Nat /\ call.req.button \in Names
    BY <1>1, BusyFacts
  <1>3. call.failed = TRUE /\ call.req.kind = "click"
    BY <1>1, <1>2 DEF FastShape, ClickPcs, CallRecord
  <1>4. PICK n \in 0 .. 1 : Submit(<<Up(call.req.button)>>, n, call.gen)
    BY DEF ClickEmergencyUp
  <1>5. PICK Y : Y = FirstKeys(call.req.keys, Len(call.req.keys))
    OBVIOUS
  <1>6. Due(call) \subseteq Y \cup {call.req.button}
    BY <1>1, <1>5 DEF Due, ModifierPcs
  <1>7. /\ \A k \in held' : k \in Y \/ (k \in trail'.stuck /\ (TRUE \/ k \notin trail'.pressed))
        /\ WorldOK' /\ DeviceOK' /\ WorldInv' /\ guard' = guard /\ act' = act
        /\ trail'.downs \in Nat /\ trail'.downs =< trail.downs
    BY <1>1, <1>2, <1>4, <1>6, FastUp
  <1>8. PICK p \in CallPcs : p = AfterClicks /\ p \in {"finish", "modifiersup"}
    BY DEF CallPcs, ClickPcs, AfterClicks
  <1>9. call' = [call EXCEPT !.pc = p]
    BY <1>8 DEF ClickEmergencyUp
  <1>10. call' \in CallRecord /\ call'.pc = p /\ SameCall
    BY <1>2, <1>9, CallMoves
  <1>11. Due(call)' = Y /\ Lost(call)' = TRUE
    <2>1. p = "finish" => Y = {}
      <3>1. p = "finish" => call.req.keys = <<>>
        BY <1>8 DEF AfterClicks
      <3> QED  BY <1>5, <3>1 DEF FirstKeys
    <2> QED  BY <1>3, <1>5, <1>8, <1>10, <2>1
             DEF Due, Lost, ModifierPcs, CountedPcs, DragPcs, SameCall
  <1>12. Clean(Due(call), Lost(call))'
    BY <1>7, <1>11 DEF Clean
  <1>13. FastShape'
    BY <1>2, <1>3, <1>8, <1>10 DEF FastShape, SameCall, QuietPcs, DragPcs, CountedPcs, ClickPcs
  <1>14. FastDowns'
    BY <1>2, <1>7, <1>8, <1>10 DEF FastDowns, SameCall
  <1> QED  BY <1>1, <1>3, <1>7, <1>8, <1>10, <1>12, <1>13, <1>14, KeyedGoes DEF SameCall

\* MOVE, DOWN and UP of one click.
LEMMA ClickEvents ==
    ASSUME NEW x \in Int, NEW b \in Names, NEW batch, batch = <<Move(x), Down(b), Up(b)>>
    PROVE  /\ batch \in Seq(InputEvents) /\ Len(batch) = 3
           /\ batch[1][1] = "move"
           /\ batch[2][1] = "down" /\ batch[2][2] = b
           /\ batch[3][1] = "up" /\ batch[3][2] = b
  <1>1. /\ Move(x) \in InputEvents /\ Down(b) \in InputEvents /\ Up(b) \in InputEvents
        /\ Move(x)[1] = "move" /\ Down(b)[1] = "down" /\ Down(b)[2] = b
        /\ Up(b)[1] = "up" /\ Up(b)[2] = b
    BY EventKinds
  <1>2. Len(batch) = 3 /\ batch[1] = Move(x) /\ batch[2] = Down(b) /\ batch[3] = Up(b)
    OBVIOUS
  <1>3. batch \in Seq(InputEvents)
    BY <1>1
  <1> QED  BY <1>1, <1>2, <1>3

\* Any part of a click presses at most once, and only a cut behind DOWN leaves
\* the button down.
LEMMA ClickParts ==
    ASSUME NEW b \in Names, NEW batch \in Seq(InputEvents), Len(batch) = 3,
           batch[1][1] = "move", batch[2][1] = "down", batch[2][2] = b,
           batch[3][1] = "up", batch[3][2] = b, NEW n \in 0 .. 3
    PROVE  /\ Presses(SubSeq(batch, 1, n)) \in Nat /\ Presses(SubSeq(batch, 1, n)) =< 1
           /\ \A k : \A a \in 1 .. n : IsDown(batch[a], k) =>
                \/ n = 2 /\ k = b
                \/ \E c \in 1 .. n : c > a /\ IsUp(batch[c], k)
  <1>1. /\ batch \in Seq(InputEvents) /\ Len(batch) = 3 /\ n \in 0 .. Len(batch)
        /\ batch[1][1] = "move"
        /\ batch[2][1] = "down" /\ batch[2][2] = b
        /\ batch[3][1] = "up" /\ batch[3][2] = b
    OBVIOUS
  <1>2. \A a \in 1 .. n : batch[a][1] = "down" => a = 2
    <2> SUFFICES ASSUME NEW a \in 1 .. n, batch[a][1] = "down" PROVE a = 2
      OBVIOUS
    <2>1. a \in {1, 2, 3}
      OBVIOUS
    <2> QED  BY <1>1, <2>1
  <1>3. Presses(SubSeq(batch, 1, n)) \in Nat /\ Presses(SubSeq(batch, 1, n)) =< 1
    <2>1. CASE n >= 2
      <3>1. 2 \in 1 .. n
        BY <2>1
      <3>2. PICK c \in 1 .. n : c = 2
        BY <3>1
      <3>3. \A a \in 1 .. n : batch[a][1] = "down" /\ batch[a][2] \in Buttons => a = c
        BY <1>2, <3>2
      <3> QED  BY <1>1, <3>3, PressesBound
    <2>2. CASE n < 2
      <3>1. \A a \in 1 .. n : ~(batch[a][1] = "down" /\ batch[a][2] \in Buttons)
        BY <1>2, <2>2
      <3>2. Presses(SubSeq(batch, 1, n)) = 0
        BY <1>1, <3>1, PressesBound
      <3> QED  BY <3>2
    <2> QED  BY <2>1, <2>2
  <1>4. ASSUME NEW k, NEW a \in 1 .. n, IsDown(batch[a], k)
        PROVE  (n = 2 /\ k = b) \/ \E c \in 1 .. n : c > a /\ IsUp(batch[c], k)
    <2>1. a = 2 /\ k = b
      BY <1>1, <1>2, <1>4 DEF IsDown
    <2>2. CASE n = 2
      BY <2>1, <2>2
    <2>3. CASE n # 2
      <3>1. 3 \in 1 .. n /\ 3 > a
        BY <2>1, <2>3
      <3>2. IsUp(batch[3], k)
        BY <1>1, <2>1 DEF IsUp
      <3> QED  BY <3>1, <3>2
    <2> QED  BY <2>2, <2>3
  <1> QED  BY <1>3, <1>4

\* One click.
LEMMA ClickBatchArrives ==
    ASSUME InputInv, ClickBatch, guard' = guard
    PROVE  FastArrives
  <1>1. call.pc = "click" /\ call.pc \in BusyPcs /\ UNCHANGED <<world, act, guard>>
    BY DEF ClickBatch, BusyPcs, CallPcs, ClickPcs
  <1>2. /\ call \in CallRecord /\ FastShape /\ FastDowns /\ call.req.keys \in Seq(KeyNames)
        /\ trail.downs \in Nat /\ call.req.clicks \in Nat /\ call.req.button \in Names
        /\ call.failed \in BOOLEAN /\ call.i \in Nat
    BY <1>1, BusyFacts
  <1>3. call.req.kind = "click" /\ trail.downs =< call.i /\ call.i < call.req.clicks
    BY <1>1, <1>2 DEF FastShape, FastDowns, ClickPcs
  <1>4. PICK batch : batch = <<Move(Source), Down(call.req.button), Up(call.req.button)>>
    OBVIOUS
  <1>5. PICK n \in 0 .. 3 :
        /\ Submit(batch, n, call.gen)
        /\ call' = IF n < 3 THEN [call EXCEPT !.failed = TRUE, !.pc = EmergencyPc(n)]
                   ELSE [call EXCEPT !.i = @ + 1,
                                     !.pc = IF call.i + 1 < call.req.clicks THEN "click" ELSE AfterClicks]
    BY <1>4 DEF ClickBatch
  <1>6. /\ batch \in Seq(InputEvents) /\ Len(batch) = 3 /\ n \in 0 .. Len(batch)
        /\ batch[1][1] = "move"
        /\ batch[2][1] = "down" /\ batch[2][2] = call.req.button
        /\ batch[3][1] = "up" /\ batch[3][2] = call.req.button
    BY <1>2, <1>4, ClickEvents DEF Source
  <1> HIDE <1>4
  <1>7. /\ Presses(SubSeq(batch, 1, n)) \in Nat /\ Presses(SubSeq(batch, 1, n)) =< 1
        /\ \A k : \A a \in 1 .. n : IsDown(batch[a], k) =>
                \/ n = 2 /\ k = call.req.button
                \/ \E c \in 1 .. n : c > a /\ IsUp(batch[c], k)
    BY <1>2, <1>6, ClickParts
  <1>8. PICK X : X = FirstKeys(call.req.keys, Len(call.req.keys))
    OBVIOUS
  <1>9. Due(call) = X
    BY <1>1, <1>8 DEF Due, ModifierPcs
  <1>10. PICK Y : Y = IF n = 2 THEN X \cup {call.req.button} ELSE X
    OBVIOUS
  <1>11. PICK h \in BOOLEAN : h <=> call.failed \/ n < 3
    OBVIOUS
  <1>12. /\ \A k \in held' : k \in Y \/ (k \in trail'.stuck /\ (h \/ k \notin trail'.pressed))
         /\ WorldOK' /\ DeviceOK' /\ WorldInv' /\ guard' = guard /\ act' = act
         /\ trail'.downs \in Nat
         /\ trail'.downs =< trail.downs + Presses(SubSeq(batch, 1, n))
    <2>1. \A k : \A a \in 1 .. n : IsDown(batch[a], k) =>
                \/ k \in Y
                \/ \E c \in 1 .. n : c > a /\ IsUp(batch[c], k)
      BY <1>7, <1>10
    <2>2. \A k \in Due(call) : \/ k \in Y
                               \/ \E a \in 1 .. n : IsUp(batch[a], k)
                               \/ h /\ \E a \in n + 1 .. Len(batch) : IsUp(batch[a], k)
      BY <1>9, <1>10
    <2> QED  BY <1>1, <1>5, <1>6, <1>11, <2>1, <2>2, FastSubmit
  <1>13. trail'.downs =< call.i + 1 /\ trail'.downs =< call.req.clicks
    BY <1>2, <1>3, <1>7, <1>12
  <1>14. call.req.keys = <<>> => X = {}
    BY <1>8 DEF FirstKeys
  <1>15. CASE n < 3
    <2>1. PICK p \in CallPcs : p = EmergencyPc(n) /\ p \in {"emergency", "finish", "modifiersup"}
      BY DEF CallPcs, ClickPcs, EmergencyPc, AfterClicks
    <2>2. call' = [call EXCEPT !.failed = TRUE, !.pc = p]
      BY <1>5, <1>15, <2>1
    <2>3. call' \in CallRecord
      BY <1>2, <2>2 DEF CallRecord
    <2>4. call'.pc = p /\ call'.failed = TRUE /\ call'.req = call.req /\ call'.path = call.path
      BY <1>2, <2>2 DEF CallRecord
    <2>5. Lost(call)' = TRUE /\ h = TRUE
      BY <1>11, <1>15, <2>1, <2>4 DEF Lost
    <2>6. Due(call)' = Y
      <3>1. CASE n = 2
        <4>1. p = "emergency"
          BY <2>1, <3>1 DEF EmergencyPc
        <4> QED  BY <1>8, <1>10, <2>4, <3>1, <4>1 DEF Due, ModifierPcs
      <3>2. CASE n # 2
        <4>1. p = IF call.req.keys = <<>> THEN "finish" ELSE "modifiersup"
          BY <2>1, <3>2 DEF EmergencyPc, AfterClicks
        <4> QED  BY <1>8, <1>10, <1>14, <2>4, <3>2, <4>1 DEF Due, ModifierPcs, CountedPcs, DragPcs
      <3> QED  BY <3>1, <3>2
    <2>7. Clean(Due(call), Lost(call))'
      BY <1>12, <2>5, <2>6 DEF Clean
    <2>8. FastShape'
      BY <1>2, <1>3, <2>1, <2>4 DEF FastShape, QuietPcs, DragPcs, CountedPcs, ClickPcs
    <2>9. FastDowns'
      BY <1>13, <2>1, <2>4 DEF FastDowns
    <2> QED  BY <1>1, <1>3, <1>12, <2>1, <2>3, <2>4, <2>7, <2>8, <2>9, KeyedGoes
  <1>16. CASE n = 3
    <2>1. PICK p \in CallPcs : /\ p = IF call.i + 1 < call.req.clicks THEN "click" ELSE AfterClicks
                               /\ p \in {"click", "finish", "modifiersup"}
      BY DEF CallPcs, ClickPcs, AfterClicks
    <2>2. PICK j \in Nat : j = call.i + 1
      BY <1>2
    <2>3. call' = [call EXCEPT !.i = j, !.pc = p]
      BY <1>5, <1>16, <2>1, <2>2
    <2>4. call' \in CallRecord
      BY <1>2, <2>3 DEF CallRecord
    <2>5. /\ call'.pc = p /\ call'.i = j /\ call'.failed = call.failed /\ call'.req = call.req
          /\ call'.path = call.path
      BY <1>2, <2>3 DEF CallRecord
    <2>6. Lost(call)' = h
      BY <1>2, <1>11, <1>16, <2>1, <2>5 DEF Lost
    <2>7. Due(call)' = Y
      <3>1. p = "finish" => call.req.keys = <<>>
        BY <2>1 DEF AfterClicks
      <3>2. CASE p = "finish"
        BY <1>10, <1>14, <1>16, <2>5, <3>1, <3>2 DEF Due, ModifierPcs, CountedPcs, DragPcs
      <3>3. CASE p # "finish"
        BY <1>8, <1>10, <1>16, <2>1, <2>5, <3>3 DEF Due, ModifierPcs
      <3> QED  BY <3>2, <3>3
    <2>8. Clean(Due(call), Lost(call))'
      BY <1>12, <2>6, <2>7 DEF Clean
    <2>9. FastShape'
      BY <1>2, <1>3, <2>1, <2>5 DEF FastShape, QuietPcs, DragPcs, CountedPcs, ClickPcs
    <2>10. FastDowns'
      <3>1. p = "click" => j < call.req.clicks
        BY <2>1, <2>2 DEF AfterClicks
      <3> QED  BY <1>13, <2>1, <2>2, <2>5, <3>1 DEF FastDowns
    <2> QED  BY <1>1, <1>3, <1>12, <2>1, <2>4, <2>5, <2>8, <2>9, <2>10, KeyedGoes
  <1> QED  BY <1>15, <1>16

\* The modifiers of a click go up, with one repetition.
LEMMA ClickModifiersUpArrives ==
    ASSUME InputInv, ClickModifiersUp, guard' = guard
    PROVE  FastArrives
  <1>1. /\ call.pc \in {"modifiersup", "modifiersretry"} /\ call.pc \in BusyPcs
        /\ UNCHANGED <<world, act, guard>>
    BY DEF ClickModifiersUp, BusyPcs, CallPcs, ClickPcs
  <1>2. /\ call \in CallRecord /\ FastShape /\ FastDowns /\ call.req.keys \in Seq(KeyNames)
        /\ trail.downs \in Nat /\ call.req.clicks \in Nat /\ call.failed \in BOOLEAN
    BY <1>1, BusyFacts
  <1>3. call.req.kind = "click"
    BY <1>1, <1>2 DEF FastShape, ClickPcs
  <1>4. PICK ks \in Seq(KeyNames) : ks = call.req.keys
    BY <1>2
  <1>5. PICK n \in 0 .. Len(ks) :
            /\ Submit(Ups(ks), n, call.gen)
            /\ call' = IF n = Len(ks) THEN [call EXCEPT !.pc = "finish"]
                       ELSE IF call.pc = "modifiersup" THEN [call EXCEPT !.pc = "modifiersretry"]
                       ELSE [call EXCEPT !.pc = "finish", !.failed = TRUE]
    <2>1. Len(Ups(ks)) = Len(ks)
      BY UpsShape
    <2> QED  BY <1>4, <2>1 DEF ClickModifiersUp
  <1>6. Due(call) = FirstKeys(ks, Len(ks))
    BY <1>1, <1>4 DEF Due, ModifierPcs
  <1>7. "finish" \in CallPcs /\ "modifiersretry" \in CallPcs
    BY DEF CallPcs, ClickPcs
  <1>8. CASE n = Len(ks)
    <2>1. call' \in CallRecord /\ call'.pc = "finish" /\ SameCall
      BY <1>2, <1>5, <1>7, <1>8, CallMoves
    <2>2. /\ \A k \in held' : k \in {} \/ (k \in trail'.stuck /\ (call.failed \/ k \notin trail'.pressed))
          /\ WorldOK' /\ DeviceOK' /\ WorldInv' /\ guard' = guard /\ act' = act
          /\ trail'.downs \in Nat /\ trail'.downs =< trail.downs
      <3>1. PICK h \in BOOLEAN : h = call.failed
        BY <1>2
      <3>2. PICK Y : Y = {}
        OBVIOUS
      <3>3. (Due(call) \subseteq Y \/ h \/ n = Len(ks)) /\ (call.failed => h)
        BY <1>8, <3>1
      <3>4. Submit(Ups(ks), n, call.gen) /\ call.pc \in BusyPcs /\ UNCHANGED <<world, act, guard>>
        BY <1>1, <1>5
      <3> HIDE <3>2
      <3>5. /\ \A k \in held' : k \in Y \/ (k \in trail'.stuck /\ (h \/ k \notin trail'.pressed))
            /\ WorldOK' /\ DeviceOK' /\ WorldInv' /\ guard' = guard /\ act' = act
            /\ trail'.downs \in Nat /\ trail'.downs =< trail.downs
        BY <1>6, <3>3, <3>4, FastReleases
      <3> QED  BY <3>1, <3>2, <3>5
    <2>3. Due(call)' = {} /\ Lost(call)' = call.failed
      BY <2>1 DEF Due, Lost, ModifierPcs, CountedPcs, DragPcs, SameCall
    <2>4. Clean(Due(call), Lost(call))'
      BY <2>2, <2>3 DEF Clean
    <2>5. FastShape'
      BY <1>2, <1>3, <2>1 DEF FastShape, SameCall, QuietPcs, DragPcs, CountedPcs, ClickPcs
    <2>6. FastDowns'
      BY <1>2, <2>1, <2>2 DEF FastDowns, SameCall
    <2> QED  BY <1>1, <1>3, <2>1, <2>2, <2>4, <2>5, <2>6, KeyedGoes DEF SameCall
  <1>9. CASE n # Len(ks) /\ call.pc = "modifiersup"
    <2>1. call' \in CallRecord /\ call'.pc = "modifiersretry" /\ SameCall
      BY <1>2, <1>5, <1>7, <1>9, CallMoves
    <2>2. PICK Y : Y = FirstKeys(ks, Len(ks))
      OBVIOUS
    <2>3. /\ \A k \in held' : k \in Y \/ (k \in trail'.stuck /\ (call.failed \/ k \notin trail'.pressed))
          /\ WorldOK' /\ DeviceOK' /\ WorldInv' /\ guard' = guard /\ act' = act
          /\ trail'.downs \in Nat /\ trail'.downs =< trail.downs
      BY <1>1, <1>2, <1>5, <1>6, <2>2, FastReleases
    <2>4. Due(call)' = Y /\ Lost(call)' = call.failed
      BY <1>4, <2>1, <2>2 DEF Due, Lost, ModifierPcs, SameCall
    <2>5. Clean(Due(call), Lost(call))'
      BY <2>3, <2>4 DEF Clean
    <2>6. FastShape'
      BY <1>2, <1>3, <2>1 DEF FastShape, SameCall, QuietPcs, DragPcs, CountedPcs, ClickPcs
    <2>7. FastDowns'
      BY <1>2, <2>1, <2>3 DEF FastDowns, SameCall
    <2> QED  BY <1>1, <1>3, <2>1, <2>3, <2>5, <2>6, <2>7, KeyedGoes DEF SameCall
  <1>10. CASE n # Len(ks) /\ call.pc # "modifiersup"
    <2>1. call' = [call EXCEPT !.pc = "finish", !.failed = TRUE]
      BY <1>5, <1>10
    <2>2. call' \in CallRecord
      BY <1>2, <1>7, <2>1 DEF CallRecord
    <2>3. call'.pc = "finish" /\ call'.failed = TRUE /\ call'.req = call.req /\ call'.path = call.path
      BY <1>2, <2>1 DEF CallRecord
    <2>4. /\ \A k \in held' : k \in {} \/ (k \in trail'.stuck /\ (TRUE \/ k \notin trail'.pressed))
          /\ WorldOK' /\ DeviceOK' /\ WorldInv' /\ guard' = guard /\ act' = act
          /\ trail'.downs \in Nat /\ trail'.downs =< trail.downs
      BY <1>1, <1>5, <1>6, FastReleases
    <2>5. Due(call)' = {} /\ Lost(call)' = TRUE
      BY <2>3 DEF Due, Lost, ModifierPcs, CountedPcs, DragPcs
    <2>6. Clean(Due(call), Lost(call))'
      BY <2>4, <2>5 DEF Clean
    <2>7. FastShape'
      BY <1>2, <1>3, <2>3 DEF FastShape, QuietPcs, DragPcs, CountedPcs, ClickPcs
    <2>8. FastDowns'
      BY <1>2, <2>3, <2>4 DEF FastDowns
    <2> QED  BY <1>1, <1>3, <2>2, <2>3, <2>4, <2>6, <2>7, <2>8, KeyedGoes
  <1> QED  BY <1>1, <1>8, <1>9, <1>10

\* A call that is not a drag returns behind its last step.
LEMMA KeyedReturns ==
    ASSUME InputInv, call.pc \in BusyPcs, call.req.kind # "drag",
           NEW st \in Statuses, NEW se \in Sents, se # "NotSent",
           call' = Return(call, st, se), guard' = guard, act' = act,
           WorldOK', DeviceOK', WorldInv',
           \A k \in held' : k \in trail'.stuck /\ (st # "succeeded" \/ k \notin trail'.pressed),
           trail'.downs =< call.req.clicks
    PROVE  FastArrives
  <1>1. /\ call.pc # "idle" /\ act \in Activation /\ act.phase = "idle" /\ act.attached = {}
        /\ FastResult /\ FastShape
    BY BusyFacts
  <1>2. ~call.path
    BY <1>1 DEF FastResult, FastShape, BusyPcs, DragPcs
  <1> QED  BY <1>1, <1>2, FastReturns

\* The result of a click.
LEMMA ClickFinishArrives ==
    ASSUME InputInv, ClickFinish, guard' = guard
    PROVE  FastArrives
  <1>1. /\ call.pc = "finish" /\ call.pc \in BusyPcs /\ act' = act
        /\ UNCHANGED <<world, device, faults, guard>>
    BY DEF ClickFinish, BusyPcs, CallPcs, ClickPcs, deviceVars
  <1>2. /\ FastShape /\ FastDowns /\ Clean(Due(call), call.failed) /\ call.failed \in BOOLEAN
    BY <1>1, BusyFacts
  <1>3. call.req.kind = "click" /\ Due(call) = {} /\ trail.downs =< call.req.clicks
    BY <1>1, <1>2 DEF FastShape, FastDowns, ClickPcs, Due, ModifierPcs, CountedPcs, DragPcs
  <1>4. /\ WorldOK' /\ DeviceOK' /\ WorldInv'
        /\ held' = held /\ trail' = trail
    BY <1>1, DeskSame
  <1>5. {"error", "succeeded"} \subseteq Statuses /\ {"Unknown", "Sent"} \subseteq Sents
    BY DEF Statuses, Sents
  <1>6. CASE call.failed
    <2>1. call' = Return(call, "error", "Unknown")
      BY <1>6 DEF ClickFinish, AttemptedClick, AttemptFailed
    <2>2. \A k \in held' : k \in trail'.stuck
      BY <1>2, <1>3, <1>4 DEF Clean
    <2> QED  BY <1>1, <1>3, <1>4, <1>5, <2>1, <2>2, KeyedReturns
  <1>7. CASE ~call.failed
    <2>1. call' = Return(call, "succeeded", "Sent")
      BY <1>7 DEF ClickFinish
    <2>2. \A k \in held' : k \in trail'.stuck /\ k \notin trail'.pressed
      BY <1>2, <1>3, <1>4, <1>7 DEF Clean
    <2> QED  BY <1>1, <1>3, <1>4, <1>5, <2>1, <2>2, KeyedReturns
  <1> QED  BY <1>6, <1>7

-----------------------------------------------------------------------------
(* Keys and cursor moves. *)

\* A move or slide alone, inserted or not.
LEMMA FastMove ==
    ASSUME InputInv, call.pc \in BusyPcs, UNCHANGED <<world, act, guard>>,
           NEW e \in InputEvents, Moves(e), NEW n \in 0 .. 1, Submit(<<e>>, n, call.gen)
    PROVE  /\ \A k \in held' :
                k \in Due(call) \/ (k \in trail'.stuck /\ (call.failed \/ k \notin trail'.pressed))
           /\ WorldOK' /\ DeviceOK' /\ WorldInv' /\ guard' = guard /\ act' = act
           /\ trail'.downs \in Nat /\ trail'.downs =< trail.downs
           /\ trail'.astray \in Nat
           /\ trail'.astray = trail.astray \/ (Away /\ trail'.astray =< trail.astray + 1)
           /\ n = 0 => cursor' = cursor
           /\ n = 1 => cursor' = IF e[1] = "move" THEN e[2] ELSE cursor + e[2]
           /\ n = 1 => trail'.drift = 0
  <1>1. PICK batch : batch = <<e>>
    OBVIOUS
  <1>2. batch \in Seq(InputEvents) /\ Len(batch) = 1 /\ batch[1] = e
    BY <1>1, SingleEvent
  <1>3. n \in 0 .. Len(batch) /\ Submit(batch, n, call.gen)
    BY <1>1, <1>2
  <1>4. \A a \in 1 .. n : batch[a][1] # "down"
    BY <1>2 DEF Moves
  <1>5. Presses(SubSeq(batch, 1, n)) = 0
    BY <1>2, <1>3, <1>4, PressesBound
  <1>6. /\ call.failed \in BOOLEAN /\ trail.downs \in Nat /\ cursor \in Int /\ faults \in Nat
        /\ TrailIs
    BY BusyFacts
  <1>7. PICK Y : Y = Due(call)
    OBVIOUS
  <1>8. PICK h \in BOOLEAN : h = call.failed
    BY <1>6
  <1>9. /\ \A k \in held' : k \in Y \/ (k \in trail'.stuck /\ (h \/ k \notin trail'.pressed))
        /\ WorldOK' /\ DeviceOK' /\ WorldInv' /\ guard' = guard /\ act' = act
        /\ trail'.downs \in Nat /\ trail'.downs =< trail.downs + Presses(SubSeq(batch, 1, n))
        /\ trail'.astray \in Nat
        /\ trail'.astray = trail.astray \/ (Away /\ trail'.astray =< trail.astray + 1)
    <2>1. \A k : \A a \in 1 .. n : IsDown(batch[a], k) =>
                \/ k \in Y
                \/ \E b \in 1 .. n : b > a /\ IsUp(batch[b], k)
      BY <1>4 DEF IsDown
    <2>2. \A k \in Due(call) : \/ k \in Y
                               \/ \E a \in 1 .. n : IsUp(batch[a], k)
                               \/ h /\ \E a \in n + 1 .. Len(batch) : IsUp(batch[a], k)
      BY <1>7
    <2>3. call.failed => h
      BY <1>8
    <2> QED  BY <1>2, <1>3, <2>1, <2>2, <2>3, FastSubmit
  <1>10. n = 0 => cursor' = cursor
    BY <1>2, <1>3, <1>6, SubmitCursor
  <1>11. n = 1 => cursor' = IF e[1] = "move" THEN e[2] ELSE cursor + e[2]
    BY SubmitMove
  <1>12. n = 1 => trail'.drift = 0
    <2>1. n = 1 => \E a \in 1 .. n : Moves(batch[a])
      BY <1>2
    <2> QED  BY <1>2, <1>3, <1>6, <2>1, SubmitTrail
  <1> QED  BY <1>5, <1>6, <1>7, <1>8, <1>9, <1>10, <1>11, <1>12

\* The keys of a hold go down.
LEMMA KeysDownArrives ==
    ASSUME InputInv, KeysDown, guard' = guard
    PROVE  FastArrives
  <1>1. /\ call.pc = "keys" /\ call.pc \in BusyPcs /\ call.pc \in QuietPcs
        /\ UNCHANGED <<world, act, guard>>
    BY DEF KeysDown, BusyPcs, CallPcs, QuietPcs
  <1>2. /\ call \in CallRecord /\ FastShape /\ call.req.keys \in Seq(KeyNames)
        /\ call.req.clicks \in Nat /\ act \in Activation /\ act.phase = "idle" /\ act.attached = {}
        /\ stops \in Nat
    BY <1>1, BusyFacts DEF WorldOK
  <1>3. /\ call.failed = FALSE /\ trail.downs = 0 /\ Due(call) = {} /\ call.req.kind = "keys"
    BY <1>1, <1>2, QuietFacts DEF FastShape, Calm
  <1>4. CASE call' = AttemptFailed(call) /\ UNCHANGED <<device, faults>>
    <2>1. "error" \in Statuses /\ "Unknown" \in Sents
      BY DEF Statuses, Sents
    <2> QED  BY <1>1, <1>2, <1>4, <2>1, QuietReturns DEF AttemptFailed
  <1>5. CASE ~(call' = AttemptFailed(call) /\ UNCHANGED <<device, faults>>)
    <2>1. PICK ks \in Seq(KeyNames) : ks = call.req.keys
      BY <1>2
    <2>2. PICK batch : batch = [j \in DOMAIN ks |-> Down(ks[j])]
      OBVIOUS
    <2>3. /\ batch \in Seq(InputEvents) /\ Len(batch) = Len(ks)
          /\ \A a \in 1 .. Len(ks) : batch[a][1] = "down" /\ batch[a][2] = ks[a] /\ ks[a] \notin Buttons
      BY <2>2, DownsShape
    <2>4. PICK n \in 0 .. Len(batch) :
            /\ Submit(batch, n, call.gen)
            /\ call' = IF n = Len(batch) THEN [call EXCEPT !.pc = "hold", !.gen = stops, !.n = n]
                       ELSE [call EXCEPT !.pc = "keysup", !.failed = TRUE, !.n = n]
      <3>1. ModifierDowns = batch
        BY <2>1, <2>2 DEF ModifierDowns
      <3> QED  BY <1>5, <3>1 DEF KeysDown
    <2> HIDE <2>2
    <2>5. PICK Y : Y = FirstKeys(ks, n)
      OBVIOUS
    <2>6. PICK h \in BOOLEAN : h <=> n < Len(batch)
      OBVIOUS
    <2>7. \A k : \A a \in 1 .. n : IsDown(batch[a], k) =>
                \/ k \in Y
                \/ \E b \in 1 .. n : b > a /\ IsUp(batch[b], k)
      <3> SUFFICES ASSUME NEW k, NEW a \in 1 .. n, IsDown(batch[a], k) PROVE k \in Y
        OBVIOUS
      <3>1. a \in 1 .. Len(ks)
        BY <2>3
      <3>2. k = ks[a]
        BY <2>3, <3>1 DEF IsDown
      <3> QED  BY <2>5, <3>2 DEF FirstKeys
    <2>8. \A a \in 1 .. n : ~(batch[a][1] = "down" /\ batch[a][2] \in Buttons)
      <3> SUFFICES ASSUME NEW a \in 1 .. n PROVE batch[a][2] \notin Buttons
        OBVIOUS
      <3>1. a \in 1 .. Len(ks)
        BY <2>3
      <3> QED  BY <2>3, <3>1
    <2>9. /\ \A k \in held' : k \in Y \/ (k \in trail'.stuck /\ (h \/ k \notin trail'.pressed))
          /\ WorldOK' /\ DeviceOK' /\ WorldInv' /\ guard' = guard /\ act' = act
          /\ trail'.downs \in Nat
          /\ trail'.downs =< trail.downs + Presses(SubSeq(batch, 1, n))
      BY <1>1, <1>3, <2>3, <2>4, <2>7, FastSubmit
    <2>10. trail'.downs = 0
      <3>1. Presses(SubSeq(batch, 1, n)) = 0
        <4>1. batch \in Seq(InputEvents)
          BY <2>3
        <4> QED  BY <2>8, <4>1, PressesBound
      <3> QED  BY <1>3, <2>9, <3>1
    <2>11. n \in Nat /\ n =< Len(ks) /\ "hold" \in CallPcs /\ "keysup" \in CallPcs
      BY <2>3 DEF CallPcs, CountedPcs, ModifierPcs
    <2>12. CASE n = Len(batch)
      <3>1. call' = [call EXCEPT !.pc = "hold", !.gen = stops, !.n = n]
        BY <2>4, <2>12
      <3>2. call' \in CallRecord
        BY <1>2, <2>11, <3>1 DEF CallRecord
      <3>3. /\ call'.pc = "hold" /\ call'.n = n /\ call'.failed = FALSE /\ call'.req = call.req
            /\ call'.path = call.path
        BY <1>2, <1>3, <3>1 DEF CallRecord
      <3>4. Due(call)' = Y /\ Lost(call)' = FALSE /\ h = FALSE
        BY <2>1, <2>3, <2>5, <2>6, <2>12, <3>3 DEF Due, Lost, ModifierPcs
      <3>5. Clean(Due(call), Lost(call))'
        BY <2>9, <3>4 DEF Clean
      <3>6. FastShape'
        BY <1>2, <1>3, <2>1, <2>3, <2>12, <3>3 DEF FastShape, QuietPcs, DragPcs, CountedPcs, ClickPcs
      <3>7. FastDowns'
        BY <1>2, <2>10, <3>3 DEF FastDowns
      <3> QED  BY <1>1, <1>3, <2>9, <3>2, <3>3, <3>5, <3>6, <3>7, KeyedGoes
    <2>13. CASE n # Len(batch)
      <3>1. call' = [call EXCEPT !.pc = "keysup", !.failed = TRUE, !.n = n]
        BY <2>4, <2>13
      <3>2. call' \in CallRecord
        BY <1>2, <2>11, <3>1 DEF CallRecord
      <3>3. /\ call'.pc = "keysup" /\ call'.n = n /\ call'.failed = TRUE /\ call'.req = call.req
            /\ call'.path = call.path
        BY <1>2, <1>3, <3>1 DEF CallRecord
      <3>4. Due(call)' = Y /\ Lost(call)' = TRUE /\ h = TRUE
        BY <2>1, <2>3, <2>5, <2>6, <2>13, <3>3 DEF Due, Lost, ModifierPcs, CountedPcs
      <3>5. Clean(Due(call), Lost(call))'
        BY <2>9, <3>4 DEF Clean
      <3>6. FastShape'
        BY <1>2, <1>3, <2>1, <2>11, <3>3 DEF FastShape, QuietPcs, DragPcs, CountedPcs, ClickPcs
      <3>7. FastDowns'
        BY <1>2, <2>10, <3>3 DEF FastDowns
      <3> QED  BY <1>1, <1>3, <2>9, <3>2, <3>3, <3>5, <3>6, <3>7, KeyedGoes
    <2> QED  BY <2>12, <2>13
  <1> QED  BY <1>4, <1>5

\* The end of the hold.
LEMMA KeysHoldArrives ==
    ASSUME InputInv, KeysHold, guard' = guard
    PROVE  FastArrives
  <1>1. /\ call.pc = "hold" /\ call.pc \in BusyPcs /\ act' = act
        /\ UNCHANGED <<world, device, faults, guard>>
    BY DEF KeysHold, BusyPcs, CallPcs, ModifierPcs, deviceVars
  <1>2. /\ call \in CallRecord /\ FastShape /\ FastDowns /\ Clean(Due(call), call.failed)
        /\ call.failed \in BOOLEAN
    BY <1>1, BusyFacts
  <1>3. call.req.kind = "keys" /\ call.n = Len(call.req.keys) /\ call.failed = FALSE
    BY <1>1, <1>2 DEF FastShape
  <1>4. /\ WorldOK' /\ DeviceOK' /\ WorldInv'
        /\ held' = held /\ trail' = trail
    BY <1>1, DeskSame
  <1>5. PICK b \in BOOLEAN : b <=> stops # call.gen
    OBVIOUS
  <1>6. call' = [call EXCEPT !.pc = "keysup", !.failed = b]
    BY <1>5 DEF KeysHold
  <1>7. call' \in CallRecord
    BY <1>2, <1>6 DEF CallRecord, CallPcs, CountedPcs
  <1>8. /\ call'.pc = "keysup" /\ call'.n = call.n /\ call'.req = call.req /\ call'.path = call.path
    BY <1>2, <1>6 DEF CallRecord
  <1>9. Due(call)' = Due(call)
    BY <1>1, <1>3, <1>8 DEF Due, ModifierPcs, CountedPcs
  <1>10. Clean(Due(call), Lost(call))'
    BY <1>2, <1>3, <1>4, <1>9 DEF Clean
  <1>11. FastShape'
    <2>1. call'.n =< Len(call.req.keys)
      BY <1>2, <1>3, <1>8 DEF FastShape, ForegroundRequest
    <2> QED  BY <1>2, <1>3, <1>8, <2>1 DEF FastShape, QuietPcs, DragPcs, CountedPcs, ClickPcs
  <1>12. FastDowns'
    BY <1>2, <1>4, <1>8 DEF FastDowns
  <1> QED  BY <1>1, <1>3, <1>4, <1>7, <1>8, <1>10, <1>11, <1>12, KeyedGoes

\* One key of a hold goes up, or the last one has.
LEMMA KeysUpArrives ==
    ASSUME InputInv, KeysUp, guard' = guard
    PROVE  FastArrives
  <1>1. call.pc = "keysup" /\ call.pc \in BusyPcs /\ UNCHANGED <<world, act, guard>>
    BY DEF KeysUp, BusyPcs, CallPcs, CountedPcs
  <1>2. /\ call \in CallRecord /\ FastShape /\ FastDowns /\ call.req.keys \in Seq(KeyNames)
        /\ call.n \in Nat /\ trail.downs \in Nat /\ call.req.clicks \in Nat
        /\ call.failed \in BOOLEAN /\ Clean(Due(call), call.failed)
    BY <1>1, BusyFacts
  <1>3. /\ call.req.kind = "keys" /\ call.n =< Len(call.req.keys)
        /\ trail.downs =< call.req.clicks /\ Due(call) = FirstKeys(call.req.keys, call.n)
    BY <1>1, <1>2, CountedDue DEF FastShape, CountedPcs, FastDowns
  <1>4. CASE call.n = 0
    <2>1. UNCHANGED <<world, device, faults, guard>>
      BY <1>1, <1>4 DEF KeysUp
    <2>2. /\ WorldOK' /\ DeviceOK' /\ WorldInv'
          /\ held' = held /\ trail' = trail
      BY <2>1, DeskSame
    <2>3. Due(call) = {}
      BY <1>3, <1>4 DEF FirstKeys
    <2>4. {"error", "succeeded"} \subseteq Statuses /\ {"Unknown", "Sent"} \subseteq Sents
      BY DEF Statuses, Sents
    <2>5. CASE call.failed
      <3>1. call' = Return(call, "error", "Unknown")
        BY <1>4, <2>5 DEF KeysUp, AttemptFailed
      <3>2. \A k \in held' : k \in trail'.stuck
        BY <1>2, <2>2, <2>3 DEF Clean
      <3> QED  BY <1>1, <1>3, <2>2, <2>4, <3>1, <3>2, KeyedReturns
    <2>6. CASE ~call.failed
      <3>1. call' = Return(call, "succeeded", "Sent")
        BY <1>4, <2>6 DEF KeysUp
      <3>2. \A k \in held' : k \in trail'.stuck /\ k \notin trail'.pressed
        BY <1>2, <2>2, <2>3, <2>6 DEF Clean
      <3> QED  BY <1>1, <1>3, <2>2, <2>4, <3>1, <3>2, KeyedReturns
    <2> QED  BY <2>5, <2>6
  <1>5. CASE call.n # 0
    <2>1. PICK n \in 0 .. 1 :
            /\ Submit(<<Up(call.req.keys[call.n])>>, n, call.gen)
            /\ call' = [call EXCEPT !.n = @ - 1, !.failed = @ \/ n = 0]
      BY <1>5 DEF KeysUp
    <2>2. PICK m \in Nat : call.n = m + 1
      <3>1. call.n - 1 \in Nat /\ call.n = (call.n - 1) + 1
        BY <1>2, <1>5
      <3> QED  BY <3>1
    <2>3. PICK b \in Names : b = call.req.keys[call.n]
      <3>1. call.n \in 1 .. Len(call.req.keys)
        BY <1>2, <1>3, <1>5
      <3>2. call.req.keys[call.n] \in KeyNames
        BY <1>2, <3>1
      <3> QED  BY <3>2 DEF Names
    <2>4. PICK h \in BOOLEAN : h <=> call.failed \/ n = 0
      OBVIOUS
    <2>5. PICK Y : Y = FirstKeys(call.req.keys, m)
      OBVIOUS
    <2>6. Due(call) \subseteq Y \cup {b}
      BY <1>3, <2>2, <2>3, <2>5 DEF FirstKeys
    <2>7. /\ \A k \in held' : k \in Y \/ (k \in trail'.stuck /\ (h \/ k \notin trail'.pressed))
          /\ WorldOK' /\ DeviceOK' /\ WorldInv' /\ guard' = guard /\ act' = act
          /\ trail'.downs \in Nat /\ trail'.downs =< trail.downs
      <3>1. Submit(<<Up(b)>>, n, call.gen)
        BY <2>1, <2>3
      <3> QED  BY <1>1, <2>4, <2>6, <3>1, FastUp
    <2>8. call' = [call EXCEPT !.n = m, !.failed = h]
      <3>1. call.n - 1 = m
        BY <2>2
      <3>2. (call.failed \/ n = 0) = h
        BY <2>4
      <3> QED  BY <2>1, <3>1, <3>2
    <2>9. call' \in CallRecord
      BY <1>2, <2>8 DEF CallRecord
    <2>10. /\ call'.pc = "keysup" /\ call'.n = m /\ call'.failed = h /\ call'.req = call.req
           /\ call'.path = call.path
      BY <1>1, <1>2, <2>8 DEF CallRecord
    <2>11. Due(call)' = Y /\ Lost(call)' = h
      BY <2>5, <2>10 DEF Due, Lost, ModifierPcs, CountedPcs
    <2>12. Clean(Due(call), Lost(call))'
      BY <2>7, <2>11 DEF Clean
    <2>13. FastShape'
      <3>1. m =< Len(call.req.keys)
        BY <1>2, <1>3, <2>2
      <3> QED  BY <1>2, <1>3, <2>10, <3>1 DEF FastShape, QuietPcs, DragPcs, CountedPcs, ClickPcs
    <2>14. FastDowns'
      BY <1>2, <1>3, <2>7, <2>10 DEF FastDowns
    <2> QED  BY <1>1, <1>3, <2>7, <2>9, <2>10, <2>12, <2>13, <2>14, KeyedGoes
  <1> QED  BY <1>4, <1>5

\* Input that a library makes: it is felt, and nothing of it stays down.
LEMMA LibraryInput ==
    ASSUME InputInv, call.pc \in BusyPcs, UNCHANGED <<world, act, guard, cursor>>,
           trail' = Trace(<<Letter>>, <<>>, call.gen), held' \subseteq held, faults' \in Nat
    PROVE  /\ WorldOK' /\ DeviceOK' /\ WorldInv'
           /\ trail'.downs \in Nat /\ trail'.downs =< trail.downs
           /\ trail'.stuck = trail.stuck /\ trail'.pressed = trail.pressed
  <1>1. WorldOK /\ DeviceOK /\ TrailIs /\ WorldInv /\ trail.downs \in Nat
    BY BusyFacts
  <1>2. PICK done : done = <<Letter>>
    OBVIOUS
  <1>3. /\ done \in Seq({Letter}) /\ Len(done) = 1 /\ DOMAIN done = 1 .. 1
        /\ done[1][1] = "letter"
    BY <1>2 DEF Letter
  <1>4. Pressed(done) = {} /\ Lifted(done) = {} /\ Lifted(<<>>) = {}
    BY <1>3 DEF Pressed, Lifted
  <1>5. Presses(done) = 0
    <2>1. {j \in DOMAIN done : done[j][1] = "down" /\ done[j][2] \in Buttons} = {}
      BY <1>3
    <2> QED  BY <2>1, FS_EmptySet DEF Presses
  <1>6. PICK p \in Nat : p = Presses(done)
    BY <1>5
  <1>7. /\ TrailIs'
        /\ trail'.downs =< trail.downs + p
        /\ trail'.astray = trail.astray \/ (Away /\ trail'.astray =< trail.astray + 1)
        /\ trail'.stuck = (trail.stuck \ Lifted(done)) \cup (Lifted(<<>>) \cap held)
        /\ trail'.pressed = trail.pressed \cup Pressed(done)
    <2>1. trail' = Trace(done, <<>>, call.gen)
      BY <1>2
    <2> HIDE <1>2
    <2> QED  BY <1>1, <1>3, <1>6, <2>1, TraceTrail
  <1>8. trail'.stuck = trail.stuck /\ trail'.pressed = trail.pressed
    BY <1>4, <1>7
  <1>9. trail'.downs \in Nat /\ trail'.downs =< trail.downs
    BY <1>1, <1>5, <1>6, <1>7 DEF TrailIs
  <1>10. fg' = fg /\ window' = window /\ desk' = desk /\ stops' = stops /\ popup' = popup
         /\ guard' = guard
    BY DEF world
  <1>11. Away' <=> Away
    BY <1>10 DEF Away
  <1>12. WorldOK' /\ DeviceOK' /\ WorldInv'
    BY <1>1, <1>7, <1>10, <1>11 DEF WorldOK, DeviceOK, WorldInv, Exact
  <1> QED  BY <1>8, <1>9, <1>12

\* Keys that the platform library presses and releases.
LEMMA KeySynthesizedArrives ==
    ASSUME InputInv, KeySynthesized, guard' = guard
    PROVE  FastArrives
  <1>1. /\ call.pc = "keys" /\ call.pc \in BusyPcs /\ call.pc \in QuietPcs /\ act' = act
        /\ UNCHANGED <<world, act, guard, cursor>>
    BY DEF KeySynthesized, BusyPcs, CallPcs, QuietPcs
  <1>2. /\ FastShape /\ Calm /\ (\A k \in held : k \in trail.stuck)
        /\ call.req.clicks \in Nat /\ faults \in Nat
    BY <1>1, QuietFacts, BusyFacts
  <1>3. call.req.kind = "keys" /\ trail.pressed = {} /\ trail.downs = 0
    BY <1>1, <1>2 DEF FastShape, Calm
  <1>4. PICK ok \in BOOLEAN :
            /\ ok \/ faults > 0
            /\ faults' = IF ok THEN faults ELSE faults - 1
            /\ trail' = Trace(<<Letter>>, <<>>, call.gen)
            /\ held' = IF ok THEN held \ Range(call.req.keys) ELSE held
            /\ call' = IF ok THEN Return(call, "succeeded", "Sent") ELSE AttemptFailed(call)
    BY DEF KeySynthesized
  <1>5. held' \subseteq held /\ faults' \in Nat
    BY <1>2, <1>4
  <1>6. /\ WorldOK' /\ DeviceOK' /\ WorldInv'
        /\ trail'.downs \in Nat /\ trail'.downs =< trail.downs
        /\ trail'.stuck = trail.stuck /\ trail'.pressed = trail.pressed
    BY <1>1, <1>4, <1>5, LibraryInput
  <1>7. trail'.downs =< call.req.clicks
    BY <1>2, <1>3, <1>6
  <1>8. \A k \in held' : k \in trail'.stuck /\ k \notin trail'.pressed
    BY <1>2, <1>3, <1>5, <1>6
  <1>9. {"error", "succeeded"} \subseteq Statuses /\ {"Unknown", "Sent"} \subseteq Sents
    BY DEF Statuses, Sents
  <1>10. CASE ok
    <2>1. call' = Return(call, "succeeded", "Sent")
      BY <1>4, <1>10
    <2> QED  BY <1>1, <1>3, <1>6, <1>7, <1>8, <1>9, <2>1, KeyedReturns
  <1>11. CASE ~ok
    <2>1. call' = Return(call, "error", "Unknown")
      BY <1>4, <1>11 DEF AttemptFailed
    <2> QED  BY <1>1, <1>3, <1>6, <1>7, <1>8, <1>9, <2>1, KeyedReturns
  <1> QED  BY <1>10, <1>11

\* A cursor move.
LEMMA CursorMovesArrives ==
    ASSUME InputInv, CursorMoves, guard' = guard
    PROVE  FastArrives
  <1>1. /\ call.pc = "cursor" /\ call.pc \in BusyPcs /\ call.pc \in QuietPcs
        /\ UNCHANGED <<world, act, guard>>
    BY DEF CursorMoves, BusyPcs, CallPcs, QuietPcs
  <1>2. /\ FastShape /\ Calm /\ Due(call) = {} /\ call.failed = FALSE /\ call.req.clicks \in Nat
    BY <1>1, QuietFacts, BusyFacts
  <1>3. call.req.kind = "move" /\ trail.downs = 0
    BY <1>1, <1>2 DEF FastShape, Calm
  <1>4. PICK n \in 0 .. 1 :
            /\ Submit(<<Move(Source)>>, n, call.gen)
            /\ call' = IF n = 1 THEN Return(call, "succeeded", "Sent") ELSE AttemptFailed(call)
    BY DEF CursorMoves
  <1>5. PICK e \in InputEvents : e = Move(Source) /\ Moves(e)
    BY EventKinds DEF Source, Moves
  <1>6. /\ \A k \in held' :
            k \in Due(call) \/ (k \in trail'.stuck /\ (call.failed \/ k \notin trail'.pressed))
        /\ WorldOK' /\ DeviceOK' /\ WorldInv' /\ guard' = guard /\ act' = act
        /\ trail'.downs \in Nat /\ trail'.downs =< trail.downs
    BY <1>1, <1>4, <1>5, FastMove
  <1>7. trail'.downs =< call.req.clicks
    BY <1>2, <1>3, <1>6
  <1>8. \A k \in held' : k \in trail'.stuck /\ k \notin trail'.pressed
    BY <1>2, <1>6
  <1>9. {"error", "succeeded"} \subseteq Statuses /\ {"Unknown", "Sent"} \subseteq Sents
    BY DEF Statuses, Sents
  <1>10. CASE n = 1
    <2>1. call' = Return(call, "succeeded", "Sent")
      BY <1>4, <1>10
    <2> QED  BY <1>1, <1>3, <1>6, <1>7, <1>8, <1>9, <2>1, KeyedReturns
  <1>11. CASE n # 1
    <2>1. call' = Return(call, "error", "Unknown")
      BY <1>4, <1>11 DEF AttemptFailed
    <2> QED  BY <1>1, <1>3, <1>6, <1>7, <1>8, <1>9, <2>1, KeyedReturns
  <1> QED  BY <1>10, <1>11

-----------------------------------------------------------------------------
(* The calibration of relative drags. *)

\* A number is its sign times its size.
LEMMA SignsAndSizes ==
    ASSUME NEW x \in Int
    PROVE  Abs(x) \in Nat /\ Sgn(x) \in {-1, 0, 1} /\ Sgn(x) * Abs(x) = x /\ (x # 0 => Abs(x) > 0)
  <1>1. CASE x < 0
    BY <1>1 DEF Abs, Sgn
  <1>2. CASE x = 0
    BY <1>2 DEF Abs, Sgn
  <1>3. CASE x > 0
    BY <1>3 DEF Abs, Sgn
  <1> QED  BY <1>1, <1>2, <1>3

\* A quotient is determined by its bounds.
LEMMA Quotient ==
    ASSUME NEW x \in Int, NEW y \in Int, y > 0, NEW q \in Int, y * q =< x, x < y * q + y
    PROVE  x \div y = q
  OBVIOUS

\* A quotient is a number.
LEMMA QuotientIsInt ==
    ASSUME NEW x \in Int, NEW y \in Int, y > 0
    PROVE  x \div y \in Int
  OBVIOUS

\* Every waypoint is a position.
LEMMA WaypointIsInt ==
    ASSUME NEW s \in Int, NEW d \in Int, NEW j \in Nat, NEW m \in Nat, m > 0
    PROVE  Waypoint(s, d, j, m) \in Int
  <1>1. PICK way \in Int : way = (d - s) * j
    OBVIOUS
  <1>2. Abs(way) \in Nat /\ Sgn(way) \in {-1, 0, 1}
    BY SignsAndSizes
  <1>3. PICK q \in Int : q = (2 * Abs(way) + m) \div (2 * m)
    <2>1. 2 * Abs(way) + m \in Int /\ 2 * m \in Int /\ 2 * m > 0
      BY <1>2
    <2> QED  BY <2>1, QuotientIsInt
  <1>4. Waypoint(s, d, j, m) = s + Sgn(way) * q
    BY <1>1, <1>3 DEF Waypoint
  <1> QED  BY <1>2, <1>4

\* The last waypoint is the destination.
LEMMA LastWaypoint ==
    ASSUME NEW s \in Int, NEW d \in Int, NEW m \in Nat, m > 0
    PROVE  Waypoint(s, d, m, m) = d
  <1>1. PICK b \in Int : b = d - s
    OBVIOUS
  <1>2. PICK way \in Int : way = b * m
    OBVIOUS
  <1>3. PICK a \in Nat : a = Abs(b)
    BY SignsAndSizes
  <1>4. Abs(way) = a * m /\ Sgn(way) = Sgn(b)
    <2>1. CASE b < 0
      <3>1. b * m < 0
        BY <2>1
      <3>2. Abs(way) = -(b * m) /\ a = -b
        BY <1>2, <1>3, <2>1, <3>1 DEF Abs
      <3>3. -(b * m) = (-b) * m
        OBVIOUS
      <3> QED  BY <1>2, <2>1, <3>1, <3>2, <3>3 DEF Sgn
    <2>2. CASE b = 0
      <3>1. way = 0
        BY <1>2, <2>2
      <3>2. a = 0 /\ Abs(way) = 0
        BY <1>3, <2>2, <3>1 DEF Abs
      <3> QED  BY <2>2, <3>1, <3>2 DEF Sgn
    <2>3. CASE b > 0
      <3>1. b * m > 0
        BY <2>3
      <3> QED  BY <1>2, <1>3, <2>3, <3>1 DEF Abs, Sgn
    <2> QED  BY <2>1, <2>2, <2>3
  <1>5. (2 * Abs(way) + m) \div (2 * m) = a
    <2>1. PICK x \in Int : x = 2 * Abs(way) + m
      BY <1>2, SignsAndSizes
    <2>2. PICK y \in Int : y = 2 * m
      OBVIOUS
    <2>3. PICK am \in Nat : am = a * m
      OBVIOUS
    <2>4. y * a = 2 * am
      BY <2>2, <2>3
    <2>5. x = 2 * am + m /\ y > 0
      BY <1>4, <2>1, <2>2, <2>3
    <2>6. y * a =< x /\ x < y * a + y
      BY <2>2, <2>4, <2>5
    <2>7. x \div y = a
      BY <2>5, <2>6, Quotient
    <2> QED  BY <2>1, <2>2, <2>7
  <1>6. Waypoint(s, d, m, m) = s + Sgn(b) * a
    BY <1>1, <1>2, <1>4, <1>5 DEF Waypoint
  <1>7. Sgn(b) * a = b
    BY <1>3, SignsAndSizes
  <1> QED  BY <1>1, <1>6, <1>7

\* A relative command is a distance.
LEMMA CommandIsInt ==
    ASSUME NEW r \in Int, NEW last \in Attempt, NEW t \in Int
    PROVE  RelativeCommand(r, last, t) \in Int
  <1>1. last.residual \in Int /\ last.command \in Int /\ last.motion \in Int
    BY DEF Attempt
  <1>2. /\ Abs(r) \in Nat /\ Sgn(r) \in {-1, 0, 1} /\ Abs(last.command) \in Nat
        /\ Abs(last.motion) \in Nat /\ (last.motion # 0 => Abs(last.motion) > 0)
    BY <1>1, SignsAndSizes
  <1>3. \A u \in Int, v \in Int : Larger(u, v) \in Int /\ Smaller(u, v) \in Int
    BY DEF Larger, Smaller
  <1>4. MinimumEffective(r) \in Int
    BY DEF MinimumEffective, DampingMinEffectiveCommand
  <1>5. \A f \in BOOLEAN : RelativeCommandForResidual(r, f) \in Int
    <2>1. Abs(r) \div 2 \in Int
      BY <1>2, QuotientIsInt
    <2>2. PICK w \in Int : w = Larger(Abs(r) \div 2, MinimumEffective(r))
      BY <1>3, <1>4, <2>1
    <2>3. Sgn(r) * w \in Int
      BY <1>2
    <2> QED  BY <2>2, <2>3 DEF RelativeCommandForResidual
  <1>6. PICK f \in BOOLEAN : f <=> ResidualCrossedTarget(last, r)
    OBVIOUS
  <1>7. ResidualCrossedTarget(last, r) = f
    BY <1>6 DEF ResidualCrossedTarget
  <1>8. PICK legacy \in Int : legacy = Abs(RelativeCommandForResidual(r, f))
    BY <1>5, SignsAndSizes
  <1>9. PICK g \in BOOLEAN :
            g <=> /\ f /\ last.command # 0 /\ last.motion # 0
                  /\ Sgn(last.command) = Sgn(last.motion)
                  /\ legacy > Abs(last.command)
    OBVIOUS
  <1>10. PICK adaptive : adaptive = Smaller(Abs(last.command),
                        Larger((Abs(r) * Abs(last.command)) \div Abs(last.motion),
                               Smaller(MinimumEffective(r), Abs(last.command))))
    OBVIOUS
  <1>11. g => adaptive \in Int
    <2> SUFFICES ASSUME g PROVE adaptive \in Int
      OBVIOUS
    <2>1. Abs(r) * Abs(last.command) \in Int
      BY <1>2
    <2>2. Abs(last.motion) \in Int /\ Abs(last.motion) > 0
      BY <1>2, <1>9
    <2>3. (Abs(r) * Abs(last.command)) \div Abs(last.motion) \in Int
      BY <2>1, <2>2, QuotientIsInt
    <2>4. Smaller(MinimumEffective(r), Abs(last.command)) \in Int
      BY <1>2, <1>3, <1>4
    <2>5. Larger((Abs(r) * Abs(last.command)) \div Abs(last.motion),
                 Smaller(MinimumEffective(r), Abs(last.command))) \in Int
      BY <1>3, <2>3, <2>4
    <2> QED  BY <1>2, <1>3, <1>10, <2>5
  <1>12. PICK size \in Int : size = IF g THEN adaptive ELSE legacy
    BY <1>11
  <1>13. BoundedRelativeCommand(r, last, t) = Sgn(r) * Smaller(size, t)
    BY <1>7, <1>8, <1>9, <1>10, <1>12 DEF BoundedRelativeCommand
  <1>14. PICK bounded \in Int : bounded = BoundedRelativeCommand(r, last, t)
    <2>1. PICK w \in Int : w = Smaller(size, t)
      BY <1>3
    <2>2. Sgn(r) * w \in Int
      BY <1>2
    <2> QED  BY <1>13, <2>1, <2>2
  <1>15. PICK esc \in Int :
            esc = Smaller(Larger(Abs(bounded), Abs(last.command) + 1), EscapeMaxCommand)
    <2>1. Abs(bounded) \in Int /\ Abs(last.command) + 1 \in Int
      BY <1>2, SignsAndSizes
    <2>2. Larger(Abs(bounded), Abs(last.command) + 1) \in Int
      BY <1>3, <2>1
    <2> QED  BY <1>3, <2>2 DEF EscapeMaxCommand
  <1>16. Sgn(r) * esc \in Int
    BY <1>2
  <1> QED  BY <1>14, <1>15, <1>16 DEF RelativeCommand, StagnationEscapeCommand

-----------------------------------------------------------------------------
(* Drags. *)

\* The next step of a drag.
LEMMA DragGoes ==
    ASSUME InputInv, call.pc \in BusyPcs, call.req.kind = "drag", guard' = guard, act' = act,
           WorldOK', DeviceOK', WorldInv', call' \in CallRecord, call'.req = call.req,
           call'.failed = FALSE, call'.pc \in DragPcs \cup {"down"},
           NEW Y, Y = IF call'.pc = "down" THEN {} ELSE {call.req.button},
           \A k \in held' : k \in Y \/ (k \in trail'.stuck /\ k \notin trail'.pressed),
           call'.pc = "down" => Backend # "combined" /\ trail'.astray =< 1 /\ trail'.downs = 0,
           call'.pc = "slide" => Backend = "relative" /\ trail'.astray = 0,
           call'.pc = "step" => Backend # "relative",
           call'.pc = "step" /\ Backend \in Fenced => trail'.astray = 0,
           Backend = "combined" => trail'.astray =< 1,
           Backend = "relative" => trail'.astray =< 2,
           call'.path => call'.pc = "up" /\ Dropped',
           call'.pc \in {"fence", "slide"} /\ Backend = "relative" => Brought' = call'.seen,
           trail'.downs =< call.req.clicks
    PROVE  FastArrives
  <1>1. act.phase = "idle" /\ FastShape
    BY BusyFacts
  <1>2. Backend' = Backend
    BY SameBackend
  <1>3. Due(call)' = Y /\ Lost(call)' = FALSE
    BY DEF Due, Lost, ModifierPcs, CountedPcs, DragPcs
  <1>4. Clean(Due(call), Lost(call))'
    BY <1>3 DEF Clean
  <1>5. FastShape'
    BY <1>1, <1>2 DEF FastShape, QuietPcs, DragPcs, CountedPcs, ClickPcs
  <1>6. FastStray'
    BY <1>2 DEF FastStray, DragPcs
  <1>7. FastResult'
    BY <1>2 DEF FastResult, DragPcs
  <1>8. FastDowns'
    BY DEF FastDowns, DragPcs
  <1>9. call'.pc \in BusyPcs
    BY DEF BusyPcs, CallPcs, DragPcs
  <1> QED  BY <1>1, <1>4, <1>5, <1>6, <1>7, <1>8, <1>9, FastGoes

\* A drag that ends before its button has gone down.
LEMMA DragFails ==
    ASSUME InputInv, call.pc \in BusyPcs, call.pc # "up", guard' = guard, act' = act,
           WorldOK', DeviceOK', WorldInv', NEW st \in Statuses, st # "succeeded", NEW se \in Sents,
           call' = Return(call, st, se),
           \A k \in held' : k \in trail'.stuck,
           trail'.astray =< 1, se = "NotSent" => ~trail'.touched,
           trail'.downs =< call.req.clicks
    PROVE  FastArrives
  <1>1. /\ call.pc # "idle" /\ act \in Activation /\ act.phase = "idle" /\ act.attached = {}
        /\ FastResult
    BY BusyFacts
  <1>2. ~call.path
    BY <1>1 DEF FastResult, BusyPcs
  <1>3. trail'.astray =< 2
    BY DEF DeviceOK, TrailIs
  <1> QED  BY <1>1, <1>2, <1>3, FastReturns

\* The drag inside the library for synthetic touch.
LEMMA SyntheticTouchArrives ==
    ASSUME InputInv, SyntheticTouch, guard' = guard
    PROVE  FastArrives
  <1>1. /\ call.pc = "touch" /\ call.pc \in BusyPcs /\ call.pc \in QuietPcs
        /\ UNCHANGED <<world, act, guard, cursor>> /\ held' = held
    BY DEF SyntheticTouch, BusyPcs, CallPcs, QuietPcs
  <1>2. /\ FastShape /\ Calm /\ (\A k \in held : k \in trail.stuck) /\ call.path = FALSE
        /\ call.req.clicks \in Nat /\ faults \in Nat
        /\ call.pc # "idle" /\ act \in Activation /\ act.phase = "idle" /\ act.attached = {}
    BY <1>1, QuietFacts, BusyFacts
  <1>3. Backend = "touch" /\ trail.pressed = {} /\ trail.downs = 0
    BY <1>1, <1>2 DEF FastShape, Calm
  <1>4. PICK ok \in BOOLEAN :
            /\ ok \/ faults > 0
            /\ faults' = IF ok THEN faults ELSE faults - 1
            /\ trail' = Trace(<<Letter>>, <<>>, call.gen)
            /\ call' = Return(call, IF ok THEN "succeeded" ELSE "rejected", "Unknown")
    BY DEF SyntheticTouch
  <1>5. held' \subseteq held /\ faults' \in Nat
    BY <1>1, <1>2, <1>4
  <1>6. /\ WorldOK' /\ DeviceOK' /\ WorldInv'
        /\ trail'.downs \in Nat /\ trail'.downs =< trail.downs
        /\ trail'.stuck = trail.stuck /\ trail'.pressed = trail.pressed
    BY <1>1, <1>4, <1>5, LibraryInput
  <1>7. trail'.downs =< call.req.clicks
    BY <1>2, <1>3, <1>6
  <1>8. \A k \in held' : k \in trail'.stuck /\ k \notin trail'.pressed
    BY <1>2, <1>3, <1>5, <1>6
  <1>9. PICK st \in Statuses : st = IF ok THEN "succeeded" ELSE "rejected"
    BY DEF Statuses
  <1>10. "Unknown" \in Sents /\ call' = Return(call, st, "Unknown")
    BY <1>4, <1>9 DEF Sents
  <1> QED  BY <1>1, <1>2, <1>3, <1>6, <1>7, <1>8, <1>10, FastReturns

\* A consumable move, accepted or not.
LEMMA ConsumableEffect ==
    ASSUME InputInv, call.pc \in BusyPcs, UNCHANGED <<world, act, guard>>,
           NEW x \in Int, NEW ok \in BOOLEAN, Consumable(x, ok, call.gen)
    PROVE  /\ \A k \in held' :
                k \in Due(call) \/ (k \in trail'.stuck /\ (call.failed \/ k \notin trail'.pressed))
           /\ WorldOK' /\ DeviceOK' /\ WorldInv' /\ guard' = guard /\ act' = act
           /\ trail'.downs \in Nat /\ trail'.downs =< trail.downs
           /\ trail'.astray \in Nat
           /\ trail'.astray = trail.astray \/ (Away /\ trail'.astray =< trail.astray + 1)
           /\ ok => cursor' = x /\ trail'.drift = 0
  <1>1. PICK e \in InputEvents : e = Move(x) /\ Moves(e) /\ e[1] = "move" /\ e[2] = x
    BY EventKinds DEF Moves
  <1>2. CASE \E n \in 0 .. 1 : Submit(<<Move(x)>>, n, call.gen) /\ (ok => n = 1)
    <2>1. PICK n \in 0 .. 1 : Submit(<<e>>, n, call.gen) /\ (ok => n = 1)
      BY <1>1, <1>2
    <2>2. ok => cursor' = x /\ trail'.drift = 0
      BY <1>1, <2>1, FastMove
    <2> QED  BY <1>1, <2>1, <2>2, FastMove
  <1>3. CASE /\ ~ok /\ faults > 0
             /\ faults' = faults - 1
             /\ cursor' = x
             /\ trail' = Trace(<<Move(x)>>, <<>>, call.gen)
             /\ UNCHANGED held
    <2>1. /\ WorldOK /\ TrailIs /\ WorldInv /\ trail.downs \in Nat
          /\ faults \in Nat /\ Clean(Due(call), call.failed)
      BY BusyFacts
    <2>2. PICK done : done = <<e>>
      OBVIOUS
    <2>3. done \in Seq(InputEvents) /\ Len(done) = 1 /\ DOMAIN done = 1 .. 1 /\ done[1][1] = "move"
      BY <1>1, <2>2
    <2>4. Pressed(done) = {} /\ Lifted(done) = {} /\ Lifted(<<>>) = {}
      BY <2>3 DEF Pressed, Lifted
    <2>5. Presses(done) = 0
      <3>1. {j \in DOMAIN done : done[j][1] = "down" /\ done[j][2] \in Buttons} = {}
        BY <2>3
      <3> QED  BY <3>1, FS_EmptySet DEF Presses
    <2>6. PICK p \in Nat : p = Presses(done)
      BY <2>5
    <2>7. /\ TrailIs'
          /\ trail'.downs =< trail.downs + p
          /\ trail'.astray = trail.astray \/ (Away /\ trail'.astray =< trail.astray + 1)
          /\ trail'.stuck = (trail.stuck \ Lifted(done)) \cup (Lifted(<<>>) \cap held)
          /\ trail'.pressed = trail.pressed \cup Pressed(done)
      <3>1. trail' = Trace(done, <<>>, call.gen)
        BY <1>1, <1>3, <2>2
      <3> HIDE <2>2
      <3> QED  BY <2>1, <2>3, <2>6, <3>1, TraceTrail
    <2>8. trail'.stuck = trail.stuck /\ trail'.pressed = trail.pressed /\ held' = held
      BY <1>3, <2>4, <2>7
    <2>9. /\ trail'.downs \in Nat /\ trail'.downs =< trail.downs
          /\ trail'.astray \in Nat
      BY <2>1, <2>5, <2>6, <2>7 DEF TrailIs
    <2>10. fg' = fg /\ window' = window /\ desk' = desk /\ stops' = stops /\ popup' = popup
           /\ guard' = guard /\ act' = act
      BY DEF world
    <2>11. Away' <=> Away
      BY <2>10 DEF Away
    <2>12. faults' \in Nat /\ cursor' \in Int
      BY <1>3, <2>1
    <2>13. WorldOK' /\ DeviceOK' /\ WorldInv'
      BY <2>1, <2>7, <2>10, <2>11, <2>12 DEF WorldOK, DeviceOK, WorldInv, Exact
    <2>14. \A k \in held' :
                k \in Due(call) \/ (k \in trail'.stuck /\ (call.failed \/ k \notin trail'.pressed))
      BY <2>1, <2>8 DEF Clean
    <2> QED  BY <1>3, <2>7, <2>9, <2>10, <2>13, <2>14
  <1> QED  BY <1>2, <1>3 DEF Consumable

\* The way to the source of a drag.
LEMMA DragSourceArrives ==
    ASSUME InputInv, DragSource, guard' = guard
    PROVE  FastArrives
  <1>1. /\ call.pc = "source" /\ call.pc \in BusyPcs /\ call.pc \in QuietPcs /\ call.pc # "up"
        /\ UNCHANGED <<world, act, guard>>
    BY DEF DragSource, BusyPcs, CallPcs, QuietPcs
  <1>2. /\ FastShape /\ Calm /\ Due(call) = {} /\ call.failed = FALSE /\ call.path = FALSE
        /\ call.req.clicks \in Nat /\ call \in CallRecord
    BY <1>1, QuietFacts, BusyFacts
  <1>3. call.req.kind = "drag" /\ Backend # "combined" /\ trail.downs = 0 /\ trail.astray = 0
    BY <1>1, <1>2 DEF FastShape, Calm
  <1>4. PICK ok \in BOOLEAN :
            /\ Consumable(Source, ok, call.gen)
            /\ call' = IF ok THEN [call EXCEPT !.pc = "down"] ELSE AttemptFailed(call)
    BY DEF DragSource
  <1>5. Source \in Int
    BY DEF Source
  <1>6. /\ \A k \in held' :
            k \in Due(call) \/ (k \in trail'.stuck /\ (call.failed \/ k \notin trail'.pressed))
        /\ WorldOK' /\ DeviceOK' /\ WorldInv' /\ guard' = guard /\ act' = act
        /\ trail'.downs \in Nat /\ trail'.downs =< trail.downs
        /\ trail'.astray \in Nat
        /\ trail'.astray = trail.astray \/ (Away /\ trail'.astray =< trail.astray + 1)
    BY <1>1, <1>4, <1>5, ConsumableEffect
  <1>7. /\ trail'.downs = 0 /\ trail'.downs =< call.req.clicks
        /\ trail'.astray =< 1 /\ trail'.astray =< 2
    BY <1>2, <1>3, <1>6
  <1>8. \A k \in held' : k \in {} \/ (k \in trail'.stuck /\ k \notin trail'.pressed)
    BY <1>2, <1>6
  <1>9. CASE ok
    <2>1. call' = [call EXCEPT !.pc = "down"] /\ "down" \in CallPcs
      BY <1>4, <1>9 DEF CallPcs
    <2>2. call' \in CallRecord /\ call'.pc = "down" /\ SameCall
      BY <1>2, <2>1, CallMoves
    <2>3. call'.req = call.req /\ call'.failed = FALSE /\ ~call'.path
      BY <1>2, <2>2 DEF SameCall
    <2> QED  BY <1>1, <1>3, <1>6, <1>7, <1>8, <2>2, <2>3, DragGoes
  <1>10. CASE ~ok
    <2>1. call' = Return(call, "error", "Unknown") /\ "error" \in Statuses /\ "Unknown" \in Sents
      BY <1>4, <1>10 DEF AttemptFailed, Statuses, Sents
    <2> QED  BY <1>1, <1>6, <1>7, <1>8, <2>1, DragFails
  <1> QED  BY <1>9, <1>10

\* The button of a separated drag goes down.
LEMMA DragDownArrives ==
    ASSUME InputInv, DragDown, guard' = guard
    PROVE  FastArrives
  <1>1. /\ call.pc = "down" /\ call.pc \in BusyPcs /\ call.pc # "up"
        /\ UNCHANGED <<world, act, guard>>
    BY DEF DragDown, BusyPcs, CallPcs
  <1>2. /\ FastShape /\ FastStray /\ FastResult /\ FastDowns /\ call \in CallRecord
        /\ call.req.clicks \in Nat /\ call.req.button \in Names /\ call.failed \in BOOLEAN
        /\ trail.astray \in Nat /\ trail.downs \in Nat
    BY <1>1, BusyFacts
  <1>3. /\ call.req.kind = "drag" /\ call.req.clicks > 0 /\ Backend # "combined"
        /\ trail.downs = 0 /\ trail.astray =< 1 /\ call.failed = FALSE /\ ~call.path
    BY <1>1, <1>2 DEF FastShape, FastStray, FastDowns, FastResult
  <1>4. Due(call) = {}
    BY <1>1 DEF Due, ModifierPcs, CountedPcs, DragPcs
  <1>5. PICK n \in 0 .. 1 :
            /\ Submit(<<Down(call.req.button)>>, n, call.gen)
            /\ call' = IF n = 1 THEN [call EXCEPT !.pc = "probe"] ELSE AttemptFailed(call)
    BY DEF DragDown
  <1>6. PICK b \in Names : b = call.req.button
    BY <1>2
  <1>7. PICK batch : batch = <<Down(b)>>
    OBVIOUS
  <1>8. Down(b) \in InputEvents /\ Down(b)[1] = "down" /\ Down(b)[2] = b
    BY EventKinds
  <1>9. batch \in Seq(InputEvents) /\ Len(batch) = 1 /\ batch[1] = Down(b)
    BY <1>7, <1>8, SingleEvent
  <1>10. n \in 0 .. Len(batch) /\ Submit(batch, n, call.gen)
    BY <1>5, <1>6, <1>7, <1>9
  <1>11. PICK Y : Y = IF n = 1 THEN {b} ELSE {}
    OBVIOUS
  <1>12. /\ \A k \in held' : k \in Y \/ (k \in trail'.stuck /\ (FALSE \/ k \notin trail'.pressed))
         /\ WorldOK' /\ DeviceOK' /\ WorldInv' /\ guard' = guard /\ act' = act
         /\ trail'.downs \in Nat /\ trail'.astray \in Nat
         /\ trail'.downs =< trail.downs + Presses(SubSeq(batch, 1, n))
         /\ Presses(SubSeq(batch, 1, n)) \in Nat
         /\ trail'.touched <=> trail.touched \/ n > 0
         /\ trail'.astray = trail.astray \/ (Away /\ trail'.astray =< trail.astray + 1)
    <2>1. \A k : \A a \in 1 .. n : IsDown(batch[a], k) =>
                \/ k \in Y
                \/ \E c \in 1 .. n : c > a /\ IsUp(batch[c], k)
      <3> SUFFICES ASSUME NEW k, NEW a \in 1 .. n, IsDown(batch[a], k) PROVE k \in Y
        OBVIOUS
      <3>1. a = 1 /\ n = 1
        OBVIOUS
      <3> QED  BY <1>8, <1>9, <1>11, <3>1 DEF IsDown
    <2>2. \A k \in Due(call) : \/ k \in Y
                               \/ \E a \in 1 .. n : IsUp(batch[a], k)
                               \/ FALSE /\ \E a \in n + 1 .. Len(batch) : IsUp(batch[a], k)
      BY <1>4
    <2>3. FALSE \in BOOLEAN /\ (call.failed => FALSE)
      BY <1>3
    <2> QED  BY <1>1, <1>9, <1>10, <2>1, <2>2, <2>3, FastSubmit
  <1>13. CASE n = 1
    <2>1. PICK c \in 1 .. n : c = 1
      BY <1>13
    <2>2. \A a \in 1 .. n : batch[a][1] = "down" /\ batch[a][2] \in Buttons => a = c
      BY <1>13, <2>1
    <2>3. Presses(SubSeq(batch, 1, n)) =< 1
      BY <1>9, <1>10, <2>2, PressesBound
    <2>4. trail'.downs =< call.req.clicks
      BY <1>2, <1>3, <1>12, <2>3
    <2>5. trail'.astray =< 2
      BY <1>2, <1>3, <1>12
    <2>6. call' = [call EXCEPT !.pc = "probe"] /\ "probe" \in CallPcs
      BY <1>5, <1>13 DEF CallPcs, DragPcs
    <2>7. call' \in CallRecord /\ call'.pc = "probe" /\ SameCall
      BY <1>2, <2>6, CallMoves
    <2>8. call'.req = call.req /\ call'.failed = FALSE /\ ~call'.path /\ call'.pc \in DragPcs
      BY <1>3, <2>7 DEF SameCall, DragPcs
    <2>9. Y = IF call'.pc = "down" THEN {} ELSE {call.req.button}
      BY <1>6, <1>11, <1>13, <2>7
    <2> QED  BY <1>1, <1>3, <1>12, <2>4, <2>5, <2>7, <2>8, <2>9, DragGoes
  <1>14. CASE n = 0
    <2>1. Presses(SubSeq(batch, 1, n)) = 0
      <3>1. \A a \in 1 .. n : ~(batch[a][1] = "down" /\ batch[a][2] \in Buttons)
        BY <1>14
      <3> QED  BY <1>9, <1>10, <3>1, PressesBound
    <2>2. trail'.downs =< call.req.clicks
      BY <1>2, <1>3, <1>12, <2>1
    <2>3. (\A a \in 1 .. n : batch[a][1] = "up") => trail'.astray = trail.astray
      <3>1. TrailIs
        BY <1>1, BusyFacts
      <3> QED  BY <1>9, <1>10, <3>1, SubmitTrail
    <2>4. trail'.astray =< 1
      BY <1>3, <1>14, <2>3
    <2>5. call' = Return(call, "error", "Unknown") /\ "error" \in Statuses /\ "Unknown" \in Sents
      BY <1>5, <1>14 DEF AttemptFailed, Statuses, Sents
    <2>6. \A k \in held' : k \in trail'.stuck
      BY <1>11, <1>12, <1>14
    <2> QED  BY <1>1, <1>12, <2>2, <2>4, <2>5, <2>6, DragFails
  <1> QED  BY <1>13, <1>14

\* A combined drag is one of the left button.
LEMMA CombinedIsLeft ==
    ASSUME Backend = "combined"
    PROVE  call.req.button = "left"
  BY DEF Backend, SelectBackend

\* MOVE and DOWN of the combined back end.
LEMMA CombinedBatchArrives ==
    ASSUME InputInv, CombinedBatch, guard' = guard
    PROVE  FastArrives
  <1>1. /\ call.pc = "batch" /\ call.pc \in BusyPcs /\ call.pc \in QuietPcs /\ call.pc # "up"
        /\ UNCHANGED <<world, act, guard>>
    BY DEF CombinedBatch, BusyPcs, CallPcs, QuietPcs
  <1>2. /\ FastShape /\ FastStray /\ Calm /\ Due(call) = {} /\ call.failed = FALSE /\ call.path = FALSE
        /\ call.req.clicks \in Nat /\ call \in CallRecord
    BY <1>1, QuietFacts, BusyFacts
  <1>3. /\ call.req.kind = "drag" /\ call.req.clicks > 0 /\ Backend = "combined"
        /\ trail.downs = 0 /\ trail.astray = 0 /\ ~trail.touched
    BY <1>1, <1>2 DEF FastShape, Calm
  <1>4. call.req.button = "left"
    BY <1>3, CombinedIsLeft
  <1>5. PICK n \in 0 .. 2 :
            /\ Submit(<<Move(Source), Down("left")>>, n, call.gen)
            /\ call' = IF n = 2 THEN [call EXCEPT !.pc = "probe"]
                       ELSE Return(call, "rejected", IF n > 0 THEN "Sent" ELSE "NotSent")
    BY DEF CombinedBatch
  <1>6. PICK batch : batch = <<Move(Source), Down("left")>>
    OBVIOUS
  <1>7. /\ Move(Source) \in InputEvents /\ Down("left") \in InputEvents
        /\ Move(Source)[1] = "move" /\ Down("left")[1] = "down" /\ Down("left")[2] = "left"
    BY EventKinds DEF Source, Names, Buttons
  <1>8. /\ batch \in Seq(InputEvents) /\ Len(batch) = 2 /\ n \in 0 .. Len(batch)
        /\ batch[1][1] = "move" /\ batch[2][1] = "down" /\ batch[2][2] = "left"
    BY <1>6, <1>7
  <1>9. Submit(batch, n, call.gen)
    BY <1>5, <1>6
  <1> HIDE <1>6
  <1>10. \A a \in 1 .. n : batch[a][1] = "down" => a = 2 /\ n = 2
    <2> SUFFICES ASSUME NEW a \in 1 .. n, batch[a][1] = "down" PROVE a = 2 /\ n = 2
      OBVIOUS
    <2>1. a \in {1, 2}
      OBVIOUS
    <2> QED  BY <1>8, <2>1
  <1>11. PICK Y : Y = IF n = 2 THEN {"left"} ELSE {}
    OBVIOUS
  <1>12. /\ \A k \in held' : k \in Y \/ (k \in trail'.stuck /\ (FALSE \/ k \notin trail'.pressed))
         /\ WorldOK' /\ DeviceOK' /\ WorldInv' /\ guard' = guard /\ act' = act
         /\ trail'.downs \in Nat /\ trail'.astray \in Nat
         /\ trail'.downs =< trail.downs + Presses(SubSeq(batch, 1, n))
         /\ Presses(SubSeq(batch, 1, n)) \in Nat
         /\ trail'.touched <=> trail.touched \/ n > 0
         /\ trail'.astray = trail.astray \/ (Away /\ trail'.astray =< trail.astray + 1)
    <2>1. \A k : \A a \in 1 .. n : IsDown(batch[a], k) =>
                \/ k \in Y
                \/ \E c \in 1 .. n : c > a /\ IsUp(batch[c], k)
      BY <1>8, <1>10, <1>11 DEF IsDown
    <2>2. \A k \in Due(call) : \/ k \in Y
                               \/ \E a \in 1 .. n : IsUp(batch[a], k)
                               \/ FALSE /\ \E a \in n + 1 .. Len(batch) : IsUp(batch[a], k)
      BY <1>2
    <2>3. FALSE \in BOOLEAN /\ (call.failed => FALSE)
      BY <1>2
    <2> QED  BY <1>1, <1>8, <1>9, <2>1, <2>2, <2>3, FastSubmit
  <1>13. trail'.astray =< 1 /\ trail'.astray =< 2
    BY <1>3, <1>12
  <1>14. CASE n = 2
    <2>1. PICK c \in 1 .. n : c = 2
      BY <1>14
    <2>2. \A a \in 1 .. n : batch[a][1] = "down" /\ batch[a][2] \in Buttons => a = c
      BY <1>10, <2>1
    <2>3. Presses(SubSeq(batch, 1, n)) =< 1
      BY <1>8, <2>2, PressesBound
    <2>4. trail'.downs =< call.req.clicks
      BY <1>2, <1>3, <1>12, <2>3
    <2>5. call' = [call EXCEPT !.pc = "probe"] /\ "probe" \in CallPcs
      BY <1>5, <1>14 DEF CallPcs, DragPcs
    <2>6. call' \in CallRecord /\ call'.pc = "probe" /\ SameCall
      BY <1>2, <2>5, CallMoves
    <2>7. call'.req = call.req /\ call'.failed = FALSE /\ ~call'.path /\ call'.pc \in DragPcs
      BY <1>2, <2>6 DEF SameCall, DragPcs
    <2>8. Y = IF call'.pc = "down" THEN {} ELSE {call.req.button}
      BY <1>4, <1>11, <1>14, <2>6
    <2> QED  BY <1>1, <1>3, <1>12, <1>13, <2>4, <2>6, <2>7, <2>8, DragGoes
  <1>15. CASE n < 2
    <2>1. \A a \in 1 .. n : ~(batch[a][1] = "down" /\ batch[a][2] \in Buttons)
      BY <1>10, <1>15
    <2>2. Presses(SubSeq(batch, 1, n)) = 0
      BY <1>8, <2>1, PressesBound
    <2>3. trail'.downs =< call.req.clicks
      BY <1>2, <1>3, <1>12, <2>2
    <2>4. PICK se \in Sents : se = IF n > 0 THEN "Sent" ELSE "NotSent"
      BY DEF Sents
    <2>5. call' = Return(call, "rejected", se) /\ "rejected" \in Statuses
      BY <1>5, <1>15, <2>4 DEF Statuses
    <2>6. se = "NotSent" => ~trail'.touched
      BY <1>3, <1>12, <2>4
    <2>7. \A k \in held' : k \in trail'.stuck
      BY <1>11, <1>12, <1>15
    <2> QED  BY <1>1, <1>12, <1>13, <2>3, <2>5, <2>6, <2>7, DragFails
  <1> QED  BY <1>14, <1>15

\* What is known on the path of a drag.
LEMMA PathFacts ==
    ASSUME InputInv, call.pc \in DragPcs
    PROVE  /\ call.pc \in BusyPcs /\ call \in CallRecord
           /\ call.req.kind = "drag" /\ call.failed = FALSE /\ call.failed \in BOOLEAN
           /\ call.pc # "up" => call.path = FALSE
           /\ FastStray /\ FastShape /\ FastResult
           /\ Due(call) = {call.req.button} /\ call.req.button \in Names
           /\ trail.downs \in Nat /\ trail.astray \in Nat /\ call.req.clicks \in Nat
           /\ trail.downs =< call.req.clicks
           /\ \A k \in held : k = call.req.button \/ (k \in trail.stuck /\ k \notin trail.pressed)
           /\ Backend = "combined" => trail.astray =< 1
           /\ Backend = "relative" => trail.astray =< 2
           /\ Steps \in Nat /\ Steps > 0 /\ cursor \in Int /\ call.i \in Nat
           /\ trail.drift \in Int /\ call.seen \in Int
           /\ call.pc \in {"fence", "slide"} /\ Backend = "relative" => Brought = call.seen
           /\ \A j \in Nat : Goal(j) \in Int
           /\ Goal(Steps) = call.req.destination
           /\ AllowsDragPath => trail.astray = 0
  <1>1. call.pc \in BusyPcs
    BY DEF BusyPcs, CallPcs, DragPcs
  <1>2. /\ call \in CallRecord /\ call.failed \in BOOLEAN /\ FastStray /\ FastShape /\ FastResult
        /\ FastDowns /\ call.req \in ForegroundRequest /\ call.req.button \in Names
        /\ trail.downs \in Nat /\ trail.astray \in Nat /\ call.req.clicks \in Nat
        /\ Clean(Due(call), call.failed) /\ cursor \in Int /\ call.i \in Nat
        /\ WorldInv /\ guard.pc = "idle"
    BY <1>1, BusyFacts
  <1>3. /\ call.req.kind = "drag" /\ call.failed = FALSE /\ (call.pc # "up" => call.path = FALSE)
        /\ trail.downs =< call.req.clicks
    BY <1>2 DEF FastShape, FastResult, FastDowns, CallRecord, DragPcs
  <1>4. Due(call) = {call.req.button}
    BY DEF Due, ModifierPcs, CountedPcs, DragPcs
  <1>5. \A k \in held : k = call.req.button \/ (k \in trail.stuck /\ k \notin trail.pressed)
    BY <1>2, <1>3, <1>4 DEF Clean
  <1>6. /\ Backend = "combined" => trail.astray =< 1
        /\ Backend = "relative" => trail.astray =< 2
    BY <1>2, <1>3 DEF FastStray
  <1>7. call.req.steps \in Nat /\ call.req.destination \in Int /\ Source \in Int
    BY <1>2 DEF ForegroundRequest, Source
  <1>8. Steps \in Nat /\ Steps > 0
    BY <1>7 DEF Steps
  <1>9. \A j \in Nat : Goal(j) \in Int
    BY <1>7, <1>8, WaypointIsInt DEF Goal
  <1>10. Goal(Steps) = call.req.destination
    BY <1>7, <1>8, LastWaypoint DEF Goal
  <1>11. AllowsDragPath => trail.astray = 0
    BY <1>2 DEF AllowsDragPath, WorldInv, Away, Exact
  <1>12. trail.drift \in Int /\ call.seen \in Int
    BY <1>2 DEF InputInv, InputTypeOK, DeviceOK, TrailIs, CallRecord
  <1>13. call.pc \in {"fence", "slide"} /\ Backend = "relative" => Brought = call.seen
    BY <1>2 DEF FastResult
  <1> QED  BY <1>1, <1>2, <1>3, <1>4, <1>5, <1>6, <1>8, <1>9, <1>10, <1>11, <1>12, <1>13

\* A look at the cursor leaves the desktop as it is.
LEMMA LooksSame ==
    ASSUME InputInv, UNCHANGED <<world, held, cursor, faults, guard>>,
           NEW d \in Int, trail' = [trail EXCEPT !.drift = d]
    PROVE  /\ WorldOK' /\ DeviceOK' /\ WorldInv' /\ trail'.drift = d
           /\ trail'.pressed = trail.pressed /\ trail'.downs = trail.downs
           /\ trail'.astray = trail.astray /\ trail'.stuck = trail.stuck
  <1>1. fg' = fg /\ window' = window /\ desk' = desk /\ stops' = stops /\ popup' = popup
    BY DEF world
  <1>2. WorldOK /\ WorldInv /\ TrailIs /\ cursor \in Int /\ faults \in Nat
    BY DEF InputInv, InputTypeOK, DeviceOK
  <1>3. /\ TrailIs' /\ trail'.drift = d
        /\ trail'.pressed = trail.pressed /\ trail'.downs = trail.downs
        /\ trail'.astray = trail.astray /\ trail'.stuck = trail.stuck
    BY <1>2 DEF TrailIs
  <1>4. WorldOK' /\ DeviceOK'
    BY <1>1, <1>2, <1>3 DEF WorldOK, DeviceOK
  <1>5. WorldInv'
    BY <1>1, <1>2, <1>3 DEF WorldInv, Away, Exact
  <1> QED  BY <1>3, <1>4, <1>5

\* A step of a drag between two moves: it looks, and the desktop stays as it is.
LEMMA DragLooks ==
    ASSUME InputInv, call.pc \in DragPcs, UNCHANGED <<world, held, cursor, faults, guard>>, act' = act,
           NEW d \in Int, trail' = [trail EXCEPT !.drift = d],
           call' \in CallRecord, call'.req = call.req, call'.failed = call.failed,
           call'.pc \in DragPcs,
           call'.pc = "slide" => Backend = "relative" /\ trail.astray = 0,
           call'.pc = "step" => Backend # "relative",
           call'.pc = "step" /\ Backend \in Fenced => trail.astray = 0,
           call'.path => call'.pc = "up" /\ Dropped',
           call'.pc \in {"fence", "slide"} /\ Backend = "relative" => cursor - d = call'.seen
    PROVE  FastArrives
  <1>1. /\ call.pc \in BusyPcs /\ call.req.kind = "drag" /\ call.failed = FALSE
        /\ trail.downs =< call.req.clicks
        /\ \A k \in held : k = call.req.button \/ (k \in trail.stuck /\ k \notin trail.pressed)
        /\ Backend = "combined" => trail.astray =< 1
        /\ Backend = "relative" => trail.astray =< 2
    BY PathFacts
  <1>2. /\ WorldOK' /\ DeviceOK' /\ WorldInv' /\ guard' = guard
        /\ held' = held /\ cursor' = cursor /\ trail'.drift = d
        /\ trail'.pressed = trail.pressed /\ trail'.downs = trail.downs
        /\ trail'.astray = trail.astray /\ trail'.stuck = trail.stuck
    BY LooksSame
  <1>3. call'.pc # "down"
    BY DEF DragPcs
  <1>4. PICK Y : Y = {call.req.button}
    OBVIOUS
  <1>5. \A k \in held' : k \in Y \/ (k \in trail'.stuck /\ k \notin trail'.pressed)
    BY <1>1, <1>2, <1>4
  <1>6. Y = IF call'.pc = "down" THEN {} ELSE {call.req.button}
    BY <1>3, <1>4
  <1>7. call'.pc \in {"fence", "slide"} /\ Backend = "relative" => Brought' = call'.seen
    BY <1>2 DEF Brought
  <1> HIDE <1>4
  <1> QED  BY <1>1, <1>2, <1>3, <1>5, <1>6, <1>7, DragGoes

\* The place of a call on the path.
LEMMA PathPlaces ==
    /\ PathPc \in {"fence", "step"} /\ PathPc \in CallPcs /\ PathPc \in DragPcs
    /\ Backend \in Fenced => PathPc = "fence"
    /\ PathPc = "step" => Backend # "relative"
    /\ "up" \in CallPcs /\ "up" \in DragPcs
  BY DEF PathPc, CallPcs, DragPcs, Fenced

\* The next waypoint, or the end of the path.
LEMMA NextWaypointOK ==
    ASSUME InputInv, call.pc \in DragPcs, NEW c \in CallRecord, NEW at \in Int,
           call' = NextWaypoint(c, at)
    PROVE  /\ call' \in CallRecord /\ call'.req = c.req /\ call'.failed = c.failed
           /\ call'.seen = c.seen
           /\ c.i = Steps => call'.pc = "up" /\ call'.path = TRUE /\ call'.last = c.last
           /\ c.i # Steps => call'.pc = PathPc /\ call'.path = c.path
  <1>1. c.i \in Nat
    BY DEF CallRecord
  <1>2. CASE c.i = Steps
    <2>1. call' = [c EXCEPT !.pc = "up", !.path = TRUE]
      BY <1>2 DEF NextWaypoint
    <2>2. call' \in CallRecord
      BY <2>1, PathPlaces DEF CallRecord
    <2> QED  BY <1>2, <2>1, <2>2 DEF CallRecord
  <1>3. CASE c.i # Steps
    <2>1. PICK p \in CallPcs : p = PathPc
      BY PathPlaces
    <2>2. PICK m \in Nat : m = c.i + 1
      BY <1>1
    <2>3. PICK g \in Int : g = Goal(m)
      BY PathFacts
    <2>4. g - at \in Int /\ Abs(g - at) \in Int
      BY SignsAndSizes
    <2>5. PICK t \in Int : t = Trust(c.i + 1, at)
      BY <2>2, <2>3, <2>4 DEF Trust
    <2>6. PICK l \in Attempt : l = NoAttempt
      <3>1. NoAttempt \in Attempt
        BY DEF Attempt, NoAttempt
      <3> QED  BY <3>1
    <2>7. call' = [c EXCEPT !.pc = p, !.i = m, !.n = 0, !.last = l, !.trust = t]
      BY <1>3, <2>1, <2>2, <2>5, <2>6 DEF NextWaypoint
    <2>8. call' \in CallRecord
      <3>1. PICK e \in CallRecord : e = [c EXCEPT !.pc = p, !.i = m, !.n = 0]
        <4>1. [c EXCEPT !.pc = p, !.i = m, !.n = 0] \in CallRecord
          BY DEF CallRecord
        <4> QED  BY <4>1
      <3>2. call' = [e EXCEPT !.last = l, !.trust = t]
        BY <2>7, <3>1
      <3> QED  BY <3>2 DEF CallRecord
    <2> QED  BY <1>3, <2>1, <2>7, <2>8 DEF CallRecord
  <1> QED  BY <1>2, <1>3

\* A history that is written again is the same.
LEMMA TrailRecord ==
    ASSUME InputInv
    PROVE  trail = [trail EXCEPT !.drift = trail.drift]
  BY DEF InputInv, InputTypeOK, DeviceOK, TrailIs

\* The first look behind the button-down.
LEMMA DragProbeArrives ==
    ASSUME InputInv, DragProbe, guard' = guard
    PROVE  FastArrives
  <1>1. /\ call.pc = "probe" /\ call.pc \in DragPcs /\ act' = act
        /\ UNCHANGED <<world, held, cursor, faults, guard>>
    BY DEF DragProbe, DragPcs
  <1>2. /\ call \in CallRecord /\ call.path = FALSE /\ cursor \in Int /\ trail.drift \in Int
        /\ (\A j \in Nat : Goal(j) \in Int) /\ (AllowsDragPath => trail.astray = 0)
    BY <1>1, PathFacts
  <1>3. CASE AllowsDragPath
    <2>1. PICK p \in CallPcs :
            /\ p = PathPc /\ p \in {"fence", "step"} /\ p \in DragPcs
            /\ p = "step" => Backend # "relative"
      BY PathPlaces
    <2>2. Goal(1) \in Int
      BY <1>2
    <2>3. PICK t \in Int : t = Trust(1, cursor)
      BY <1>2, <2>2, SignsAndSizes DEF Trust
    <2>4. call' = [call EXCEPT !.pc = p, !.i = 1, !.trust = t, !.seen = cursor] /\ trail' = Looked
      BY <1>3, <2>1, <2>3 DEF DragProbe
    <2>5. call' \in CallRecord
      <3>1. PICK e \in CallRecord : e = [call EXCEPT !.pc = p, !.i = 1]
        <4>1. [call EXCEPT !.pc = p, !.i = 1] \in CallRecord
          BY <1>2 DEF CallRecord
        <4> QED  BY <4>1
      <3>2. call' = [e EXCEPT !.trust = t, !.seen = cursor]
        BY <2>4, <3>1
      <3> QED  BY <1>2, <3>2 DEF CallRecord
    <2>6. /\ call'.pc = p /\ call'.req = call.req /\ call'.failed = call.failed /\ ~call'.path
          /\ call'.seen = cursor
      BY <1>2, <2>4 DEF CallRecord
    <2>7. PICK d \in Int : d = IF Backend = "relative" THEN 0 ELSE trail.drift
      BY <1>2
    <2>8. trail' = [trail EXCEPT !.drift = d]
      BY <2>4, <2>7, TrailRecord DEF Looked
    <2>9. Backend = "relative" => cursor - d = call'.seen
      BY <1>2, <2>6, <2>7
    <2> QED  BY <1>1, <1>2, <1>3, <2>1, <2>5, <2>6, <2>8, <2>9, DragLooks
  <1>4. CASE ~AllowsDragPath
    <2>1. call' = [call EXCEPT !.pc = "up"]
      BY <1>4 DEF DragProbe
    <2>2. call' \in CallRecord /\ call'.pc = "up" /\ SameCall
      BY <1>2, <2>1, PathPlaces, CallMoves
    <2>3. call'.req = call.req /\ call'.failed = call.failed /\ ~call'.path
      BY <1>2, <2>2 DEF SameCall
    <2>4. PICK d \in Int : d = trail.drift
      BY <1>2
    <2>5. trail' = [trail EXCEPT !.drift = d]
      BY <1>4, <2>4, TrailRecord DEF DragProbe
    <2> QED  BY <1>1, <2>2, <2>3, <2>5, PathPlaces, DragLooks
  <1> QED  BY <1>3, <1>4

\* The fence in front of every move.
LEMMA DragFenceArrives ==
    ASSUME InputInv, DragFence, guard' = guard
    PROVE  FastArrives
  <1>1. /\ call.pc = "fence" /\ call.pc \in DragPcs /\ act' = act
        /\ UNCHANGED <<world, held, cursor, faults, guard>> /\ trail' = trail
    BY DEF DragFence, DragPcs, deviceVars, device
  <1>2. /\ call \in CallRecord /\ call.path = FALSE /\ call.seen \in Int /\ Steps \in Nat
        /\ (\A j \in Nat : Goal(j) \in Int) /\ (AllowsDragPath => trail.astray = 0)
        /\ Goal(Steps) = call.req.destination /\ call.i \in Nat /\ trail.drift \in Int
        /\ Backend = "relative" => Brought = call.seen
    BY <1>1, PathFacts
  <1>3. PICK d \in Int : d = trail.drift
    BY <1>2
  <1>4. trail' = [trail EXCEPT !.drift = d] /\ (Backend = "relative" => cursor - d = call.seen)
    BY <1>1, <1>2, <1>3, TrailRecord DEF Brought
  <1>5. CASE Skips
    <2>1. call' = NextWaypoint(call, call.seen)
      BY <1>5 DEF DragFence
    <2>2. /\ call' \in CallRecord /\ call'.req = call.req /\ call'.failed = call.failed
          /\ call'.seen = call.seen
          /\ call.i = Steps => call'.pc = "up" /\ call'.path = TRUE
          /\ call.i # Steps => call'.pc = PathPc /\ call'.path = call.path
      BY <1>1, <1>2, <2>1, NextWaypointOK
    <2>3. PathPc = "fence"
      BY <1>5, PathPlaces DEF Skips, Fenced
    <2>4. call.i = Steps => Dropped'
      <3> SUFFICES ASSUME call.i = Steps PROVE Dropped'
        OBVIOUS
      <3>1. CursorReached(call.seen, Goal(call.i), EndpointTolerance)
        BY <1>5 DEF Skips, Completed, CompletionRule, NoAttempt
      <3>2. Goal(call.i) \in Int /\ Goal(call.i) = call.req.destination
        BY <1>2
      <3>3. call.seen = call.req.destination
        BY <1>2, <3>1, <3>2 DEF CursorReached, EndpointTolerance, Abs
      <3>4. Brought' = call.seen
        BY <1>1, <1>2, <1>5 DEF Brought, Skips
      <3> QED  BY <2>2, <3>3, <3>4 DEF Dropped
    <2>5. call'.pc \in DragPcs /\ call'.pc # "slide" /\ call'.pc # "step"
      BY <2>2, <2>3, PathPlaces
    <2>6. call'.path => call'.pc = "up" /\ Dropped'
      BY <1>2, <2>2, <2>4
    <2> QED  BY <1>1, <1>4, <2>2, <2>5, <2>6, DragLooks
  <1>6. CASE ~Skips
    <2>1. PICK p \in CallPcs :
            p = IF ~AllowsDragPath THEN "up" ELSE IF Backend = "relative" THEN "slide" ELSE "step"
      BY DEF CallPcs, DragPcs
    <2>2. call' = [call EXCEPT !.pc = p]
      BY <1>6, <2>1 DEF DragFence
    <2>3. call' \in CallRecord /\ call'.pc = p /\ SameCall
      BY <1>2, <2>2, CallMoves
    <2>4. /\ call'.req = call.req /\ call'.failed = call.failed /\ ~call'.path
          /\ call'.seen = call.seen
      BY <1>2, <2>2, <2>3 DEF SameCall, CallRecord
    <2>5. call'.pc \in DragPcs
      BY <2>1, <2>3 DEF DragPcs
    <2>6. /\ call'.pc = "slide" => Backend = "relative" /\ trail.astray = 0
          /\ call'.pc = "step" => trail.astray = 0 /\ Backend # "relative"
      BY <1>2, <2>1, <2>3
    <2> QED  BY <1>1, <1>4, <2>3, <2>4, <2>5, <2>6, DragLooks
  <1> QED  BY <1>5, <1>6

\* A move on the path: the button stays due, whatever became of it.
LEMMA DragMoves ==
    ASSUME InputInv, call.pc \in {"step", "slide"}, guard' = guard, act' = act,
           WorldOK', DeviceOK', WorldInv', call' \in CallRecord, call'.req = call.req,
           call'.failed = call.failed, call'.pc \in {"up", PathPc},
           \A k \in held' :
                k \in Due(call) \/ (k \in trail'.stuck /\ (call.failed \/ k \notin trail'.pressed)),
           trail'.downs \in Nat, trail'.downs =< trail.downs, trail'.astray \in Nat,
           trail'.astray = trail.astray \/ trail'.astray =< trail.astray + 1,
           call'.path => call'.pc = "up" /\ Dropped',
           call'.pc = PathPc /\ Backend = "relative" => Brought' = call'.seen
    PROVE  FastArrives
  <1>1. call.pc \in DragPcs
    BY DEF DragPcs
  <1>2. /\ call.pc \in BusyPcs /\ call.req.kind = "drag" /\ call.failed = FALSE
        /\ trail.downs =< call.req.clicks /\ trail.downs \in Nat /\ call.req.clicks \in Nat
        /\ trail.astray \in Nat /\ Due(call) = {call.req.button} /\ FastStray
    BY <1>1, PathFacts
  <1>3. Backend \in Fenced => trail'.astray =< 1 /\ trail'.astray =< 2
    <2>1. Backend \in Fenced => trail.astray = 0
      BY <1>2 DEF FastStray
    <2> QED  BY <1>2, <2>1
  <1>4. /\ Backend = "combined" => trail'.astray =< 1
        /\ Backend = "relative" => trail'.astray =< 2
    BY <1>3 DEF Fenced
  <1>5. PICK Y : Y = {call.req.button}
    OBVIOUS
  <1>6. \A k \in held' : k \in Y \/ (k \in trail'.stuck /\ k \notin trail'.pressed)
    BY <1>2, <1>5
  <1>7. /\ call'.pc # "down" /\ call'.pc # "slide" /\ call'.pc \in DragPcs
        /\ (call'.pc = "step" => Backend \notin Fenced /\ Backend # "relative")
    BY PathPlaces DEF DragPcs
  <1>8. trail'.downs =< call.req.clicks
    BY <1>2
  <1>9. Y = IF call'.pc = "down" THEN {} ELSE {call.req.button}
    BY <1>5, <1>7
  <1>10. call'.pc \in {"fence", "slide"} /\ Backend = "relative" => Brought' = call'.seen
    BY <1>7
  <1> HIDE <1>5
  <1> QED  BY <1>2, <1>4, <1>6, <1>7, <1>8, <1>9, <1>10, DragGoes

\* An absolute move of a drag.
LEMMA DragStepArrives ==
    ASSUME InputInv, DragStep, guard' = guard
    PROVE  FastArrives
  <1>1. /\ call.pc = "step" /\ call.pc \in DragPcs /\ UNCHANGED <<world, act, guard>>
    BY DEF DragStep, DragPcs
  <1>2. /\ call \in CallRecord /\ call.path = FALSE /\ cursor \in Int /\ Steps \in Nat
        /\ (\A j \in Nat : Goal(j) \in Int) /\ call.pc \in BusyPcs
        /\ Goal(Steps) = call.req.destination /\ call.i \in Nat /\ Backend # "relative"
    BY <1>1, PathFacts DEF FastShape
  <1>3. PICK ok \in BOOLEAN :
            /\ IF Backend \in Fenced
               THEN Submit(<<Move(Goal(call.i))>>, IF ok THEN 1 ELSE 0, call.gen)
               ELSE Consumable(Goal(call.i), ok, call.gen)
            /\ call' = IF ok THEN NextWaypoint(call, Goal(call.i)) ELSE [call EXCEPT !.pc = "up"]
    BY DEF DragStep
  <1>4. PICK x \in Int : x = Goal(call.i)
    BY <1>2
  <1>5. /\ \A k \in held' :
            k \in Due(call) \/ (k \in trail'.stuck /\ (call.failed \/ k \notin trail'.pressed))
        /\ WorldOK' /\ DeviceOK' /\ WorldInv' /\ guard' = guard /\ act' = act
        /\ trail'.downs \in Nat /\ trail'.downs =< trail.downs
        /\ trail'.astray \in Nat
        /\ trail'.astray = trail.astray \/ (Away /\ trail'.astray =< trail.astray + 1)
        /\ ok => cursor' = x /\ trail'.drift = 0
    <2>1. CASE Backend \in Fenced
      <3>1. PICK e \in InputEvents : e = Move(x) /\ Moves(e) /\ e[1] = "move" /\ e[2] = x
        BY EventKinds DEF Moves
      <3>2. PICK n \in 0 .. 1 : n = IF ok THEN 1 ELSE 0
        OBVIOUS
      <3>3. Submit(<<e>>, n, call.gen)
        BY <1>3, <1>4, <2>1, <3>1, <3>2
      <3>4. ok => cursor' = x /\ trail'.drift = 0
        BY <1>1, <1>2, <3>1, <3>2, <3>3, FastMove
      <3> QED  BY <1>1, <1>2, <3>1, <3>3, <3>4, FastMove
    <2>2. CASE Backend \notin Fenced
      <3>1. Consumable(x, ok, call.gen)
        BY <1>3, <1>4, <2>2
      <3> QED  BY <1>1, <1>2, <3>1, ConsumableEffect
    <2> QED  BY <2>1, <2>2
  <1>6. CASE ok
    <2>1. call' = NextWaypoint(call, x)
      BY <1>3, <1>4, <1>6
    <2>2. /\ call' \in CallRecord /\ call'.req = call.req /\ call'.failed = call.failed
          /\ call.i = Steps => call'.pc = "up" /\ call'.path = TRUE
          /\ call.i # Steps => call'.pc = PathPc /\ call'.path = call.path
      BY <1>1, <1>2, <2>1, NextWaypointOK
    <2>3. call.i = Steps => Dropped'
      <3>1. Brought' = x
        BY <1>5, <1>6 DEF Brought
      <3> QED  BY <1>2, <1>4, <2>2, <3>1 DEF Dropped
    <2>4. call'.path => call'.pc = "up" /\ Dropped'
      BY <1>2, <2>2, <2>3
    <2>5. call'.pc \in {"up", PathPc}
      BY <2>2
    <2> QED  BY <1>1, <1>2, <1>5, <2>2, <2>4, <2>5, DragMoves
  <1>7. CASE ~ok
    <2>1. call' = [call EXCEPT !.pc = "up"]
      BY <1>3, <1>7
    <2>2. call' \in CallRecord /\ call'.pc = "up" /\ SameCall
      BY <1>2, <2>1, PathPlaces, CallMoves
    <2>3. call'.req = call.req /\ call'.failed = call.failed /\ ~call'.path
      BY <1>2, <2>2 DEF SameCall
    <2> QED  BY <1>1, <1>2, <1>5, <2>2, <2>3, DragMoves
  <1> QED  BY <1>6, <1>7

\* A path that ends at its last waypoint has delivered its load.
LEMMA SlideDrops ==
    ASSUME NEW at \in Int, NEW target \in Int, NEW last \in Attempt,
           Completed(at, target, TRUE, last)
    PROVE  at = target \/ (last.motion = 0 /\ Abs(at - target) = 1)
  <1>1. CASE CursorReached(at, target, EndpointTolerance)
    BY <1>1 DEF CursorReached, EndpointTolerance, Abs
  <1>2. CASE last.motion = 0 /\ CursorReached(at, target, StallTolerance)
    BY <1>2 DEF CursorReached, StallTolerance, Abs
  <1> QED  BY <1>1, <1>2 DEF Completed, CompletionRule

\* A relative move, read back.
LEMMA DragSlideArrives ==
    ASSUME InputInv, DragSlide, guard' = guard
    PROVE  FastArrives
  <1>1. /\ call.pc = "slide" /\ call.pc \in DragPcs /\ UNCHANGED <<world, act, guard>>
    BY DEF DragSlide, DragPcs
  <1>2. /\ call \in CallRecord /\ call.path = FALSE /\ cursor \in Int /\ Steps \in Nat
        /\ (\A j \in Nat : Goal(j) \in Int) /\ call.pc \in BusyPcs
        /\ Goal(Steps) = call.req.destination /\ call.i \in Nat /\ FastShape
        /\ call.seen \in Int
    BY <1>1, PathFacts
  <1>3. Backend = "relative" /\ call.last \in Attempt /\ call.trust \in Int /\ call.n \in Nat
    BY <1>1, <1>2 DEF FastShape, CallRecord
  <1>4. PICK target \in Int : target = Goal(call.i)
    BY <1>2
  <1>5. PICK residual \in Int : residual = Goal(call.i) - call.seen
    BY <1>2, <1>4
  <1>6. PICK command \in Int : command = RelativeCommand(residual, call.last, call.trust)
    BY <1>3, CommandIsInt
  <1>7. \/ Submit(<<Slide(command)>>, 0, call.gen) /\ call' = [call EXCEPT !.pc = "up"]
        \/ \E way \in Response(command) :
                /\ Submit(<<Slide(way)>>, 1, call.gen)
                /\ LET read == cursor + way
                       last == [has |-> TRUE, residual |-> residual,
                                command |-> command, motion |-> read - call.seen]
                       c == [call EXCEPT !.n = @ + 1, !.last = last, !.seen = read]
                   IN call' = IF Completed(read, target, call.i = Steps, last)
                              THEN NextWaypoint(c, read)
                              ELSE [c EXCEPT !.pc = IF c.n = MaxAttemptsPerWaypoint
                                                    THEN "up" ELSE PathPc]
    BY <1>4, <1>5, <1>6 DEF DragSlide
  <1>8. ASSUME NEW x \in Int, NEW n \in 0 .. 1, Submit(<<Slide(x)>>, n, call.gen)
        PROVE  /\ \A k \in held' :
                    k \in Due(call) \/ (k \in trail'.stuck /\ (call.failed \/ k \notin trail'.pressed))
               /\ WorldOK' /\ DeviceOK' /\ WorldInv' /\ guard' = guard /\ act' = act
               /\ trail'.downs \in Nat /\ trail'.downs =< trail.downs
               /\ trail'.astray \in Nat
               /\ trail'.astray = trail.astray \/ (Away /\ trail'.astray =< trail.astray + 1)
               /\ n = 1 => cursor' = cursor + x /\ trail'.drift = 0
    <2>1. PICK e \in InputEvents : e = Slide(x) /\ Moves(e) /\ e[1] = "slide" /\ e[2] = x
      BY EventKinds DEF Moves
    <2>2. Submit(<<e>>, n, call.gen)
      BY <1>8, <2>1
    <2>3. n = 1 => cursor' = IF e[1] = "move" THEN e[2] ELSE cursor + e[2]
      BY <1>1, <1>2, <2>1, <2>2, FastMove
    <2>4. n = 1 => cursor' = cursor + x /\ trail'.drift = 0
      BY <1>1, <1>2, <2>1, <2>2, <2>3, FastMove
    <2> QED  BY <1>1, <1>2, <2>1, <2>2, <2>4, FastMove
  <1>9. CASE Submit(<<Slide(command)>>, 0, call.gen) /\ call' = [call EXCEPT !.pc = "up"]
    <2>1. call' \in CallRecord /\ call'.pc = "up" /\ SameCall
      BY <1>2, <1>9, PathPlaces, CallMoves
    <2>2. call'.req = call.req /\ call'.failed = call.failed /\ ~call'.path
      BY <1>2, <2>1 DEF SameCall
    <2> QED  BY <1>1, <1>8, <1>9, <2>1, <2>2, PathPlaces, DragMoves
  <1>10. ASSUME NEW way \in Int, NEW at \in Int, at = cursor + way, NEW last \in Attempt,
                NEW c \in CallRecord, c.req = call.req, c.failed = call.failed, c.i = call.i,
                c.last = last, c.path = call.path, c.seen = at, NEW p \in {"up", PathPc},
                Submit(<<Slide(way)>>, 1, call.gen),
                call' = IF Completed(at, target, call.i = Steps, last)
                        THEN NextWaypoint(c, at) ELSE [c EXCEPT !.pc = p]
         PROVE  FastArrives
    <2>2. /\ \A k \in held' :
                k \in Due(call) \/ (k \in trail'.stuck /\ (call.failed \/ k \notin trail'.pressed))
          /\ WorldOK' /\ DeviceOK' /\ WorldInv' /\ guard' = guard /\ act' = act
          /\ trail'.downs \in Nat /\ trail'.downs =< trail.downs
          /\ trail'.astray \in Nat
          /\ trail'.astray = trail.astray \/ (Away /\ trail'.astray =< trail.astray + 1)
          /\ Brought' = at
      <3>1. cursor' = at /\ trail'.drift = 0
        BY <1>8, <1>10
      <3>2. Brought' = at
        BY <1>10, <3>1 DEF Brought
      <3> QED  BY <1>8, <1>10, <3>2
    <2>3. CASE Completed(at, target, call.i = Steps, last)
      <3>1. call' = NextWaypoint(c, at)
        BY <1>10, <2>3
      <3>2. /\ call' \in CallRecord /\ call'.req = c.req /\ call'.failed = c.failed
            /\ call'.seen = c.seen
            /\ c.i = Steps => call'.pc = "up" /\ call'.path = TRUE /\ call'.last = c.last
            /\ c.i # Steps => call'.pc = PathPc /\ call'.path = c.path
        BY <1>1, <1>10, <3>1, NextWaypointOK
      <3>3. call.i = Steps => Dropped'
        <4> SUFFICES ASSUME call.i = Steps PROVE Dropped'
          OBVIOUS
        <4>1. Completed(at, target, TRUE, last)
          BY <2>3
        <4>2. at = target \/ (last.motion = 0 /\ Abs(at - target) = 1)
          BY <4>1, SlideDrops
        <4>3. call'.last = last /\ call'.req = call.req
          BY <1>10, <3>2
        <4>4. Backend' = "relative"
          BY <1>3, <4>3, SameBackend
        <4>5. target = call.req.destination
          BY <1>2, <1>4
        <4> QED  BY <2>2, <4>2, <4>3, <4>4, <4>5 DEF Dropped
      <3>4. call'.path => call'.pc = "up" /\ Dropped'
        BY <1>2, <1>10, <3>2, <3>3
      <3>5. /\ call'.pc \in {"up", PathPc} /\ call'.req = call.req /\ call'.failed = call.failed
            /\ Brought' = call'.seen
        BY <1>10, <2>2, <3>2
      <3> QED  BY <1>1, <2>2, <3>2, <3>4, <3>5, DragMoves
    <2>4. CASE ~Completed(at, target, call.i = Steps, last)
      <3>1. call' = [c EXCEPT !.pc = p] /\ p \in CallPcs
        BY <1>10, <2>4, PathPlaces
      <3>2. call' \in CallRecord
        BY <1>10, <3>1 DEF CallRecord
      <3>3. /\ call'.pc = p /\ call'.req = c.req /\ call'.failed = c.failed
            /\ call'.path = c.path /\ call'.seen = c.seen
        BY <1>10, <3>1 DEF CallRecord
      <3>4. /\ call'.pc \in {"up", PathPc} /\ call'.req = call.req /\ call'.failed = call.failed
            /\ ~call'.path /\ Brought' = call'.seen
        BY <1>2, <1>10, <2>2, <3>3
      <3> QED  BY <1>1, <2>2, <3>2, <3>4, DragMoves
    <2> QED  BY <2>3, <2>4
  <1>11. ASSUME NEW way \in Response(command), Submit(<<Slide(way)>>, 1, call.gen),
                LET read == cursor + way
                    last == [has |-> TRUE, residual |-> residual,
                             command |-> command, motion |-> read - call.seen]
                    c == [call EXCEPT !.n = @ + 1, !.last = last, !.seen = read]
                IN call' = IF Completed(read, target, call.i = Steps, last)
                           THEN NextWaypoint(c, read)
                           ELSE [c EXCEPT !.pc = IF c.n = MaxAttemptsPerWaypoint
                                                 THEN "up" ELSE PathPc]
         PROVE  FastArrives
    <2>1. way \in Int
      BY <1>11 DEF Response
    <2>2. PICK at \in Int : at = cursor + way
      BY <1>2, <2>1
    <2>3. PICK motion \in Int : motion = at - call.seen
      BY <1>2
    <2>4. PICK last \in Attempt : last = [has |-> TRUE, residual |-> residual,
                                          command |-> command, motion |-> motion]
      <3>1. [has |-> TRUE, residual |-> residual, command |-> command, motion |-> motion] \in Attempt
        BY DEF Attempt
      <3> QED  BY <3>1
    <2>5. PICK m \in Nat : m = call.n + 1
      BY <1>3
    <2>6. PICK c : c = [call EXCEPT !.n = m, !.last = last, !.seen = at]
      OBVIOUS
    <2>7. c \in CallRecord
      BY <1>2, <2>6 DEF CallRecord
    <2>8. /\ c.req = call.req /\ c.failed = call.failed /\ c.i = call.i
          /\ c.last = last /\ c.path = call.path /\ c.seen = at
      BY <1>2, <2>6 DEF CallRecord
    <2>9. PICK p \in {"up", PathPc} : p = IF c.n = MaxAttemptsPerWaypoint THEN "up" ELSE PathPc
      OBVIOUS
    <2>10. call' = IF Completed(at, target, call.i = Steps, last)
                   THEN NextWaypoint(c, at) ELSE [c EXCEPT !.pc = p]
      BY <1>11, <2>2, <2>3, <2>4, <2>5, <2>6, <2>9
    <2>11. Submit(<<Slide(way)>>, 1, call.gen)
      BY <1>11
    <2> HIDE <1>11, <2>4, <2>6
    <2> QED  BY <1>10, <2>1, <2>2, <2>7, <2>8, <2>10, <2>11
  <1> QED  BY <1>7, <1>9, <1>11

\* The button of a drag goes up, and the drag returns.
LEMMA DragUpArrives ==
    ASSUME InputInv, DragUp, guard' = guard
    PROVE  FastArrives
  <1>1. /\ call.pc = "up" /\ call.pc \in DragPcs /\ UNCHANGED <<world, act, guard>>
    BY DEF DragUp, DragPcs
  <1>2. /\ call.pc \in BusyPcs /\ call.pc # "idle" /\ call.failed = FALSE /\ call.failed \in BOOLEAN
        /\ Due(call) = {call.req.button} /\ call.req.button \in Names
        /\ trail.downs \in Nat /\ call.req.clicks \in Nat /\ trail.downs =< call.req.clicks
        /\ Backend = "combined" => trail.astray =< 1
        /\ Backend = "relative" => trail.astray =< 2
        /\ act \in Activation /\ act.phase = "idle" /\ act.attached = {}
    BY <1>1, PathFacts, BusyFacts
  <1>3. PICK n \in 0 .. 1, released \in {TRUE, FALSE} :
            /\ released \in Verified(n)
            /\ Submit(<<Up(call.req.button)>>, n, call.gen)
            /\ call' = Return(call, DragResult(released), "Sent")
    BY DEF DragUp, Verified
  <1>4. released => n = 1
    BY <1>3 DEF Verified
  <1>5. PICK h \in BOOLEAN : h <=> n = 0
    OBVIOUS
  <1>6. /\ \A k \in held' : k \in {} \/ (k \in trail'.stuck /\ (h \/ k \notin trail'.pressed))
        /\ WorldOK' /\ DeviceOK' /\ WorldInv' /\ guard' = guard /\ act' = act
        /\ trail'.downs \in Nat /\ trail'.downs =< trail.downs
        /\ trail'.astray = trail.astray /\ cursor' = cursor /\ trail'.drift = trail.drift
    <2>1. Due(call) \subseteq {} \cup {call.req.button} /\ (call.failed => h)
      BY <1>2
    <2> QED  BY <1>1, <1>2, <1>3, <1>5, <2>1, FastUp
  <1>7. PICK st \in Statuses : st = DragResult(released)
    BY DEF DragResult, Statuses
  <1>8. st = "succeeded" => call.path /\ ~h
    BY <1>4, <1>5, <1>7 DEF DragResult
  <1>9. \A k \in held' : k \in trail'.stuck /\ (st # "succeeded" \/ k \notin trail'.pressed)
    BY <1>6, <1>8
  <1>10. trail'.downs =< call.req.clicks
    BY <1>2, <1>6
  <1>11. "Sent" \in Sents /\ call' = Return(call, st, "Sent")
    BY <1>3, <1>7 DEF Sents
  <1> QED  BY <1>1, <1>2, <1>6, <1>8, <1>9, <1>10, <1>11, FastReturns

-----------------------------------------------------------------------------
(* The end of a call. *)

\* The next call begins with nothing done and nothing of its own down.
LEMMA EndsCalm ==
    ASSUME trail' = Fresh, held' = held, \A k \in held : k \in trail.stuck
    PROVE  TrailIs' /\ Calm' /\ Clean({}, FALSE)'
  <1>1. trail' = [touched |-> FALSE, pressed |-> {}, downs |-> 0, astray |-> 0, late |-> 0,
                  stuck |-> trail.stuck \cap held, drift |-> 0]
    BY DEF Fresh, NoTrail
  <1>2. TrailIs' /\ Calm'
    BY <1>1 DEF TrailIs, Calm
  <1>3. trail'.pressed = {} /\ trail'.stuck = trail.stuck \cap held
    BY <1>1
  <1> QED  BY <1>2, <1>3 DEF Clean

\* A fast call is over.
LEMMA ReturnedHolds ==
    ASSUME InputInv, Returned, guard' = guard
    PROVE  InputInv'
  <1>1. /\ call.pc = "return" /\ call' = NoCall /\ trail' = Fresh /\ cursor' = Home
        /\ held' = held /\ faults' = faults /\ act' = act /\ UNCHANGED world
    BY DEF Returned
  <1>2. fg' = fg /\ window' = window /\ desk' = desk /\ stops' = stops /\ popup' = popup
    BY <1>1 DEF world
  <1>3. /\ guard.pc = "idle" /\ act \in Activation /\ guard \in GuardRecord /\ WorldOK /\ WorldInv
        /\ faults \in Nat
    BY <1>1 DEF InputInv, OneCall, InputTypeOK, DeviceOK
  <1>4. /\ act.phase = "idle" /\ act.attached = {} /\ Clean(Due(call), Lost(call))
    BY <1>1 DEF InputInv, FastInv
  <1>5. Due(call) = {}
    BY <1>1 DEF Due, ModifierPcs, CountedPcs, DragPcs
  <1>6. \A k \in held : k \in trail.stuck
    BY <1>4, <1>5 DEF Clean
  <1>7. TrailIs' /\ Calm' /\ Clean({}, FALSE)'
    BY <1>1, <1>6, EndsCalm
  <1>8. NoCall \in CallRecord /\ NoCall.pc = "idle"
    <2>1. NoAttempt \in Attempt
      BY DEF NoAttempt, Attempt
    <2>2. "idle" \in CallPcs /\ "none" \in Statuses /\ "none" \in Sents
      BY DEF CallPcs, Statuses, Sents
    <2> QED  BY <2>1, <2>2 DEF NoCall, CallRecord
  <1>9. InputTypeOK'
    BY <1>1, <1>2, <1>3, <1>7, <1>8 DEF InputTypeOK, WorldOK, DeviceOK, Home
  <1>10. WorldInv'
    BY <1>1, <1>2, <1>3, <1>7 DEF WorldInv, Exact, Calm
  <1>11. FastInv'
    BY <1>1, <1>4, <1>8 DEF FastInv
  <1>12. OneCall' /\ IdleInv' /\ GuardInv'
    BY <1>1, <1>3, <1>7, <1>8 DEF OneCall, IdleInv, GuardInv
  <1> QED  BY <1>9, <1>10, <1>11, <1>12 DEF InputInv

\* Every step of the fast path.
LEMMA FastPathHolds ==
    ASSUME InputInv, FastPath
    PROVE  InputInv'
  <1>1. guard' = guard
    BY DEF FastPath
  <1>2. CASE Returned
    BY <1>1, <1>2, ReturnedHolds
  <1>3. CASE Activated \/ ForegroundStep
    <2>1. FastArrives
      BY <1>1, <1>3, ActivatedArrives, ClickPreflightArrives, ClickModifiersArrives,
         ClickTakeBackArrives, ClickBatchArrives, ClickEmergencyUpArrives, ClickModifiersUpArrives,
         ClickFinishArrives, KeysDownArrives, KeysHoldArrives, KeysUpArrives,
         KeySynthesizedArrives, CursorMovesArrives, SyntheticTouchArrives, DragSourceArrives,
         DragDownArrives, CombinedFenceArrives, CombinedBatchArrives, DragProbeArrives,
         DragFenceArrives, DragStepArrives, DragSlideArrives, DragUpArrives
      DEF ForegroundStep
    <2>2. call.pc # "idle"
      BY <1>3 DEF Activated, ForegroundStep, ClickPreflight, ClickModifiers, ClickTakeBack,
         ClickBatch, ClickEmergencyUp, ClickModifiersUp, ClickFinish, KeysDown, KeysHold, KeysUp,
         KeySynthesized, CursorMoves, SyntheticTouch, DragSource, DragDown, CombinedFence,
         CombinedBatch, DragProbe, DragFence, DragStep, DragSlide, DragUp
    <2>3. guard.pc = "idle"
      BY <2>2 DEF InputInv, OneCall
    <2> QED  BY <1>1, <2>1, <2>3, FastStepHolds
  <1> QED  BY <1>2, <1>3 DEF FastPath

-----------------------------------------------------------------------------
(* Disturbances. *)

\* Somebody else moves the cursor, and the history says so.
Pushed == \E d \in Int : cursor' = cursor + d /\ trail' = [trail EXCEPT !.drift = @ + d]

\* The world around a call changes; the books of the call do not.
LEMMA WorldMoves ==
    ASSUME InputInv, UNCHANGED <<act, call, guard, held>>, WorldOK',
           faults' \in Nat,
           \/ cursor' = cursor /\ trail' = trail
           \/ cursor' = cursor /\ trail' = [trail EXCEPT !.astray = 0]
           \/ Pushed,
           fg' = "ExactTarget" => window' = "ok",
           popup' = popup \/ (popup = "open" /\ popup' = "closed"),
           stops =< stops',
           ~Away' => trail'.astray = 0
    PROVE  InputInv'
  <1>1. /\ act' = act /\ call' = call /\ guard' = guard /\ held' = held
    OBVIOUS
  <1>2. /\ act \in Activation /\ call \in CallRecord /\ guard \in GuardRecord
        /\ WorldOK /\ TrailIs /\ cursor \in Int /\ WorldInv /\ OneCall /\ IdleInv /\ FastInv /\ GuardInv
    BY DEF InputInv, InputTypeOK, DeviceOK
  <1>3. /\ trail'.touched = trail.touched /\ trail'.pressed = trail.pressed
        /\ trail'.downs = trail.downs /\ trail'.late = trail.late /\ trail'.stuck = trail.stuck
        /\ trail'.astray = trail.astray \/ trail'.astray = 0
        /\ TrailIs' /\ cursor' \in Int /\ Brought' = Brought
    <2>1. CASE cursor' = cursor /\ (trail' = trail \/ trail' = [trail EXCEPT !.astray = 0])
      BY <1>2, <2>1 DEF TrailIs, Brought
    <2>2. CASE Pushed
      <3>1. PICK d \in Int : cursor' = cursor + d /\ trail' = [trail EXCEPT !.drift = @ + d]
        BY <2>2 DEF Pushed
      <3>2. PICK e \in Int : e = trail.drift + d
        BY <1>2 DEF TrailIs
      <3>3. trail' = [trail EXCEPT !.drift = e]
        BY <3>1, <3>2
      <3>4. /\ trail'.touched = trail.touched /\ trail'.pressed = trail.pressed
            /\ trail'.downs = trail.downs /\ trail'.late = trail.late /\ trail'.stuck = trail.stuck
            /\ trail'.astray = trail.astray /\ trail'.drift = e /\ TrailIs'
        BY <1>2, <3>3 DEF TrailIs
      <3>5. cursor' \in Int /\ Brought' = Brought
        <4>1. trail.drift \in Int
          BY <1>2 DEF TrailIs
        <4> QED  BY <1>2, <3>1, <3>2, <3>4, <4>1 DEF Brought
      <3> QED  BY <3>4, <3>5
    <2> QED  BY <2>1, <2>2
  <1>4. trail'.astray \in Nat /\ trail'.astray =< trail.astray
    BY <1>2, <1>3 DEF TrailIs
  <1>5. InputTypeOK'
    BY <1>1, <1>2, <1>3 DEF InputTypeOK, DeviceOK
  <1>6. OneCall'
    BY <1>1, <1>2 DEF OneCall
  <1>7. Calm => Calm'
    BY <1>3 DEF Calm
  <1>8. IdleInv'
    BY <1>1, <1>2, <1>3, <1>7 DEF IdleInv, Clean
  <1>9. WorldInv'
    BY <1>1, <1>2 DEF WorldInv, Exact
  <1>10. FastInv'
    <2>1. Backend' = Backend /\ Due(call)' = Due(call) /\ (Lost(call)' <=> Lost(call))
          /\ (Dropped' <=> Dropped)
      <3>1. Backend' = Backend
        BY <1>1, SameBackend
      <3> QED  BY <1>1, <1>3, <3>1 DEF Due, Lost, Dropped
    <2>2. act'.phase # "idle" <=> call'.pc = "activating"
      BY <1>1, <1>2 DEF FastInv
    <2>3. act'.phase # "focus" => act'.attached = {}
      BY <1>1, <1>2 DEF FastInv
    <2>4. ASSUME call.pc # "idle"
          PROVE  /\ Clean(Due(call), Lost(call))'
                 /\ FastShape' /\ FastStray' /\ FastResult' /\ FastDowns'
      <3>1. Clean(Due(call), Lost(call)) /\ FastShape /\ FastStray /\ FastResult /\ FastDowns
        BY <1>2, <2>4 DEF FastInv
      <3>2. Clean(Due(call), Lost(call))'
        BY <1>1, <1>3, <2>1, <3>1 DEF Clean
      <3>3. FastShape'
        BY <1>1, <1>7, <2>1, <3>1 DEF FastShape
      <3>4. FastStray'
        <4>1. trail.astray \in Nat
          BY <1>2 DEF TrailIs
        <4> QED  BY <1>1, <1>4, <2>1, <3>1, <4>1 DEF FastStray
      <3>5. FastResult' /\ FastDowns'
        BY <1>1, <1>3, <2>1, <3>1 DEF FastResult, FastDowns
      <3> QED  BY <3>2, <3>3, <3>4, <3>5
    <2> QED  BY <1>1, <2>2, <2>3, <2>4 DEF FastInv
  <1>11. GuardInv'
    <2> SUFFICES ASSUME guard.pc # "idle"
                 PROVE  /\ Clean(OwedKeys(guard), guard.failed)'
                        /\ GuardShape' /\ GuardStray' /\ GuardResult' /\ GuardDowns'
      BY <1>1 DEF GuardInv
    <2>1. /\ Clean(OwedKeys(guard), guard.failed)
          /\ GuardShape /\ GuardStray /\ GuardResult /\ GuardDowns
      BY <1>2 DEF GuardInv
    <2>2. OwedKeys(guard)' = OwedKeys(guard)
      BY <1>1
    <2>3. Clean(OwedKeys(guard), guard.failed)'
      BY <1>1, <1>3, <2>1, <2>2 DEF Clean
    <2>4. GuardShape'
      BY <1>1, <1>7, <2>1 DEF GuardShape
    <2>5. GuardStray'
      <3>1. stops \in Nat /\ stops' \in Nat /\ guard.gen \in Nat /\ trail.late \in Nat
            /\ trail.astray \in Nat
        BY <1>2 DEF WorldOK, GuardRecord, TrailIs
      <3> QED  BY <1>1, <1>3, <1>4, <2>1, <3>1 DEF GuardStray
    <2>6. GuardResult' /\ GuardDowns'
      BY <1>1, <1>3, <2>1 DEF GuardResult, GuardDowns
    <2> QED  BY <2>3, <2>4, <2>5, <2>6
  <1> QED  BY <1>5, <1>6, <1>8, <1>9, <1>10, <1>11 DEF InputInv

\* Other programs, the user and the system.
LEMMA DisturbsHolds ==
    ASSUME InputInv, Disturbs
    PROVE  InputInv'
  <1>1. UNCHANGED <<act, call, guard>>
    BY DEF Disturbs
  <1>2. /\ WorldOK /\ WorldInv /\ faults \in Nat /\ TrailIs
        /\ fg \in Relations /\ window \in WindowStates /\ desk \in BOOLEAN /\ stops \in Nat
        /\ popup \in {"none", "open", "closed"}
        /\ (fg = "ExactTarget" => window = "ok") /\ (~Away => trail.astray = 0)
    BY DEF InputInv, InputTypeOK, DeviceOK, WorldOK, WorldInv, Exact
  <1>3. Absence => /\ trail' = trail \/ (trail' = [trail EXCEPT !.astray = 0]
                                         /\ fg' = "ExactTarget" /\ window' = "ok")
                   /\ ~Away' => trail'.astray = 0
    <2> SUFFICES ASSUME Absence
                 PROVE  /\ trail' = trail \/ (trail' = [trail EXCEPT !.astray = 0]
                                              /\ fg' = "ExactTarget" /\ window' = "ok")
                        /\ ~Away' => trail'.astray = 0
      OBVIOUS
    <2>1. trail' = IF fg' = "ExactTarget" /\ window' = "ok" THEN [trail EXCEPT !.astray = 0] ELSE trail
      BY DEF Absence
    <2>2. ~Away' => fg' = "ExactTarget" /\ window' = "ok"
      BY DEF Away
    <2> QED  BY <1>2, <2>1, <2>2 DEF TrailIs
  <1>4. CASE FocusChanges
    <2>1. /\ faults' = faults - 1 /\ faults > 0 /\ window' = window /\ Absence
          /\ UNCHANGED <<desk, stops, popup, held, cursor>>
          /\ fg' \in Relations /\ (fg' = "ExactTarget" => window = "ok")
      BY <1>4 DEF FocusChanges
    <2>2. WorldOK' /\ faults' \in Nat /\ stops =< stops'
      BY <1>2, <2>1 DEF WorldOK
    <2> QED  BY <1>1, <1>3, <2>1, <2>2, WorldMoves
  <1>5. CASE WindowChanges
    <2>1. /\ faults' = faults - 1 /\ faults > 0 /\ Absence
          /\ UNCHANGED <<desk, stops, popup, held, cursor>>
          /\ window' \in WindowStates /\ fg' \in Relations
          /\ (fg' = "ExactTarget" => window' = "ok")
      BY <1>2, <1>5 DEF WindowChanges, Exact
    <2>2. WorldOK' /\ faults' \in Nat /\ stops =< stops'
      BY <1>2, <2>1 DEF WorldOK
    <2> QED  BY <1>1, <1>3, <2>1, <2>2, WorldMoves
  <1>6. CASE DesktopChanges
    <2>1. /\ faults' = faults - 1 /\ faults > 0 /\ desk' = ~desk
          /\ UNCHANGED <<fg, window, stops, popup, held, cursor, trail>>
      BY <1>6 DEF DesktopChanges, device
    <2>2. WorldOK' /\ faults' \in Nat /\ stops =< stops'
      BY <1>2, <2>1 DEF WorldOK
    <2>3. ~Away' => trail'.astray = 0
      BY <1>2, <2>1 DEF Away
    <2> QED  BY <1>1, <1>2, <2>1, <2>2, <2>3, WorldMoves
  <1>7. CASE UserStops
    <2>1. /\ faults' = faults - 1 /\ faults > 0 /\ stops' = stops + 1
          /\ UNCHANGED <<fg, window, desk, popup, held, cursor, trail>>
      BY <1>7 DEF UserStops, device
    <2>2. WorldOK' /\ faults' \in Nat /\ stops =< stops'
      BY <1>2, <2>1 DEF WorldOK
    <2>3. ~Away' => trail'.astray = 0
      BY <1>2, <2>1 DEF Away
    <2> QED  BY <1>1, <1>2, <2>1, <2>2, <2>3, WorldMoves
  <1>8. CASE CursorNudged
    <2>1. PICK d \in Nudges : cursor' = cursor + d /\ trail' = [trail EXCEPT !.drift = @ + d]
      BY <1>8 DEF CursorNudged
    <2>2. Pushed
      BY <2>1, NudgesAssumption DEF Pushed
    <2>3. /\ faults' = faults - 1 /\ faults > 0
          /\ UNCHANGED <<fg, window, desk, stops, popup, held>>
      BY <1>8 DEF CursorNudged, world
    <2>4. WorldOK' /\ faults' \in Nat /\ stops =< stops'
      BY <1>2, <2>3 DEF WorldOK
    <2>5. trail'.astray = trail.astray
      BY <1>2, <2>1 DEF TrailIs
    <2>6. ~Away' => trail'.astray = 0
      BY <1>2, <2>3, <2>5 DEF Away
    <2> QED  BY <1>1, <1>2, <2>2, <2>3, <2>4, <2>6, WorldMoves
  <1>9. CASE PopupCloses
    <2>1. /\ popup = "open" /\ popup' = "closed"
          /\ UNCHANGED <<fg, window, desk, stops, held, cursor, trail, faults>>
      BY <1>9 DEF PopupCloses, device
    <2>2. WorldOK' /\ faults' \in Nat /\ stops =< stops'
      BY <1>2, <2>1 DEF WorldOK
    <2>3. ~Away' => trail'.astray = 0
      BY <1>2, <2>1 DEF Away
    <2> QED  BY <1>1, <1>2, <2>1, <2>2, <2>3, WorldMoves
  <1> QED  BY <1>4, <1>5, <1>6, <1>7, <1>8, <1>9 DEF Disturbs, Disturbance

-----------------------------------------------------------------------------
(* The books of a guarded transaction. *)

\* A set of numbers has a least one.
LEMMA LeastNumber ==
    ASSUME NEW T, T \subseteq Nat, T # {}
    PROVE  \E x \in T : \A y \in T : x =< y
  <1>1. PICK R : R = OpToRel(<, Nat)
    OBVIOUS
  <1>2. IsWellFoundedOn(R, Nat)
    BY <1>1, NatLessThanWellFounded
  <1>3. \A x \in Nat, y \in Nat : <<y, x>> \in R <=> y < x
    BY <1>1 DEF OpToRel
  <1>4. PICK x \in T : \A y \in T : ~(<<y, x>> \in R)
    BY <1>2, WFMin
  <1>5. ASSUME NEW y \in T PROVE x =< y
    <2>1. x \in Nat /\ y \in Nat /\ ~(y < x)
      BY <1>3, <1>4
    <2> QED  BY <2>1
  <1> QED  BY <1>5

\* The latest release like e is one of them.
LEMMA LastOwedIs ==
    ASSUME NEW owed \in Seq(InputEvents), NEW e, e \in Range(owed)
    PROVE  LastOwed(owed, e) \in 1 .. Len(owed) /\ owed[LastOwed(owed, e)] = e
  <1>1. DOMAIN owed = 1 .. Len(owed) /\ Len(owed) \in Nat
    OBVIOUS
  <1>2. PICK j0 \in 1 .. Len(owed) : owed[j0] = e
    BY <1>1 DEF Range
  <1>3. PICK T : T = {m \in Nat : \E j \in 1 .. Len(owed) : owed[j] = e /\ m = Len(owed) - j}
    OBVIOUS
  <1>4. T # {} /\ T \subseteq Nat
    <2>1. Len(owed) - j0 \in T
      BY <1>1, <1>2, <1>3
    <2> QED  BY <1>3, <2>1
  <1>5. PICK x \in T : \A y \in T : x =< y
    BY <1>4, LeastNumber
  <1>6. PICK j \in 1 .. Len(owed) : owed[j] = e /\ x = Len(owed) - j
    BY <1>3
  <1>7. \A k \in DOMAIN owed : owed[k] = e => k =< j
    <2> SUFFICES ASSUME NEW k \in 1 .. Len(owed), owed[k] = e PROVE k =< j
      BY <1>1
    <2>1. Len(owed) - k \in T
      <3>1. Len(owed) - k \in Nat
        BY <1>1
      <3> QED  BY <1>3, <3>1
    <2>2. x =< Len(owed) - k
      BY <1>5, <2>1
    <2> QED  BY <1>1, <1>6, <2>2
  <1>8. \E i \in DOMAIN owed : owed[i] = e /\ \A k \in DOMAIN owed : owed[k] = e => k =< i
    BY <1>1, <1>6, <1>7
  <1> QED  BY <1>1, <1>8 DEF LastOwed

\* A sequence without its element at m.
LEMMA WithoutOne ==
    ASSUME NEW S, NEW s \in Seq(S), NEW m \in 1 .. Len(s)
    PROVE  /\ RemoveAt(s, m) \in Seq(S) /\ Len(RemoveAt(s, m)) = Len(s) - 1
           /\ \A a \in 1 .. Len(s) - 1 : RemoveAt(s, m)[a] = IF a < m THEN s[a] ELSE s[a + 1]
  <1>1. PICK l \in Nat : m = l + 1 /\ l =< Len(s)
    <2>1. m - 1 \in Nat /\ m = (m - 1) + 1
      OBVIOUS
    <2> QED  BY <2>1
  <1>2. PICK u : u = SubSeq(s, 1, l)
    OBVIOUS
  <1>3. PICK v : v = SubSeq(s, m + 1, Len(s))
    OBVIOUS
  <1>4. u \in Seq(S) /\ Len(u) = l /\ \A a \in 1 .. l : u[a] = s[a]
    <2>1. l \in 0 .. Len(s)
      BY <1>1
    <2> QED  BY <1>2, <2>1, CutBatch
  <1>5. v \in Seq(S) /\ Len(v) = Len(s) - m /\ \A a \in 1 .. Len(s) - m : v[a] = s[m + a]
    <2>1. m \in 0 .. Len(s)
      OBVIOUS
    <2> QED  BY <1>3, <2>1, CutBatch
  <1>6. RemoveAt(s, m) = u \o v
    <2>1. m - 1 = l
      BY <1>1
    <2> QED  BY <1>2, <1>3, <2>1 DEF RemoveAt
  <1>7. u \o v \in Seq(S) /\ Len(u \o v) = Len(s) - 1
    BY <1>1, <1>4, <1>5
  <1>8. ASSUME NEW a \in 1 .. Len(s) - 1 PROVE (u \o v)[a] = IF a < m THEN s[a] ELSE s[a + 1]
    <2>1. CASE a < m
      <3>1. a \in 1 .. l
        BY <1>1, <2>1
      <3>2. (u \o v)[a] = u[a]
        BY <1>4, <1>5, <3>1
      <3> QED  BY <1>4, <2>1, <3>1, <3>2
    <2>2. CASE ~(a < m)
      <3>1. PICK b \in 1 .. Len(s) - m : a = l + b
        <4>1. a - l \in 1 .. Len(s) - m /\ a = l + (a - l)
          BY <1>1, <2>2
        <4> QED  BY <4>1
      <3>2. (u \o v)[a] = v[b]
        BY <1>4, <1>5, <3>1
      <3>3. v[b] = s[m + b] /\ m + b = a + 1
        BY <1>1, <1>5, <3>1
      <3> QED  BY <2>2, <3>2, <3>3
    <2> QED  BY <2>1, <2>2
  <1> QED  BY <1>6, <1>7, <1>8

\* Removing an element keeps every other one.
LEMMA OthersStay ==
    ASSUME NEW S, NEW s \in Seq(S), NEW m \in 1 .. Len(s), NEW p \in 1 .. Len(s), s[p] # s[m]
    PROVE  \E a \in 1 .. Len(RemoveAt(s, m)) : RemoveAt(s, m)[a] = s[p]
  <1>1. /\ Len(RemoveAt(s, m)) = Len(s) - 1
        /\ \A a \in 1 .. Len(s) - 1 : RemoveAt(s, m)[a] = IF a < m THEN s[a] ELSE s[a + 1]
    BY WithoutOne
  <1>2. CASE p < m
    <2>1. p \in 1 .. Len(s) - 1
      BY <1>2
    <2> QED  BY <1>1, <1>2, <2>1
  <1>3. CASE p > m
    <2>1. PICK a \in 1 .. Len(s) - 1 : p = a + 1
      <3>1. p - 1 \in 1 .. Len(s) - 1 /\ p = (p - 1) + 1
        BY <1>3
      <3> QED  BY <3>1
    <2>2. ~(a < m)
      BY <1>3, <2>1
    <2>3. RemoveAt(s, m)[a] = s[a + 1]
      BY <1>1, <2>2
    <2> QED  BY <1>1, <2>1, <2>3
  <1> QED  BY <1>2, <1>3

\* One round of the loop over the inserted events.
LEMMA OwesKeeps ==
    ASSUME NEW owed \in Seq(InputEvents), \A j \in DOMAIN owed : owed[j][1] = "up",
           NEW e \in InputEvents, NEW next, next = Owes(owed, e)
    PROVE  /\ next \in Seq(InputEvents) /\ (\A j \in DOMAIN next : next[j][1] = "up")
           /\ \A k : IsDown(e, k) => k \in Lifted(next)
           /\ \A k \in Lifted(owed) : IsUp(e, k) \/ k \in Lifted(next)
  <1>1. DOMAIN owed = 1 .. Len(owed)
    OBVIOUS
  <1>2. CASE e[1] = "down"
    <2>1. e[2] \in Names
      BY <1>2 DEF InputEvents
    <2>2. PICK u \in InputEvents : u = Up(e[2]) /\ u[1] = "up" /\ u[2] = e[2]
      BY <2>1, EventKinds
    <2>3. next = Append(owed, u)
      BY <1>2, <2>2 DEF Owes
    <2>4. /\ next \in Seq(InputEvents) /\ DOMAIN next = 1 .. Len(owed) + 1
          /\ next[Len(owed) + 1] = u /\ \A j \in 1 .. Len(owed) : next[j] = owed[j]
      BY <2>3
    <2>5. \A j \in DOMAIN next : next[j][1] = "up"
      <3> SUFFICES ASSUME NEW j \in 1 .. Len(owed) + 1 PROVE next[j][1] = "up"
        BY <2>4
      <3>1. j \in 1 .. Len(owed) \/ j = Len(owed) + 1
        OBVIOUS
      <3> QED  BY <1>1, <2>2, <2>4, <3>1
    <2>6. \A k : IsDown(e, k) => k \in Lifted(next)
      <3>1. Len(owed) + 1 \in DOMAIN next
        BY <2>4
      <3> QED  BY <2>2, <2>4, <3>1 DEF IsDown, Lifted
    <2>7. \A k \in Lifted(owed) : k \in Lifted(next)
      <3> SUFFICES ASSUME NEW k \in Lifted(owed) PROVE k \in Lifted(next)
        OBVIOUS
      <3>1. PICK j \in 1 .. Len(owed) : owed[j][1] = "up" /\ owed[j][2] = k
        BY <1>1 DEF Lifted
      <3>2. j \in DOMAIN next /\ next[j] = owed[j]
        BY <2>4
      <3> QED  BY <3>1, <3>2 DEF Lifted
    <2> QED  BY <2>4, <2>5, <2>6, <2>7
  <1>3. CASE e[1] = "up" /\ e \in Range(owed)
    <2>1. PICK m \in 1 .. Len(owed) : m = LastOwed(owed, e) /\ owed[m] = e
      BY <1>3, LastOwedIs
    <2>2. next = RemoveAt(owed, m)
      BY <1>3, <2>1 DEF Owes
    <2>3. /\ next \in Seq(InputEvents) /\ Len(next) = Len(owed) - 1
          /\ \A a \in 1 .. Len(owed) - 1 : next[a] = IF a < m THEN owed[a] ELSE owed[a + 1]
      BY <2>2, WithoutOne
    <2>4. \A j \in DOMAIN next : next[j][1] = "up"
      <3> SUFFICES ASSUME NEW j \in 1 .. Len(owed) - 1 PROVE next[j][1] = "up"
        BY <2>3
      <3>1. j \in DOMAIN owed /\ j + 1 \in DOMAIN owed
        BY <1>1
      <3> QED  BY <2>3, <3>1
    <2>5. \A k : ~IsDown(e, k)
      BY <1>3 DEF IsDown
    <2>6. ASSUME NEW k \in Lifted(owed), ~IsUp(e, k) PROVE k \in Lifted(next)
      <3>1. PICK p \in 1 .. Len(owed) : owed[p][1] = "up" /\ owed[p][2] = k
        BY <1>1 DEF Lifted
      <3>2. owed[p] # owed[m]
        BY <2>1, <2>6, <3>1 DEF IsUp
      <3>3. PICK a \in 1 .. Len(RemoveAt(owed, m)) : RemoveAt(owed, m)[a] = owed[p]
        BY <3>2, OthersStay
      <3>4. a \in DOMAIN next /\ next[a] = owed[p]
        BY <2>2, <2>3, <3>3
      <3> QED  BY <3>1, <3>4 DEF Lifted
    <2> QED  BY <2>3, <2>4, <2>5, <2>6
  <1>4. CASE e[1] # "down" /\ ~(e[1] = "up" /\ e \in Range(owed))
    <2>1. next = owed
      BY <1>4 DEF Owes
    <2> QED  BY <1>4, <2>1 DEF IsDown
  <1> QED  BY <1>2, <1>3, <1>4

-----------------------------------------------------------------------------
(* The steps of a guarded operation. *)

ScriptStep == [op : {"look", "cursor", "batch"}, events : Seq(InputEvents)]

ButtonDown(e) == e[1] = "down" /\ e[2] \in Buttons

\* Events without a button press, and with at most the one at c.
NoPress(events) == \A a \in DOMAIN events : ~ButtonDown(events[a])
OnePress(events) ==
    \E c \in DOMAIN events : \A a \in DOMAIN events : ButtonDown(events[a]) => a = c

\* Step s of request r presses no button that the budget does not hold.
StepFits(r, i, s) ==
    NoPress(s.events) \/ (OnePress(s.events) /\ PressBudget(r, i + 1) = PressBudget(r, i) + 1)

\* An element of two sequences put together.
LEMMA Joined ==
    ASSUME NEW S, NEW u \in Seq(S), NEW v \in Seq(S), NEW s, s = u \o v, NEW i \in 1 .. Len(s)
    PROVE  \/ i \in 1 .. Len(u) /\ s[i] = u[i]
           \/ \E j \in 1 .. Len(v) : i = Len(u) + j /\ s[i] = v[j]
  <1>1. Len(u \o v) = Len(u) + Len(v) /\ Len(u) \in Nat /\ Len(v) \in Nat
    OBVIOUS
  <1>2. CASE i =< Len(u)
    <2>1. i \in 1 .. Len(u)
      BY <1>1, <1>2
    <2> QED  BY <1>1, <2>1
  <1>3. CASE ~(i =< Len(u))
    <2>1. PICK j \in 1 .. Len(v) : i = Len(u) + j
      <3>1. i - Len(u) \in 1 .. Len(v) /\ i = Len(u) + (i - Len(u))
        BY <1>1, <1>3
      <3> QED  BY <3>1
    <2>2. (u \o v)[i] = v[j]
      BY <1>1, <2>1
    <2> QED  BY <2>1, <2>2
  <1> QED  BY <1>2, <1>3

\* The same of two parts of a script, for each step of it.
LEMMA JoinedSteps ==
    ASSUME NEW u \in Seq(ScriptStep), NEW v \in Seq(ScriptStep)
    PROVE  \A i \in 1 .. Len(u \o v) :
              \/ i \in 1 .. Len(u) /\ (u \o v)[i] = u[i]
              \/ \E j \in 1 .. Len(v) : i = Len(u) + j /\ (u \o v)[i] = v[j]
  <1>1. PICK s : s = u \o v
    OBVIOUS
  <1>2. ASSUME NEW i \in 1 .. Len(s)
        PROVE  \/ i \in 1 .. Len(u) /\ s[i] = u[i]
               \/ \E j \in 1 .. Len(v) : i = Len(u) + j /\ s[i] = v[j]
    BY <1>1, Joined
  <1> QED  BY <1>1, <1>2

\* The button presses the script may have made only become more, and a request
\* never allows more than its clicks.
LEMMA BudgetGrows ==
    ASSUME NEW r \in GuardedRequest, NEW i \in Nat
    PROVE  /\ PressBudget(r, i) \in Nat /\ PressBudget(r, i + 1) \in Nat
           /\ PressBudget(r, i) =< PressBudget(r, i + 1)
           /\ i = 1 => PressBudget(r, i) = 0
  <1>1. r.points \in Nat /\ FirstClick(r) \in {2, 3}
    BY DEF GuardedRequest, FirstClick
  <1>2. CASE r.kind = "click"
    BY <1>1, <1>2 DEF PressBudget
  <1>3. CASE r.kind = "drag"
    BY <1>1, <1>3 DEF PressBudget
  <1>4. CASE r.kind # "click" /\ r.kind # "drag"
    BY <1>4 DEF PressBudget
  <1> QED  BY <1>2, <1>3, <1>4

\* The kinds of steps.
LEMMA StepKinds ==
    /\ Look \in ScriptStep /\ SetCursor \in ScriptStep
    /\ NoPress(Look.events) /\ NoPress(SetCursor.events)
    /\ \A ev \in Seq(InputEvents) : Batch(ev) \in ScriptStep /\ Batch(ev).events = ev
  BY DEF Look, SetCursor, Batch, ScriptStep, NoPress

\* A step without a press fits everywhere.
LEMMA QuietFits ==
    ASSUME NEW r, NEW i, NEW s, NoPress(s.events)
    PROVE  StepFits(r, i, s)
  BY DEF StepFits

\* The batch of the keys of a request.
LEMMA DownsQuiet ==
    ASSUME NEW ks \in Seq(KeyNames)
    PROVE  Downs(ks) \in Seq(InputEvents) /\ NoPress(Downs(ks)) /\ Len(Downs(ks)) = Len(ks)
  <1>1. PICK ds : ds = Downs(ks)
    OBVIOUS
  <1>2. ds = [j \in DOMAIN ks |-> Down(ks[j])]
    BY <1>1 DEF Downs
  <1>3. /\ ds \in Seq(InputEvents) /\ Len(ds) = Len(ks)
        /\ \A a \in 1 .. Len(ks) : ds[a][1] = "down" /\ ds[a][2] = ks[a] /\ ks[a] \notin Buttons
    BY <1>2, DownsShape
  <1>4. NoPress(ds)
    <2>1. DOMAIN ds = 1 .. Len(ks)
      BY <1>3
    <2> QED  BY <1>3, <2>1 DEF NoPress, ButtonDown
  <1> QED  BY <1>1, <1>3, <1>4

\* The releases of the keys of a request.
LEMMA UpsQuiet ==
    ASSUME NEW ks \in Seq(KeyNames)
    PROVE  UpsOf(ks) \in Seq(InputEvents) /\ NoPress(UpsOf(ks))
  <1>1. PICK us : us = UpsOf(ks)
    OBVIOUS
  <1>2. us = Ups(ks)
    BY <1>1 DEF UpsOf, Ups
  <1>3. /\ us \in Seq(InputEvents) /\ Len(us) = Len(ks)
        /\ \A a \in 1 .. Len(ks) : us[a][1] = "up"
    BY <1>2, UpsShape
  <1>4. NoPress(us)
    <2>1. DOMAIN us = 1 .. Len(ks)
      BY <1>3
    <2> QED  BY <1>3, <2>1 DEF NoPress, ButtonDown
  <1> QED  BY <1>1, <1>3, <1>4

\* A single event in a batch of its own.
LEMMA SingleFits ==
    ASSUME NEW e \in InputEvents
    PROVE  /\ <<e>> \in Seq(InputEvents)
           /\ OnePress(<<e>>)
           /\ ~ButtonDown(e) => NoPress(<<e>>)
  <1>1. PICK ev : ev = <<e>>
    OBVIOUS
  <1>2. ev \in Seq(InputEvents) /\ DOMAIN ev = 1 .. 1 /\ ev[1] = e
    BY <1>1, SingleEvent
  <1>3. 1 \in DOMAIN ev /\ \A a \in DOMAIN ev : a = 1
    BY <1>2
  <1>4. OnePress(ev) /\ (~ButtonDown(e) => NoPress(ev))
    BY <1>2, <1>3 DEF OnePress, NoPress
  <1> QED  BY <1>1, <1>2, <1>4

\* A click: the cursor, the modifiers, the presses.
LEMMA ClickScriptFits ==
    ASSUME NEW r \in GuardedRequest, r.kind = "click", NEW sc, sc = ClickScript(r)
    PROVE  /\ sc \in Seq(ScriptStep) /\ Len(sc) > 0
           /\ \A i \in 1 .. Len(sc) : StepFits(r, i, sc[i]) /\ PressBudget(r, i + 1) =< r.clicks
  <1>1. /\ r.keys \in Seq(KeyNames) /\ r.clicks \in Nat /\ r.button \in Names
    BY DEF GuardedRequest, Names
  <1>2. PICK f \in {2, 3} : f = FirstClick(r)
    BY DEF FirstClick
  <1>3. PICK mods : mods = IF r.keys = <<>> THEN <<>> ELSE <<Batch(Downs(r.keys))>>
    OBVIOUS
  <1>4. mods \in Seq(ScriptStep) /\ Len(mods) = f - 2 /\ \A a \in 1 .. Len(mods) : NoPress(mods[a].events)
    <2>1. PICK bd \in ScriptStep : bd = Batch(Downs(r.keys)) /\ NoPress(bd.events)
      BY <1>1, DownsQuiet, StepKinds
    <2>2. CASE r.keys = <<>>
      <3>1. mods = <<>> /\ f = 2
        BY <1>2, <1>3, <2>2 DEF FirstClick
      <3> QED  BY <3>1
    <2>3. CASE r.keys # <<>>
      <3>1. mods = <<bd>> /\ f = 3
        BY <1>2, <1>3, <2>1, <2>3 DEF FirstClick
      <3>2. mods \in Seq(ScriptStep) /\ Len(mods) = 1 /\ mods[1] = bd
        BY <3>1
      <3> QED  BY <2>1, <3>1, <3>2
    <2> QED  BY <2>2, <2>3
  <1>5. PICK pre : pre = <<SetCursor>> \o mods
    OBVIOUS
  <1>6. /\ pre \in Seq(ScriptStep) /\ Len(pre) = f - 1
        /\ \A a \in 1 .. Len(pre) : NoPress(pre[a].events)
    <2>1. PICK cur : cur = <<SetCursor>>
      OBVIOUS
    <2>2. cur \in Seq(ScriptStep) /\ Len(cur) = 1 /\ cur[1] = SetCursor
      BY <2>1, StepKinds
    <2>3. pre = cur \o mods
      BY <1>5, <2>1
    <2>4. pre \in Seq(ScriptStep) /\ Len(pre) = f - 1
      <3>0. mods \in Seq(ScriptStep) /\ cur \in Seq(ScriptStep)
        BY <1>4, <2>2
      <3>1. pre \in Seq(ScriptStep) /\ Len(pre) = Len(cur) + Len(mods)
        BY <2>3, <3>0
      <3> QED  BY <1>4, <2>2, <3>1
    <2> HIDE <2>1, <1>5, <1>3
    <2>5. ASSUME NEW a \in 1 .. Len(pre) PROVE NoPress(pre[a].events)
      <3>1. \/ a \in 1 .. Len(cur) /\ pre[a] = cur[a]
            \/ \E j \in 1 .. Len(mods) : a = Len(cur) + j /\ pre[a] = mods[j]
        <4>1. mods \in Seq(ScriptStep) /\ cur \in Seq(ScriptStep)
          BY <1>4, <2>2
        <4>2. \A i \in 1 .. Len(cur \o mods) :
                 \/ i \in 1 .. Len(cur) /\ (cur \o mods)[i] = cur[i]
                 \/ \E j \in 1 .. Len(mods) : i = Len(cur) + j /\ (cur \o mods)[i] = mods[j]
          BY <4>1, JoinedSteps, Zenon
        <4> QED  BY <2>3, <4>2, Zenon
      <3> QED  BY <1>4, <2>2, <3>1, StepKinds
    <2> QED  BY <2>4, <2>5
  <1>7. PICK press : press = <<Move(Spot), Down(r.button), Up(r.button)>>
    OBVIOUS
  <1>8. press \in Seq(InputEvents) /\ OnePress(press)
    <2>1. /\ press \in Seq(InputEvents) /\ Len(press) = 3
          /\ press[1][1] = "move"
          /\ press[2][1] = "down" /\ press[2][2] = r.button
          /\ press[3][1] = "up" /\ press[3][2] = r.button
      BY <1>1, <1>7, ClickEvents DEF Spot
    <2> HIDE <1>7
    <2>2. \A a \in 1 .. 3 : ButtonDown(press[a]) => a = 2
      <3> SUFFICES ASSUME NEW a \in 1 .. 3, ButtonDown(press[a]) PROVE a = 2
        OBVIOUS
      <3>1. a \in {1, 2, 3}
        OBVIOUS
      <3> QED  BY <2>1, <3>1 DEF ButtonDown
    <2>3. DOMAIN press = 1 .. 3 /\ 2 \in 1 .. 3
      BY <2>1
    <2> QED  BY <2>1, <2>2, <2>3 DEF OnePress
  <1>9. PICK one \in ScriptStep : one = Batch(press) /\ one.events = press
    BY <1>8, StepKinds
  <1>10. PICK post : post = [c \in 1 .. r.clicks |-> one]
    OBVIOUS
  <1>11. /\ post \in Seq(ScriptStep) /\ Len(post) = r.clicks
         /\ \A a \in 1 .. r.clicks : post[a] = one
    BY <1>1, <1>10
  <1>12. sc = pre \o post
    BY <1>3, <1>5, <1>7, <1>9, <1>10 DEF ClickScript
  <1>13. sc \in Seq(ScriptStep) /\ Len(sc) = f - 1 + r.clicks
    BY <1>1, <1>6, <1>11, <1>12
  <1> HIDE <1>3, <1>5, <1>7, <1>10
  <1>14. ASSUME NEW i \in 1 .. Len(sc)
         PROVE  StepFits(r, i, sc[i]) /\ PressBudget(r, i + 1) =< r.clicks
    <2>1. PressBudget(r, i + 1) =< r.clicks
      BY <1>1, <1>2, <1>13 DEF PressBudget
    <2>2. \/ i \in 1 .. Len(pre) /\ sc[i] = pre[i]
          \/ \E j \in 1 .. Len(post) : i = Len(pre) + j /\ sc[i] = post[j]
      <3>1. pre \in Seq(ScriptStep) /\ post \in Seq(ScriptStep)
        BY <1>6, <1>11
      <3>2. \A a \in 1 .. Len(pre \o post) :
               \/ a \in 1 .. Len(pre) /\ (pre \o post)[a] = pre[a]
               \/ \E j \in 1 .. Len(post) : a = Len(pre) + j /\ (pre \o post)[a] = post[j]
        BY <3>1, JoinedSteps, Zenon
      <3> QED  BY <1>12, <3>2, Zenon
    <2>3. CASE i \in 1 .. Len(pre) /\ sc[i] = pre[i]
      BY <1>6, <2>1, <2>3, QuietFits
    <2>4. CASE \E j \in 1 .. Len(post) : i = Len(pre) + j /\ sc[i] = post[j]
      <3>1. sc[i] = one /\ i >= f
        BY <1>2, <1>6, <1>11, <2>4
      <3>2. PressBudget(r, i + 1) = PressBudget(r, i) + 1
        BY <1>2, <3>1 DEF PressBudget
      <3> QED  BY <1>8, <1>9, <2>1, <3>1, <3>2 DEF StepFits
    <2> QED  BY <2>2, <2>3, <2>4
  <1> QED  BY <1>1, <1>2, <1>13, <1>14

\* A drag: the looks, the press, the way, the release.
LEMMA DragScriptFits ==
    ASSUME NEW r \in GuardedRequest, r.kind = "drag", r.clicks > 0, NEW sc, sc = DragScript(r)
    PROVE  /\ sc \in Seq(ScriptStep) /\ Len(sc) > 0
           /\ \A i \in 1 .. Len(sc) : StepFits(r, i, sc[i]) /\ PressBudget(r, i + 1) =< r.clicks
  <1>1. /\ r.points \in Nat /\ r.clicks \in Nat /\ r.button \in Names
    BY DEF GuardedRequest, Names
  <1>2. Look \in ScriptStep /\ NoPress(Look.events) /\ SetCursor \in ScriptStep /\ NoPress(SetCursor.events)
    BY StepKinds
  <1>3. PICK looks : looks = [p \in 1 .. r.points |-> Look]
    OBVIOUS
  <1>4. looks \in Seq(ScriptStep) /\ Len(looks) = r.points
    BY <1>1, <1>2, <1>3
  <1>5. \A a \in 1 .. r.points : looks[a] = Look
    BY <1>3
  <1>6. PICK down \in ScriptStep : down = Batch(<<Down(r.button)>>) /\ OnePress(down.events)
    <2>1. Down(r.button) \in InputEvents
      BY <1>1, EventKinds
    <2>2. PICK ev \in Seq(InputEvents) : ev = <<Down(r.button)>> /\ OnePress(ev)
      BY <2>1, SingleFits
    <2> QED  BY <2>2, StepKinds
  <1>7. PICK start : start = <<SetCursor, down>>
    OBVIOUS
  <1>8. start \in Seq(ScriptStep) /\ Len(start) = 2 /\ start[1] = SetCursor /\ start[2] = down
    BY <1>2, <1>7
  <1>9. PICK q \in Nat : 1 .. q = 1 .. 2 * (r.points - 1)
    <2>1. CASE r.points = 0
      <3>1. 1 .. 0 = 1 .. 2 * (r.points - 1)
        BY <2>1
      <3> QED  BY <3>1
    <2>2. CASE r.points > 0
      <3>1. 2 * (r.points - 1) \in Nat
        BY <1>1, <2>2
      <3> QED  BY <3>1
    <2> QED  BY <1>1, <2>1, <2>2
  <1>10. PICK way : way = [p \in 1 .. q |-> IF p % 2 = 1 THEN Look ELSE Batch(<<Move(Spot + p \div 2)>>)]
    OBVIOUS
  <1>11. ASSUME NEW p \in 1 .. q PROVE way[p] \in ScriptStep /\ NoPress(way[p].events)
    <2>1. way[p] = IF p % 2 = 1 THEN Look ELSE Batch(<<Move(Spot + p \div 2)>>)
      BY <1>10
    <2>2. PICK x \in Int : x = Spot + p \div 2
      <3>1. p \div 2 \in Int
        BY QuotientIsInt
      <3> QED  BY <3>1 DEF Spot
    <2>3. Move(x) \in InputEvents /\ ~ButtonDown(Move(x))
      BY EventKinds DEF ButtonDown
    <2>4. PICK ev \in Seq(InputEvents) : ev = <<Move(x)>> /\ NoPress(ev)
      BY <2>3, SingleFits
    <2>5. Batch(ev) \in ScriptStep /\ NoPress(Batch(ev).events)
      BY <2>4, StepKinds
    <2> QED  BY <1>2, <2>1, <2>2, <2>4, <2>5
  <1>12. way \in Seq(ScriptStep) /\ Len(way) = q
    <2>1. way \in [1 .. q -> ScriptStep]
      <3>1. DOMAIN way = 1 .. q
        BY <1>10
      <3>2. way = [p \in 1 .. q |-> way[p]]
        BY <1>10
      <3> QED  BY <1>11, <3>1, <3>2
    <2> QED  BY <2>1
  <1>13. PICK up \in ScriptStep : up = Batch(<<Up(r.button)>>) /\ NoPress(up.events)
    <2>1. Up(r.button) \in InputEvents /\ ~ButtonDown(Up(r.button))
      BY <1>1, EventKinds DEF ButtonDown
    <2>2. PICK ev \in Seq(InputEvents) : ev = <<Up(r.button)>> /\ NoPress(ev)
      BY <2>1, SingleFits
    <2> QED  BY <2>2, StepKinds
  <1>14. PICK last : last = <<up>>
    OBVIOUS
  <1>15. last \in Seq(ScriptStep) /\ Len(last) = 1 /\ last[1] = up
    BY <1>14
  <1>16. PICK s1 : s1 = looks \o start
    OBVIOUS
  <1>17. PICK s2 : s2 = s1 \o way
    OBVIOUS
  <1>18. sc = s2 \o last
    BY <1>3, <1>6, <1>7, <1>9, <1>10, <1>13, <1>14, <1>16, <1>17 DEF DragScript
  <1> HIDE <1>3, <1>7, <1>10, <1>14
  <1>a. looks \in Seq(ScriptStep) /\ start \in Seq(ScriptStep)
    BY <1>4, <1>8
  <1>b. way \in Seq(ScriptStep) /\ last \in Seq(ScriptStep)
    BY <1>12, <1>15
  <1>19. s1 \in Seq(ScriptStep) /\ Len(s1) = r.points + 2
    <2>1. s1 \in Seq(ScriptStep) /\ Len(s1) = Len(looks) + Len(start)
      BY <1>a, <1>16
    <2> QED  BY <1>4, <1>8, <2>1
  <1>c. s1 \in Seq(ScriptStep)
    BY <1>19
  <1>20. s2 \in Seq(ScriptStep) /\ Len(s2) = r.points + 2 + q
    <2>1. s2 \in Seq(ScriptStep) /\ Len(s2) = Len(s1) + Len(way)
      BY <1>b, <1>c, <1>17
    <2> QED  BY <1>12, <1>19, <2>1
  <1>d. s2 \in Seq(ScriptStep)
    BY <1>20
  <1>21. sc \in Seq(ScriptStep) /\ Len(sc) = r.points + 3 + q
    <2>1. sc \in Seq(ScriptStep) /\ Len(sc) = Len(s2) + Len(last)
      BY <1>b, <1>d, <1>18
    <2> QED  BY <1>1, <1>15, <1>20, <2>1
  <1>22. ASSUME NEW i \in 1 .. Len(sc) PROVE StepFits(r, i, sc[i])
    <2>1. \/ i \in 1 .. Len(s2) /\ sc[i] = s2[i]
          \/ \E j \in 1 .. Len(last) : i = Len(s2) + j /\ sc[i] = last[j]
      <3>1. \A a \in 1 .. Len(s2 \o last) :
               \/ a \in 1 .. Len(s2) /\ (s2 \o last)[a] = s2[a]
               \/ \E j \in 1 .. Len(last) : a = Len(s2) + j /\ (s2 \o last)[a] = last[j]
        BY <1>b, <1>d, JoinedSteps, Zenon
      <3> QED  BY <1>18, <3>1, Zenon
    <2>2. CASE \E j \in 1 .. Len(last) : i = Len(s2) + j /\ sc[i] = last[j]
      <3>1. sc[i] = up
        BY <1>15, <2>2
      <3> QED  BY <1>13, <3>1, QuietFits
    <2>3. CASE i \in 1 .. Len(s2) /\ sc[i] = s2[i]
      <3>1. \/ i \in 1 .. Len(s1) /\ s2[i] = s1[i]
            \/ \E j \in 1 .. Len(way) : i = Len(s1) + j /\ s2[i] = way[j]
        <4>1. \A a \in 1 .. Len(s1 \o way) :
                 \/ a \in 1 .. Len(s1) /\ (s1 \o way)[a] = s1[a]
                 \/ \E j \in 1 .. Len(way) : a = Len(s1) + j /\ (s1 \o way)[a] = way[j]
          BY <1>b, <1>c, JoinedSteps, Zenon
        <4> QED  BY <1>17, <2>3, <4>1, Zenon
      <3>2. CASE \E j \in 1 .. Len(way) : i = Len(s1) + j /\ s2[i] = way[j]
        BY <1>11, <1>12, <2>3, <3>2, QuietFits
      <3>3. CASE i \in 1 .. Len(s1) /\ s2[i] = s1[i]
        <4>1. \/ i \in 1 .. Len(looks) /\ s1[i] = looks[i]
              \/ \E j \in 1 .. Len(start) : i = Len(looks) + j /\ s1[i] = start[j]
          <5>1. \A a \in 1 .. Len(looks \o start) :
                   \/ a \in 1 .. Len(looks) /\ (looks \o start)[a] = looks[a]
                   \/ \E j \in 1 .. Len(start) :
                         a = Len(looks) + j /\ (looks \o start)[a] = start[j]
            BY <1>a, JoinedSteps, Zenon
          <5> QED  BY <1>16, <3>3, <5>1, Zenon
        <4>2. CASE i \in 1 .. Len(looks) /\ s1[i] = looks[i]
          <5>1. sc[i] = Look
            BY <1>4, <1>5, <2>3, <3>3, <4>2
          <5> QED  BY <1>2, <5>1, QuietFits
        <4>3. CASE \E j \in 1 .. Len(start) : i = Len(looks) + j /\ s1[i] = start[j]
          <5>1. PICK j \in {1, 2} : i = r.points + j /\ s1[i] = start[j]
            BY <1>4, <1>8, <4>3
          <5>2. CASE j = 1
            <6>1. sc[i] = SetCursor
              BY <1>8, <2>3, <3>3, <5>1, <5>2
            <6> QED  BY <1>2, <6>1, QuietFits
          <5>3. CASE j = 2
            <6>1. sc[i] = down /\ i = r.points + 2
              BY <1>8, <2>3, <3>3, <5>1, <5>3
            <6>2. PressBudget(r, i + 1) = 1 /\ PressBudget(r, i) = 0
              BY <1>1, <6>1 DEF PressBudget
            <6> QED  BY <1>6, <6>1, <6>2 DEF StepFits
          <5> QED  BY <5>1, <5>2, <5>3
        <4> QED  BY <4>1, <4>2, <4>3
      <3> QED  BY <3>1, <3>2, <3>3
    <2> QED  BY <2>1, <2>2, <2>3
  <1>23. \A i \in 1 .. Len(sc) : PressBudget(r, i + 1) =< r.clicks
    BY <1>1 DEF PressBudget
  <1> QED  BY <1>1, <1>21, <1>22, <1>23

\* Two batches without a button press make one.
LEMMA QuietTogether ==
    ASSUME NEW u \in Seq(InputEvents), NEW v \in Seq(InputEvents), NoPress(u), NoPress(v),
           NEW s, s = u \o v
    PROVE  s \in Seq(InputEvents) /\ NoPress(s)
  <1>1. s \in Seq(InputEvents)
    OBVIOUS
  <1>2. ASSUME NEW a \in 1 .. Len(s) PROVE ~ButtonDown(s[a])
    <2>1. \/ a \in 1 .. Len(u) /\ s[a] = u[a]
          \/ \E j \in 1 .. Len(v) : a = Len(u) + j /\ s[a] = v[j]
      BY Joined
    <2>2. DOMAIN u = 1 .. Len(u) /\ DOMAIN v = 1 .. Len(v)
      OBVIOUS
    <2> QED  BY <2>1, <2>2 DEF NoPress
  <1>3. DOMAIN s = 1 .. Len(s)
    BY <1>1
  <1> QED  BY <1>1, <1>2, <1>3 DEF NoPress

\* Keys and text press no button.
LEMMA KeyScriptFits ==
    ASSUME NEW r \in GuardedRequest, r.kind # "click", r.kind # "drag", NEW sc, sc = Script(r)
    PROVE  /\ sc \in Seq(ScriptStep) /\ Len(sc) > 0
           /\ \A i \in 1 .. Len(sc) : StepFits(r, i, sc[i]) /\ PressBudget(r, i + 1) =< r.clicks
  <1>1. r.keys \in Seq(KeyNames) /\ r.clicks \in Nat
    BY DEF GuardedRequest
  <1>2. ASSUME NEW st \in ScriptStep, NoPress(st.events), sc = <<st>> \/ sc = <<st, Look>>
        PROVE  sc \in Seq(ScriptStep) /\ Len(sc) > 0 /\ \A i \in 1 .. Len(sc) : NoPress(sc[i].events)
    <2>1. Look \in ScriptStep /\ NoPress(Look.events)
      BY StepKinds
    <2>2. CASE sc = <<st>>
      <3>1. sc \in Seq(ScriptStep) /\ Len(sc) = 1 /\ sc[1] = st
        BY <2>2
      <3>2. \A i \in 1 .. Len(sc) : i = 1
        BY <3>1
      <3> QED  BY <1>2, <3>1, <3>2
    <2>3. CASE sc = <<st, Look>>
      <3>1. sc \in Seq(ScriptStep) /\ Len(sc) = 2 /\ sc[1] = st /\ sc[2] = Look
        BY <2>1, <2>3
      <3>2. \A i \in 1 .. Len(sc) : i = 1 \/ i = 2
        BY <3>1
      <3> QED  BY <1>2, <2>1, <3>1, <3>2
    <2> QED  BY <1>2, <2>2, <2>3
  <1>3. sc \in Seq(ScriptStep) /\ Len(sc) > 0 /\ \A i \in 1 .. Len(sc) : NoPress(sc[i].events)
    <2>1. PICK ds \in Seq(InputEvents) : ds = Downs(r.keys) /\ NoPress(ds)
      BY <1>1, DownsQuiet
    <2>2. PICK us \in Seq(InputEvents) : us = UpsOf(r.keys) /\ NoPress(us)
      BY <1>1, UpsQuiet
    <2>3. CASE r.kind = "keys" /\ r.hold
      <3>1. PICK st \in ScriptStep : st = Batch(ds) /\ NoPress(st.events)
        BY <2>1, StepKinds
      <3>2. sc = <<st, Look>>
        BY <2>1, <2>3, <3>1 DEF Script, KeypressScript
      <3> QED  BY <1>2, <3>1, <3>2
    <2>4. CASE r.kind = "keys" /\ ~r.hold
      <3>1. PICK both : both = ds \o us
        OBVIOUS
      <3>2. both \in Seq(InputEvents) /\ NoPress(both)
        BY <2>1, <2>2, <3>1, QuietTogether
      <3>4. PICK st \in ScriptStep : st = Batch(both) /\ NoPress(st.events)
        BY <3>2, StepKinds
      <3>5. sc = <<st>>
        BY <2>1, <2>2, <2>4, <3>1, <3>4 DEF Script, KeypressScript
      <3> QED  BY <1>2, <3>4, <3>5
    <2>5. CASE r.kind # "keys"
      <3>1. PICK ev : ev = <<Down("c"), Up("c"), Down("c"), Up("c")>>
        OBVIOUS
      <3>2. "c" \in Names /\ "c" \notin Buttons
        BY DEF Names, Buttons
      <3>3. Down("c") \in InputEvents /\ Up("c") \in InputEvents
        BY <3>2, EventKinds
      <3>4. ~ButtonDown(Down("c")) /\ ~ButtonDown(Up("c"))
        BY <3>2, EventKinds DEF ButtonDown
      <3>5. /\ ev \in Seq(InputEvents) /\ Len(ev) = 4 /\ ev[1] = Down("c") /\ ev[2] = Up("c")
            /\ ev[3] = Down("c") /\ ev[4] = Up("c")
        BY <3>1, <3>3
      <3>6. NoPress(ev)
        <4>1. \A a \in DOMAIN ev : a \in {1, 2, 3, 4}
          BY <3>5
        <4> QED  BY <3>4, <3>5, <4>1 DEF NoPress
      <3>7. PICK st \in ScriptStep : st = Batch(ev) /\ NoPress(st.events)
        BY <3>5, <3>6, StepKinds
      <3>8. sc = <<st>>
        BY <2>5, <3>1, <3>7 DEF Script, TextScript
      <3> QED  BY <1>2, <3>7, <3>8
    <2> QED  BY <2>3, <2>4, <2>5
  <1>4. \A i \in 1 .. Len(sc) : StepFits(r, i, sc[i])
    BY <1>3, QuietFits
  <1>5. \A i \in 1 .. Len(sc) : PressBudget(r, i + 1) =< r.clicks
    BY <1>1 DEF PressBudget
  <1> QED  BY <1>3, <1>4, <1>5

\* Every script.
LEMMA ScriptFits ==
    ASSUME NEW r \in GuardedRequest, r.kind \in {"click", "drag"} => r.clicks > 0
    PROVE  /\ Script(r) \in Seq(ScriptStep) /\ Len(Script(r)) > 0
           /\ \A i \in 1 .. Len(Script(r)) :
                StepFits(r, i, Script(r)[i]) /\ PressBudget(r, i + 1) =< r.clicks
  <1>1. PICK sc : sc = Script(r)
    OBVIOUS
  <1>2. /\ sc \in Seq(ScriptStep) /\ Len(sc) > 0
        /\ \A i \in 1 .. Len(sc) : StepFits(r, i, sc[i]) /\ PressBudget(r, i + 1) =< r.clicks
    <2>1. CASE r.kind = "click"
      <3>1. sc = ClickScript(r)
        BY <1>1, <2>1 DEF Script
      <3> QED  BY <2>1, <3>1, ClickScriptFits
    <2>2. CASE r.kind = "drag"
      <3>1. sc = DragScript(r)
        BY <1>1, <2>2 DEF Script
      <3> QED  BY <2>2, <3>1, DragScriptFits
    <2>3. CASE r.kind # "click" /\ r.kind # "drag"
      BY <1>1, <2>3, KeyScriptFits
    <2> QED  BY <2>1, <2>2, <2>3
  <1> QED  BY <1>1, <1>2

-----------------------------------------------------------------------------
(* Steps of the guarded path. *)

\* What a step of a guarded call has to establish.
GuardArrives ==
    /\ guard'.pc # "idle" /\ guard' \in GuardRecord /\ WorldOK' /\ DeviceOK' /\ WorldInv'
    /\ Clean(OwedKeys(guard), guard.failed)'
    /\ GuardShape' /\ GuardStray' /\ GuardResult' /\ GuardDowns'

\* While a guarded call runs there is no fast one.
LEMMA GuardStepHolds ==
    ASSUME InputInv, call.pc = "idle", UNCHANGED <<act, call>>, GuardArrives
    PROVE  InputInv'
  <1>1. act \in Activation /\ call \in CallRecord /\ FastInv
    BY DEF InputInv, InputTypeOK
  <1>2. FastInv'
    BY <1>1 DEF FastInv
  <1>3. GuardInv'
    BY DEF GuardInv, GuardArrives
  <1> QED  BY <1>1, <1>2, <1>3 DEF InputInv, InputTypeOK, GuardArrives, OneCall, IdleInv

\* What is known while a guarded call runs.
LEMMA GuardFacts ==
    ASSUME InputInv, guard.pc # "idle"
    PROVE  /\ call.pc = "idle" /\ guard \in GuardRecord /\ WorldOK /\ DeviceOK /\ WorldInv /\ TrailIs
           /\ Clean(OwedKeys(guard), guard.failed)
           /\ GuardShape /\ GuardStray /\ GuardResult /\ GuardDowns
           /\ guard.req \in GuardedRequest /\ guard.req.clicks \in Nat
           /\ guard.i \in Nat /\ guard.gen \in Nat /\ stops \in Nat /\ faults \in Nat /\ cursor \in Int
           /\ trail.downs \in Nat /\ trail.astray \in Nat /\ trail.late \in Nat
           /\ guard.failed \in BOOLEAN
           /\ guard.owed \in Seq(InputEvents) /\ guard.todo \in Seq(InputEvents)
  <1>1. /\ call.pc = "idle" /\ guard \in GuardRecord /\ WorldOK /\ DeviceOK /\ WorldInv /\ TrailIs
        /\ Clean(OwedKeys(guard), guard.failed)
        /\ GuardShape /\ GuardStray /\ GuardResult /\ GuardDowns
    BY DEF InputInv, OneCall, InputTypeOK, DeviceOK, GuardInv
  <1>2. /\ guard.req \in GuardedRequest /\ guard.req.clicks \in Nat
    BY <1>1 DEF GuardShape, GuardedRequest
  <1>3. /\ guard.i \in Nat /\ guard.gen \in Nat /\ guard.failed \in BOOLEAN
        /\ guard.owed \in Seq(InputEvents) /\ guard.todo \in Seq(InputEvents)
    BY <1>1 DEF GuardRecord
  <1>4. /\ stops \in Nat /\ faults \in Nat /\ cursor \in Int
        /\ trail.downs \in Nat /\ trail.astray \in Nat /\ trail.late \in Nat
    BY <1>1 DEF WorldOK, DeviceOK, TrailIs
  <1> QED  BY <1>1, <1>2, <1>3, <1>4

\* The next step, or the clean-up behind the last one.
LEMMA OnwardMoves ==
    ASSUME NEW g \in GuardRecord, NEW d, d = Onward(g)
    PROVE  /\ d \in GuardRecord /\ d.i = g.i + 1
           /\ d.pc = IF g.i = Len(Script(g.req)) THEN "cleanup" ELSE "check"
           /\ d.req = g.req /\ d.gen = g.gen /\ d.got = g.got /\ d.failed = g.failed
           /\ d.owed = g.owed /\ d.todo = g.todo
  <1>1. PICK p \in GuardPcs : p = IF g.i = Len(Script(g.req)) THEN "cleanup" ELSE "check"
    BY DEF GuardPcs
  <1>2. PICK i \in Nat : i = g.i + 1
    BY DEF GuardRecord
  <1>3. d = [g EXCEPT !.pc = p, !.i = i]
    BY <1>1, <1>2 DEF Onward, GuardRecord
  <1>4. /\ d \in GuardRecord /\ d.pc = p /\ d.i = i
        /\ d.req = g.req /\ d.gen = g.gen /\ d.got = g.got /\ d.failed = g.failed
        /\ d.owed = g.owed /\ d.todo = g.todo
    <2>1. d \in GuardRecord
      BY <1>3 DEF GuardRecord
    <2> QED  BY <1>3, <2>1 DEF GuardRecord
  <1> QED  BY <1>1, <1>2, <1>4

\* A refusal.
LEMMA FailingMoves ==
    ASSUME NEW g \in GuardRecord, NEW d, d = Failing(g)
    PROVE  /\ d \in GuardRecord /\ d.pc = "cleanup" /\ d.failed = TRUE /\ d.i = g.i
           /\ d.req = g.req /\ d.gen = g.gen /\ d.got = g.got
           /\ d.owed = g.owed /\ d.todo = g.todo
  <1>1. PICK p \in GuardPcs : p = "cleanup"
    BY DEF GuardPcs
  <1>2. d = [g EXCEPT !.failed = TRUE, !.pc = p]
    BY <1>1 DEF Failing
  <1>3. d \in GuardRecord
    BY <1>2 DEF GuardRecord
  <1> QED  BY <1>1, <1>2, <1>3 DEF GuardRecord

\* A result.
LEMMA FinishedMoves ==
    ASSUME NEW g \in GuardRecord, g.owed = <<>>, NEW st \in Statuses, NEW se \in Sents,
           NEW d, d = Finished(g, st, se)
    PROVE  /\ d \in GuardRecord /\ d.pc = "return" /\ d.status = st /\ d.sent = se
           /\ d.req = g.req /\ d.gen = g.gen /\ d.got = g.got /\ d.failed = g.failed
           /\ d.owed = g.owed /\ d.todo = g.todo
  <1>1. PICK p \in GuardPcs : p = "return"
    BY DEF GuardPcs
  <1>2. PICK o \in Seq(InputEvents) : o = <<>>
    BY EmptySeq
  <1>3. PICK c : c = [g EXCEPT !.pc = p, !.owed = o]
    OBVIOUS
  <1>4. /\ c \in GuardRecord /\ c.pc = p /\ c.owed = o
        /\ c.req = g.req /\ c.gen = g.gen /\ c.got = g.got /\ c.failed = g.failed /\ c.todo = g.todo
    BY <1>3 DEF GuardRecord
  <1>5. d = [c EXCEPT !.status = st, !.sent = se]
    BY <1>1, <1>2, <1>3 DEF Finished, GuardRecord
  <1> HIDE <1>3
  <1>6. /\ d \in GuardRecord /\ d.status = st /\ d.sent = se
        /\ d.req = c.req /\ d.gen = c.gen /\ d.got = c.got /\ d.failed = c.failed
        /\ d.owed = c.owed /\ d.todo = c.todo /\ d.pc = c.pc
    BY <1>4, <1>5 DEF GuardRecord
  <1> QED  BY <1>1, <1>2, <1>4, <1>6

\* A step of the transaction that injects nothing.
LEMMA GuardQuiet ==
    ASSUME InputInv, guard.pc # "idle", UNCHANGED <<world, device>>, faults' \in Nat,
           guard' \in GuardRecord, guard'.pc \notin {"idle", "prepare", "owing"},
           guard.todo = <<>>, guard'.todo = guard.todo, guard'.owed = guard.owed,
           guard'.req = guard.req, guard'.gen = guard.gen, guard'.got = guard.got,
           guard.failed => guard'.failed,
           guard'.pc = "leases" => Calm /\ guard'.i = 1,
           guard'.pc \in {"leases", "post", "return"} => guard.owed = <<>>,
           guard'.pc \in {"leases", "check", "dispatch"} =>
                /\ ~guard'.failed
                /\ Admissible(guard.req) /\ guard'.i \in 1 .. Len(Script(guard.req)),
           guard'.pc = "return" /\ guard'.status = "succeeded" => ~guard'.failed,
           guard'.pc = "return" /\ guard'.sent = "NotSent" => ~trail.touched,
           guard'.pc = "dispatch" => trail.astray = 0 /\ trail.late = 0,
           guard'.pc \in {"check", "dispatch"} => trail.downs =< PressBudget(guard.req, guard'.i)
    PROVE  GuardArrives
  <1>1. /\ WorldOK /\ DeviceOK /\ WorldInv /\ Clean(OwedKeys(guard), guard.failed)
        /\ GuardShape /\ GuardStray /\ GuardResult /\ GuardDowns /\ TrailIs
    BY GuardFacts
  <1>2. fg' = fg /\ window' = window /\ desk' = desk /\ stops' = stops /\ popup' = popup
        /\ held' = held /\ trail' = trail /\ cursor' = cursor
    BY DEF world, device
  <1>3. WorldOK' /\ DeviceOK'
    BY <1>1, <1>2 DEF WorldOK, DeviceOK, TrailIs
  <1>4. WorldInv'
    BY <1>1, <1>2 DEF WorldInv, Exact, Away
  <1>5. OwedKeys(guard)' = OwedKeys(guard)
    BY DEF OwedKeys
  <1>6. Clean(OwedKeys(guard), guard.failed)'
    BY <1>1, <1>2, <1>5 DEF Clean
  <1>7. Calm' <=> Calm
    BY <1>2 DEF Calm
  <1>8. GuardShape'
    BY <1>1, <1>7 DEF GuardShape
  <1>9. GuardStray' /\ GuardResult' /\ GuardDowns'
    BY <1>1, <1>2 DEF GuardStray, GuardResult, GuardDowns
  <1> QED  BY <1>3, <1>4, <1>6, <1>8, <1>9 DEF GuardArrives

\* Nothing is owed by an empty account.
LEMMA OwedNone ==
    ASSUME NEW g, g.todo = <<>>
    PROVE  OwedKeys(g) = Lifted(g.owed) /\ (g.owed = <<>> => OwedKeys(g) = {})
  <1>1. DOMAIN g.todo = {}
    OBVIOUS
  <1>2. Pressed(g.todo) = {} /\ \A k : NoUp(g.todo, k)
    BY <1>1 DEF Pressed, NoUp
  <1>3. OwedKeys(g) = Lifted(g.owed)
    BY <1>2 DEF OwedKeys
  <1>4. g.owed = <<>> => Lifted(g.owed) = {}
    BY DEF Lifted
  <1> QED  BY <1>3, <1>4

\* perform_action takes a guarded request.
LEMMA CallsGuardedHolds ==
    ASSUME InputInv, CallsGuarded
    PROVE  InputInv'
  <1>1. PICK r \in Guarded : GuardBegin(r)
    BY DEF CallsGuarded
  <1>2. r \in GuardedRequest /\ (r.kind \in {"click", "drag"} => r.clicks > 0) /\ r.clicks \in Nat
    BY RequestsAssumption DEF GuardedRequest
  <1>3. /\ call.pc = "idle" /\ guard.pc = "idle" /\ UNCHANGED <<act, call>>
        /\ guard' = [NoGuard EXCEPT !.req = r, !.pc = "prepare", !.gen = stops]
        /\ popup' \in {"none", "open"}
        /\ UNCHANGED <<fg, window, desk, stops, held, cursor, trail, faults>>
    BY <1>1 DEF CallsGuarded, GuardBegin, device
  <1>4. /\ WorldOK /\ DeviceOK /\ TrailIs /\ WorldInv /\ Calm /\ Clean({}, FALSE) /\ stops \in Nat
    BY <1>3 DEF InputInv, InputTypeOK, IdleInv, WorldOK, DeviceOK
  <1>5. guard' = [req |-> r, pc |-> "prepare", i |-> 0, gen |-> stops, todo |-> <<>>, owed |-> <<>>,
                  got |-> "none", balanced |-> FALSE, failed |-> FALSE, status |-> "none",
                  sent |-> "none"]
    BY <1>3 DEF NoGuard
  <1>6. guard' \in GuardRecord
    <2>1. PICK o \in Seq(InputEvents) : o = <<>>
      BY EmptySeq
    <2>2. "prepare" \in GuardPcs /\ "none" \in Statuses /\ "none" \in Sents
      BY DEF GuardPcs, Statuses, Sents
    <2> QED  BY <1>2, <1>4, <1>5, <2>1, <2>2 DEF GuardRecord
  <1>7. /\ guard'.req = r /\ guard'.pc = "prepare" /\ guard'.gen = stops /\ guard'.todo = <<>>
        /\ guard'.owed = <<>> /\ guard'.got = "none" /\ guard'.failed = FALSE
    BY <1>5
  <1>8. WorldOK' /\ DeviceOK'
    BY <1>3, <1>4 DEF WorldOK, DeviceOK, TrailIs
  <1>9. WorldInv'
    BY <1>3, <1>4, <1>7 DEF WorldInv, Exact, Calm
  <1>10. OwedKeys(guard)' = {}
    BY <1>7, OwedNone
  <1>11. Clean(OwedKeys(guard), guard.failed)'
    BY <1>3, <1>4, <1>7, <1>10 DEF Clean
  <1>12. Calm' /\ trail'.astray = 0 /\ trail'.late = 0 /\ trail'.downs = 0 /\ ~trail'.touched
    BY <1>3, <1>4 DEF Calm
  <1>13. GuardShape'
    BY <1>2, <1>7, <1>12 DEF GuardShape
  <1>14. GuardStray'
    BY <1>3, <1>4, <1>7, <1>12 DEF GuardStray
  <1>15. GuardResult' /\ GuardDowns'
    BY <1>2, <1>7, <1>12 DEF GuardResult, GuardDowns
  <1>16. GuardArrives
    BY <1>6, <1>7, <1>8, <1>9, <1>11, <1>13, <1>14, <1>15 DEF GuardArrives
  <1> QED  BY <1>3, <1>16, GuardStepHolds

\* The request is looked at.
LEMMA GuardPrepareArrives ==
    ASSUME InputInv, GuardPrepare
    PROVE  GuardArrives
  <1>1. guard.pc = "prepare" /\ guard.pc # "idle" /\ UNCHANGED <<world, device>>
    BY DEF GuardPrepare
  <1>2. /\ guard \in GuardRecord /\ GuardShape /\ faults \in Nat /\ guard.req \in GuardedRequest
        /\ guard.failed \in BOOLEAN
    BY <1>1, GuardFacts
  <1>3. /\ Calm /\ guard.owed = <<>> /\ guard.todo = <<>> /\ guard.failed = FALSE /\ ~trail.touched
        /\ (guard.req.kind \in {"click", "drag"} => guard.req.clicks > 0)
    BY <1>1, <1>2 DEF GuardShape, Calm
  <1>4. CASE guard' = Finished(guard, "error", "NotSent") /\ faults' \in Nat
    <2>1. "error" \in Statuses /\ "NotSent" \in Sents
      BY DEF Statuses, Sents
    <2>2. /\ guard' \in GuardRecord /\ guard'.pc = "return" /\ guard'.status = "error"
          /\ guard'.req = guard.req /\ guard'.gen = guard.gen /\ guard'.got = guard.got
          /\ guard'.failed = guard.failed /\ guard'.owed = guard.owed /\ guard'.todo = guard.todo
      BY <1>2, <1>3, <1>4, <2>1, FinishedMoves
    <2> QED  BY <1>1, <1>3, <1>4, <2>2, GuardQuiet
  <1>5. CASE Admissible(guard.req) /\ guard' = [guard EXCEPT !.pc = "leases", !.i = 1] /\ UNCHANGED faults
    <2>1. PICK p \in GuardPcs : p = "leases"
      BY DEF GuardPcs
    <2>2. PICK i \in Nat : i = 1
      OBVIOUS
    <2>3. guard' = [guard EXCEPT !.pc = p, !.i = i]
      BY <1>5, <2>1, <2>2
    <2>4. /\ guard' \in GuardRecord /\ guard'.pc = p /\ guard'.i = i
          /\ guard'.req = guard.req /\ guard'.gen = guard.gen /\ guard'.got = guard.got
          /\ guard'.failed = guard.failed /\ guard'.owed = guard.owed /\ guard'.todo = guard.todo
      <3>1. guard' \in GuardRecord
        BY <1>2, <2>3 DEF GuardRecord
      <3> QED  BY <1>2, <2>3, <3>1 DEF GuardRecord
    <2>5. Len(Script(guard.req)) \in Nat /\ Len(Script(guard.req)) > 0
      BY <1>2, <1>3, ScriptFits
    <2>6. guard'.i = 1 /\ guard'.pc = "leases" /\ guard'.i \in 1 .. Len(Script(guard.req))
      BY <2>1, <2>2, <2>4, <2>5
    <2> QED  BY <1>1, <1>2, <1>3, <1>5, <2>4, <2>6, GuardQuiet
  <1>6. \/ guard' = Finished(guard, "error", "NotSent") /\ faults' \in Nat
        \/ Admissible(guard.req) /\ guard' = [guard EXCEPT !.pc = "leases", !.i = 1] /\ UNCHANGED faults
    BY <1>2 DEF GuardPrepare, ObservationRefuses
  <1> QED  BY <1>4, <1>5, <1>6

\* The worker takes its leases.
LEMMA GuardLeasesArrives ==
    ASSUME InputInv, GuardLeases
    PROVE  GuardArrives
  <1>1. guard.pc = "leases" /\ guard.pc # "idle" /\ UNCHANGED <<world, device>>
    BY DEF GuardLeases
  <1>2. /\ guard \in GuardRecord /\ GuardShape /\ faults \in Nat /\ guard.req \in GuardedRequest
        /\ guard.failed \in BOOLEAN /\ guard.i \in Nat
    BY <1>1, GuardFacts
  <1>3. /\ Calm /\ guard.owed = <<>> /\ guard.todo = <<>> /\ guard.failed = FALSE /\ ~trail.touched
        /\ trail.downs = 0 /\ guard.i = 1 /\ Admissible(guard.req)
        /\ guard.i \in 1 .. Len(Script(guard.req))
    BY <1>1, <1>2 DEF GuardShape, Calm
  <1>4. CASE guard' = Finished(guard, "error", "NotSent") /\ faults' \in Nat
    <2>1. "error" \in Statuses /\ "NotSent" \in Sents
      BY DEF Statuses, Sents
    <2>2. /\ guard' \in GuardRecord /\ guard'.pc = "return" /\ guard'.status = "error"
          /\ guard'.req = guard.req /\ guard'.gen = guard.gen /\ guard'.got = guard.got
          /\ guard'.failed = guard.failed /\ guard'.owed = guard.owed /\ guard'.todo = guard.todo
      BY <1>2, <1>3, <1>4, <2>1, FinishedMoves
    <2> QED  BY <1>1, <1>3, <1>4, <2>2, GuardQuiet
  <1>5. CASE guard' = [guard EXCEPT !.pc = "check"] /\ UNCHANGED faults
    <2>1. /\ guard' \in GuardRecord /\ guard'.pc = "check" /\ guard'.i = guard.i
          /\ guard'.req = guard.req /\ guard'.gen = guard.gen /\ guard'.got = guard.got
          /\ guard'.failed = guard.failed /\ guard'.owed = guard.owed /\ guard'.todo = guard.todo
      BY <1>2, <1>5 DEF GuardRecord, GuardPcs
    <2>2. trail.downs =< PressBudget(guard.req, guard.i)
      BY <1>2, <1>3, BudgetGrows
    <2> QED  BY <1>1, <1>2, <1>3, <1>5, <2>1, <2>2, GuardQuiet
  <1>6. \/ guard' = Finished(guard, "error", "NotSent") /\ faults' \in Nat
        \/ guard' = [guard EXCEPT !.pc = "check"] /\ UNCHANGED faults
    BY <1>2 DEF GuardLeases, LeaseRefused
  <1> QED  BY <1>4, <1>5, <1>6

\* The fence in front of a mutation, or a look at it.
LEMMA GuardCheckArrives ==
    ASSUME InputInv, GuardCheck
    PROVE  GuardArrives
  <1>1. guard.pc = "check" /\ guard.pc # "idle" /\ UNCHANGED <<world, device>>
    BY DEF GuardCheck
  <1>2. /\ guard \in GuardRecord /\ GuardShape /\ faults \in Nat /\ guard.req \in GuardedRequest
        /\ guard.failed \in BOOLEAN /\ guard.i \in Nat /\ GuardStray /\ GuardDowns /\ WorldInv
        /\ stops \in Nat /\ guard.gen \in Nat /\ trail.late \in Nat /\ trail.downs \in Nat
    BY <1>1, GuardFacts
  <1>3. /\ guard.todo = <<>> /\ guard.failed = FALSE /\ Admissible(guard.req)
        /\ guard.i \in 1 .. Len(Script(guard.req))
        /\ (guard.req.kind \in {"click", "drag"} => guard.req.clicks > 0)
    BY <1>1, <1>2 DEF GuardShape
  <1>4. trail.downs =< PressBudget(guard.req, guard.i)
    BY <1>1, <1>2 DEF GuardDowns
  <1>5. CASE CheckFails(FALSE) /\ guard' = Failing(guard)
    <2>1. faults' \in Nat
      <3>1. faults' = faults \/ (faults > 0 /\ faults' = faults - 1)
        BY <1>5 DEF CheckFails
      <3>2. faults \in Nat
        BY <1>2
      <3> QED  BY <3>1, <3>2
    <2>2. /\ guard' \in GuardRecord /\ guard'.pc = "cleanup" /\ guard'.failed = TRUE
          /\ guard'.req = guard.req /\ guard'.gen = guard.gen /\ guard'.got = guard.got
          /\ guard'.owed = guard.owed /\ guard'.todo = guard.todo
      BY <1>2, <1>5, FailingMoves
    <2> QED  BY <1>1, <1>3, <2>1, <2>2, GuardQuiet
  <1>6. CASE /\ CheckPasses(FALSE)
             /\ guard' = IF Current.op = "look" THEN Onward(guard) ELSE [guard EXCEPT !.pc = "dispatch"]
    <2>1. faults' \in Nat
      BY <1>2, <1>6 DEF CheckPasses
    <2>2. ~Interrupted /\ window = "ok" /\ Exact /\ popup # "closed"
      BY <1>6 DEF CheckPasses, FenceHolds, Metadata, PopupAllows
    <2>3. trail.astray = 0
      BY <1>2, <2>2 DEF WorldInv, Away, Exact
    <2>4. trail.late = 0
      <3>1. stops = guard.gen
        BY <2>2 DEF Interrupted
      <3>2. ~(trail.late > 0)
        BY <1>2, <3>1 DEF GuardStray
      <3> QED  BY <1>2, <3>2
    <2>5. CASE Current.op = "look"
      <3>1. guard' = Onward(guard)
        BY <1>6, <2>5
      <3>2. /\ guard' \in GuardRecord /\ guard'.i = guard.i + 1
            /\ guard'.pc = IF guard.i = Len(Script(guard.req)) THEN "cleanup" ELSE "check"
            /\ guard'.req = guard.req /\ guard'.gen = guard.gen /\ guard'.got = guard.got
            /\ guard'.failed = guard.failed /\ guard'.owed = guard.owed /\ guard'.todo = guard.todo
        BY <1>2, <3>1, OnwardMoves
      <3>3. Len(Script(guard.req)) \in Nat
        BY <1>2, <1>3, ScriptFits
      <3>4. guard'.pc = "check" => guard'.i \in 1 .. Len(Script(guard.req))
        BY <1>2, <1>3, <3>2, <3>3
      <3>5. guard'.pc \in {"cleanup", "check"}
        BY <3>2
      <3>6. /\ PressBudget(guard.req, guard.i) \in Nat /\ PressBudget(guard.req, guard.i + 1) \in Nat
            /\ PressBudget(guard.req, guard.i) =< PressBudget(guard.req, guard.i + 1)
        BY <1>2, BudgetGrows
      <3>7. trail.downs =< PressBudget(guard.req, guard'.i)
        BY <1>2, <1>4, <3>2, <3>6
      <3>8. guard'.failed = FALSE
        BY <1>3, <3>2
      <3> HIDE <3>1
      <3> QED  BY <1>1, <1>3, <2>1, <3>2, <3>4, <3>5, <3>7, <3>8, GuardQuiet
    <2>6. CASE Current.op # "look"
      <3>1. guard' = [guard EXCEPT !.pc = "dispatch"]
        BY <1>6, <2>6
      <3>2. /\ guard' \in GuardRecord /\ guard'.pc = "dispatch" /\ guard'.i = guard.i
            /\ guard'.req = guard.req /\ guard'.gen = guard.gen /\ guard'.got = guard.got
            /\ guard'.failed = guard.failed /\ guard'.owed = guard.owed /\ guard'.todo = guard.todo
        BY <1>2, <3>1 DEF GuardRecord, GuardPcs
      <3> QED  BY <1>1, <1>3, <1>4, <2>1, <2>3, <2>4, <3>2, GuardQuiet
    <2> QED  BY <2>5, <2>6
  <1> QED  BY <1>1, <1>5, <1>6 DEF GuardCheck

\* Behind the loop over the inserted events.
LEMMA GuardOwedArrives ==
    ASSUME InputInv, GuardOwed
    PROVE  GuardArrives
  <1>1. /\ guard.pc = "owing" /\ guard.pc # "idle" /\ guard.todo = <<>>
        /\ UNCHANGED <<world, device>> /\ faults' = faults
    BY DEF GuardOwed
  <1>2. /\ guard \in GuardRecord /\ GuardShape /\ faults \in Nat /\ guard.req \in GuardedRequest
        /\ guard.failed \in BOOLEAN /\ guard.i \in Nat /\ GuardDowns /\ trail.downs \in Nat
    BY <1>1, GuardFacts
  <1>3. /\ Admissible(guard.req) /\ guard.i \in 1 .. Len(Script(guard.req))
        /\ (guard.req.kind \in {"click", "drag"} => guard.req.clicks > 0)
        /\ faults' \in Nat
    BY <1>1, <1>2 DEF GuardShape
  <1>4. PICK b \in BOOLEAN : b = Balanced
    BY DEF Balanced
  <1>5. PICK g : g = [guard EXCEPT !.balanced = b]
    OBVIOUS
  <1>6. /\ g \in GuardRecord /\ g.i = guard.i /\ g.req = guard.req /\ g.gen = guard.gen
        /\ g.got = guard.got /\ g.failed = guard.failed /\ g.owed = guard.owed /\ g.todo = guard.todo
    BY <1>2, <1>5 DEF GuardRecord
  <1>7. guard' = IF guard.failed THEN Failing(g) ELSE Onward(g)
    BY <1>4, <1>5 DEF GuardOwed
  <1> HIDE <1>5
  <1>8. CASE guard.failed
    <2>1. guard' = Failing(g)
      BY <1>7, <1>8
    <2>2. /\ guard' \in GuardRecord /\ guard'.pc = "cleanup" /\ guard'.failed = TRUE
          /\ guard'.req = g.req /\ guard'.gen = g.gen /\ guard'.got = g.got
          /\ guard'.owed = g.owed /\ guard'.todo = g.todo
      BY <1>6, <2>1, FailingMoves
    <2>3. /\ guard'.req = guard.req /\ guard'.gen = guard.gen /\ guard'.got = guard.got
          /\ guard'.owed = guard.owed /\ guard'.todo = guard.todo
      BY <1>6, <2>2
    <2> HIDE <2>1
    <2> QED  BY <1>1, <1>3, <2>2, <2>3, GuardQuiet
  <1>9. CASE ~guard.failed
    <2>1. guard' = Onward(g)
      BY <1>7, <1>9
    <2>2. /\ guard' \in GuardRecord /\ guard'.i = g.i + 1
          /\ guard'.pc = IF g.i = Len(Script(g.req)) THEN "cleanup" ELSE "check"
          /\ guard'.req = g.req /\ guard'.gen = g.gen /\ guard'.got = g.got
          /\ guard'.failed = g.failed /\ guard'.owed = g.owed /\ guard'.todo = g.todo
      BY <1>6, <2>1, OnwardMoves
    <2>3. /\ guard'.i = guard.i + 1
          /\ guard'.pc = IF guard.i = Len(Script(guard.req)) THEN "cleanup" ELSE "check"
          /\ guard'.req = guard.req /\ guard'.gen = guard.gen /\ guard'.got = guard.got
          /\ guard'.failed = FALSE /\ guard'.owed = guard.owed /\ guard'.todo = guard.todo
      BY <1>2, <1>6, <1>9, <2>2
    <2>4. Len(Script(guard.req)) \in Nat
      BY <1>2, <1>3, ScriptFits
    <2>5. guard'.pc = "check" => guard'.i \in 1 .. Len(Script(guard.req))
      BY <1>2, <1>3, <2>3, <2>4
    <2>6. guard'.pc \in {"cleanup", "check"}
      BY <2>3
    <2>7. trail.downs =< PressBudget(guard.req, guard'.i)
      BY <1>1, <1>2, <1>9, <2>3 DEF GuardDowns
    <2> HIDE <2>1
    <2> QED  BY <1>1, <1>3, <1>9, <2>2, <2>3, <2>5, <2>6, <2>7, GuardQuiet
  <1> QED  BY <1>8, <1>9

\* What an error says of the input.
LEMMA SentIsHonest ==
    ASSUME NEW got \in {"none", "some", "tried"}
    PROVE  SentOf(got) \in Sents /\ (SentOf(got) = "NotSent" => got = "none")
  BY DEF SentOf, Sents

\* The check behind the input, and the result.
LEMMA GuardPostArrives ==
    ASSUME InputInv, GuardPost
    PROVE  GuardArrives
  <1>1. guard.pc = "post" /\ guard.pc # "idle" /\ UNCHANGED <<world, device>>
    BY DEF GuardPost
  <1>2. /\ guard \in GuardRecord /\ GuardShape /\ faults \in Nat /\ guard.failed \in BOOLEAN /\ GuardResult
    BY <1>1, GuardFacts
  <1>3. guard.owed = <<>> /\ guard.todo = <<>>
    BY <1>1, <1>2 DEF GuardShape
  <1>4. PICK se \in Sents : se = SentOf(guard.got) /\ (se = "NotSent" => guard.got = "none")
    BY <1>2, SentIsHonest DEF GuardRecord
  <1>5. se = "NotSent" => ~trail.touched
    BY <1>2, <1>4 DEF GuardResult
  <1>6. faults' = faults \/ (faults > 0 /\ faults' = faults - 1)
    BY DEF GuardPost, CheckFails, CheckPasses
  <1>7. faults' \in Nat
    <2>1. faults \in Nat
      BY <1>2
    <2> QED  BY <1>6, <2>1
  <1>8. \/ guard' = Finished(guard, "error", se)
        \/ ~guard.failed /\ guard' = Finished(guard, "succeeded", "Sent")
    BY <1>4 DEF GuardPost
  <1>9. PICK st \in Statuses, s \in Sents :
            /\ guard' = Finished(guard, st, s)
            /\ st = "succeeded" => ~guard.failed
            /\ s = "NotSent" => ~trail.touched
    BY <1>5, <1>8 DEF Statuses, Sents
  <1>10. /\ guard' \in GuardRecord /\ guard'.pc = "return" /\ guard'.status = st /\ guard'.sent = s
         /\ guard'.req = guard.req /\ guard'.gen = guard.gen /\ guard'.got = guard.got
         /\ guard'.failed = guard.failed /\ guard'.owed = guard.owed /\ guard'.todo = guard.todo
    BY <1>2, <1>3, <1>9, FinishedMoves
  <1>11. (guard'.status = "succeeded" => ~guard'.failed) /\ (guard'.sent = "NotSent" => ~trail.touched)
    BY <1>9, <1>10
  <1> QED  BY <1>1, <1>3, <1>7, <1>10, <1>11, GuardQuiet

\* A guarded call is over.
LEMMA GuardReturnedHolds ==
    ASSUME InputInv, GuardReturned, UNCHANGED <<act, call>>
    PROVE  InputInv'
  <1>1. /\ guard.pc = "return" /\ guard.pc # "idle" /\ guard' = NoGuard /\ trail' = Fresh
        /\ cursor' = Home /\ popup' = "none"
        /\ UNCHANGED <<fg, window, desk, stops, held, faults>>
    BY DEF GuardReturned
  <1>2. /\ GuardShape /\ WorldOK /\ WorldInv /\ faults \in Nat /\ call.pc = "idle"
        /\ Clean(OwedKeys(guard), guard.failed)
    BY <1>1, GuardFacts
  <1>3. OwedKeys(guard) = {}
    <2>1. guard.owed = <<>> /\ guard.todo = <<>>
      BY <1>1, <1>2 DEF GuardShape
    <2> QED  BY <2>1, OwedNone
  <1>4. \A k \in held : k \in trail.stuck
    BY <1>2, <1>3 DEF Clean
  <1>5. TrailIs' /\ Calm' /\ Clean({}, FALSE)'
    BY <1>1, <1>4, EndsCalm
  <1>6. NoGuard \in GuardRecord /\ NoGuard.pc = "idle"
    <2>1. PICK o \in Seq(InputEvents) : o = <<>>
      BY EmptySeq
    <2>2. "idle" \in GuardPcs /\ "none" \in Statuses /\ "none" \in Sents
      BY DEF GuardPcs, Statuses, Sents
    <2> QED  BY <2>1, <2>2 DEF NoGuard, GuardRecord
  <1>7. act \in Activation /\ call \in CallRecord /\ FastInv
    BY DEF InputInv, InputTypeOK
  <1>8. InputTypeOK'
    BY <1>1, <1>2, <1>5, <1>6, <1>7 DEF InputTypeOK, WorldOK, DeviceOK, Home
  <1>9. WorldInv'
    BY <1>1, <1>2, <1>5 DEF WorldInv, Exact, Calm
  <1>10. FastInv'
    BY <1>2, <1>7 DEF FastInv
  <1>11. OneCall' /\ IdleInv' /\ GuardInv'
    BY <1>1, <1>2, <1>5, <1>6 DEF OneCall, IdleInv, GuardInv
  <1> QED  BY <1>8, <1>9, <1>10, <1>11 DEF InputInv

\* The books of an injection of the transaction.
LEMMA GuardKeys ==
    ASSUME InputInv, guard.pc # "idle",
           NEW batch \in Seq(InputEvents), NEW n \in 0 .. Len(batch), Submit(batch, n, guard.gen),
           NEW Y, NEW h \in BOOLEAN, guard.failed => h,
           \A k \in OwedKeys(guard) :
                \/ k \in Y
                \/ \E a \in 1 .. n : IsUp(batch[a], k)
                \/ h /\ \E a \in n + 1 .. Len(batch) : IsUp(batch[a], k),
           \A k : \A a \in 1 .. n : IsDown(batch[a], k) =>
                \/ k \in Y
                \/ \E b \in 1 .. n : b > a /\ IsUp(batch[b], k)
    PROVE  \A k \in held' : k \in Y \/ (k \in trail'.stuck /\ (h \/ k \notin trail'.pressed))
  <1>1. Clean(OwedKeys(guard), guard.failed) /\ guard.failed \in BOOLEAN
    BY GuardFacts
  <1>2. PICK f \in BOOLEAN : f = guard.failed
    BY <1>1
  <1>3. PICK X : X = OwedKeys(guard)
    OBVIOUS
  <1>4. Clean(X, f) /\ (f => h)
    BY <1>1, <1>2, <1>3
  <1> SUFFICES ASSUME NEW k \in held', k \notin Y
               PROVE  k \in trail'.stuck /\ (h \/ k \notin trail'.pressed)
    OBVIOUS
  <1>5. k \in X => \/ \E a \in 1 .. n : IsUp(batch[a], k)
                   \/ h /\ \E a \in n + 1 .. Len(batch) : IsUp(batch[a], k)
    <2> HAVE k \in X
    <2>1. k \in OwedKeys(guard)
      BY <1>3
    <2> QED  BY <2>1
  <1>6. \A a \in 1 .. n : IsDown(batch[a], k) => \E b \in 1 .. n : b > a /\ IsUp(batch[b], k)
    OBVIOUS
  <1> HIDE <1>2, <1>3
  <1> QED  BY <1>4, <1>5, <1>6, SubmitClean

\* An injection of the transaction: one behind a passed check, or releases only.
LEMMA GuardInject ==
    ASSUME InputInv, guard.pc # "idle", UNCHANGED world,
           NEW batch \in Seq(InputEvents), NEW n \in 0 .. Len(batch), Submit(batch, n, guard.gen),
           NEW Y, NEW h \in BOOLEAN, guard.failed => h,
           \A k \in OwedKeys(guard) :
                \/ k \in Y
                \/ \E a \in 1 .. n : IsUp(batch[a], k)
                \/ h /\ \E a \in n + 1 .. Len(batch) : IsUp(batch[a], k),
           \A k : \A a \in 1 .. n : IsDown(batch[a], k) =>
                \/ k \in Y
                \/ \E b \in 1 .. n : b > a /\ IsUp(batch[b], k),
           guard.pc = "dispatch" \/ \A a \in 1 .. n : batch[a][1] = "up"
    PROVE  /\ \A k \in held' : k \in Y \/ (k \in trail'.stuck /\ (h \/ k \notin trail'.pressed))
           /\ WorldOK' /\ DeviceOK' /\ (Exact' => window' = "ok") /\ (~Away' => trail'.astray = 0)
           /\ trail'.downs \in Nat /\ trail'.downs =< trail.downs + Presses(SubSeq(batch, 1, n))
           /\ trail'.astray =< 1 /\ trail'.late =< 1 /\ (trail'.late > 0 => guard.gen < stops)
           /\ trail'.touched <=> trail.touched \/ n > 0
  <1>1. /\ WorldOK /\ DeviceOK /\ TrailIs /\ WorldInv /\ GuardStray /\ guard.failed \in BOOLEAN
        /\ Clean(OwedKeys(guard), guard.failed) /\ cursor \in Int /\ faults \in Nat
        /\ stops \in Nat /\ guard.gen \in Nat /\ trail.astray \in Nat /\ trail.late \in Nat
    BY GuardFacts
  <1>6. \A k \in held' : k \in Y \/ (k \in trail'.stuck /\ (h \/ k \notin trail'.pressed))
    BY GuardKeys
  <1>7. cursor' \in Int /\ faults' \in Nat
    BY <1>1, SubmitCursor
  <1>8. /\ TrailIs'
        /\ trail'.touched <=> trail.touched \/ n > 0
        /\ trail'.downs =< trail.downs + Presses(SubSeq(batch, 1, n))
        /\ trail'.astray = trail.astray \/ (Away /\ trail'.astray =< trail.astray + 1)
        /\ trail'.late = trail.late \/ (stops # guard.gen /\ trail'.late =< trail.late + 1)
        /\ (\A a \in 1 .. n : batch[a][1] = "up") =>
                trail'.astray = trail.astray /\ trail'.late = trail.late
    BY <1>1, SubmitTrail
  <1>9. fg' = fg /\ window' = window /\ desk' = desk /\ stops' = stops /\ popup' = popup
    BY DEF world
  <1>10. WorldOK' /\ DeviceOK'
    BY <1>1, <1>7, <1>8, <1>9 DEF WorldOK, DeviceOK
  <1>11. (Exact' => window' = "ok") /\ (~Away' => trail'.astray = 0)
    BY <1>1, <1>8, <1>9 DEF WorldInv, Exact, Away
  <1>12. trail'.downs \in Nat /\ trail'.astray \in Nat /\ trail'.late \in Nat
    BY <1>8 DEF TrailIs
  <1>13. /\ trail.astray =< 1 /\ trail.late =< 1 /\ guard.gen =< stops
         /\ (trail.late > 0 => guard.gen < stops)
         /\ (guard.pc = "dispatch" => trail.astray = 0 /\ trail.late = 0)
    BY <1>1 DEF GuardStray
  <1>14. trail'.astray =< 1 /\ trail'.late =< 1 /\ (trail'.late > 0 => guard.gen < stops)
    BY <1>1, <1>8, <1>12, <1>13
  <1> QED  BY <1>6, <1>8, <1>10, <1>11, <1>12, <1>14

\* The consumable move of the transaction, accepted or not.
LEMMA GuardConsumable ==
    ASSUME InputInv, guard.pc = "dispatch", UNCHANGED world,
           NEW x \in Int, NEW ok \in BOOLEAN, Consumable(x, ok, guard.gen)
    PROVE  /\ \A k \in held' :
                k \in OwedKeys(guard) \/ (k \in trail'.stuck /\ k \notin trail'.pressed)
           /\ WorldOK' /\ DeviceOK' /\ (Exact' => window' = "ok") /\ (~Away' => trail'.astray = 0)
           /\ trail'.downs \in Nat /\ trail'.downs =< trail.downs
           /\ trail'.astray =< 1 /\ trail'.late =< 1 /\ (trail'.late > 0 => guard.gen < stops)
  <1>1. PICK e \in InputEvents : e = Move(x) /\ e[1] = "move" /\ e[2] = x
    BY EventKinds
  <1>2. /\ guard.pc # "idle" /\ WorldOK /\ DeviceOK /\ TrailIs /\ WorldInv /\ GuardStray /\ GuardShape
        /\ Clean(OwedKeys(guard), guard.failed) /\ faults \in Nat /\ guard.failed \in BOOLEAN
        /\ stops \in Nat /\ guard.gen \in Nat
        /\ trail.astray \in Nat /\ trail.late \in Nat /\ trail.downs \in Nat
    BY GuardFacts
  <1>3. /\ guard.failed = FALSE /\ trail.astray = 0 /\ trail.late = 0 /\ guard.gen =< stops
    BY <1>2 DEF GuardShape, GuardStray
  <1>4. CASE \E n \in 0 .. 1 : Submit(<<Move(x)>>, n, guard.gen)
    <2>1. PICK batch : batch = <<e>>
      OBVIOUS
    <2>2. batch \in Seq(InputEvents) /\ Len(batch) = 1 /\ batch[1] = e
      BY <2>1, SingleEvent
    <2>3. PICK n \in 0 .. Len(batch) : Submit(batch, n, guard.gen)
      BY <1>1, <1>4, <2>1, <2>2
    <2>4. \A a \in 1 .. n : batch[a][1] = "move"
      BY <1>1, <2>2
    <2>5. Presses(SubSeq(batch, 1, n)) = 0
      BY <2>2, <2>4, PressesBound
    <2>6. PICK Y : Y = OwedKeys(guard)
      OBVIOUS
    <2>7. \A k \in OwedKeys(guard) :
                \/ k \in Y
                \/ \E a \in 1 .. n : IsUp(batch[a], k)
                \/ FALSE /\ \E a \in n + 1 .. Len(batch) : IsUp(batch[a], k)
      BY <2>6
    <2>8. \A k : \A a \in 1 .. n : IsDown(batch[a], k) =>
                \/ k \in Y
                \/ \E b \in 1 .. n : b > a /\ IsUp(batch[b], k)
      BY <2>4 DEF IsDown
    <2>9. PICK h \in BOOLEAN : h = FALSE
      OBVIOUS
    <2> HIDE <2>1
    <2>10. /\ \A k \in held' : k \in Y \/ (k \in trail'.stuck /\ (h \/ k \notin trail'.pressed))
           /\ WorldOK' /\ DeviceOK' /\ (Exact' => window' = "ok") /\ (~Away' => trail'.astray = 0)
           /\ trail'.downs \in Nat /\ trail'.downs =< trail.downs + Presses(SubSeq(batch, 1, n))
           /\ trail'.astray =< 1 /\ trail'.late =< 1 /\ (trail'.late > 0 => guard.gen < stops)
      <3>1. guard.failed => h
        BY <1>3
      <3>2. \A k \in OwedKeys(guard) :
                \/ k \in Y
                \/ \E a \in 1 .. n : IsUp(batch[a], k)
                \/ h /\ \E a \in n + 1 .. Len(batch) : IsUp(batch[a], k)
        BY <2>7
      <3> HIDE <2>6
      <3> QED  BY <1>2, <2>2, <2>3, <2>8, <3>1, <3>2, GuardInject
    <2>11. trail'.downs =< trail.downs
      BY <1>2, <2>5, <2>10
    <2>12. \A k \in held' : k \in OwedKeys(guard) \/ (k \in trail'.stuck /\ k \notin trail'.pressed)
      BY <2>6, <2>9, <2>10
    <2> QED  BY <2>10, <2>11, <2>12
  <1>5. CASE /\ ~ok /\ faults > 0
             /\ faults' = faults - 1
             /\ cursor' = x
             /\ trail' = Trace(<<Move(x)>>, <<>>, guard.gen)
             /\ UNCHANGED held
    <2>2. PICK done : done = <<e>>
      OBVIOUS
    <2>3. done \in Seq(InputEvents) /\ Len(done) = 1 /\ DOMAIN done = 1 .. 1 /\ done[1][1] = "move"
      BY <1>1, <2>2
    <2>4. Pressed(done) = {} /\ Lifted(done) = {} /\ Lifted(<<>>) = {}
      BY <2>3 DEF Pressed, Lifted
    <2>5. Presses(done) = 0
      <3>1. {j \in DOMAIN done : done[j][1] = "down" /\ done[j][2] \in Buttons} = {}
        BY <2>3
      <3> QED  BY <3>1, FS_EmptySet DEF Presses
    <2>6. PICK p \in Nat : p = Presses(done)
      BY <2>5
    <2>7. /\ TrailIs'
          /\ trail'.downs =< trail.downs + p
          /\ trail'.astray = trail.astray \/ (Away /\ trail'.astray =< trail.astray + 1)
          /\ trail'.late = trail.late \/ (stops # guard.gen /\ trail'.late =< trail.late + 1)
          /\ trail'.stuck = (trail.stuck \ Lifted(done)) \cup (Lifted(<<>>) \cap held)
          /\ trail'.pressed = trail.pressed \cup Pressed(done)
      <3>1. trail' = Trace(done, <<>>, guard.gen)
        BY <1>1, <1>5, <2>2
      <3> HIDE <2>2
      <3> QED  BY <1>2, <2>3, <2>6, <3>1, TraceTrail
    <2>8. trail'.stuck = trail.stuck /\ trail'.pressed = trail.pressed /\ held' = held
      BY <1>5, <2>4, <2>7
    <2>9. trail'.downs \in Nat /\ trail'.astray \in Nat /\ trail'.late \in Nat
      BY <2>7 DEF TrailIs
    <2>10. /\ trail'.downs =< trail.downs /\ trail'.astray =< 1 /\ trail'.late =< 1
           /\ (trail'.late > 0 => guard.gen < stops)
      BY <1>2, <1>3, <2>5, <2>6, <2>7, <2>9
    <2>11. fg' = fg /\ window' = window /\ desk' = desk /\ stops' = stops /\ popup' = popup
      BY DEF world
    <2>12. faults' \in Nat /\ cursor' \in Int
      BY <1>2, <1>5
    <2>13. WorldOK' /\ DeviceOK'
      BY <1>2, <2>7, <2>11, <2>12 DEF WorldOK, DeviceOK
    <2>14. (Exact' => window' = "ok") /\ (~Away' => trail'.astray = 0)
      BY <1>2, <2>7, <2>11 DEF WorldInv, Exact, Away
    <2>15. \A k \in held' : k \in OwedKeys(guard) \/ (k \in trail'.stuck /\ k \notin trail'.pressed)
      BY <1>2, <1>3, <2>8 DEF Clean
    <2> QED  BY <2>9, <2>10, <2>13, <2>14, <2>15
  <1>6. \/ \E n \in 0 .. 1 : Submit(<<Move(x)>>, n, guard.gen)
        \/ /\ ~ok /\ faults > 0
           /\ faults' = faults - 1
           /\ cursor' = x
           /\ trail' = Trace(<<Move(x)>>, <<>>, guard.gen)
           /\ UNCHANGED held
    BY DEF Consumable
  <1> QED  BY <1>4, <1>5, <1>6

\* The cursor of the transaction goes to its spot.
LEMMA GuardCursorArrives ==
    ASSUME InputInv, GuardCursor
    PROVE  GuardArrives
  <1>1. guard.pc = "dispatch" /\ guard.pc # "idle" /\ UNCHANGED world
    BY DEF GuardCursor
  <1>2. PICK ok \in BOOLEAN :
            /\ Consumable(Spot, ok, guard.gen)
            /\ guard' = IF ok THEN Onward([guard EXCEPT !.got = IF ok THEN "some" ELSE "tried"])
                        ELSE Failing([guard EXCEPT !.got = IF ok THEN "some" ELSE "tried"])
    BY DEF GuardCursor
  <1>3. PICK x \in Int : x = Spot
    BY DEF Spot
  <1>4. /\ \A k \in held' :
                k \in OwedKeys(guard) \/ (k \in trail'.stuck /\ k \notin trail'.pressed)
        /\ WorldOK' /\ DeviceOK' /\ (Exact' => window' = "ok") /\ (~Away' => trail'.astray = 0)
        /\ trail'.downs \in Nat /\ trail'.downs =< trail.downs
        /\ trail'.astray =< 1 /\ trail'.late =< 1 /\ (trail'.late > 0 => guard.gen < stops)
    BY <1>1, <1>2, <1>3, GuardConsumable
  <1>5. /\ guard \in GuardRecord /\ GuardShape /\ guard.req \in GuardedRequest /\ GuardStray
        /\ guard.failed \in BOOLEAN /\ guard.i \in Nat /\ GuardDowns /\ trail.downs \in Nat
        /\ guard.req.clicks \in Nat
    BY <1>1, GuardFacts
  <1>6. /\ guard.todo = <<>> /\ guard.failed = FALSE /\ Admissible(guard.req)
        /\ guard.i \in 1 .. Len(Script(guard.req))
        /\ (guard.req.kind \in {"click", "drag"} => guard.req.clicks > 0)
        /\ \A j \in DOMAIN guard.owed : guard.owed[j][1] = "up"
    BY <1>1, <1>5 DEF GuardShape
  <1>7. PICK w \in {"none", "some", "tried"} : w = (IF ok THEN "some" ELSE "tried") /\ w # "none"
    OBVIOUS
  <1>8. PICK g : g = [guard EXCEPT !.got = w]
    OBVIOUS
  <1>9. /\ g \in GuardRecord /\ g.i = guard.i /\ g.req = guard.req /\ g.gen = guard.gen
        /\ g.got = w /\ g.failed = guard.failed /\ g.owed = guard.owed /\ g.todo = guard.todo
    BY <1>5, <1>8 DEF GuardRecord
  <1>10. guard' = IF ok THEN Onward(g) ELSE Failing(g)
    BY <1>2, <1>7, <1>8
  <1> HIDE <1>8
  <1>11. Len(Script(guard.req)) \in Nat
    BY <1>5, <1>6, ScriptFits
  <1>12. /\ guard' \in GuardRecord /\ guard'.pc \in {"cleanup", "check"}
         /\ guard'.req = guard.req /\ guard'.gen = guard.gen /\ guard'.got # "none"
         /\ guard'.owed = guard.owed /\ guard'.todo = <<>>
         /\ guard'.pc = "check" => /\ guard'.failed = FALSE /\ guard'.i = guard.i + 1
                                   /\ guard'.i \in 1 .. Len(Script(guard.req))
    <2>1. CASE ok
      <3>1. guard' = Onward(g)
        BY <1>10, <2>1
      <3>2. /\ guard' \in GuardRecord /\ guard'.i = g.i + 1
            /\ guard'.pc = IF g.i = Len(Script(g.req)) THEN "cleanup" ELSE "check"
            /\ guard'.req = g.req /\ guard'.gen = g.gen /\ guard'.got = g.got
            /\ guard'.failed = g.failed /\ guard'.owed = g.owed /\ guard'.todo = g.todo
        BY <1>9, <3>1, OnwardMoves
      <3> HIDE <3>1
      <3> QED  BY <1>5, <1>6, <1>7, <1>9, <1>11, <3>2
    <2>2. CASE ~ok
      <3>1. guard' = Failing(g)
        BY <1>10, <2>2
      <3>2. /\ guard' \in GuardRecord /\ guard'.pc = "cleanup" /\ guard'.failed = TRUE
            /\ guard'.req = g.req /\ guard'.gen = g.gen /\ guard'.got = g.got
            /\ guard'.owed = g.owed /\ guard'.todo = g.todo
        BY <1>9, <3>1, FailingMoves
      <3> HIDE <3>1
      <3> QED  BY <1>6, <1>7, <1>9, <3>2
    <2> QED  BY <2>1, <2>2
  <1>13. stops' = stops
    BY <1>1 DEF world
  <1>14. WorldInv'
    BY <1>4, <1>12 DEF WorldInv
  <1>15. Clean(OwedKeys(guard), guard.failed)'
    <2>1. OwedKeys(guard)' = OwedKeys(guard)
      BY <1>6, <1>12 DEF OwedKeys
    <2> QED  BY <1>4, <2>1 DEF Clean
  <1>16. GuardShape'
    BY <1>5, <1>6, <1>12 DEF GuardShape
  <1>17. GuardStray'
    <2>1. guard.gen =< stops
      BY <1>5 DEF GuardStray
    <2> QED  BY <1>4, <1>12, <1>13, <2>1 DEF GuardStray
  <1>18. GuardResult'
    BY <1>12 DEF GuardResult
  <1>19. GuardDowns'
    <2>1. trail.downs =< guard.req.clicks /\ trail.downs =< PressBudget(guard.req, guard.i)
      BY <1>1, <1>5 DEF GuardDowns
    <2>2. /\ PressBudget(guard.req, guard.i) \in Nat /\ PressBudget(guard.req, guard.i + 1) \in Nat
          /\ PressBudget(guard.req, guard.i) =< PressBudget(guard.req, guard.i + 1)
      BY <1>5, BudgetGrows
    <2>3. trail'.downs =< guard.req.clicks /\ trail'.downs =< PressBudget(guard.req, guard.i + 1)
      BY <1>4, <1>5, <2>1, <2>2
    <2> QED  BY <1>12, <2>3 DEF GuardDowns
  <1> QED  BY <1>4, <1>12, <1>14, <1>15, <1>16, <1>17, <1>18, <1>19 DEF GuardArrives

\* SendInput of a step of the script.
LEMMA GuardBatchArrives ==
    ASSUME InputInv, GuardBatch
    PROVE  GuardArrives
  <1>1. guard.pc = "dispatch" /\ guard.pc # "idle" /\ UNCHANGED world
    BY DEF GuardBatch
  <1>2. /\ guard \in GuardRecord /\ GuardShape /\ guard.req \in GuardedRequest /\ GuardStray
        /\ guard.failed \in BOOLEAN /\ guard.i \in Nat /\ GuardDowns /\ trail.downs \in Nat
        /\ guard.req.clicks \in Nat /\ GuardResult /\ guard.owed \in Seq(InputEvents)
    BY <1>1, GuardFacts
  <1>3. /\ guard.todo = <<>> /\ guard.failed = FALSE /\ Admissible(guard.req)
        /\ guard.i \in 1 .. Len(Script(guard.req))
        /\ (guard.req.kind \in {"click", "drag"} => guard.req.clicks > 0)
        /\ \A j \in DOMAIN guard.owed : guard.owed[j][1] = "up"
    BY <1>1, <1>2 DEF GuardShape
  <1>4. PICK batch : batch = Current.events
    OBVIOUS
  <1>5. /\ batch \in Seq(InputEvents)
        /\ \/ NoPress(batch)
           \/ OnePress(batch) /\ PressBudget(guard.req, guard.i + 1) = PressBudget(guard.req, guard.i) + 1
        /\ PressBudget(guard.req, guard.i + 1) =< guard.req.clicks
    <2>1. /\ Script(guard.req) \in Seq(ScriptStep)
          /\ StepFits(guard.req, guard.i, Script(guard.req)[guard.i])
          /\ PressBudget(guard.req, guard.i + 1) =< guard.req.clicks
      BY <1>2, <1>3, ScriptFits
    <2>2. Current \in ScriptStep /\ StepFits(guard.req, guard.i, Current)
      BY <1>3, <2>1 DEF Current
    <2> QED  BY <1>4, <2>1, <2>2 DEF StepFits, ScriptStep
  <1>6. PICK n \in 0 .. Len(batch) :
            /\ Submit(batch, n, guard.gen)
            /\ guard' = [guard EXCEPT !.pc = "owing", !.todo = SubSeq(batch, 1, n),
                                      !.got = IF n > 0 THEN "some" ELSE @,
                                      !.failed = n < Len(batch)]
    BY <1>4 DEF GuardBatch
  <1> HIDE <1>4
  <1>7. PICK done : done = SubSeq(batch, 1, n)
    OBVIOUS
  <1>8. /\ done \in Seq(InputEvents) /\ Len(done) = n /\ DOMAIN done = 1 .. n
        /\ \A a \in 1 .. n : done[a] = batch[a]
    BY <1>5, <1>7, CutBatch
  <1>9. PICK h \in BOOLEAN : h <=> n < Len(batch)
    <2>1. (n < Len(batch)) \in BOOLEAN
      OBVIOUS
    <2> QED  BY <2>1
  <1>10. /\ guard' \in GuardRecord /\ guard'.pc = "owing" /\ guard'.todo = done
         /\ guard'.got = (IF n > 0 THEN "some" ELSE guard.got) /\ (guard'.failed <=> h)
         /\ guard'.req = guard.req /\ guard'.gen = guard.gen /\ guard'.i = guard.i
         /\ guard'.owed = guard.owed
    <2>1. PICK w \in {"none", "some", "tried"} : w = IF n > 0 THEN "some" ELSE guard.got
      BY <1>2 DEF GuardRecord
    <2>2. PICK p \in GuardPcs : p = "owing"
      BY DEF GuardPcs
    <2>3. PICK g : g = [guard EXCEPT !.pc = p, !.todo = done]
      OBVIOUS
    <2>4. PICK f \in BOOLEAN : f = (n < Len(batch))
      <3> DEFINE cut == n < Len(batch)
      <3>1. cut \in BOOLEAN
        OBVIOUS
      <3> HIDE DEF cut
      <3>2. \E f \in BOOLEAN : f = cut
        BY <3>1
      <3> QED  BY <3>2 DEF cut
    <2>5. guard' = [g EXCEPT !.got = w, !.failed = f]
      BY <1>2, <1>6, <1>7, <2>1, <2>2, <2>3, <2>4 DEF GuardRecord
    <2> HIDE <1>7, <1>6
    <2>6. /\ g \in GuardRecord /\ g.pc = p /\ g.todo = done /\ g.got = guard.got /\ g.req = guard.req
          /\ g.gen = guard.gen /\ g.i = guard.i /\ g.owed = guard.owed
      BY <1>2, <1>8, <2>3 DEF GuardRecord
    <2> HIDE <2>3
    <2>7. guard' \in GuardRecord
      BY <2>5, <2>6 DEF GuardRecord
    <2>8. /\ guard'.pc = g.pc /\ guard'.todo = g.todo /\ guard'.got = w /\ guard'.req = g.req
          /\ guard'.gen = g.gen /\ guard'.i = g.i /\ guard'.owed = g.owed /\ guard'.failed = f
      BY <2>5, <2>6 DEF GuardRecord
    <2> QED  BY <1>9, <2>1, <2>2, <2>4, <2>6, <2>7, <2>8
  <1> HIDE <1>6
  <1>11. PICK Y : Y = OwedKeys(guard)'
    OBVIOUS
  <1>12. \A k : k \in Y <=> \/ k \in Lifted(guard.owed) /\ NoUp(done, k)
                            \/ k \in Pressed(done) /\ PressedLast(done, k)
    BY <1>10, <1>11 DEF OwedKeys
  <1>13. ASSUME NEW k
         PROVE  /\ k \in Pressed(done) <=> \E a \in 1 .. n : IsDown(batch[a], k)
                /\ NoUp(done, k) <=> \A a \in 1 .. n : ~IsUp(batch[a], k)
    BY <1>5, <1>7, InsertedKeys
  <1>14. \A k \in OwedKeys(guard) :
                \/ k \in Y
                \/ \E a \in 1 .. n : IsUp(batch[a], k)
                \/ h /\ \E a \in n + 1 .. Len(batch) : IsUp(batch[a], k)
    <2>1. OwedKeys(guard) = Lifted(guard.owed)
      BY <1>3, OwedNone
    <2> QED  BY <1>12, <1>13, <2>1
  <1>15. \A k : \A a \in 1 .. n : IsDown(batch[a], k) =>
                \/ k \in Y
                \/ \E b \in 1 .. n : b > a /\ IsUp(batch[b], k)
    <2> SUFFICES ASSUME NEW k, NEW a \in 1 .. n, IsDown(batch[a], k),
                        \A b \in 1 .. n : b > a => ~IsUp(batch[b], k)
                 PROVE  k \in Y
      OBVIOUS
    <2>1. PressedLast(done, k)
      BY <1>8 DEF PressedLast
    <2>2. k \in Pressed(done)
      BY <1>13
    <2> QED  BY <1>12, <2>1, <2>2
  <1>16. guard.failed => h
    BY <1>3
  <1> HIDE <1>11
  <1>17. /\ \A k \in held' : k \in Y \/ (k \in trail'.stuck /\ (h \/ k \notin trail'.pressed))
         /\ WorldOK' /\ DeviceOK' /\ (Exact' => window' = "ok") /\ (~Away' => trail'.astray = 0)
         /\ trail'.downs \in Nat /\ trail'.downs =< trail.downs + Presses(SubSeq(batch, 1, n))
         /\ trail'.astray =< 1 /\ trail'.late =< 1 /\ (trail'.late > 0 => guard.gen < stops)
         /\ trail'.touched <=> trail.touched \/ n > 0
    <2>1. Submit(batch, n, guard.gen)
      BY <1>6
    <2>2. batch \in Seq(InputEvents)
      BY <1>5
    <2> QED  BY <1>1, <1>14, <1>15, <1>16, <2>1, <2>2, GuardInject
  <1>18. PICK p \in Nat : p = Presses(SubSeq(batch, 1, n))
    BY <1>5, PressesBound
  <1>19. trail'.downs =< PressBudget(guard.req, guard.i + 1) /\ trail'.downs =< guard.req.clicks
    <2>1. /\ PressBudget(guard.req, guard.i) \in Nat /\ PressBudget(guard.req, guard.i + 1) \in Nat
          /\ PressBudget(guard.req, guard.i) =< PressBudget(guard.req, guard.i + 1)
      BY <1>2, BudgetGrows
    <2>2. trail.downs =< PressBudget(guard.req, guard.i)
      BY <1>1, <1>2 DEF GuardDowns
    <2>3. trail'.downs \in Nat /\ trail'.downs =< trail.downs + p
      BY <1>17, <1>18
    <2>4. p = 0 \/ (p =< 1 /\ PressBudget(guard.req, guard.i + 1) = PressBudget(guard.req, guard.i) + 1)
      <3>1. DOMAIN batch = 1 .. Len(batch) /\ batch \in Seq(InputEvents)
        BY <1>5
      <3>2. CASE NoPress(batch)
        <4>1. \A a \in 1 .. n : ~(batch[a][1] = "down" /\ batch[a][2] \in Buttons)
          BY <3>1, <3>2 DEF NoPress, ButtonDown
        <4> QED  BY <1>18, <3>1, <4>1, PressesBound
      <3>3. CASE OnePress(batch) /\ PressBudget(guard.req, guard.i + 1) = PressBudget(guard.req, guard.i) + 1
        <4>1. PICK c \in 1 .. Len(batch) : \A a \in 1 .. Len(batch) : ButtonDown(batch[a]) => a = c
          BY <3>1, <3>3 DEF OnePress
        <4>2. CASE c =< n
          <5>1. c \in 1 .. n /\ \A a \in 1 .. n : batch[a][1] = "down" /\ batch[a][2] \in Buttons => a = c
            BY <4>1, <4>2 DEF ButtonDown
          <5>2. Presses(SubSeq(batch, 1, n)) =< 1
            BY <3>1, <5>1, PressesBound
          <5> QED  BY <1>18, <3>3, <5>2
        <4>3. CASE ~(c =< n)
          <5>1. \A a \in 1 .. n : ~(batch[a][1] = "down" /\ batch[a][2] \in Buttons)
            BY <4>1, <4>3 DEF ButtonDown
          <5> QED  BY <1>18, <3>1, <5>1, PressesBound
        <4> QED  BY <4>2, <4>3
      <3> QED  BY <1>5, <3>2, <3>3
    <2>5. trail'.downs =< PressBudget(guard.req, guard.i + 1)
      BY <1>2, <2>1, <2>2, <2>3, <2>4
    <2> QED  BY <1>2, <1>5, <2>1, <2>3, <2>5
  <1>20. stops' = stops /\ guard.gen =< stops
    BY <1>1, <1>2 DEF world, GuardStray
  <1>21. WorldInv'
    BY <1>10, <1>17 DEF WorldInv
  <1>22. Clean(OwedKeys(guard), guard.failed)'
    BY <1>10, <1>11, <1>17 DEF Clean
  <1>23. GuardShape'
    BY <1>2, <1>3, <1>10 DEF GuardShape
  <1>24. GuardStray'
    BY <1>10, <1>17, <1>20 DEF GuardStray
  <1>25. GuardResult'
    <2>1. done # <<>> <=> n > 0
      BY <1>8, EmptySeq
    <2>2. (guard.got = "none" => ~trail.touched) /\ (guard.owed # <<>> => guard.got # "none")
      BY <1>2 DEF GuardResult
    <2>3. guard'.got = "none" => ~trail'.touched
      BY <1>10, <1>17, <2>2
    <2>4. guard'.owed # <<>> \/ guard'.todo # <<>> => guard'.got # "none"
      BY <1>10, <2>1, <2>2
    <2> QED  BY <1>10, <2>3, <2>4 DEF GuardResult
  <1>26. GuardDowns'
    BY <1>10, <1>19 DEF GuardDowns
  <1> QED  BY <1>10, <1>17, <1>21, <1>22, <1>23, <1>24, <1>25, <1>26 DEF GuardArrives

\* One round of the loop over the inserted events.
LEMMA GuardOwesArrives ==
    ASSUME InputInv, GuardOwes
    PROVE  GuardArrives
  <1>1. /\ guard.pc = "owing" /\ guard.pc # "idle" /\ guard.todo # <<>>
        /\ UNCHANGED <<world, device, faults>>
        /\ guard' = [guard EXCEPT !.todo = Tail(guard.todo), !.owed = Owes(guard.owed, Head(guard.todo))]
    BY DEF GuardOwes
  <1>2. /\ guard \in GuardRecord /\ GuardShape /\ WorldOK /\ DeviceOK /\ WorldInv /\ TrailIs
        /\ GuardStray /\ GuardResult /\ GuardDowns /\ Clean(OwedKeys(guard), guard.failed)
        /\ guard.owed \in Seq(InputEvents) /\ guard.todo \in Seq(InputEvents)
    BY <1>1, GuardFacts
  <1>3. \A j \in DOMAIN guard.owed : guard.owed[j][1] = "up"
    BY <1>2 DEF GuardShape
  <1>4. PICK todo \in Seq(InputEvents) : todo = guard.todo /\ todo # <<>>
    BY <1>1, <1>2
  <1>5. PICK e \in InputEvents : e = todo[1] /\ e = Head(todo)
    BY <1>4
  <1>6. PICK rest \in Seq(InputEvents) : rest = Tail(todo)
    <2>1. todo # <<>>
      BY <1>4
    <2>2. Tail(todo) \in Seq(InputEvents)
      BY <2>1, HeadTailProperties
    <2> QED  BY <2>2
  <1>7. /\ Len(rest) = Len(todo) - 1 /\ DOMAIN rest = 1 .. Len(rest) /\ DOMAIN todo = 1 .. Len(todo)
        /\ Len(todo) \in Nat /\ Len(todo) > 0
    BY <1>4, <1>6
  <1>8. \A j \in 1 .. Len(rest) : rest[j] = todo[j + 1]
    BY <1>4, <1>6
  <1>9. PICK next : next = Owes(guard.owed, e)
    OBVIOUS
  <1>10. /\ next \in Seq(InputEvents) /\ (\A j \in DOMAIN next : next[j][1] = "up")
         /\ \A k : IsDown(e, k) => k \in Lifted(next)
         /\ \A k \in Lifted(guard.owed) : IsUp(e, k) \/ k \in Lifted(next)
    BY <1>2, <1>3, <1>9, OwesKeeps
  <1>11. guard' = [guard EXCEPT !.todo = rest, !.owed = next]
    BY <1>1, <1>4, <1>5, <1>6, <1>9
  <1> HIDE <1>1, <1>4, <1>5, <1>6, <1>9
  <1>12. /\ guard' \in GuardRecord /\ guard'.todo = rest /\ guard'.owed = next
         /\ guard'.pc = guard.pc /\ guard'.req = guard.req /\ guard'.gen = guard.gen /\ guard'.i = guard.i
         /\ guard'.got = guard.got /\ guard'.failed = guard.failed
    <2>1. guard' \in GuardRecord
      BY <1>2, <1>10, <1>11 DEF GuardRecord
    <2> QED  BY <1>2, <1>11, <2>1 DEF GuardRecord
  <1> HIDE <1>11
  <1>13. ASSUME NEW k \in OwedKeys(guard) PROVE k \in OwedKeys(guard)'
    <2>1. \/ k \in Lifted(guard.owed) /\ NoUp(todo, k)
          \/ k \in Pressed(todo) /\ PressedLast(todo, k)
      BY <1>4, <1>13 DEF OwedKeys
    <2>2. ASSUME k \in Lifted(next), NoUp(rest, k) PROVE k \in OwedKeys(guard)'
      BY <1>12, <2>2 DEF OwedKeys
    <2>3. CASE k \in Lifted(guard.owed) /\ NoUp(todo, k)
      <3>1. ~IsUp(e, k)
        BY <1>5, <1>7, <2>3 DEF NoUp
      <3>2. NoUp(rest, k)
        <4> SUFFICES ASSUME NEW j \in 1 .. Len(rest) PROVE ~IsUp(rest[j], k)
          BY <1>7 DEF NoUp
        <4>1. j + 1 \in 1 .. Len(todo) /\ rest[j] = todo[j + 1]
          BY <1>7, <1>8
        <4> QED  BY <1>7, <2>3, <4>1 DEF NoUp
      <3> QED  BY <1>10, <2>2, <2>3, <3>1, <3>2
    <2>4. CASE k \in Pressed(todo) /\ PressedLast(todo, k)
      <3>1. PICK i \in 1 .. Len(todo) :
                IsDown(todo[i], k) /\ \A j \in 1 .. Len(todo) : j > i => ~IsUp(todo[j], k)
        BY <1>7, <2>4 DEF PressedLast
      <3>2. CASE i = 1
        <4>1. k \in Lifted(next)
          BY <1>5, <1>10, <3>1, <3>2
        <4>2. NoUp(rest, k)
          <5> SUFFICES ASSUME NEW j \in 1 .. Len(rest) PROVE ~IsUp(rest[j], k)
            BY <1>7 DEF NoUp
          <5>1. j + 1 \in 1 .. Len(todo) /\ j + 1 > 1 /\ rest[j] = todo[j + 1]
            BY <1>7, <1>8
          <5> QED  BY <3>1, <3>2, <5>1
        <4> QED  BY <2>2, <4>1, <4>2
      <3>3. CASE i # 1
        <4>1. PICK b \in 1 .. Len(rest) : i = b + 1
          <5>1. i - 1 \in 1 .. Len(rest) /\ i = (i - 1) + 1
            BY <1>7, <3>3
          <5> QED  BY <5>1
        <4>2. IsDown(rest[b], k)
          BY <1>8, <3>1, <4>1
        <4>3. ASSUME NEW j \in 1 .. Len(rest), j > b PROVE ~IsUp(rest[j], k)
          <5>1. j + 1 \in 1 .. Len(todo) /\ j + 1 > i /\ rest[j] = todo[j + 1]
            BY <1>7, <1>8, <4>1, <4>3
          <5> QED  BY <3>1, <5>1
        <4>4. PressedLast(rest, k)
          BY <1>7, <4>2, <4>3 DEF PressedLast
        <4>5. k \in Pressed(rest)
          BY <1>7, <4>2 DEF Pressed, IsDown
        <4> QED  BY <1>12, <4>4, <4>5 DEF OwedKeys
      <3> QED  BY <3>2, <3>3
    <2> QED  BY <2>1, <2>3, <2>4
  <1>14. fg' = fg /\ window' = window /\ desk' = desk /\ stops' = stops /\ popup' = popup
         /\ held' = held /\ trail' = trail /\ cursor' = cursor /\ faults' = faults
    BY <1>1 DEF world, device
  <1>15. guard.pc = "owing" /\ guard.todo # <<>>
    BY <1>1
  <1>16. WorldOK' /\ DeviceOK' /\ WorldInv'
    BY <1>2, <1>12, <1>14, <1>15 DEF WorldOK, DeviceOK, TrailIs, WorldInv, Exact, Away
  <1>17. Clean(OwedKeys(guard), guard.failed)'
    BY <1>2, <1>12, <1>13, <1>14 DEF Clean
  <1>18. GuardShape'
    BY <1>2, <1>10, <1>12, <1>15 DEF GuardShape
  <1>19. GuardStray' /\ GuardDowns'
    BY <1>2, <1>12, <1>14 DEF GuardStray, GuardDowns
  <1>20. GuardResult'
    BY <1>2, <1>12, <1>14, <1>15 DEF GuardResult
  <1> QED  BY <1>12, <1>15, <1>16, <1>17, <1>18, <1>19, <1>20 DEF GuardArrives

\* The other way round.
LEMMA ReverseIs ==
    ASSUME NEW S, NEW s \in Seq(S)
    PROVE  /\ Reverse(s) \in Seq(S) /\ Len(Reverse(s)) = Len(s)
           /\ \A a \in 1 .. Len(s) : Reverse(s)[a] = s[(Len(s) - a) + 1]
  <1>1. PICK m \in Nat : m = Len(s)
    OBVIOUS
  <1>2. \A a \in 1 .. m : (m - a) + 1 \in 1 .. m
    OBVIOUS
  <1>3. \A a \in 1 .. m : s[(m - a) + 1] \in S
    BY <1>1, <1>2
  <1>4. PICK t : t = [a \in 1 .. m |-> s[(m - a) + 1]]
    OBVIOUS
  <1>5. t \in [1 .. m -> S] /\ \A a \in 1 .. m : t[a] = s[(m - a) + 1]
    BY <1>3, <1>4
  <1>6. t \in Seq(S) /\ Len(t) = m
    BY <1>5
  <1>7. Reverse(s) = t
    BY <1>1, <1>4 DEF Reverse
  <1> QED  BY <1>1, <1>5, <1>6, <1>7

\* The release-only batch at the end.
LEMMA GuardCleanupArrives ==
    ASSUME InputInv, GuardCleanup
    PROVE  GuardArrives
  <1>1. guard.pc = "cleanup" /\ guard.pc # "idle" /\ UNCHANGED world
    BY DEF GuardCleanup
  <1>2. /\ guard \in GuardRecord /\ GuardShape /\ guard.req \in GuardedRequest /\ GuardStray
        /\ guard.failed \in BOOLEAN /\ GuardDowns /\ trail.downs \in Nat /\ faults \in Nat
        /\ guard.req.clicks \in Nat /\ GuardResult /\ guard.owed \in Seq(InputEvents)
    BY <1>1, GuardFacts
  <1>3. /\ guard.todo = <<>> /\ (\A j \in DOMAIN guard.owed : guard.owed[j][1] = "up")
        /\ (guard.req.kind \in {"click", "drag"} => guard.req.clicks > 0)
    BY <1>1, <1>2 DEF GuardShape
  <1>4. CASE guard.owed = <<>> /\ guard' = [guard EXCEPT !.pc = "post"] /\ UNCHANGED <<device, faults>>
    <2>1. /\ guard' \in GuardRecord /\ guard'.pc = "post"
          /\ guard'.req = guard.req /\ guard'.gen = guard.gen /\ guard'.got = guard.got
          /\ guard'.failed = guard.failed /\ guard'.owed = guard.owed /\ guard'.todo = guard.todo
      BY <1>2, <1>4 DEF GuardRecord, GuardPcs
    <2>2. faults' \in Nat /\ UNCHANGED <<world, device>>
      BY <1>1, <1>2, <1>4
    <2> QED  BY <1>1, <1>3, <1>4, <2>1, <2>2, GuardQuiet
  <1>5. CASE /\ guard.owed # <<>>
             /\ \E n \in 0 .. Len(guard.owed) :
                /\ Submit(Reverse(guard.owed), n, guard.gen)
                /\ guard' = [guard EXCEPT !.pc = "post", !.owed = <<>>,
                                          !.balanced = n = Len(guard.owed),
                                          !.failed = @ \/ n < Len(guard.owed)]
    <2>1. PICK owed \in Seq(InputEvents) : owed = guard.owed
      BY <1>2
    <2>2. PICK batch \in Seq(InputEvents) : batch = Reverse(owed)
      BY ReverseIs
    <2>3. Len(batch) = Len(owed) /\ Len(owed) \in Nat /\ DOMAIN owed = 1 .. Len(owed)
      BY <2>2, ReverseIs
    <2>4. \A a \in 1 .. Len(owed) : batch[a] = owed[(Len(owed) - a) + 1]
      BY <2>2, ReverseIs
    <2>5. PICK n \in 0 .. Len(batch) :
                /\ Submit(batch, n, guard.gen)
                /\ guard' = [guard EXCEPT !.pc = "post", !.owed = <<>>,
                                          !.balanced = n = Len(owed),
                                          !.failed = guard.failed \/ n < Len(owed)]
      BY <1>5, <2>1, <2>2, <2>3
    <2> HIDE <2>2
    <2>6. PICK h \in BOOLEAN : h <=> guard.failed \/ n < Len(owed)
      <3>1. (guard.failed \/ n < Len(owed)) \in BOOLEAN
        BY <1>2
      <3> QED  BY <3>1
    <2>7. /\ guard' \in GuardRecord /\ guard'.pc = "post" /\ guard'.owed = <<>> /\ (guard'.failed <=> h)
          /\ guard'.req = guard.req /\ guard'.gen = guard.gen /\ guard'.i = guard.i
          /\ guard'.got = guard.got /\ guard'.todo = guard.todo
      <3>1. PICK p \in GuardPcs : p = "post"
        BY DEF GuardPcs
      <3>2. PICK o \in Seq(InputEvents) : o = <<>>
        BY EmptySeq
      <3>3. PICK f \in BOOLEAN : f = (guard.failed \/ n < Len(owed))
        <4> DEFINE cut == guard.failed \/ n < Len(owed)
        <4>1. cut \in BOOLEAN
          BY <1>2
        <4> HIDE DEF cut
        <4>2. \E f \in BOOLEAN : f = cut
          BY <4>1
        <4> QED  BY <4>2 DEF cut
      <3>4. PICK b \in BOOLEAN : b = (n = Len(owed))
        <4> DEFINE all == n = Len(owed)
        <4>1. all \in BOOLEAN
          OBVIOUS
        <4> HIDE DEF all
        <4>2. \E b \in BOOLEAN : b = all
          BY <4>1
        <4> QED  BY <4>2 DEF all
      <3>5. PICK g : g = [guard EXCEPT !.pc = p, !.owed = o]
        OBVIOUS
      <3>6. guard' = [g EXCEPT !.balanced = b, !.failed = f]
        BY <1>2, <2>5, <3>1, <3>2, <3>3, <3>4, <3>5 DEF GuardRecord
      <3>7. /\ g \in GuardRecord /\ g.pc = p /\ g.owed = o /\ g.got = guard.got /\ g.req = guard.req
            /\ g.gen = guard.gen /\ g.i = guard.i /\ g.todo = guard.todo
        BY <1>2, <3>5 DEF GuardRecord
      <3> HIDE <3>5, <2>5
      <3>8. guard' \in GuardRecord
        BY <3>6, <3>7 DEF GuardRecord
      <3>9. /\ guard'.pc = g.pc /\ guard'.todo = g.todo /\ guard'.got = g.got /\ guard'.req = g.req
            /\ guard'.gen = g.gen /\ guard'.i = g.i /\ guard'.owed = g.owed /\ guard'.failed = f
        BY <3>6, <3>7 DEF GuardRecord
      <3> QED  BY <2>6, <3>1, <3>2, <3>3, <3>7, <3>8, <3>9
    <2>8. Submit(batch, n, guard.gen)
      BY <2>5
    <2> HIDE <2>5
    <2>9. \A a \in 1 .. Len(batch) : batch[a][1] = "up"
      <3> SUFFICES ASSUME NEW a \in 1 .. Len(batch) PROVE batch[a][1] = "up"
        OBVIOUS
      <3>1. PICK j \in 1 .. Len(owed) : j = (Len(owed) - a) + 1
        <4>1. (Len(owed) - a) + 1 \in 1 .. Len(owed)
          BY <2>3
        <4> QED  BY <4>1
      <3>2. batch[a] = owed[j]
        <4>1. a \in 1 .. Len(owed)
          BY <2>3
        <4> QED  BY <2>4, <3>1, <4>1
      <3>3. owed[j][1] = "up"
        BY <1>3, <2>1, <2>3
      <3> QED  BY <3>2, <3>3
    <2>10. PICK Y : Y = {}
      OBVIOUS
    <2>11. \A k \in OwedKeys(guard) :
                \/ k \in Y
                \/ \E a \in 1 .. n : IsUp(batch[a], k)
                \/ h /\ \E a \in n + 1 .. Len(batch) : IsUp(batch[a], k)
      <3> SUFFICES ASSUME NEW k \in OwedKeys(guard)
                   PROVE  \/ \E a \in 1 .. n : IsUp(batch[a], k)
                          \/ h /\ \E a \in n + 1 .. Len(batch) : IsUp(batch[a], k)
        OBVIOUS
      <3>1. k \in Lifted(owed)
        BY <1>3, <2>1, OwedNone
      <3>2. PICK j \in 1 .. Len(owed) : owed[j][1] = "up" /\ owed[j][2] = k
        BY <2>3, <3>1 DEF Lifted
      <3>3. PICK a \in 1 .. Len(owed) : j = (Len(owed) - a) + 1
        <4>1. (Len(owed) - j) + 1 \in 1 .. Len(owed) /\ j = (Len(owed) - ((Len(owed) - j) + 1)) + 1
          BY <2>3
        <4> QED  BY <4>1
      <3>4. IsUp(batch[a], k)
        BY <2>4, <3>2, <3>3 DEF IsUp
      <3>5. CASE a =< n
        BY <3>4, <3>5
      <3>6. CASE ~(a =< n)
        <4>1. a \in n + 1 .. Len(batch) /\ n < Len(owed)
          BY <2>3, <3>6
        <4> QED  BY <2>6, <3>4, <4>1
      <3> QED  BY <3>5, <3>6
    <2>12. \A k : \A a \in 1 .. n : IsDown(batch[a], k) =>
                \/ k \in Y
                \/ \E b \in 1 .. n : b > a /\ IsUp(batch[b], k)
      BY <2>9 DEF IsDown
    <2>13. guard.failed => h
      BY <2>6
    <2>14. \A a \in 1 .. n : batch[a][1] = "up"
      BY <2>9
    <2> HIDE <2>10
    <2>15. /\ \A k \in held' : k \in Y \/ (k \in trail'.stuck /\ (h \/ k \notin trail'.pressed))
           /\ WorldOK' /\ DeviceOK' /\ (Exact' => window' = "ok") /\ (~Away' => trail'.astray = 0)
           /\ trail'.downs \in Nat /\ trail'.downs =< trail.downs + Presses(SubSeq(batch, 1, n))
           /\ trail'.astray =< 1 /\ trail'.late =< 1 /\ (trail'.late > 0 => guard.gen < stops)
           /\ trail'.touched <=> trail.touched \/ n > 0
      BY <1>1, <2>8, <2>11, <2>12, <2>13, <2>14, GuardInject
    <2>16. Presses(SubSeq(batch, 1, n)) = 0
      <3>1. \A a \in 1 .. n : ~(batch[a][1] = "down" /\ batch[a][2] \in Buttons)
        BY <2>14
      <3> QED  BY <3>1, PressesBound
    <2>17. trail'.downs =< guard.req.clicks
      <3>1. trail.downs =< guard.req.clicks
        BY <1>2 DEF GuardDowns
      <3>2. trail'.downs \in Nat /\ trail'.downs =< trail.downs
        BY <1>2, <2>15, <2>16
      <3> QED  BY <1>2, <3>1, <3>2
    <2>18. stops' = stops /\ guard.gen =< stops
      BY <1>1, <1>2 DEF world, GuardStray
    <2>19. WorldInv'
      BY <2>7, <2>15 DEF WorldInv
    <2>20. Clean(OwedKeys(guard), guard.failed)'
      <3>1. OwedKeys(guard)' = {}
        BY <1>3, <2>7, OwedNone
      <3> QED  BY <2>7, <2>10, <2>15, <3>1 DEF Clean
    <2>21. GuardShape'
      BY <1>2, <1>3, <2>7 DEF GuardShape
    <2>22. GuardStray'
      BY <2>7, <2>15, <2>18 DEF GuardStray
    <2>23. GuardResult'
      BY <1>2, <1>3, <1>5, <2>7 DEF GuardResult
    <2>24. GuardDowns'
      BY <2>7, <2>17 DEF GuardDowns
    <2> QED  BY <2>7, <2>15, <2>19, <2>20, <2>21, <2>22, <2>23, <2>24 DEF GuardArrives
  <1> QED  BY <1>1, <1>4, <1>5 DEF GuardCleanup

\* Every step of the guarded path.
LEMMA GuardedPathHolds ==
    ASSUME InputInv, GuardedPath
    PROVE  InputInv'
  <1>1. UNCHANGED <<act, call>>
    BY DEF GuardedPath
  <1>2. CASE GuardReturned
    BY <1>1, <1>2, GuardReturnedHolds
  <1>3. CASE GuardStep
    <2>1. GuardArrives
      BY <1>3, GuardPrepareArrives, GuardLeasesArrives, GuardCheckArrives, GuardCursorArrives,
         GuardBatchArrives, GuardOwesArrives, GuardOwedArrives, GuardCleanupArrives, GuardPostArrives
      DEF GuardStep
    <2>2. guard.pc # "idle"
      BY <1>3 DEF GuardStep, GuardPrepare, GuardLeases, GuardCheck, GuardCursor, GuardBatch,
         GuardOwes, GuardOwed, GuardCleanup, GuardPost
    <2>3. call.pc = "idle"
      BY <2>2, GuardFacts
    <2> QED  BY <1>1, <2>1, <2>3, GuardStepHolds
  <1> QED  BY <1>2, <1>3 DEF GuardedPath

-----------------------------------------------------------------------------
(* The invariant and what follows from it. *)

\* Nobody has called yet.
LEMMA InputStarts ==
    ASSUME InputInit
    PROVE  InputInv
  <1>1. /\ fg \in Relations /\ window = "ok" /\ desk = TRUE /\ stops = 0 /\ popup = "none"
        /\ held = {} /\ cursor = 0 /\ trail = NoTrail /\ faults = MaxFaults
        /\ act = NoActivation /\ call = NoCall /\ guard = NoGuard
    BY DEF InputInit, DeviceInit, Home
  <1>2. WorldOK /\ DeviceOK
    BY <1>1, FaultsAssumption DEF WorldOK, DeviceOK, TrailIs, NoTrail, WindowStates
  <1>3. NoCall \in CallRecord /\ NoCall.pc = "idle"
    <2>1. NoAttempt \in Attempt
      BY DEF NoAttempt, Attempt
    <2>2. "idle" \in CallPcs /\ "none" \in Statuses /\ "none" \in Sents
      BY DEF CallPcs, Statuses, Sents
    <2> QED  BY <2>1, <2>2 DEF NoCall, CallRecord
  <1>4. NoGuard \in GuardRecord /\ NoGuard.pc = "idle"
    <2>1. PICK o \in Seq(InputEvents) : o = <<>>
      BY EmptySeq
    <2>2. "idle" \in GuardPcs /\ "none" \in Statuses /\ "none" \in Sents
      BY DEF GuardPcs, Statuses, Sents
    <2> QED  BY <2>1, <2>2 DEF NoGuard, GuardRecord
  <1>5. NoActivation \in Activation /\ NoActivation.phase = "idle" /\ NoActivation.attached = {}
    BY DEF NoActivation, Activation, Phases
  <1>6. Calm /\ Clean({}, FALSE)
    BY <1>1 DEF Calm, NoTrail, Clean
  <1>7. WorldInv
    BY <1>1, <1>6 DEF WorldInv, Exact, Calm
  <1>8. OneCall /\ IdleInv /\ FastInv /\ GuardInv
    BY <1>1, <1>3, <1>4, <1>5, <1>6 DEF OneCall, IdleInv, FastInv, GuardInv
  <1> QED  BY <1>1, <1>2, <1>3, <1>4, <1>5, <1>7, <1>8 DEF InputInv, InputTypeOK

\* Every step keeps the books, the fences' bounds and the results.
LEMMA InputStepHolds ==
    ASSUME InputInv, [InputNext]_nativeVars
    PROVE  InputInv'
  <1>1. CASE CallsForeground
    BY <1>1, BeginHolds DEF CallsForeground
  <1>2. CASE CallsGuarded
    BY <1>2, CallsGuardedHolds
  <1>3. CASE Activates
    BY <1>3, ActivationHolds DEF Activates
  <1>4. CASE FastPath
    BY <1>4, FastPathHolds
  <1>5. CASE GuardedPath
    BY <1>5, GuardedPathHolds
  <1>6. CASE Disturbs
    BY <1>6, DisturbsHolds
  <1>7. CASE UNCHANGED nativeVars
    <2>1. UNCHANGED <<act, call, guard, held, cursor, trail, fg, window, desk, stops, popup, faults>>
      BY <1>7 DEF nativeVars, deviceVars, world, device
    <2>2. /\ WorldOK /\ WorldInv /\ faults \in Nat /\ stops \in Nat /\ (fg = "ExactTarget" => window = "ok")
          /\ (~Away => trail.astray = 0)
      BY DEF InputInv, InputTypeOK, DeviceOK, WorldOK, WorldInv, Exact
    <2>3. WorldOK' /\ faults' \in Nat /\ stops =< stops' /\ (~Away' => trail'.astray = 0)
      BY <2>1, <2>2 DEF WorldOK, Away
    <2> QED  BY <2>1, <2>2, <2>3, WorldMoves
  <1> QED  BY <1>1, <1>2, <1>3, <1>4, <1>5, <1>6, <1>7 DEF InputNext, Program

\* Every key that is down is accounted for, every fence keeps its bound and no
\* result claims more than the desktop felt, at every step of both paths.
THEOREM InputInvariant == InputSpec => []InputInv
  <1>1. InputInit => InputInv
    BY InputStarts
  <1>2. InputInv /\ [InputNext]_nativeVars => InputInv'
    BY InputStepHolds
  <1> QED  BY <1>1, <1>2, PTL DEF InputSpec

\* Whatever a call of either path pressed is up again when it returns, except
\* for what the system itself refused to release (release_all_keys, emergency
\* button-up, drag button-up, Transaction::cleanup).
THEOREM NothingLeftHeldHolds == InputSpec => []NothingLeftHeld
  <1>1. ASSUME InputInv PROVE NothingLeftHeld
    <2>1. ASSUME call.pc = "return"
          PROVE  held \subseteq trail.stuck /\ (call.status = "succeeded" => held \cap trail.pressed = {})
      <3>1. Clean(Due(call), Lost(call))
        BY <1>1, <2>1 DEF InputInv, FastInv
      <3>2. Due(call) = {} /\ (Lost(call) <=> call.status # "succeeded")
        BY <2>1 DEF Due, Lost, ModifierPcs, CountedPcs, DragPcs
      <3> QED  BY <3>1, <3>2 DEF Clean
    <2>2. ASSUME guard.pc = "return"
          PROVE  held \subseteq trail.stuck /\ (guard.status = "succeeded" => held \cap trail.pressed = {})
      <3>1. Clean(OwedKeys(guard), guard.failed) /\ GuardShape
        BY <1>1, <2>2, GuardFacts
      <3>2. OwedKeys(guard) = {}
        <4>1. guard.todo = <<>> /\ guard.owed = <<>>
          BY <2>2, <3>1 DEF GuardShape
        <4> QED  BY <4>1, OwedNone
      <3>3. guard.status = "succeeded" => ~guard.failed
        BY <2>2, <3>1 DEF GuardShape
      <3> QED  BY <3>1, <3>2, <3>3 DEF Clean
    <2>3. act.phase \in {"idle", "done"} => act.attached = {}
      BY <1>1 DEF InputInv, FastInv
    <2> QED  BY <2>1, <2>2, <2>3 DEF NothingLeftHeld, Returning
  <1> QED  BY <1>1, InputInvariant, PTL

\* The fences bound what is lost to another window or injected behind a stop
\* (check_physical_fence before every mutation, the looks of the drags).
THEOREM StrayBoundedHolds == InputSpec => []StrayBounded
  <1>1. ASSUME InputInv PROVE StrayBounded
    <2>1. guard.pc # "idle" => trail.astray =< 1 /\ trail.late =< 1
      BY <1>1 DEF InputInv, GuardInv, GuardStray
    <2>2. call.pc # "idle" => FastStray
      BY <1>1 DEF InputInv, FastInv
    <2> QED  BY <2>1, <2>2 DEF StrayBounded, FastStray
  <1> QED  BY <1>1, InputInvariant, PTL

\* A result that says NotSent is true, a drag that succeeded has brought its load
\* to the spot but for what others moved the mouse since the last move or look,
\* and no button goes down more often than the request says (input_error,
\* windows_combined_drag, requested_clicks).
THEOREM HonestResultHolds == InputSpec => []HonestResult
  <1>1. ASSUME InputInv PROVE HonestResult
    <2>1. call.pc # "idle" => FastResult /\ FastDowns
      BY <1>1 DEF InputInv, FastInv
    <2>2. guard.pc # "idle" => GuardResult /\ GuardDowns
      BY <1>1 DEF InputInv, GuardInv
    <2>3. call.pc = "return" /\ call.sent = "NotSent" => ~trail.touched
      BY <2>1 DEF FastResult
    <2>4. guard.pc = "return" /\ guard.sent = "NotSent" => ~trail.touched
      BY <2>2 DEF GuardResult
    <2>5. (call.pc = "return" /\ call.req.kind = "drag" /\ call.status = "succeeded" /\ Backend # "touch")
            => Dropped
      BY <2>1 DEF FastResult
    <2>6. call.pc # "idle" => trail.downs =< call.req.clicks
      BY <2>1 DEF FastDowns
    <2>7. guard.pc # "idle" => trail.downs =< guard.req.clicks
      BY <2>2 DEF GuardDowns
    <2> QED  BY <2>3, <2>4, <2>5, <2>6, <2>7 DEF HonestResult, Dropped, Brought
  <1> QED  BY <1>1, InputInvariant, PTL
=============================================================================
