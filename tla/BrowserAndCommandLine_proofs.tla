-------------------- MODULE BrowserAndCommandLine_proofs --------------------
(***************************************************************************)
(* Two components that share no state: the browser tasks of a Host, and    *)
(* the commands of the dcc-cua executable.                                 *)
(*                                                                         *)
(* For every set of leases, targets, pages and texts: what is handed to    *)
(* the core for the browser was allowed, input acts on fresh evidence also *)
(* among the requests of the browser, and the clipboard is emptied only    *)
(* when its text is in the vault.                                          *)
(*                                                                         *)
(* The first part is about ActionEvidence alone: evidence never outlives a *)
(* change of the window, in the core, in the Host's caches or in the       *)
(* browser.  Its invariant carries over to the tasks of the browser; new   *)
(* there is what becomes of the browser's snapshot: only a snapshot        *)
(* request makes one, so the page the Host knows and the snapshot's        *)
(* identity come and go together.                                          *)
(*                                                                         *)
(* The last part is about the commands: an MCP server that reports a task  *)
(* stopped, or that exits without an error, has left nothing running; and  *)
(* no interleaving of updates, host-ensures and crashes loses the          *)
(* installed executable or leaves a Host behind.                           *)
(***************************************************************************)
EXTENDS BrowserTask, CommandLine, TLAPS

(***************************************************************************)
(* What holds of a session inside a request.  Loose: while its window is   *)
(* being touched.  Mid: when the core has answered, the Host may not have  *)
(* followed its epoch yet.  AtRest: when the Host has.  Good: between      *)
(* requests, where a stop may have moved the epoch behind the Host's back. *)
(***************************************************************************)
FreshAt(c, n) == c # None => c.at = n

Loose(s) ==
    /\ s \in Session
    /\ s.synced <= s.epoch
    /\ s.browserEpoch <= s.epoch

HostFresh(s) == FreshAt(s.hostObs, s.version) /\ FreshAt(s.hostAcc, s.version)

Mid(s) ==
    /\ Loose(s)
    /\ FreshAt(s.obs, s.version)
    /\ s.synced = s.epoch => HostFresh(s)
    /\ s.browserEpoch = s.epoch => FreshAt(s.snap, s.version)

Good(s) == Mid(s) /\ HostFresh(s)

AtRest(s) == Mid(s) /\ s.synced = s.epoch

(***************************************************************************)
(* The fields of a session that the operators change, one lemma each.      *)
(***************************************************************************)
\* No capture at all is a capture of type, and it is fresh at every version.
LEMMA NoneCapture == None \in Capture /\ \A n : FreshAt(None, n)
BY DEF None, Capture, FreshAt

\* Touched changes the version of the window and nothing else.
LEMMA TouchedFields ==
    ASSUME NEW s \in Session
    PROVE  /\ Touched(s) \in Session
           /\ Touched(s).epoch = s.epoch
           /\ Touched(s).synced = s.synced
           /\ Touched(s).browserEpoch = s.browserEpoch
BY DEF Touched, Session

\* An invalidation changes the epoch and the core's observation.
LEMMA InvalidateFields ==
    ASSUME NEW s \in Session
    PROVE  LET t == InvalidateActionObservations(s)
           IN  /\ t \in Session
               /\ t.epoch = s.epoch + 1 /\ t.obs = None
               /\ t.synced = s.synced /\ t.browserEpoch = s.browserEpoch
               /\ t.hostObs = s.hostObs /\ t.hostAcc = s.hostAcc /\ t.snap = s.snap
               /\ t.version = s.version
<1> DEFINE a == [s EXCEPT !.epoch = s.epoch + 1]
<1>1. /\ a \in Session
      /\ a.epoch = s.epoch + 1
      /\ a.synced = s.synced /\ a.browserEpoch = s.browserEpoch
      /\ a.hostObs = s.hostObs /\ a.hostAcc = s.hostAcc /\ a.snap = s.snap
      /\ a.version = s.version
  BY DEF Session
<1> DEFINE t == [a EXCEPT !.obs = None]
<1>2. InvalidateActionObservations(s) = t
  BY DEF InvalidateActionObservations
<1> HIDE DEF a
<1>3. /\ t \in Session
      /\ t.epoch = a.epoch /\ t.obs = None
      /\ t.synced = a.synced /\ t.browserEpoch = a.browserEpoch
      /\ t.hostObs = a.hostObs /\ t.hostAcc = a.hostAcc /\ t.snap = a.snap
      /\ t.version = a.version
  BY <1>1, NoneCapture DEF Session
<1> HIDE DEF t
<1> QED
  BY <1>1, <1>2, <1>3

\* Giving up the session does so with an invalidation.
LEMMA InvalidateLocalFields ==
    ASSUME NEW s \in Session
    PROVE  LET t == InvalidateLocalSession(s)
           IN  /\ t \in Session
               /\ t.epoch = s.epoch + 1 /\ t.obs = None
               /\ t.synced = s.synced /\ t.browserEpoch = s.browserEpoch
               /\ t.hostObs = s.hostObs /\ t.hostAcc = s.hostAcc /\ t.snap = s.snap
               /\ t.version = s.version
<1> DEFINE a == InvalidateActionObservations(s)
<1> DEFINE t == [a EXCEPT !.active = FALSE]
<1>1. InvalidateLocalSession(s) = t
  BY DEF InvalidateLocalSession
<1>2. /\ a \in Session
      /\ a.epoch = s.epoch + 1 /\ a.obs = None
      /\ a.synced = s.synced /\ a.browserEpoch = s.browserEpoch
      /\ a.hostObs = s.hostObs /\ a.hostAcc = s.hostAcc /\ a.snap = s.snap
      /\ a.version = s.version
  BY InvalidateFields
<1> HIDE DEF a
<1>3. /\ t \in Session
      /\ t.epoch = a.epoch /\ t.obs = a.obs
      /\ t.synced = a.synced /\ t.browserEpoch = a.browserEpoch
      /\ t.hostObs = a.hostObs /\ t.hostAcc = a.hostAcc /\ t.snap = a.snap
      /\ t.version = a.version
  BY <1>2 DEF Session
<1> HIDE DEF t
<1> QED
  BY <1>1, <1>2, <1>3

\* A capture becomes the core's observation and uses up one identity.
LEMMA CapturedFields ==
    ASSUME NEW s \in Session
    PROVE  LET t == Captured(s)
           IN  /\ t \in Session
               /\ t.obs = NewCapture(s)
               /\ t.obs # None /\ t.obs.at = s.version
               /\ t.epoch = s.epoch
               /\ t.synced = s.synced /\ t.browserEpoch = s.browserEpoch
               /\ t.hostObs = s.hostObs /\ t.hostAcc = s.hostAcc /\ t.snap = s.snap
               /\ t.version = s.version
<1>0. NewCapture(s) \in Capture /\ NewCapture(s) # None /\ NewCapture(s).at = s.version
  BY DEF NewCapture, Capture, None, Session
<1> DEFINE a == [s EXCEPT !.obs = NewCapture(s)]
<1> DEFINE t == [a EXCEPT !.captures = s.captures + 1]
<1>1. Captured(s) = t
  BY DEF Captured
<1>2. /\ a \in Session
      /\ a.epoch = s.epoch /\ a.obs = NewCapture(s)
      /\ a.synced = s.synced /\ a.browserEpoch = s.browserEpoch
      /\ a.hostObs = s.hostObs /\ a.hostAcc = s.hostAcc /\ a.snap = s.snap
      /\ a.version = s.version
  BY <1>0 DEF Session
<1> HIDE DEF a
<1>3. s.captures + 1 \in Nat
  BY DEF Session
<1>4. /\ t \in Session
      /\ t.epoch = a.epoch /\ t.obs = a.obs
      /\ t.synced = a.synced /\ t.browserEpoch = a.browserEpoch
      /\ t.hostObs = a.hostObs /\ t.hostAcc = a.hostAcc /\ t.snap = a.snap
      /\ t.version = a.version
  BY <1>2, <1>3 DEF Session
<1> HIDE DEF t
<1> QED
  BY <1>0, <1>1, <1>2, <1>4

\* The Host's native caches.
LEMMA ClearFields ==
    ASSUME NEW s \in Session
    PROVE  LET t == ClearNativeCaches(s)
           IN  /\ t \in Session
               /\ t.hostObs = None /\ t.hostAcc = None
               /\ t.epoch = s.epoch /\ t.obs = s.obs
               /\ t.synced = s.synced /\ t.browserEpoch = s.browserEpoch
               /\ t.snap = s.snap /\ t.version = s.version
<1> DEFINE a == [s EXCEPT !.hostObs = None]
<1> DEFINE t == [a EXCEPT !.hostAcc = None]
<1>1. ClearNativeCaches(s) = t
  BY DEF ClearNativeCaches
<1>2. /\ a \in Session
      /\ a.hostObs = None
      /\ a.epoch = s.epoch /\ a.obs = s.obs
      /\ a.synced = s.synced /\ a.browserEpoch = s.browserEpoch
      /\ a.snap = s.snap /\ a.version = s.version
  BY NoneCapture DEF Session
<1> HIDE DEF a
<1>3. /\ t \in Session
      /\ t.hostObs = a.hostObs /\ t.hostAcc = None
      /\ t.epoch = a.epoch /\ t.obs = a.obs
      /\ t.synced = a.synced /\ t.browserEpoch = a.browserEpoch
      /\ t.snap = a.snap /\ t.version = a.version
  BY <1>2, NoneCapture DEF Session
<1> HIDE DEF t
<1> QED
  BY <1>1, <1>2, <1>3

\* The Host's browser evidence.
LEMMA DiscardFields ==
    ASSUME NEW s \in Session
    PROVE  LET t == DiscardBrowserEvidence(s)
           IN  /\ t \in Session
               /\ t.browserEpoch = -1 /\ t.snap = None
               /\ t.epoch = s.epoch /\ t.obs = s.obs /\ t.synced = s.synced
               /\ t.hostObs = s.hostObs /\ t.hostAcc = s.hostAcc /\ t.version = s.version
<1> DEFINE a == [s EXCEPT !.browserEpoch = -1]
<1> DEFINE t == [a EXCEPT !.snap = None]
<1>1. DiscardBrowserEvidence(s) = t
  BY DEF DiscardBrowserEvidence
<1>2. /\ a \in Session
      /\ a.browserEpoch = -1
      /\ a.epoch = s.epoch /\ a.obs = s.obs /\ a.synced = s.synced
      /\ a.hostObs = s.hostObs /\ a.hostAcc = s.hostAcc /\ a.version = s.version
  BY DEF Session
<1> HIDE DEF a
<1>3. /\ t \in Session
      /\ t.browserEpoch = a.browserEpoch /\ t.snap = None
      /\ t.epoch = a.epoch /\ t.obs = a.obs /\ t.synced = a.synced
      /\ t.hostObs = a.hostObs /\ t.hostAcc = a.hostAcc /\ t.version = a.version
  BY <1>2, NoneCapture DEF Session
<1> HIDE DEF t
<1> QED
  BY <1>1, <1>2, <1>3

\* Forgetting the browser's snapshot, starting or changing a status, and moving
\* the Host's epoch: single fields.
LEMMA SingleFields ==
    ASSUME NEW s \in Session, NEW b \in BOOLEAN,
           NEW i \in {"ready", "suspended"},
           NEW w \in {"available", "minimized", "unavailable"}
    PROVE  /\ LET t == [s EXCEPT !.snap = None]
              IN  /\ t \in Session /\ t.snap = None
                  /\ t.epoch = s.epoch /\ t.obs = s.obs /\ t.synced = s.synced
                  /\ t.browserEpoch = s.browserEpoch
                  /\ t.hostObs = s.hostObs /\ t.hostAcc = s.hostAcc /\ t.version = s.version
           /\ LET t == [s EXCEPT !.active = b]
              IN  /\ t \in Session /\ t.snap = s.snap
                  /\ t.epoch = s.epoch /\ t.obs = s.obs /\ t.synced = s.synced
                  /\ t.browserEpoch = s.browserEpoch
                  /\ t.hostObs = s.hostObs /\ t.hostAcc = s.hostAcc /\ t.version = s.version
           /\ LET t == [s EXCEPT !.synced = s.epoch]
              IN  /\ t \in Session /\ t.snap = s.snap
                  /\ t.epoch = s.epoch /\ t.obs = s.obs /\ t.synced = s.epoch
                  /\ t.browserEpoch = s.browserEpoch
                  /\ t.hostObs = s.hostObs /\ t.hostAcc = s.hostAcc /\ t.version = s.version
           /\ LET t == [s EXCEPT !.input = i]
              IN  t \in Session /\ t.epoch = s.epoch /\ t.synced = s.synced
                  /\ t.browserEpoch = s.browserEpoch
           /\ LET t == [s EXCEPT !.target = w]
              IN  t \in Session /\ t.epoch = s.epoch /\ t.synced = s.synced
                  /\ t.browserEpoch = s.browserEpoch
<1>1. LET t == [s EXCEPT !.snap = None]
      IN  /\ t \in Session /\ t.snap = None
          /\ t.epoch = s.epoch /\ t.obs = s.obs /\ t.synced = s.synced
          /\ t.browserEpoch = s.browserEpoch
          /\ t.hostObs = s.hostObs /\ t.hostAcc = s.hostAcc /\ t.version = s.version
  BY NoneCapture DEF Session
<1>2. LET t == [s EXCEPT !.active = b]
      IN  /\ t \in Session /\ t.snap = s.snap
          /\ t.epoch = s.epoch /\ t.obs = s.obs /\ t.synced = s.synced
          /\ t.browserEpoch = s.browserEpoch
          /\ t.hostObs = s.hostObs /\ t.hostAcc = s.hostAcc /\ t.version = s.version
  BY DEF Session
<1>3. LET t == [s EXCEPT !.synced = s.epoch]
      IN  /\ t \in Session /\ t.snap = s.snap
          /\ t.epoch = s.epoch /\ t.obs = s.obs /\ t.synced = s.epoch
          /\ t.browserEpoch = s.browserEpoch
          /\ t.hostObs = s.hostObs /\ t.hostAcc = s.hostAcc /\ t.version = s.version
  BY DEF Session
<1>4. LET t == [s EXCEPT !.input = i]
      IN  t \in Session /\ t.epoch = s.epoch /\ t.synced = s.synced
          /\ t.browserEpoch = s.browserEpoch
  BY DEF Session
<1>5. LET t == [s EXCEPT !.target = w]
      IN  t \in Session /\ t.epoch = s.epoch /\ t.synced = s.synced
          /\ t.browserEpoch = s.browserEpoch
  BY DEF Session
<1> QED
  BY <1>1, <1>2, <1>3, <1>4, <1>5

\* Recording a capture in the Host's caches.
LEMMA RecordedFields ==
    ASSUME NEW s \in Session
    PROVE  LET t == Recorded(s)
           IN  /\ t \in Session
               /\ t.hostObs = s.obs /\ t.hostAcc \in {s.obs, None}
               /\ t.epoch = s.epoch /\ t.obs = s.obs
               /\ t.synced = s.synced /\ t.browserEpoch = s.browserEpoch
               /\ t.snap = s.snap /\ t.version = s.version
<1> DEFINE c == IF s.semantic THEN s.obs ELSE None
<1> DEFINE a == [s EXCEPT !.hostObs = s.obs]
<1> DEFINE t == [a EXCEPT !.hostAcc = c]
<1>1. Recorded(s) = t
  BY DEF Recorded
<1>2. c \in Capture /\ c \in {s.obs, None}
  BY NoneCapture DEF Session
<1>3. /\ a \in Session
      /\ a.hostObs = s.obs
      /\ a.epoch = s.epoch /\ a.obs = s.obs
      /\ a.synced = s.synced /\ a.browserEpoch = s.browserEpoch
      /\ a.snap = s.snap /\ a.version = s.version
  BY DEF Session
<1> HIDE DEF a, c
<1>4. /\ t \in Session
      /\ t.hostObs = a.hostObs /\ t.hostAcc = c
      /\ t.epoch = a.epoch /\ t.obs = a.obs
      /\ t.synced = a.synced /\ t.browserEpoch = a.browserEpoch
      /\ t.snap = a.snap /\ t.version = a.version
  BY <1>2, <1>3 DEF Session
<1> HIDE DEF t
<1> QED
  BY <1>1, <1>2, <1>3, <1>4

\* Following the epoch, outright or while a browser snapshot is published.
LEMMA SynchronizeFields ==
    ASSUME NEW s \in Session, NEW p \in BOOLEAN
    PROVE  LET t == Synchronize(s, p)
           IN  /\ t \in Session
               /\ t.synced = s.epoch /\ t.epoch = s.epoch
               /\ t.obs = s.obs /\ t.version = s.version
               /\ s.synced = s.epoch => t = s
               /\ s.synced # s.epoch => t.hostObs = None /\ t.hostAcc = None
               /\ t.browserEpoch \in {s.browserEpoch, -1}
               /\ t.snap \in {s.snap, None}
<1>1. CASE s.synced = s.epoch
  BY <1>1 DEF Synchronize
<1>2. CASE s.synced # s.epoch
  <2> DEFINE d == IF p THEN s ELSE DiscardBrowserEvidence(s)
             c == ClearNativeCaches(d)
             t == [c EXCEPT !.synced = s.epoch]
  <2>1. Synchronize(s, p) = t
    BY <1>2 DEF Synchronize
  <2>2. /\ d \in Session
        /\ d.epoch = s.epoch /\ d.obs = s.obs /\ d.version = s.version
        /\ d.browserEpoch \in {s.browserEpoch, -1} /\ d.snap \in {s.snap, None}
    BY DiscardFields
  <2> HIDE DEF d
  <2>3. /\ c \in Session
        /\ c.hostObs = None /\ c.hostAcc = None
        /\ c.epoch = d.epoch /\ c.obs = d.obs /\ c.version = d.version
        /\ c.browserEpoch = d.browserEpoch /\ c.snap = d.snap
    BY <2>2, ClearFields
  <2> HIDE DEF c
  <2>4. s.epoch \in Nat
    BY DEF Session
  <2>5. /\ t \in Session
        /\ t.synced = s.epoch
        /\ t.hostObs = c.hostObs /\ t.hostAcc = c.hostAcc
        /\ t.epoch = c.epoch /\ t.obs = c.obs /\ t.version = c.version
        /\ t.browserEpoch = c.browserEpoch /\ t.snap = c.snap
    BY <2>3, <2>4 DEF Session
  <2> HIDE DEF t
  <2> QED
    BY <1>2, <2>1, <2>2, <2>3, <2>5
<1> QED
  BY <1>1, <1>2

(***************************************************************************)
(* How the operators move between Loose, Mid and AtRest.                   *)
(***************************************************************************)
\* An invalidation restores what a touch of the window broke.
LEMMA InvalidateMid ==
    ASSUME NEW s, Loose(s)
    PROVE  /\ Loose(Touched(s))
           /\ Mid(InvalidateActionObservations(s))
           /\ Mid(InvalidateLocalSession(s))
<1>1. s \in Session /\ s.synced \in Nat /\ s.epoch \in Nat
      /\ s.browserEpoch \in Int /\ s.synced <= s.epoch /\ s.browserEpoch <= s.epoch
  BY DEF Loose, Session
<1>2. Loose(Touched(s))
  BY <1>1, TouchedFields DEF Loose
<1>3. Mid(InvalidateActionObservations(s))
  BY <1>1, InvalidateFields, NoneCapture DEF Mid, Loose
<1>4. Mid(InvalidateLocalSession(s))
  BY <1>1, InvalidateLocalFields, NoneCapture DEF Mid, Loose
<1> QED
  BY <1>2, <1>3, <1>4

\* What the Host drops, and a new capture, keep a session Mid.
LEMMA DropMid ==
    ASSUME NEW s, Mid(s)
    PROVE  /\ Mid(Captured(s))
           /\ Mid(ClearNativeCaches(s))
           /\ Mid(DiscardBrowserEvidence(s))
           /\ Mid([s EXCEPT !.snap = None])
<1>1. /\ s \in Session /\ s.synced \in Nat /\ s.epoch \in Nat
      /\ s.browserEpoch \in Int /\ s.synced <= s.epoch /\ s.browserEpoch <= s.epoch
  BY DEF Mid, Loose, Session
<1>2. Mid(Captured(s))
  BY <1>1, CapturedFields DEF Mid, Loose, FreshAt, HostFresh
<1>3. Mid(ClearNativeCaches(s))
  BY <1>1, ClearFields, NoneCapture DEF Mid, Loose, HostFresh
<1>4. Mid(DiscardBrowserEvidence(s))
  BY <1>1, DiscardFields, NoneCapture DEF Mid, Loose, HostFresh
<1>5. Mid([s EXCEPT !.snap = None])
  <2> DEFINE t == [s EXCEPT !.snap = None]
  <2>1. /\ t \in Session /\ t.snap = None
        /\ t.epoch = s.epoch /\ t.obs = s.obs /\ t.synced = s.synced
        /\ t.browserEpoch = s.browserEpoch
        /\ t.hostObs = s.hostObs /\ t.hostAcc = s.hostAcc /\ t.version = s.version
    BY <1>1, SingleFields
  <2> HIDE DEF t
  <2>2. Mid(t)
    BY <1>1, <2>1, NoneCapture DEF Mid, Loose, HostFresh
  <2> QED
    BY <2>2 DEF t
<1> QED
  BY <1>2, <1>3, <1>4, <1>5

\* The Host caught up with the core: nothing it kept is older than the window.
LEMMA SyncedAtRest ==
    ASSUME NEW s, Mid(s)
    PROVE  AtRest(Synced(s))
<1>1. /\ s \in Session /\ s.synced \in Nat /\ s.epoch \in Nat
      /\ s.browserEpoch \in Int /\ s.synced <= s.epoch /\ s.browserEpoch <= s.epoch
  BY DEF Mid, Loose, Session
<1> DEFINE t == Synchronize(s, FALSE)
<1>2. /\ t \in Session
      /\ t.synced = s.epoch /\ t.epoch = s.epoch
      /\ t.obs = s.obs /\ t.version = s.version
      /\ s.synced = s.epoch => t = s
      /\ s.synced # s.epoch => t.hostObs = None /\ t.hostAcc = None
      /\ t.browserEpoch \in {s.browserEpoch, -1}
      /\ t.snap \in {s.snap, None}
  BY <1>1, SynchronizeFields
<1>3. Synced(s) = t
  BY DEF Synced
<1> HIDE DEF t
<1>4. CASE s.synced = s.epoch
  BY <1>2, <1>3, <1>4 DEF AtRest
<1>5. CASE s.synced # s.epoch
  BY <1>1, <1>2, <1>3, <1>5, NoneCapture DEF AtRest, Mid, Loose, HostFresh
<1> QED
  BY <1>4, <1>5

\* Both invalidations of the Host end a request with nothing stale.
LEMMA HostInvalidateAtRest ==
    ASSUME NEW s
    PROVE  /\ Loose(s) => AtRest(HostInvalidateActionObservations(s))
           /\ Mid(s) => AtRest(HostInvalidateObservations(s))
<1>1. ASSUME Loose(s) PROVE AtRest(HostInvalidateActionObservations(s))
  BY <1>1, InvalidateMid, SyncedAtRest DEF HostInvalidateActionObservations
<1>2. ASSUME Mid(s) PROVE AtRest(HostInvalidateObservations(s))
  <2> DEFINE a == [s EXCEPT !.synced = s.epoch]
             c == ClearNativeCaches(a)
             t == DiscardBrowserEvidence(c)
  <2>1. /\ s \in Session /\ s.epoch \in Nat /\ FreshAt(s.obs, s.version)
    BY <1>2 DEF Mid, Loose, Session
  <2>2. /\ a \in Session /\ a.epoch = s.epoch /\ a.synced = s.epoch
        /\ a.obs = s.obs /\ a.version = s.version
    BY <2>1, SingleFields
  <2>3. HostInvalidateObservations(s) = t
    BY DEF HostInvalidateObservations
  <2> HIDE DEF a
  <2>4. /\ c \in Session /\ c.hostObs = None /\ c.hostAcc = None
        /\ c.epoch = a.epoch /\ c.synced = a.synced
        /\ c.obs = a.obs /\ c.version = a.version
    BY <2>2, ClearFields
  <2> HIDE DEF c
  <2>5. /\ t \in Session /\ t.hostObs = c.hostObs /\ t.hostAcc = c.hostAcc
        /\ t.epoch = c.epoch /\ t.synced = c.synced
        /\ t.obs = c.obs /\ t.version = c.version
        /\ t.browserEpoch = -1 /\ t.snap = None
    BY <2>4, DiscardFields
  <2> HIDE DEF t
  <2> QED
    BY <2>1, <2>2, <2>3, <2>4, <2>5, NoneCapture DEF AtRest, Mid, Loose, HostFresh
<1> QED
  BY <1>1, <1>2

\* A sample, a lost status and the end of a request leave the Host at rest.
LEMMA ObserveAtRest ==
    ASSUME NEW s, AtRest(s)
    PROVE  /\ \A i \in {"ready", "suspended"} : AtRest(ObserveInput(s, i))
           /\ \A w \in {"available", "minimized", "unavailable"} : AtRest(ObserveTarget(s, w))
<1>1. Loose(s) /\ Loose(Touched(s)) /\ Touched(s) \in Session
  BY InvalidateMid, TouchedFields DEF AtRest, Mid, Loose
<1>2. ASSUME NEW i \in {"ready", "suspended"}
      PROVE  AtRest(ObserveInput(s, i))
  <2> DEFINE t == [Touched(s) EXCEPT !.input = i]
  <2>1. Loose(t)
    BY <1>1, SingleFields DEF Loose
  <2> HIDE DEF t
  <2>2. AtRest(HostInvalidateActionObservations(t))
    BY <2>1, HostInvalidateAtRest
  <2> QED
    BY <2>2 DEF ObserveInput, t
<1>3. ASSUME NEW w \in {"available", "minimized", "unavailable"}
      PROVE  AtRest(ObserveTarget(s, w))
  <2> DEFINE t == [Touched(s) EXCEPT !.target = w]
  <2>1. Loose(t)
    BY <1>1, SingleFields DEF Loose
  <2> HIDE DEF t
  <2>2. AtRest(HostInvalidateActionObservations(t))
    BY <2>1, HostInvalidateAtRest
  <2> QED
    BY <2>2 DEF ObserveTarget, t
<1> QED
  BY <1>2, <1>3

\* A sample taken while the Host lags behind the core.
LEMMA ObserveMid ==
    ASSUME NEW s, Mid(s), NEW i \in {"ready", "suspended"}
    PROVE  Mid(ObserveInput(s, i))
<1> DEFINE t == [Touched(s) EXCEPT !.input = i]
<1>1. Loose(Touched(s)) /\ Touched(s) \in Session
  BY InvalidateMid, TouchedFields DEF Mid, Loose
<1>2. Loose(t)
  BY <1>1, SingleFields DEF Loose
<1> HIDE DEF t
<1>3. Mid(HostInvalidateActionObservations(t))
  BY <1>2, HostInvalidateAtRest DEF AtRest
<1> QED
  BY <1>3 DEF ObserveInput, t

\* finish_observation_sensitive_attempt, whatever the result of the attempt.
LEMMA FinishedAtRest ==
    ASSUME NEW s, Mid(s), NEW code
    PROVE  AtRest(Finished(s, code))
<1> DEFINE u == IF code \in {"ok", "other"} THEN Synced(s)
                ELSE HostInvalidateActionObservations(Synced(s))
<1>1. AtRest(Synced(s)) /\ Loose(Synced(s))
  BY SyncedAtRest DEF AtRest, Mid
<1>2. AtRest(u)
  BY <1>1, HostInvalidateAtRest
<1>3. Finished(s, code) = CASE code = "input_unavailable" -> ObserveInput(u, "suspended")
                            [] code = "target_minimized" -> ObserveTarget(u, "minimized")
                            [] code = "target_unavailable" -> ObserveTarget(u, "unavailable")
                            [] OTHER -> u
  BY DEF Finished
<1> HIDE DEF u
<1>4. /\ AtRest(ObserveInput(u, "suspended"))
      /\ AtRest(ObserveTarget(u, "minimized"))
      /\ AtRest(ObserveTarget(u, "unavailable"))
  BY <1>2, ObserveAtRest
<1> QED
  BY <1>2, <1>3, <1>4

\* A capture that is recorded shows the window as it is.
LEMMA RecordedAtRest ==
    ASSUME NEW s, AtRest(s)
    PROVE  AtRest(Recorded(s))
<1>1. s \in Session
  BY DEF AtRest, Mid, Loose
<1> QED
  BY <1>1, RecordedFields, NoneCapture DEF AtRest, Mid, Loose, HostFresh

(***************************************************************************)
(* Every outcome of a call of the core leaves the session Mid.             *)
(***************************************************************************)
\* An outcome with a session that is Mid.
LEMMA OutcomeMid ==
    ASSUME NEW x, Mid(x), NEW code, NEW sent
    PROVE  Mid(Outcome(x, code, sent).s)
BY DEF Outcome

\* Gates, renewals and their failures.
LEMMA GateMid ==
    ASSUME NEW s, Mid(s), NEW sent
    PROVE  /\ \A o \in GateFailures(s, sent) : Mid(o.s)
           /\ \A r \in Refreshed(s) : Mid(r)
           /\ \A o \in RefreshFailures(s) : Mid(o.s)
<1>1. Loose(s) /\ Loose(Touched(s))
  BY InvalidateMid DEF Mid
<1>2. Mid(InvalidateActionObservations(s)) /\ Mid(InvalidateActionObservations(Touched(s)))
  BY <1>1, InvalidateMid
<1>3. \A o \in GateFailures(s, sent) : Mid(o.s)
  BY <1>2 DEF GateFailures, Outcome
<1>4. \A r \in Refreshed(s) : Mid(r)
  BY <1>2 DEF Refreshed
<1>5. \A o \in RefreshFailures(s) : Mid(o.s)
  BY <1>2 DEF RefreshFailures, Outcome
<1> QED
  BY <1>3, <1>4, <1>5

\* A read of the window.
LEMMA ReadsMid ==
    ASSUME NEW s, Mid(s)
    PROVE  \A o \in Reads(s) : Mid(o.s)
<1>1. CASE ~s.active
  BY <1>1 DEF Reads, Outcome
<1>2. CASE s.active
  <2>1. SUFFICES ASSUME NEW o \in Reads(s) PROVE Mid(o.s)
    OBVIOUS
  <2>2. CASE o \in RefreshFailures(s)
    BY <2>2, GateMid
  <2>3. CASE \E r \in Refreshed(s) :
               o \in GateFailures(r, FALSE) \/ \E code \in {"ok", "other"} : o = Outcome(r, code, FALSE)
    <3>1. PICK r \in Refreshed(s) :
               o \in GateFailures(r, FALSE) \/ \E code \in {"ok", "other"} : o = Outcome(r, code, FALSE)
      BY <2>3
    <3>2. Mid(r)
      BY GateMid
    <3>3. CASE o \in GateFailures(r, FALSE)
      BY <3>2, <3>3, GateMid
    <3>4. CASE \E code \in {"ok", "other"} : o = Outcome(r, code, FALSE)
      BY <3>2, <3>4 DEF Outcome
    <3> QED
      BY <3>1, <3>3, <3>4
  <2> QED
    BY <1>2, <2>2, <2>3 DEF Reads
<1> QED
  BY <1>1, <1>2

\* The Host at rest after a read, with the capture in the core's hands.
LEMMA ObservedAtRest ==
    ASSUME NEW s, Mid(s), NEW o \in Reads(s)
    PROVE  AtRest(Observed(o))
<1>1. Mid(o.s)
  BY ReadsMid
<1>2. Mid(IF o.code = "ok" THEN Captured(o.s) ELSE o.s)
  BY <1>1, DropMid
<1> QED
  BY <1>2, FinishedAtRest DEF Observed

\* A dispatch, and what may come before it.
LEMMA DispatchMid ==
    ASSUME NEW s, Mid(s)
    PROVE  /\ \A o \in Dispatches(s) : Mid(o.s)
           /\ \A o \in PreDispatches(s) : Mid(o.s)
<1> DEFINE t == Touched(s)
           done == InvalidateActionObservations(t)
<1>1. Loose(s) /\ Loose(t)
  BY InvalidateMid DEF Mid
<1>2. Mid(done) /\ Mid(InvalidateLocalSession(t)) /\ Mid(InvalidateActionObservations(s))
  BY <1>1, InvalidateMid
<1>3. Dispatches(s) =
        {Outcome(done, code, TRUE) : code \in {"ok", "other", "completion_unknown"}}
        \cup GateFailures(done, TRUE)
        \cup {Outcome(InvalidateLocalSession(t), "completion_unknown", TRUE)}
  BY DEF Dispatches
<1> HIDE DEF t, done
<1>4. /\ \A o \in GateFailures(done, TRUE) : Mid(o.s)
      /\ \A o \in GateFailures(s, FALSE) : Mid(o.s)
  BY <1>2, GateMid
<1>5. ASSUME NEW o \in Dispatches(s) PROVE Mid(o.s)
  <2>1. \/ \E code : o = Outcome(done, code, TRUE)
        \/ o \in GateFailures(done, TRUE)
        \/ o = Outcome(InvalidateLocalSession(t), "completion_unknown", TRUE)
    BY <1>3, <1>5, Zenon
  <2>2. CASE o \in GateFailures(done, TRUE)
    BY <1>4, <2>2, Zenon
  <2>3. CASE \E code : o = Outcome(done, code, TRUE)
    BY <1>2, <2>3, OutcomeMid
  <2>4. CASE o = Outcome(InvalidateLocalSession(t), "completion_unknown", TRUE)
    BY <1>2, <2>4, OutcomeMid
  <2> QED
    BY <2>1, <2>2, <2>3, <2>4, Zenon
<1>6. ASSUME NEW o \in PreDispatches(s) PROVE Mid(o.s)
  <2>1. \/ o = Outcome(InvalidateActionObservations(s), "refresh_required", FALSE)
        \/ o = Outcome(s, "other", FALSE)
        \/ o \in GateFailures(s, FALSE)
    BY <1>6, Zenon DEF PreDispatches
  <2>2. CASE o \in GateFailures(s, FALSE)
    BY <1>4, <2>2, Zenon
  <2>3. CASE o = Outcome(InvalidateActionObservations(s), "refresh_required", FALSE)
    BY <1>2, <2>3, OutcomeMid
  <2>4. CASE o = Outcome(s, "other", FALSE)
    BY <1>2, <2>4, OutcomeMid
  <2> QED
    BY <2>1, <2>2, <2>3, <2>4, Zenon
<1> QED
  BY <1>5, <1>6

\* Mutations, activations and actions on an observation.
LEMMA MutationMid ==
    ASSUME NEW s, Mid(s)
    PROVE  /\ \A o \in Mutations(s) : Mid(o.s)
           /\ \A o \in Activations(s) : Mid(o.s)
           /\ \A c : \A o \in PerformAction(s, c) : Mid(o.s)
<1> DEFINE i == InvalidateActionObservations(s)
<1>1. Mid(i)
  BY InvalidateMid DEF Mid
<1>2. \A o \in Mutations(s) : Mid(o.s)
  BY DispatchMid DEF Mutations, Outcome
<1>3. \A o \in Activations(s) : Mid(o.s)
  <2>1. \A o \in GateFailures(s, FALSE) : Mid(o.s)
    BY GateMid
  <2>2. ASSUME NEW o \in Activations(s) PROVE Mid(o.s)
    <3>1. \/ o \in GateFailures(s, FALSE)
          \/ \E code : o = Outcome(s, code, FALSE)
          \/ \E code : o = Outcome(i, code, FALSE)
      BY <2>2, Zenon DEF Activations
    <3>2. CASE o \in GateFailures(s, FALSE)
      BY <2>1, <3>2, Zenon
    <3>3. CASE \E code : o = Outcome(s, code, FALSE)
      BY <3>3, OutcomeMid
    <3>4. CASE \E code : o = Outcome(i, code, FALSE)
      BY <1>1, <3>4, OutcomeMid
    <3> QED
      BY <3>1, <3>2, <3>3, <3>4, Zenon
  <2> QED
    BY <2>2
<1>4. ASSUME NEW c, NEW o \in PerformAction(s, c) PROVE Mid(o.s)
  <2>1. \/ o \in PreDispatches(s) \cup Dispatches(s)
        \/ o \in PreDispatches(i) \cup Dispatches(i)
        \/ o = Outcome(s, "other", FALSE)
        \/ o = Outcome(s, "ok", FALSE)
        \/ o = Outcome(i, "completion_unknown", FALSE)
    BY <1>4 DEF PerformAction
  <2> HIDE DEF i
  <2> QED
    BY <1>1, <2>1, DispatchMid DEF Outcome
<1> QED
  BY <1>2, <1>3, <1>4

\* Looking at the window again leaves the Host at rest.
LEMMA ProbedAtRest ==
    ASSUME NEW s, Mid(s), NEW t \in Probed(s)
    PROVE  AtRest(t)
<1>1. Mid(s) /\ Loose(s)
  BY DEF Mid
<1>2. AtRest(Finished(s, "other"))
  BY <1>1, FinishedAtRest
<1>3. AtRest(ObserveTarget(Synced(s), "available"))
  BY <1>1, SyncedAtRest, ObserveAtRest
<1>4. \A o \in GateFailures(s, FALSE) : AtRest(Finished(o.s, o.code))
  BY <1>1, GateMid, FinishedAtRest
<1>5. \A status \in {"minimized", "unavailable"} :
         AtRest(ObserveTarget(HostInvalidateActionObservations(s), status))
  BY <1>1, HostInvalidateAtRest, ObserveAtRest
<1> QED
  BY <1>2, <1>3, <1>4, <1>5 DEF Probed

(***************************************************************************)
(* The requests.                                                           *)
(***************************************************************************)
UsedFresh ==
    /\ used \in [at : Nat, version : Nat]
    /\ used.at = used.version

\* The inductive invariant: between requests the session is Good.
IInv == Good(session) /\ UsedFresh

\* A published browser snapshot shows the page in the epoch it is bound to.
LEMMA PublishedAtRest ==
    ASSUME NEW s, Mid(s)
    PROVE  AtRest(Published(s))
<1>1. /\ s \in Session /\ s.synced \in Nat /\ s.epoch \in Nat
      /\ s.browserEpoch \in Int /\ s.synced <= s.epoch /\ s.browserEpoch <= s.epoch
      /\ s.captures + 1 \in Nat
  BY DEF Mid, Loose, Session
<1> DEFINE y == Synchronize(s, TRUE)
           b == [y EXCEPT !.browserEpoch = s.epoch]
           c == [b EXCEPT !.snap = NewCapture(s)]
           t == [c EXCEPT !.captures = y.captures + 1]
<1>2. Published(s) = t
  BY DEF Published
<1>3. NewCapture(s) \in Capture /\ NewCapture(s).at = s.version
  BY <1>1 DEF NewCapture, Capture, Session
<1>4. /\ y \in Session
      /\ y.synced = s.epoch /\ y.epoch = s.epoch
      /\ y.obs = s.obs /\ y.version = s.version
      /\ FreshAt(y.hostObs, s.version) /\ FreshAt(y.hostAcc, s.version)
  BY <1>1, SynchronizeFields, NoneCapture DEF Mid, HostFresh
<1> HIDE DEF y
<1>5. y.captures + 1 \in Nat
  BY <1>4 DEF Session
<1>6. /\ b \in Session /\ b.browserEpoch = s.epoch
      /\ b.synced = y.synced /\ b.epoch = y.epoch /\ b.obs = y.obs /\ b.version = y.version
      /\ b.hostObs = y.hostObs /\ b.hostAcc = y.hostAcc
  BY <1>1, <1>4 DEF Session
<1> HIDE DEF b
<1>7. /\ c \in Session /\ c.browserEpoch = b.browserEpoch /\ c.snap = NewCapture(s)
      /\ c.synced = b.synced /\ c.epoch = b.epoch /\ c.obs = b.obs /\ c.version = b.version
      /\ c.hostObs = b.hostObs /\ c.hostAcc = b.hostAcc
  BY <1>3, <1>6 DEF Session
<1> HIDE DEF c
<1>8. /\ t \in Session /\ t.browserEpoch = c.browserEpoch /\ t.snap = c.snap
      /\ t.synced = c.synced /\ t.epoch = c.epoch /\ t.obs = c.obs /\ t.version = c.version
      /\ t.hostObs = c.hostObs /\ t.hostAcc = c.hostAcc
  BY <1>5, <1>7 DEF Session
<1> HIDE DEF t
<1>9. FreshAt(s.obs, s.version)
  BY DEF Mid
<1> QED
  BY <1>1, <1>2, <1>3, <1>4, <1>6, <1>7, <1>8, <1>9
     DEF AtRest, Mid, Loose, HostFresh, FreshAt

\* At rest is more than Good.
LEMMA AtRestGood ==
    ASSUME NEW s, AtRest(s)
    PROVE  Good(s)
BY DEF AtRest, Good, Mid

\* The state a request starts from.
LEMMA BegunAtRest ==
    ASSUME Good(session)
    PROVE  AtRest(Begun) /\ Mid(Begun)
BY SyncedAtRest DEF Good, Begun, AtRest

\* A snapshot, recorded or lost on its way to the client.
LEMMA SnapshotOfGood ==
    ASSUME NEW s, Mid(s), SnapshotOf(s)
    PROVE  Good(session')
<1>1. PICK o \in Reads(s) :
        LET t == Observed(o)
        IN  IF o.code # "ok" THEN session' = t
            ELSE session' \in {Recorded(t), HostInvalidateObservations(Recorded(t))}
  BY DEF SnapshotOf
<1> DEFINE t == Observed(o)
<1>2. AtRest(t)
  BY ObservedAtRest
<1> HIDE DEF t
<1>3. AtRest(Recorded(t)) /\ Mid(Recorded(t))
  BY <1>2, RecordedAtRest DEF AtRest
<1>4. AtRest(HostInvalidateObservations(Recorded(t)))
  BY <1>3, HostInvalidateAtRest
<1>5. session' \in {t, Recorded(t), HostInvalidateObservations(Recorded(t))}
  BY <1>1 DEF t
<1> QED
  BY <1>2, <1>3, <1>4, <1>5, AtRestGood

\* The capture after an action.
LEMMA AfterActionGood ==
    ASSUME NEW s, AtRest(s), AfterAction(s)
    PROVE  Good(session')
<1>1. Mid(s)
  BY DEF AtRest
<1>2. \A x : AtRest(x) => Good(ClearNativeCaches(x))
  <2>1. SUFFICES ASSUME NEW x, AtRest(x) PROVE Good(ClearNativeCaches(x))
    OBVIOUS
  <2>2. Mid(ClearNativeCaches(x)) /\ x \in Session
    BY <2>1, DropMid DEF AtRest, Mid, Loose
  <2> QED
    BY <2>2, ClearFields, NoneCapture DEF Good, HostFresh
<1>3. CASE session' = ClearNativeCaches(s)
  BY <1>2, <1>3
<1>4. CASE \E o \in Reads(s) :
             session' = IF o.code = "ok" THEN Recorded(Observed(o))
                        ELSE ClearNativeCaches(Observed(o))
  <2>1. PICK o \in Reads(s) :
             session' = IF o.code = "ok" THEN Recorded(Observed(o))
                        ELSE ClearNativeCaches(Observed(o))
    BY <1>4
  <2>2. AtRest(Observed(o))
    BY <1>1, ObservedAtRest
  <2>3. AtRest(Recorded(Observed(o))) /\ Good(Recorded(Observed(o)))
    BY <2>2, RecordedAtRest, AtRestGood
  <2> QED
    BY <1>2, <2>1, <2>2, <2>3
<1> QED
  BY <1>3, <1>4 DEF AfterAction

\* An action on an observation the Host holds: the input it sends acts on a
\* capture of the window as it is, and afterwards nothing stale is left.
LEMMA ActGood ==
    ASSUME NEW s, AtRest(s), s.hostObs # None, UsedFresh, Act(s)
    PROVE  IInv'
<1>1. /\ Mid(s) /\ s.hostObs.at = s.version /\ s.hostObs.at \in Nat /\ s.version \in Nat
  BY DEF AtRest, Mid, Loose, HostFresh, FreshAt, Session, Capture
<1>2. PICK o \in PerformAction(s, s.hostObs) :
        LET f == Finished(o.s, o.code)
            t == IF s.semantic THEN f ELSE HostInvalidateObservations(f)
        IN  /\ IF o.code = "ok" THEN AfterAction(t) ELSE session' = t
            /\ used' = IF o.sent THEN [at |-> s.hostObs.at, version |-> s.version] ELSE used
  BY DEF Act
<1> DEFINE f == Finished(o.s, o.code)
           t == IF s.semantic THEN f ELSE HostInvalidateObservations(f)
<1>3. AtRest(f) /\ Mid(f)
  BY <1>1, MutationMid, FinishedAtRest DEF AtRest
<1>4. AtRest(t)
  BY <1>3, HostInvalidateAtRest
<1>5. IF o.code = "ok" THEN AfterAction(t) ELSE session' = t
  BY <1>2
<1> HIDE DEF f, t
<1>6. Good(session')
  BY <1>4, <1>5, AtRestGood, AfterActionGood
<1>7. UsedFresh'
  BY <1>1, <1>2 DEF UsedFresh
<1> QED
  BY <1>6, <1>7 DEF IInv, Good, Mid, Loose, HostFresh, FreshAt

\* The initial session holds no evidence at all.
LEMMA InitIInv == Init => IInv
<1>1. SUFFICES ASSUME Init PROVE IInv
  OBVIOUS
<1>2. PICK semantic \in BOOLEAN :
          session = [semantic |-> semantic, active |-> TRUE,
                     epoch |-> 0, obs |-> None, synced |-> 0,
                     hostObs |-> None, hostAcc |-> None, browserEpoch |-> -1, snap |-> None,
                     input |-> "ready", target |-> "available", version |-> 0, captures |-> 0]
  BY <1>1 DEF Init
<1>3. session \in Session
  BY <1>2, NoneCapture DEF Session
<1>4. Good(session)
  BY <1>2, <1>3, NoneCapture DEF Good, Mid, Loose, HostFresh
<1>5. UsedFresh
  BY <1>1 DEF Init, UsedFresh
<1> QED
  BY <1>4, <1>5 DEF IInv

\* Every request, sample and stop preserves the invariant.
LEMMA NextIInv == IInv /\ [Next]_vars => IInv'
<1> SUFFICES ASSUME IInv, [Next]_vars PROVE IInv'
  OBVIOUS
<1>1. Good(session) /\ UsedFresh
  BY DEF IInv
<1>2. AtRest(Begun) /\ Mid(Begun)
  BY <1>1, BegunAtRest
<1>3. ASSUME Good(session'), used' = used PROVE IInv'
  BY <1>1, <1>3 DEF IInv, UsedFresh, Good, Mid, Loose, HostFresh, FreshAt
<1>4. CASE Snapshot
  BY <1>2, <1>3, <1>4, SnapshotOfGood DEF Snapshot
<1>5. CASE SnapshotActivateBefore
  <2>1. PICK o \in Activations(Begun) :
          IF o.code = "ok" THEN SnapshotOf(Finished(o.s, o.code))
          ELSE session' = Finished(o.s, o.code)
    BY <1>5 DEF SnapshotActivateBefore
  <2>2. Mid(o.s)
    BY <1>2, MutationMid
  <2>3. AtRest(Finished(o.s, o.code)) /\ Mid(Finished(o.s, o.code))
    BY <2>2, FinishedAtRest DEF AtRest
  <2>4. Good(session')
    BY <2>1, <2>3, AtRestGood, SnapshotOfGood
  <2> QED
    BY <1>3, <1>5, <2>4 DEF SnapshotActivateBefore
<1>6. CASE AccessibilitySnapshot
  <2>1. PICK o \in Reads(Begun) :
          session' = IF o.code = "ok" THEN Recorded(Observed(o)) ELSE Observed(o)
    BY <1>6 DEF AccessibilitySnapshot
  <2>2. AtRest(Observed(o))
    BY <1>2, ObservedAtRest
  <2>3. AtRest(Recorded(Observed(o)))
    BY <2>2, RecordedAtRest
  <2>4. Good(session')
    BY <2>1, <2>2, <2>3, AtRestGood
  <2> QED
    BY <1>3, <1>6, <2>4 DEF AccessibilitySnapshot
<1>7. CASE WaitFor
  <2>1. ASSUME \E o \in Reads(Begun) : session' = Observed(o)
        PROVE  Good(session')
    BY <1>2, <2>1, ObservedAtRest, AtRestGood
  <2>2. ASSUME session' = HostInvalidateActionObservations(Begun)
        PROVE  Good(session')
    <3>1. Loose(Begun)
      BY <1>2 DEF Mid
    <3> QED
      BY <2>2, <3>1, HostInvalidateAtRest, AtRestGood
  <2>3. Good(session')
    BY <1>7, <2>1, <2>2 DEF WaitFor
  <2> QED
    BY <1>3, <1>7, <2>3 DEF WaitFor
<1>8. CASE ExecuteAction
  <2>1. CASE Act(Begun)
    BY <1>1, <1>2, <1>8, <2>1, ActGood DEF ExecuteAction
  <2>2. CASE ActOnRenewedEvidence(Begun)
    <3>1. PICK o \in Reads(Begun) :
            \/ o.code # "ok" /\ session' = Observed(o) /\ used' = used
            \/ o.code = "ok" /\ session' = HostInvalidateObservations(Observed(o)) /\ used' = used
            \/ o.code = "ok" /\ Act(Recorded(Observed(o)))
      BY <2>2 DEF ActOnRenewedEvidence
    <3>2. AtRest(Observed(o)) /\ Mid(Observed(o)) /\ Observed(o) \in Session
      BY <1>2, ObservedAtRest DEF AtRest, Mid, Loose
    <3>3. CASE session' = Observed(o) /\ used' = used
      BY <1>3, <3>2, <3>3, AtRestGood
    <3>4. CASE session' = HostInvalidateObservations(Observed(o)) /\ used' = used
      <4>1. AtRest(HostInvalidateObservations(Observed(o)))
        BY <3>2, HostInvalidateAtRest
      <4> QED
        BY <1>3, <3>4, <4>1, AtRestGood
    <3>5. CASE o.code = "ok" /\ Act(Recorded(Observed(o)))
      <4> DEFINE c == Captured(o.s)
                 r == Observed(o)
      <4>1. Mid(o.s) /\ o.s \in Session
        BY <1>2, ReadsMid DEF Mid, Loose
      <4>2. c \in Session /\ c.obs # None
        BY <4>1, CapturedFields
      <4>3. r = Synced(c)
        BY <3>5 DEF Observed, Finished
      <4> HIDE DEF c
      <4>4. r.obs = c.obs
        BY <4>2, <4>3, SynchronizeFields DEF Synced
      <4> HIDE DEF r
      <4>5. r \in Session /\ AtRest(r)
        BY <3>2 DEF r
      <4>6. AtRest(Recorded(r)) /\ Recorded(r).hostObs # None
        BY <4>2, <4>4, <4>5, RecordedFields, RecordedAtRest
      <4> QED
        BY <1>1, <3>5, <4>6, ActGood DEF r
    <3> QED
      BY <3>1, <3>3, <3>4, <3>5
  <2> QED
    BY <1>8, <2>1, <2>2 DEF ExecuteAction
<1>9. CASE WindowMutation
  <2>1. PICK o \in Mutations(Begun) \cup Activations(Begun) :
          LET t == HostInvalidateObservations(Finished(o.s, o.code))
          IN  session' \in {t} \cup Probed(t)
    BY <1>9 DEF WindowMutation
  <2> DEFINE f == Finished(o.s, o.code)
             t == HostInvalidateObservations(f)
  <2>2. Mid(o.s)
    BY <1>2, MutationMid
  <2>3. Mid(f)
    BY <2>2, FinishedAtRest DEF AtRest
  <2>4. AtRest(t)
    BY <2>3, HostInvalidateAtRest
  <2> HIDE DEF f
  <2>5. session' \in {t} \cup Probed(t)
    BY <2>1 DEF f
  <2> HIDE DEF t
  <2>6. Good(session')
    BY <2>4, <2>5, ProbedAtRest, AtRestGood DEF AtRest
  <2> QED
    BY <1>3, <1>9, <2>6 DEF WindowMutation
<1>10. CASE MinimizeWindow
  <2>1. PICK o \in PerformAction(Begun, Begun.hostObs) :
          /\ LET t == HostInvalidateObservations(Finished(o.s, o.code))
             IN  session' \in IF o.code = "ok" THEN Probed(t) ELSE {t}
          /\ used' = IF o.sent THEN [at |-> Begun.hostObs.at, version |-> Begun.version] ELSE used
    BY <1>10 DEF MinimizeWindow
  <2> DEFINE f == Finished(o.s, o.code)
             t == HostInvalidateObservations(f)
  <2>2. Mid(o.s)
    BY <1>2, MutationMid
  <2>3. Mid(f)
    BY <2>2, FinishedAtRest DEF AtRest
  <2>4. AtRest(t)
    BY <2>3, HostInvalidateAtRest
  <2> HIDE DEF f
  <2>5. session' \in {t} \cup Probed(t)
    BY <2>1 DEF f
  <2> HIDE DEF t
  <2>6. Good(session')
    BY <2>4, <2>5, ProbedAtRest, AtRestGood DEF AtRest
  <2>7. Begun.hostObs.at = Begun.version /\ Begun.version \in Nat
    BY <1>2, <1>10 DEF MinimizeWindow, AtRest, Mid, Loose, HostFresh, FreshAt, Session
  <2>8. UsedFresh'
    BY <1>1, <2>1, <2>7 DEF UsedFresh
  <2> QED
    BY <2>6, <2>8 DEF IInv, Good, Mid, Loose, HostFresh, FreshAt
<1>11. CASE CallTool
  <2>1. PICK o \in Mutations(Begun) : session' = Finished(o.s, o.code)
    BY <1>11 DEF CallTool
  <2>2. Good(session')
    BY <1>2, <2>1, MutationMid, FinishedAtRest, AtRestGood
  <2> QED
    BY <1>3, <1>11, <2>2 DEF CallTool
<1> DEFINE d == [Begun EXCEPT !.snap = None]
<1>12. Mid(d)
  BY <1>2, DropMid
<1>13. CASE BrowserSnapshot
  <2>1. PICK o \in Reads(d) :
          \/ session' = Finished(DiscardBrowserEvidence(o.s), o.code)
          \/ session' = Published(o.s)
    BY <1>13 DEF BrowserSnapshot
  <2>2. Mid(o.s)
    BY <1>12, ReadsMid
  <2>3. AtRest(Published(o.s)) /\ AtRest(Finished(DiscardBrowserEvidence(o.s), o.code))
    BY <2>2, DropMid, FinishedAtRest, PublishedAtRest
  <2>4. Good(session')
    BY <2>1, <2>3, AtRestGood
  <2> QED
    BY <1>3, <1>13, <2>4 DEF BrowserSnapshot
<1>14. CASE BrowserInput
  <2>1. PICK o \in Mutations(d) :
          /\ session' = Finished(o.s, o.code)
          /\ used' = IF o.sent THEN [at |-> Begun.snap.at, version |-> Begun.version] ELSE used
    BY <1>14 DEF BrowserInput
  <2> HIDE DEF d
  <2>2. Good(session')
    BY <1>12, <2>1, MutationMid, FinishedAtRest, AtRestGood
  <2>3. Begun.snap.at = Begun.version /\ Begun.version \in Nat
    BY <1>2, <1>14 DEF BrowserInput, AtRest, Mid, Loose, FreshAt, Session
  <2>4. UsedFresh'
    BY <1>1, <2>1, <2>3 DEF UsedFresh
  <2> QED
    BY <2>2, <2>4 DEF IInv, Good, Mid, Loose, HostFresh, FreshAt
<1>15. CASE BrowserNavigate
  <2>1. PICK o \in Mutations(d) : session' = Finished(o.s, o.code)
    BY <1>15 DEF BrowserNavigate
  <2>2. Good(session')
    BY <1>12, <2>1, MutationMid, FinishedAtRest, AtRestGood
  <2> QED
    BY <1>3, <1>15, <2>2 DEF BrowserNavigate
<1>16. CASE Sample
  <2>1. PICK i \in {"ready", "suspended"} : session' \in Probed(ObserveInput(session, i))
    BY <1>16 DEF Sample
  <2>2. Mid(ObserveInput(session, i))
    BY <1>1, ObserveMid DEF Good
  <2>3. Good(session')
    BY <2>1, <2>2, ProbedAtRest, AtRestGood
  <2> QED
    BY <1>3, <1>16, <2>3 DEF Sample
<1>17. CASE StopCore
  <2>1. /\ session \in Session /\ Loose(session) /\ HostFresh(session)
    BY <1>1 DEF Good, Mid, Loose
  <2> DEFINE t == InvalidateLocalSession(session)
  <2>2. /\ Mid(t)
        /\ t.hostObs = session.hostObs /\ t.hostAcc = session.hostAcc
        /\ t.version = session.version
    BY <2>1, InvalidateMid, InvalidateLocalFields
  <2>3. session' = t
    BY <1>17 DEF StopCore
  <2> HIDE DEF t
  <2>4. Good(session')
    BY <2>1, <2>2, <2>3 DEF Good, HostFresh
  <2> QED
    BY <1>3, <1>17, <2>4 DEF StopCore
<1>18. CASE ResumeSession
  <2> DEFINE s == Begun
             t == [s EXCEPT !.active = TRUE]
  <2>1. s \in Session /\ AtRest(s)
    BY <1>2 DEF Mid, Loose
  <2>2. session' = t
    BY <1>18 DEF ResumeSession
  <2> HIDE DEF s
  <2>3. /\ t \in Session /\ t.snap = s.snap
        /\ t.epoch = s.epoch /\ t.obs = s.obs /\ t.synced = s.synced
        /\ t.browserEpoch = s.browserEpoch
        /\ t.hostObs = s.hostObs /\ t.hostAcc = s.hostAcc /\ t.version = s.version
    BY <2>1, SingleFields
  <2> HIDE DEF t
  <2>4. AtRest(t)
    BY <2>1, <2>3 DEF AtRest, Mid, Loose, HostFresh
  <2>5. Good(session')
    BY <2>2, <2>4, AtRestGood
  <2> QED
    BY <1>3, <1>18, <2>5 DEF ResumeSession
<1>19. CASE UNCHANGED vars
  BY <1>1, <1>3, <1>19 DEF vars
<1> QED
  BY <1>4, <1>5, <1>6, <1>7, <1>8, <1>9, <1>10, <1>11, <1>13, <1>14, <1>15, <1>16,
     <1>17, <1>18, <1>19 DEF Next

\* The invariant holds in every reachable state, for every bound.
THEOREM Invariance == Spec => []IInv
<1>1. Init => IInv
  BY InitIInv
<1>2. IInv /\ [Next]_vars => IInv'
  BY NextIInv
<1> QED
  BY <1>1, <1>2, PTL DEF Spec

\* The session and the ghost keep their types: the epoch in particular never
\* leaves the naturals, whatever sequence of requests moves it.
THEOREM TypeCorrect == Spec => []TypeOK
<1>1. IInv => TypeOK
  BY DEF IInv, Good, Mid, Loose, UsedFresh, TypeOK
<1> QED
  BY <1>1, Invariance, PTL

\* Every input that execute_action, minimize_window or a browser command sent
\* acted on a capture made after the last change of the window.
THEOREM InputOnFreshEvidenceAlways == Spec => []InputOnFreshEvidence
<1>1. IInv => InputOnFreshEvidence
  BY DEF IInv, UsedFresh, InputOnFreshEvidence
<1> QED
  BY <1>1, Invariance, PTL

\* latest_observation_id and the accessibility tree the Host keeps for find
\* never outlive a change of the window, even where the core was stopped
\* between two requests.
THEOREM HostEvidenceFreshAlways == Spec => []HostEvidenceFresh
<1>1. IInv => HostEvidenceFresh
  BY DEF IInv, Good, HostFresh, FreshAt, HostEvidenceFresh
<1> QED
  BY <1>1, Invariance, PTL

\* A browser snapshot whose epoch is the current one shows the current page.
THEOREM BrowserEvidenceFreshAlways == Spec => []BrowserEvidenceFresh
<1>1. IInv => BrowserEvidenceFresh
  BY DEF IInv, Good, Mid, FreshAt, BrowserEvidenceFresh
<1> QED
  BY <1>1, Invariance, PTL

-----------------------------------------------------------------------------
(***************************************************************************)
(* The tasks of the browser.  Their inductive invariant.                   *)
(***************************************************************************)
PageState ==
    [target : Targets \cup {NoTarget}, exact : BOOLEAN, tab : Tabs \cup {NoTab},
     doc : Docs \cup {NoDoc}, origin : Origins \cup {NoOrigin},
     pending : [tab : Tabs \cup {NoTab}, doc : Docs \cup {NoDoc}]]

\* A page as a confirmation may show it.
AnyPage ==
    [target : Targets \cup {NoTarget}, tab : Tabs \cup {NoTab},
     doc : Docs \cup {NoDoc}, origin : Origins \cup {NoOrigin}]

\* What is between the clipboard and the vault: a text that is to be cleared is
\* in the vault.
CaptureFit ==
    /\ capture \in [at : {"idle", "store", "clear"}, value : Values \cup {Empty}]
    /\ clipboard \in Values \cup {Empty}
    /\ capture.at = "clear" => vault = capture.value

\* The page that goes with a snapshot, or with none.
PageFit(p, snap) ==
    /\ p \in PageState
    /\ p.doc # NoDoc <=> snap # None
    /\ p.doc = NoDoc => p = ClearSnapshot(p)
    /\ p.pending # NoPending => p.pending.doc = p.doc /\ p.pending.tab = p.tab

TaskInv ==
    /\ IInv
    /\ lease \in Leases
    /\ PageFit(page, session.snap)
    /\ asked \in Seq(AnyPage)
    /\ InScope
    /\ AsConsented
    /\ CaptureFit

(***************************************************************************)
(* The snapshot that is c, or gone: what the steps of a request make of it.*)
(***************************************************************************)
Keeps(s, c) == s \in Session /\ s.snap \in {c, None}

\* The steps of the core and of the Host, one by one.
LEMMA StepKeeps ==
    ASSUME NEW c, NEW s, Keeps(s, c)
    PROVE  /\ Keeps(Touched(s), c)
           /\ Keeps(InvalidateActionObservations(s), c)
           /\ Keeps(InvalidateLocalSession(s), c)
           /\ Keeps(Captured(s), c)
           /\ Keeps(ClearNativeCaches(s), c)
           /\ Keeps(DiscardBrowserEvidence(s), c)
           /\ Keeps(Recorded(s), c)
           /\ Keeps(Synced(s), c)
<1>1. s \in Session /\ s.snap \in {c, None}
  BY DEF Keeps
<1>2. Touched(s).snap = s.snap
  BY <1>1 DEF Touched, Session
<1>3. Keeps(Touched(s), c)
  BY <1>1, <1>2, TouchedFields DEF Keeps
<1>4. Keeps(InvalidateActionObservations(s), c) /\ Keeps(InvalidateLocalSession(s), c)
  BY <1>1, InvalidateFields, InvalidateLocalFields DEF Keeps
<1>5. Keeps(Captured(s), c) /\ Keeps(ClearNativeCaches(s), c)
  BY <1>1, CapturedFields, ClearFields DEF Keeps
<1>6. Keeps(DiscardBrowserEvidence(s), c) /\ Keeps(Recorded(s), c)
  BY <1>1, DiscardFields, RecordedFields DEF Keeps
<1>7. Keeps(Synced(s), c)
  BY <1>1, SynchronizeFields DEF Keeps, Synced
<1> QED
  BY <1>3, <1>4, <1>5, <1>6, <1>7

\* The Host's own invalidations and the statuses it samples.
LEMMA HostKeeps ==
    ASSUME NEW c, NEW s, Keeps(s, c)
    PROVE  /\ Keeps(HostInvalidateActionObservations(s), c)
           /\ Keeps(HostInvalidateObservations(s), c)
           /\ \A i \in {"ready", "suspended"} : Keeps(ObserveInput(s, i), c)
           /\ \A w \in {"available", "minimized", "unavailable"} : Keeps(ObserveTarget(s, w), c)
<1>1. ASSUME NEW x, Keeps(x, c) PROVE Keeps(HostInvalidateActionObservations(x), c)
  BY <1>1, StepKeeps DEF HostInvalidateActionObservations
<1>2. Keeps(HostInvalidateObservations(s), c)
  <2> DEFINE a == [s EXCEPT !.synced = s.epoch]
  <2>1. Keeps(a, c)
    BY SingleFields DEF Keeps
  <2>2. HostInvalidateObservations(s) = DiscardBrowserEvidence(ClearNativeCaches(a))
    BY DEF HostInvalidateObservations
  <2> HIDE DEF a
  <2> QED
    BY <2>1, <2>2, StepKeeps
<1>3. Touched(s) \in Session /\ Keeps(Touched(s), c)
  BY StepKeeps DEF Keeps
<1>4. ASSUME NEW i \in {"ready", "suspended"} PROVE Keeps(ObserveInput(s, i), c)
  <2> DEFINE t == [Touched(s) EXCEPT !.input = i]
  <2>1. Keeps(t, c)
    BY <1>3 DEF Keeps, Session
  <2> HIDE DEF t
  <2>2. Keeps(HostInvalidateActionObservations(t), c)
    BY <1>1, <2>1
  <2> QED
    BY <2>2 DEF ObserveInput, t
<1>5. ASSUME NEW w \in {"available", "minimized", "unavailable"}
      PROVE  Keeps(ObserveTarget(s, w), c)
  <2> DEFINE t == [Touched(s) EXCEPT !.target = w]
  <2>1. Keeps(t, c)
    BY <1>3 DEF Keeps, Session
  <2> HIDE DEF t
  <2>2. Keeps(HostInvalidateActionObservations(t), c)
    BY <1>1, <2>1
  <2> QED
    BY <2>2 DEF ObserveTarget, t
<1> QED
  BY <1>1, <1>2, <1>4, <1>5

\* The end of a request.
LEMMA FinishedKeeps ==
    ASSUME NEW c, NEW s, Keeps(s, c), NEW code PROVE Keeps(Finished(s, code), c)
<1> DEFINE u == IF code \in {"ok", "other"} THEN Synced(s)
                ELSE HostInvalidateActionObservations(Synced(s))
<1>1. Keeps(u, c)
  BY StepKeeps, HostKeeps
<1>2. Finished(s, code) = CASE code = "input_unavailable" -> ObserveInput(u, "suspended")
                            [] code = "target_minimized" -> ObserveTarget(u, "minimized")
                            [] code = "target_unavailable" -> ObserveTarget(u, "unavailable")
                            [] OTHER -> u
  BY DEF Finished
<1> HIDE DEF u
<1>3. /\ Keeps(ObserveInput(u, "suspended"), c)
      /\ Keeps(ObserveTarget(u, "minimized"), c)
      /\ Keeps(ObserveTarget(u, "unavailable"), c)
  BY <1>1, HostKeeps
<1> QED
  BY <1>1, <1>2, <1>3

\* An outcome with a session that keeps the snapshot.
LEMMA OutcomeKeeps ==
    ASSUME NEW c, NEW x, Keeps(x, c), NEW code, NEW sent PROVE Keeps(Outcome(x, code, sent).s, c)
BY DEF Outcome

\* Gates, renewals and their failures.
LEMMA GateKeeps ==
    ASSUME NEW c, NEW s, Keeps(s, c), NEW sent
    PROVE  /\ \A o \in GateFailures(s, sent) : Keeps(o.s, c)
           /\ \A r \in Refreshed(s) : Keeps(r, c)
           /\ \A o \in RefreshFailures(s) : Keeps(o.s, c)
<1>1. /\ Keeps(InvalidateActionObservations(s), c)
      /\ Keeps(InvalidateActionObservations(Touched(s)), c)
  BY StepKeeps
<1>2. \A o \in GateFailures(s, sent) : Keeps(o.s, c)
  BY <1>1 DEF GateFailures, Outcome
<1>3. \A r \in Refreshed(s) : Keeps(r, c)
  BY <1>1 DEF Refreshed
<1>4. \A o \in RefreshFailures(s) : Keeps(o.s, c)
  BY <1>1 DEF RefreshFailures, Outcome
<1> QED
  BY <1>2, <1>3, <1>4

\* A read of the window, and what becomes of its answer.
LEMMA ReadsKeep ==
    ASSUME NEW c, NEW s, Keeps(s, c), NEW o \in Reads(s)
    PROVE  Keeps(o.s, c) /\ Keeps(Observed(o), c)
<1>1. CASE ~s.active
  BY <1>1, StepKeeps, FinishedKeeps DEF Reads, Outcome, Observed
<1>2. CASE o \in RefreshFailures(s)
  BY <1>2, GateKeeps, StepKeeps, FinishedKeeps DEF Observed
<1>3. CASE \E r \in Refreshed(s) :
             o \in GateFailures(r, FALSE) \/ \E code \in {"ok", "other"} : o = Outcome(r, code, FALSE)
  <2>1. PICK r \in Refreshed(s) :
             o \in GateFailures(r, FALSE) \/ \E code \in {"ok", "other"} : o = Outcome(r, code, FALSE)
    BY <1>3
  <2>2. Keeps(r, c)
    BY GateKeeps
  <2>3. ASSUME o \in GateFailures(r, FALSE) PROVE Keeps(o.s, c)
    BY <2>2, <2>3, GateKeeps
  <2>4. ASSUME \E code \in {"ok", "other"} : o = Outcome(r, code, FALSE) PROVE Keeps(o.s, c)
    BY <2>2, <2>4, OutcomeKeeps
  <2>5. Keeps(o.s, c)
    BY <2>1, <2>3, <2>4
  <2> QED
    BY <2>5, StepKeeps, FinishedKeeps DEF Observed
<1> QED
  BY <1>1, <1>2, <1>3 DEF Reads

\* A dispatch, and what may come before it.
LEMMA DispatchKeeps ==
    ASSUME NEW c, NEW s, Keeps(s, c)
    PROVE  /\ \A o \in Dispatches(s) : Keeps(o.s, c)
           /\ \A o \in PreDispatches(s) : Keeps(o.s, c)
<1> DEFINE t == Touched(s)
           done == InvalidateActionObservations(t)
           left == InvalidateLocalSession(t)
           i == InvalidateActionObservations(s)
<1>1. Keeps(done, c) /\ Keeps(left, c) /\ Keeps(i, c)
  BY StepKeeps
<1>2. /\ \A o \in GateFailures(done, TRUE) : Keeps(o.s, c)
      /\ \A o \in GateFailures(s, FALSE) : Keeps(o.s, c)
  BY <1>1, GateKeeps
<1>3. ASSUME NEW o \in Dispatches(s) PROVE Keeps(o.s, c)
  <2>1. \/ \E code : o = Outcome(done, code, TRUE)
        \/ o \in GateFailures(done, TRUE)
        \/ o = Outcome(left, "completion_unknown", TRUE)
    BY <1>3, Zenon DEF Dispatches
  <2> HIDE DEF done, left
  <2> QED
    BY <1>1, <1>2, <2>1, OutcomeKeeps
<1>4. ASSUME NEW o \in PreDispatches(s) PROVE Keeps(o.s, c)
  <2>1. \/ o = Outcome(i, "refresh_required", FALSE)
        \/ o = Outcome(s, "other", FALSE)
        \/ o \in GateFailures(s, FALSE)
    BY <1>4 DEF PreDispatches
  <2> HIDE DEF i
  <2> QED
    BY <1>1, <1>2, <2>1, OutcomeKeeps
<1> QED
  BY <1>3, <1>4

\* Mutations, activations and actions on an observation.
LEMMA MutationKeeps ==
    ASSUME NEW c, NEW s, Keeps(s, c)
    PROVE  /\ \A o \in Mutations(s) : Keeps(o.s, c)
           /\ \A o \in Activations(s) : Keeps(o.s, c)
           /\ \A x : \A o \in PerformAction(s, x) : Keeps(o.s, c)
           /\ \A o \in BoundCalls(s) : Keeps(o.s, c)
<1> DEFINE i == InvalidateActionObservations(s)
<1>1. Keeps(i, c) /\ \A o \in GateFailures(s, FALSE) : Keeps(o.s, c)
  BY StepKeeps, GateKeeps
<1>2. \A o \in Mutations(s) : Keeps(o.s, c)
  BY DispatchKeeps DEF Mutations, Outcome
<1>3. ASSUME NEW o \in Activations(s) PROVE Keeps(o.s, c)
  <2>1. \/ o \in GateFailures(s, FALSE)
        \/ \E code : o = Outcome(s, code, FALSE)
        \/ \E code : o = Outcome(i, code, FALSE)
    BY <1>3, Zenon DEF Activations
  <2> HIDE DEF i
  <2> QED
    BY <1>1, <2>1, OutcomeKeeps
<1>4. ASSUME NEW x, NEW o \in PerformAction(s, x) PROVE Keeps(o.s, c)
  <2>1. \/ o \in PreDispatches(s) \cup Dispatches(s)
        \/ o \in PreDispatches(i) \cup Dispatches(i)
        \/ o = Outcome(s, "other", FALSE)
        \/ o = Outcome(s, "ok", FALSE)
        \/ o = Outcome(i, "completion_unknown", FALSE)
    BY <1>4 DEF PerformAction
  <2> HIDE DEF i
  <2> QED
    BY <1>1, <2>1, DispatchKeeps, OutcomeKeeps
<1>5. \A o \in BoundCalls(s) : Keeps(o.s, c)
  BY DispatchKeeps, OutcomeKeeps DEF BoundCalls
<1> QED
  BY <1>2, <1>3, <1>4, <1>5

\* Looking at the window again.
LEMMA ProbedKeeps ==
    ASSUME NEW c, NEW s, Keeps(s, c), NEW t \in Probed(s) PROVE Keeps(t, c)
<1>1. Keeps(Finished(s, "other"), c) /\ Keeps(ObserveTarget(Synced(s), "available"), c)
  BY FinishedKeeps, StepKeeps, HostKeeps
<1>2. \A o \in GateFailures(s, FALSE) : Keeps(Finished(o.s, o.code), c)
  BY GateKeeps, FinishedKeeps
<1>3. \A status \in {"minimized", "unavailable"} :
         Keeps(ObserveTarget(HostInvalidateActionObservations(s), status), c)
  BY HostKeeps
<1> QED
  BY <1>1, <1>2, <1>3 DEF Probed

(***************************************************************************)
(* The requests of the window make no snapshot of the browser.             *)
(***************************************************************************)
\* A snapshot of the window, recorded or lost on its way to the client.
LEMMA SnapshotOfKeeps ==
    ASSUME NEW c, NEW s, Keeps(s, c), SnapshotOf(s) PROVE Keeps(session', c)
<1>1. PICK o \in Reads(s) :
        IF o.code # "ok" THEN session' = Observed(o)
        ELSE session' \in {Recorded(Observed(o)), HostInvalidateObservations(Recorded(Observed(o)))}
  BY DEF SnapshotOf
<1>2. Keeps(Observed(o), c) /\ Keeps(Recorded(Observed(o)), c)
  BY ReadsKeep, StepKeeps
<1>3. Keeps(HostInvalidateObservations(Recorded(Observed(o))), c)
  BY <1>2, HostKeeps
<1> QED
  BY <1>1, <1>2, <1>3

\* The capture after an action.
LEMMA AfterActionKeeps ==
    ASSUME NEW c, NEW s, Keeps(s, c), AfterAction(s) PROVE Keeps(session', c)
<1>1. CASE session' = ClearNativeCaches(s)
  BY <1>1, StepKeeps
<1>2. CASE \E o \in Reads(s) : session' \in {Recorded(Observed(o)), ClearNativeCaches(Observed(o))}
  <2>1. PICK o \in Reads(s) : session' \in {Recorded(Observed(o)), ClearNativeCaches(Observed(o))}
    BY <1>2
  <2>2. Keeps(Recorded(Observed(o)), c) /\ Keeps(ClearNativeCaches(Observed(o)), c)
    BY ReadsKeep, StepKeeps
  <2> QED
    BY <2>1, <2>2
<1> QED
  BY <1>1, <1>2 DEF AfterAction

\* An action on the latest observation.
LEMMA ActKeeps ==
    ASSUME NEW c, NEW s, Keeps(s, c), Act(s) PROVE Keeps(session', c)
<1>1. PICK o \in PerformAction(s, s.hostObs) :
        LET f == Finished(o.s, o.code)
            t == IF s.semantic THEN f ELSE HostInvalidateObservations(f)
        IN  IF o.code = "ok" THEN AfterAction(t) ELSE session' = t
  BY DEF Act
<1> DEFINE f == Finished(o.s, o.code)
           t == IF s.semantic THEN f ELSE HostInvalidateObservations(f)
<1>2. Keeps(f, c)
  BY MutationKeeps, FinishedKeeps
<1>3. Keeps(t, c)
  BY <1>2, HostKeeps
<1>4. IF o.code = "ok" THEN AfterAction(t) ELSE session' = t
  BY <1>1
<1> HIDE DEF f, t
<1> QED
  BY <1>3, <1>4, AfterActionKeeps

\* Every request of the window, every sample, a stop and a resume.
LEMMA WindowKeeps ==
    ASSUME session \in Session, WindowRequest PROVE Keeps(session', session.snap)
<1> DEFINE c == session.snap
<1>1. Keeps(session, c)
  BY DEF Keeps
<1>2. Keeps(Begun, c)
  BY <1>1, StepKeeps DEF Begun
<1> HIDE DEF c
<1>3. ASSUME Snapshot PROVE Keeps(session', c)
  BY <1>2, <1>3, SnapshotOfKeeps DEF Snapshot
<1>4. ASSUME SnapshotActivateBefore PROVE Keeps(session', c)
  <2>1. PICK o \in Activations(Begun) :
          IF o.code = "ok" THEN SnapshotOf(Finished(o.s, o.code))
          ELSE session' = Finished(o.s, o.code)
    BY <1>4 DEF SnapshotActivateBefore
  <2>2. Keeps(Finished(o.s, o.code), c)
    BY <1>2, MutationKeeps, FinishedKeeps
  <2> QED
    BY <2>1, <2>2, SnapshotOfKeeps
<1>5. ASSUME AccessibilitySnapshot PROVE Keeps(session', c)
  <2>1. PICK o \in Reads(Begun) :
          session' = IF o.code = "ok" THEN Recorded(Observed(o)) ELSE Observed(o)
    BY <1>5 DEF AccessibilitySnapshot
  <2> QED
    BY <1>2, <2>1, ReadsKeep, StepKeeps
<1>6. ASSUME WaitFor PROVE Keeps(session', c)
  BY <1>2, <1>6, ReadsKeep, HostKeeps DEF WaitFor
<1>7. ASSUME ExecuteAction PROVE Keeps(session', c)
  <2>1. ASSUME Act(Begun) PROVE Keeps(session', c)
    BY <1>2, <2>1, ActKeeps
  <2>2. ASSUME ActOnRenewedEvidence(Begun) PROVE Keeps(session', c)
    <3>1. PICK o \in Reads(Begun) :
            \/ session' = Observed(o)
            \/ session' = HostInvalidateObservations(Observed(o))
            \/ Act(Recorded(Observed(o)))
      BY <2>2 DEF ActOnRenewedEvidence
    <3>2. /\ Keeps(Observed(o), c) /\ Keeps(Recorded(Observed(o)), c)
          /\ Keeps(HostInvalidateObservations(Observed(o)), c)
      BY <1>2, ReadsKeep, StepKeeps, HostKeeps
    <3> QED
      BY <3>1, <3>2, ActKeeps
  <2> QED
    BY <1>7, <2>1, <2>2 DEF ExecuteAction
<1>8. ASSUME WindowMutation PROVE Keeps(session', c)
  <2>1. PICK o \in Mutations(Begun) \cup Activations(Begun) :
          LET t == HostInvalidateObservations(Finished(o.s, o.code))
          IN  session' \in {t} \cup Probed(t)
    BY <1>8 DEF WindowMutation
  <2> DEFINE t == HostInvalidateObservations(Finished(o.s, o.code))
  <2>2. Keeps(t, c)
    BY <1>2, MutationKeeps, FinishedKeeps, HostKeeps
  <2>3. session' \in {t} \cup Probed(t)
    BY <2>1
  <2> HIDE DEF t
  <2> QED
    BY <2>2, <2>3, ProbedKeeps
<1>9. ASSUME MinimizeWindow PROVE Keeps(session', c)
  <2>1. PICK o \in PerformAction(Begun, Begun.hostObs) :
          LET t == HostInvalidateObservations(Finished(o.s, o.code))
          IN  session' \in IF o.code = "ok" THEN Probed(t) ELSE {t}
    BY <1>9 DEF MinimizeWindow
  <2> DEFINE t == HostInvalidateObservations(Finished(o.s, o.code))
  <2>2. Keeps(t, c)
    BY <1>2, MutationKeeps, FinishedKeeps, HostKeeps
  <2>3. session' \in {t} \cup Probed(t)
    BY <2>1
  <2> HIDE DEF t
  <2> QED
    BY <2>2, <2>3, ProbedKeeps
<1>10. ASSUME CallTool PROVE Keeps(session', c)
  BY <1>2, <1>10, MutationKeeps, FinishedKeeps DEF CallTool
<1>11. ASSUME Sample PROVE Keeps(session', c)
  BY <1>1, <1>11, HostKeeps, ProbedKeeps DEF Sample
<1>12. ASSUME StopCore PROVE Keeps(session', c)
  BY <1>1, <1>12, StepKeeps DEF StopCore
<1>13. ASSUME ResumeSession PROVE Keeps(session', c)
  BY <1>2, <1>13, SingleFields DEF ResumeSession, Keeps
<1> QED
  BY <1>3, <1>4, <1>5, <1>6, <1>7, <1>8, <1>9, <1>10, <1>11, <1>12, <1>13
  DEF WindowRequest, c

(***************************************************************************)
(* The page follows the snapshot.                                          *)
(***************************************************************************)
\* A page is the record of its fields.
LEMMA PageIs ==
    ASSUME NEW p \in PageState
    PROVE  /\ p = [target |-> p.target, exact |-> p.exact, tab |-> p.tab, doc |-> p.doc,
                   origin |-> p.origin, pending |-> p.pending]
           /\ p.target \in Targets \cup {NoTarget} /\ p.exact \in BOOLEAN
BY DEF PageState

\* Its last four fields set, as clear_snapshot and a new snapshot do.
SetPage(p, t, d, o, e) == [p EXCEPT !.tab = t, !.doc = d, !.origin = o, !.pending = e]

\* What SetPage returns.
LEMMA PageSet ==
    ASSUME NEW p \in PageState, NEW t \in Tabs \cup {NoTab}, NEW d \in Docs \cup {NoDoc},
           NEW o \in Origins \cup {NoOrigin},
           NEW e \in [tab : Tabs \cup {NoTab}, doc : Docs \cup {NoDoc}],
           NEW q, q = SetPage(p, t, d, o, e)
    PROVE  /\ q \in PageState
           /\ q = [target |-> p.target, exact |-> p.exact, tab |-> t, doc |-> d,
                   origin |-> o, pending |-> e]
<1> DEFINE p1 == [p EXCEPT !.tab = t]
           p2 == [p1 EXCEPT !.doc = d]
           p3 == [p2 EXCEPT !.origin = o]
           p4 == [p3 EXCEPT !.pending = e]
<1>1. q = p4
  BY DEF SetPage
<1>2. p1 \in PageState /\ p1.target = p.target /\ p1.exact = p.exact /\ p1.tab = t
  BY DEF PageState
<1> HIDE DEF p1
<1>3. /\ p2 \in PageState /\ p2.target = p1.target /\ p2.exact = p1.exact /\ p2.tab = p1.tab
      /\ p2.doc = d
  BY <1>2 DEF PageState
<1> HIDE DEF p2
<1>4. /\ p3 \in PageState /\ p3.target = p2.target /\ p3.exact = p2.exact /\ p3.tab = p2.tab
      /\ p3.doc = p2.doc /\ p3.origin = o
  BY <1>3 DEF PageState
<1> HIDE DEF p3
<1>5. /\ p4 \in PageState /\ p4.target = p3.target /\ p4.exact = p3.exact /\ p4.tab = p3.tab
      /\ p4.doc = p3.doc /\ p4.origin = p3.origin /\ p4.pending = e
  BY <1>4 DEF PageState
<1> HIDE DEF p4
<1>6. p4 = [target |-> p4.target, exact |-> p4.exact, tab |-> p4.tab, doc |-> p4.doc,
            origin |-> p4.origin, pending |-> p4.pending]
  BY <1>5, PageIs
<1> QED
  BY <1>1, <1>2, <1>3, <1>4, <1>5, <1>6

\* clear_snapshot leaves the binding alone, and nothing else.
LEMMA ClearIs ==
    ASSUME NEW p \in PageState
    PROVE  /\ ClearSnapshot(p) \in PageState
           /\ ClearSnapshot(p).target = p.target /\ ClearSnapshot(p).exact = p.exact
           /\ ClearSnapshot(p).tab = NoTab /\ ClearSnapshot(p).doc = NoDoc
           /\ ClearSnapshot(p).origin = NoOrigin /\ ClearSnapshot(p).pending = NoPending
           /\ PageFit(ClearSnapshot(p), None)
<1>1. NoPending \in [tab : Tabs \cup {NoTab}, doc : Docs \cup {NoDoc}]
  BY DEF NoPending
<1>2. ASSUME NEW x \in PageState
      PROVE  /\ ClearSnapshot(x) \in PageState
             /\ ClearSnapshot(x) = [target |-> x.target, exact |-> x.exact, tab |-> NoTab,
                                    doc |-> NoDoc, origin |-> NoOrigin, pending |-> NoPending]
  <2> DEFINE q == ClearSnapshot(x)
  <2>1. q = SetPage(x, NoTab, NoDoc, NoOrigin, NoPending)
    BY DEF ClearSnapshot, SetPage
  <2> HIDE DEF q
  <2>2. /\ q \in PageState
        /\ q = [target |-> x.target, exact |-> x.exact, tab |-> NoTab,
                doc |-> NoDoc, origin |-> NoOrigin, pending |-> NoPending]
    BY <1>1, <2>1, PageSet
  <2> QED
    BY <2>2 DEF q
<1> DEFINE q == ClearSnapshot(p)
<1>3. /\ q \in PageState
      /\ q = [target |-> p.target, exact |-> p.exact, tab |-> NoTab,
              doc |-> NoDoc, origin |-> NoOrigin, pending |-> NoPending]
  BY <1>2
<1> HIDE DEF q
<1>4. ClearSnapshot(q) = [target |-> q.target, exact |-> q.exact, tab |-> NoTab,
                          doc |-> NoDoc, origin |-> NoOrigin, pending |-> NoPending]
  BY <1>2, <1>3
<1>5. q = ClearSnapshot(q)
  BY <1>3, <1>4
<1>6. PageFit(q, None)
  BY <1>3, <1>5 DEF PageFit
<1> QED
  BY <1>3, <1>6 DEF q

\* A page that shows nothing has nothing to clear.
LEMMA BareIs ==
    ASSUME NEW p \in PageState, p.tab = NoTab, p.doc = NoDoc, p.origin = NoOrigin,
           p.pending = NoPending
    PROVE  p = ClearSnapshot(p)
<1> DEFINE d == ClearSnapshot(p)
<1>1. d \in PageState /\ d.target = p.target /\ d.exact = p.exact /\ d.tab = NoTab
      /\ d.doc = NoDoc /\ d.origin = NoOrigin /\ d.pending = NoPending
  BY ClearIs
<1> HIDE DEF d
<1>2. d = [target |-> d.target, exact |-> d.exact, tab |-> d.tab, doc |-> d.doc,
           origin |-> d.origin, pending |-> d.pending]
  BY <1>1, PageIs
<1>3. p = [target |-> p.target, exact |-> p.exact, tab |-> p.tab, doc |-> p.doc,
           origin |-> p.origin, pending |-> p.pending]
  BY PageIs
<1>4. p = d
  BY <1>1, <1>2, <1>3
<1> QED
  BY <1>4 DEF d

\* A request that made no snapshot and after which the page followed.
LEMMA FollowsFit ==
    ASSUME PageFit(page, session.snap), Keeps(session', session.snap), Follows
    PROVE  PageFit(page', session'.snap)
<1>1. page \in PageState /\ session'.snap \in {session.snap, None}
  BY DEF PageFit, Keeps
<1>2. CASE session'.snap = None
  BY <1>1, <1>2, ClearIs DEF Follows
<1>3. CASE session'.snap # None
  BY <1>1, <1>3 DEF Follows
<1> QED
  BY <1>2, <1>3

\* The page as a request meets it.
LEMMA MetFit ==
    ASSUME session \in Session, PageFit(page, session.snap)
    PROVE  /\ PageFit(Met, Begun.snap) /\ Met.target = page.target /\ Met.exact = page.exact
           /\ Begun.snap # None => Met = page /\ session.snap = Begun.snap
           /\ Begun.snap = None => Met.doc = NoDoc /\ Met.origin = NoOrigin
<1>1. page \in PageState
  BY DEF PageFit
<1>2. Keeps(Begun, session.snap)
  BY StepKeeps DEF Keeps, Begun
<1>3. CASE Begun.snap = None
  BY <1>1, <1>3, ClearIs DEF Met
<1>4. CASE Begun.snap # None
  BY <1>2, <1>4 DEF Met, Keeps
<1> QED
  BY <1>3, <1>4

\* A snapshot that was shown: its page has a document.
LEMMA ShownFit ==
    ASSUME NEW p \in PageState, NEW shown \in Pages, NEW next, NEW snap, snap # None
    PROVE  PageFit(Shown(p, shown, next), snap)
<1> DEFINE q == Shown(p, shown, next)
           e == IF next = "none" THEN NoPending ELSE [tab |-> shown.tab, doc |-> shown.doc]
<1>1. /\ shown.tab \in Tabs /\ shown.doc \in Docs
      /\ shown.origin \in Origins \cup {NoOrigin} /\ shown.doc # NoDoc
  BY BrowserTaskAssumption DEF Tabs, Docs, Origins
<1>2. e \in [tab : Tabs \cup {NoTab}, doc : Docs \cup {NoDoc}]
      /\ (e # NoPending => e.tab = shown.tab /\ e.doc = shown.doc)
  BY <1>1 DEF NoPending
<1>3. q = SetPage(p, shown.tab, shown.doc, shown.origin, e)
  BY DEF Shown, SetPage
<1> HIDE DEF q, e
<1>4. /\ q \in PageState
      /\ q = [target |-> p.target, exact |-> p.exact, tab |-> shown.tab, doc |-> shown.doc,
              origin |-> shown.origin, pending |-> e]
  BY <1>1, <1>2, <1>3, PageSet
<1>5. PageFit(q, snap)
  BY <1>1, <1>2, <1>4 DEF PageFit
<1> QED
  BY <1>5 DEF q

\* A mutation ends the snapshot it began with, whatever its outcome.
LEMMA MutationEnds ==
    ASSUME session \in Session, NEW o \in Mutations([Begun EXCEPT !.snap = None])
    PROVE  Finished(o.s, o.code).snap = None
<1> DEFINE d == [Begun EXCEPT !.snap = None]
<1>1. Begun \in Session
  BY StepKeeps DEF Keeps, Begun
<1>2. Keeps(d, None)
  BY <1>1, SingleFields DEF Keeps
<1> HIDE DEF d
<1>3. Keeps(Finished(o.s, o.code), None)
  BY <1>2, MutationKeeps, FinishedKeeps DEF d
<1> QED
  BY <1>3 DEF Keeps

(***************************************************************************)
(* What a lease and a consent are worth.                                   *)
(***************************************************************************)
\* validate_lease: a pinned lease is held, for one document and its origin.
LEMMA LeaseIs ==
    ASSUME lease \in Leases
    PROVE  /\ lease.origins \subseteq Origins
           /\ Pinned => /\ lease.held /\ lease.origins = {lease.scope.origin}
                        /\ lease.scope.doc \in Docs /\ lease.scope.doc # NoDoc
                        /\ lease.scope = [target |-> lease.scope.target, tab |-> lease.scope.tab,
                                          doc |-> lease.scope.doc, origin |-> lease.scope.origin]
<1>1. /\ lease \in [held : BOOLEAN, origins : SUBSET Origins,
                    scope : Scope \cup {NoScope}, secret : BOOLEAN]
      /\ ~lease.held => lease.scope = NoScope
      /\ lease.scope # NoScope => lease.origins = {lease.scope.origin}
  BY BrowserTaskAssumption
<1>2. Pinned => lease.scope \in Scope
  BY <1>1 DEF Pinned
<1>3. lease.scope \in Scope
        => /\ lease.scope.doc \in Docs
           /\ lease.scope = [target |-> lease.scope.target, tab |-> lease.scope.tab,
                             doc |-> lease.scope.doc, origin |-> lease.scope.origin]
  BY DEF Scope
<1> QED
  BY <1>1, <1>2, <1>3, BrowserTaskAssumption DEF Pinned

\* A call on the page p: it is in scope when p carries the origin, and a pinned
\* lease its document; it is as consented when the consent is about p.
LEMMA CallAllowed ==
    ASSUME lease \in Leases, lease' = lease, NEW p, NEW kind, NEW consent,
           handed' = Handed(kind, p, consent),
           lease.held /\ kind # "navigate" => Begun.snap # None /\ p.origin \in lease.origins,
           Pinned => Begun.snap # None /\ PageOf(p) = lease.scope,
           consent = Nobody \/ consent.at = PageOf(p)
    PROVE  InScope' /\ AsConsented'
<1>1. /\ handed'.kind = kind /\ handed'.at = PageOf(p) /\ handed'.consent = consent
      /\ handed'.seen <=> Begun.snap # None
      /\ handed'.at.origin = p.origin
  BY DEF Handed, PageOf
<1>2. Pinned' <=> Pinned
  BY DEF Pinned
<1>3. InScope'
  BY <1>1, <1>2 DEF InScope
<1>4. AsConsented'
  BY <1>1 DEF AsConsented
<1> QED
  BY <1>3, <1>4

\* A step that hands nothing to the core.
LEMMA QuietStep ==
    ASSUME TaskInv, IInv', lease' = lease, PageFit(page', session'.snap),
           asked' \in Seq(AnyPage), handed' = NoCall, CaptureFit'
    PROVE  TaskInv'
<1>1. handed'.kind = "none" /\ handed'.consent = Nobody
  BY DEF NoCall
<1>2. InScope' /\ AsConsented'
  BY <1>1 DEF InScope, AsConsented
<1> QED
  BY <1>2 DEF TaskInv

\* Clipboard, vault and capture untouched.
LEMMA CaptureUntouched ==
    ASSUME CaptureFit, UNCHANGED <<clipboard, vault, capture>> PROVE CaptureFit'
BY DEF CaptureFit

\* The invariant, taken apart.
LEMMA TaskInvIs ==
    ASSUME TaskInv
    PROVE  /\ IInv /\ Good(session) /\ session \in Session /\ AtRest(Begun) /\ Mid(Begun)
           /\ lease \in Leases /\ PageFit(page, session.snap) /\ page \in PageState
           /\ asked \in Seq(AnyPage) /\ CaptureFit
           /\ Keeps(Begun, session.snap)
<1>1. IInv /\ Good(session) /\ session \in Session
  BY DEF TaskInv, IInv, Good, Mid, Loose
<1>2. Keeps(Begun, session.snap)
  BY <1>1, StepKeeps DEF Keeps, Begun
<1> QED
  BY <1>1, <1>2, BegunAtRest DEF TaskInv, PageFit

(***************************************************************************)
(* The requests, one by one.                                               *)
(***************************************************************************)
\* The requests that do not concern the browser.
LEMMA WindowRequestStep == ASSUME TaskInv, WindowRequest PROVE TaskInv'
<1>1. IInv'
  BY TaskInvIs, NextIInv DEF WindowRequest, Next
<1>2. PageFit(page', session'.snap)
  BY TaskInvIs, WindowKeeps, FollowsFit DEF WindowRequest
<1> QED
  BY <1>1, <1>2, TaskInvIs, CaptureUntouched, QuietStep DEF WindowRequest

\* A snapshot request that binds a target.
LEMMA BrowserBindStep == ASSUME TaskInv, BrowserBind PROVE TaskInv'
<1>1. IInv'
  BY TaskInvIs, NextIInv DEF BrowserBind, Next
<1>2. page \in PageState /\ session'.snap = None
  BY TaskInvIs DEF BrowserBind
<1>3. ASSUME NEW target \in Targets, NEW exact \in BOOLEAN
      PROVE  PageFit(StoreBinding(page, target, exact), None)
  <2> DEFINE c == ClearSnapshot(page)
             a == [c EXCEPT !.target = target]
             b == [a EXCEPT !.exact = exact]
  <2>1. c \in PageState /\ c.tab = NoTab /\ c.doc = NoDoc /\ c.origin = NoOrigin
        /\ c.pending = NoPending
    BY <1>2, ClearIs
  <2>2. StoreBinding(page, target, exact) = b
    BY DEF StoreBinding
  <2> HIDE DEF c
  <2>3. a \in PageState /\ a.tab = c.tab /\ a.doc = c.doc /\ a.origin = c.origin
        /\ a.pending = c.pending
    BY <2>1 DEF PageState
  <2> HIDE DEF a
  <2>4. b \in PageState /\ b.tab = a.tab /\ b.doc = a.doc /\ b.origin = a.origin
        /\ b.pending = a.pending
    BY <2>3 DEF PageState
  <2> HIDE DEF b
  <2>5. b = ClearSnapshot(b)
    BY <2>1, <2>3, <2>4, BareIs
  <2> QED
    BY <2>1, <2>2, <2>3, <2>4, <2>5 DEF PageFit
<1>4. PageFit(page', session'.snap)
  BY <1>2, <1>3, ClearIs DEF BrowserBind
<1> QED
  BY <1>1, <1>4, TaskInvIs, CaptureUntouched, QuietStep DEF BrowserBind

\* A snapshot request of a bound target.
LEMMA BrowserSnapshotTabStep == ASSUME TaskInv, BrowserSnapshotTab PROVE TaskInv'
<1>1. IInv'
  BY TaskInvIs, NextIInv DEF BrowserSnapshotTab, Next
<1>2. Met \in PageState /\ page \in PageState
  BY TaskInvIs, MetFit DEF PageFit
<1>3. \/ session'.snap = None /\ page' = ClearSnapshot(page)
      \/ \E shown \in Pages, next \in {"none", "new", "same"} :
            session'.snap # None /\ page' = Shown(Met, shown, next)
  BY DEF BrowserSnapshotTab
<1>4. PageFit(page', session'.snap)
  BY <1>2, <1>3, ClearIs, ShownFit
<1> QED
  BY <1>1, <1>4, TaskInvIs, CaptureUntouched, QuietStep DEF BrowserSnapshotTab

\* Input on the latest snapshot, with or without a consent.
LEMMA InputOnStep ==
    ASSUME TaskInv, lease' = lease, NEW r \in Requests, NEW consent,
           consent = Nobody \/ consent.at = PageOf(page), InputOn(r, consent)
    PROVE  IInv' /\ PageFit(page', session'.snap) /\ InScope' /\ AsConsented'
<1>1. IInv'
  BY TaskInvIs, NextIInv DEF InputOn, Next
<1>2. session'.snap = None
  BY TaskInvIs, MutationEnds DEF InputOn, BrowserInput
<1>3. PageFit(page', session'.snap)
  BY <1>2, TaskInvIs, ClearIs DEF InputOn
<1>4. /\ Begun.snap # None /\ handed' = Handed("input", page, consent)
      /\ lease.held => page.origin \in lease.origins
      /\ page.target = r.target /\ page.tab = r.tab /\ page.doc = r.doc
      /\ Pinned => /\ r.target = lease.scope.target /\ r.tab = lease.scope.tab
                   /\ r.doc = lease.scope.doc
  BY DEF InputOn, BrowserInput, CurrentOriginAllowed, OriginAllowed, RequireMutationTarget,
         RequireExactTarget, DocumentAuthorized, TargetAuthorized
<1>5. Pinned => PageOf(page) = lease.scope
  BY <1>4, TaskInvIs, LeaseIs DEF PageOf
<1>6. InScope' /\ AsConsented'
  BY <1>4, <1>5, TaskInvIs, CallAllowed
<1> QED
  BY <1>1, <1>3, <1>6

\* browser_click and the like.
LEMMA BrowserMutationStep == ASSUME TaskInv, BrowserMutation PROVE TaskInv'
<1>1. PICK r \in Requests : InputOn(r, Nobody)
  BY DEF BrowserMutation
<1>2. IInv' /\ PageFit(page', session'.snap) /\ InScope' /\ AsConsented'
  BY <1>1, InputOnStep DEF BrowserMutation
<1> QED
  BY <1>2, TaskInvIs, CaptureUntouched DEF BrowserMutation, TaskInv

\* A navigation or a dialog: a pinned lease has seen its document.
LEMMA NavigationStep ==
    ASSUME TaskInv, UNCHANGED <<lease, asked, clipboard, vault, capture>>, BrowserNavigate,
           NEW target, NEW tab, Addressed(target, tab), page' = ClearSnapshot(page),
           \/ handed' = Handed("navigate", Met, Nobody)
           \/ handed' = Handed("dialog", Met, Nobody) /\ CurrentOriginAllowed(Met)
    PROVE  TaskInv'
<1>1. IInv'
  BY TaskInvIs, NextIInv DEF Next
<1>2. session'.snap = None
  BY TaskInvIs, MutationEnds DEF BrowserNavigate
<1>3. PageFit(page', session'.snap)
  BY <1>2, TaskInvIs, ClearIs
<1>4. /\ Begun.snap = None => Met.doc = NoDoc /\ Met.origin = NoOrigin
      /\ lease \in Leases
  BY TaskInvIs, MetFit
<1>5. Pinned => /\ Met.target = lease.scope.target /\ Met.tab = lease.scope.tab
                /\ Met.doc = lease.scope.doc /\ Met.origin = lease.scope.origin
  BY DEF Addressed, CurrentDocumentAuthorized
<1>6. Pinned => Begun.snap # None /\ PageOf(Met) = lease.scope
  BY <1>4, <1>5, LeaseIs DEF PageOf
<1>7. CASE handed' = Handed("navigate", Met, Nobody)
  <2>1. InScope' /\ AsConsented'
    BY <1>4, <1>6, <1>7, CallAllowed
  <2> QED
    BY <1>1, <1>3, <2>1, TaskInvIs, CaptureUntouched DEF TaskInv
<1>8. CASE handed' = Handed("dialog", Met, Nobody) /\ CurrentOriginAllowed(Met)
  <2>1. lease.held => Met.origin \in lease.origins
    BY <1>8 DEF CurrentOriginAllowed, OriginAllowed
  <2>2. lease.held => Begun.snap # None
    BY <1>4, <2>1, LeaseIs DEF Origins
  <2>3. InScope' /\ AsConsented'
    BY <1>4, <1>6, <1>8, <2>1, <2>2, CallAllowed
  <2> QED
    BY <1>1, <1>3, <2>3, TaskInvIs, CaptureUntouched DEF TaskInv
<1> QED
  BY <1>7, <1>8

\* browser_prepare.
LEMMA BrowserPrepareStep == ASSUME TaskInv, BrowserPrepare PROVE TaskInv'
<1>1. IInv'
  BY TaskInvIs, NextIInv DEF BrowserPrepare, Next
<1>2. session'.snap = None
  BY TaskInvIs, MutationEnds DEF BrowserPrepare, BrowserNavigate
<1>3. PageFit(page', session'.snap)
  BY <1>2, TaskInvIs, ClearIs DEF BrowserPrepare
<1> QED
  BY <1>1, <1>3, TaskInvIs, CaptureUntouched, QuietStep DEF BrowserPrepare

\* browser_type of a secret: under the lease, refused, or with a decision of the
\* user about this very page.
LEMMA BrowserTypeSecretStep == ASSUME TaskInv, BrowserTypeSecret PROVE TaskInv'
<1>1. PICK r \in Requests :
        /\ Begun.snap # None
        /\ \/ /\ asked' = asked
              /\ InputOn(r, [by |-> "lease", at |-> PageOf(page)])
           \/ /\ asked' = Append(asked, PageOf(page))
              /\ \/ session' = Begun /\ handed' = NoCall /\ UNCHANGED <<used, page>>
                 \/ \E d \in Decisions :
                       /\ Decides(Len(asked'), d)
                       /\ InputOn(r, [by |-> "user", at |-> asked'[d.request]])
        /\ UNCHANGED <<lease, clipboard, vault, capture>>
  BY DEF BrowserTypeSecret
<1>2. PageOf(page) \in AnyPage
  BY TaskInvIs DEF PageOf, AnyPage, PageState
<1>3. asked' \in Seq(AnyPage)
  BY <1>1, <1>2, TaskInvIs
<1>4. CaptureFit'
  BY <1>1, TaskInvIs, CaptureUntouched
<1>5. ASSUME NEW consent, consent.at = PageOf(page), InputOn(r, consent) PROVE TaskInv'
  BY <1>1, <1>3, <1>4, <1>5, TaskInvIs, InputOnStep DEF TaskInv
<1>6. CASE InputOn(r, [by |-> "lease", at |-> PageOf(page)])
  BY <1>5, <1>6
<1>7. CASE session' = Begun /\ handed' = NoCall /\ UNCHANGED <<used, page>>
  <2>1. IInv'
    <3>1. Good(session')
      BY <1>7, TaskInvIs, AtRestGood
    <3> QED
      BY <1>7, <3>1, TaskInvIs DEF IInv, UsedFresh
  <2>2. PageFit(page', session'.snap)
    BY <1>1, <1>7, TaskInvIs, MetFit
  <2> QED
    BY <1>1, <1>3, <1>4, <1>7, <2>1, <2>2, QuietStep
<1>8. CASE /\ asked' = Append(asked, PageOf(page))
           /\ \E d \in Decisions :
                 /\ Decides(Len(asked'), d)
                 /\ InputOn(r, [by |-> "user", at |-> asked'[d.request]])
  <2>1. PICK d \in Decisions :
                 /\ Decides(Len(asked'), d)
                 /\ InputOn(r, [by |-> "user", at |-> asked'[d.request]])
    BY <1>8
  <2>2. d.request = Len(asked')
    BY <2>1 DEF Decides
  <2>3. asked'[d.request] = PageOf(page)
    BY <1>2, <1>8, <2>2, TaskInvIs
  <2>4. InputOn(r, [by |-> "user", at |-> PageOf(page)])
    BY <2>1, <2>3
  <2> QED
    BY <1>5, <2>4
<1> QED
  BY <1>1, <1>6, <1>7, <1>8

\* A tool that reaches no window leaves the evidence as good as it was.
LEMMA BoundCallStep ==
    ASSUME TaskInv, NEW s \in {session, Begun}, NEW o \in BoundCalls(s),
           session' = Finished(o.s, o.code), UNCHANGED used, Follows
    PROVE  IInv' /\ PageFit(page', session'.snap)
<1>1. Mid(s) /\ Keeps(s, session.snap)
  BY TaskInvIs DEF Good, Keeps
<1>2. Mid(o.s)
  BY <1>1, DispatchMid, OutcomeMid DEF BoundCalls
<1>3. Good(session')
  BY <1>2, FinishedAtRest, AtRestGood
<1>4. Keeps(session', session.snap)
  BY <1>1, MutationKeeps, FinishedKeeps
<1> QED
  BY <1>3, <1>4, TaskInvIs, FollowsFit DEF IInv, UsedFresh

\* clipboard_read and clipboard_write.
LEMMA ClipboardCallStep == ASSUME TaskInv, ClipboardCall PROVE TaskInv'
<1>1. IInv' /\ PageFit(page', session'.snap)
  BY BoundCallStep DEF ClipboardCall
<1>2. CaptureFit'
  BY TaskInvIs DEF ClipboardCall, CaptureFit
<1> QED
  BY <1>1, <1>2, TaskInvIs, QuietStep DEF ClipboardCall

\* The read of capture_clipboard_secret.
LEMMA CaptureReadStep == ASSUME TaskInv, CaptureRead PROVE TaskInv'
<1>1. IInv' /\ PageFit(page', session'.snap)
  BY BoundCallStep DEF CaptureRead
<1>2. CaptureFit'
  BY TaskInvIs DEF CaptureRead, CaptureFit, Idle
<1> QED
  BY <1>1, <1>2, TaskInvIs, QuietStep DEF CaptureRead

\* Its store: from then on the vault holds what is to be cleared.
LEMMA CaptureStoreStep == ASSUME TaskInv, CaptureStore PROVE TaskInv'
<1>1. IInv'
  BY TaskInvIs, NextIInv DEF CaptureStore
<1>2. PageFit(page', session'.snap)
  BY TaskInvIs DEF CaptureStore, vars
<1>3. CaptureFit'
  BY TaskInvIs DEF CaptureStore, CaptureFit, Idle
<1> QED
  BY <1>1, <1>2, <1>3, TaskInvIs, QuietStep DEF CaptureStore

\* Its clear.
LEMMA CaptureClearStep == ASSUME TaskInv, CaptureClear PROVE TaskInv'
<1>1. IInv' /\ PageFit(page', session'.snap)
  BY BoundCallStep DEF CaptureClear
<1>2. CaptureFit'
  BY TaskInvIs DEF CaptureClear, CaptureFit, Idle
<1> QED
  BY <1>1, <1>2, TaskInvIs, QuietStep DEF CaptureClear

\* The connection ends in the middle of a capture.
LEMMA CaptureDroppedStep == ASSUME TaskInv, CaptureDropped PROVE TaskInv'
<1>1. Loose(session) /\ HostFresh(session)
  BY TaskInvIs DEF Good, Mid
<1> DEFINE t == InvalidateLocalSession(session)
<1>2. /\ Mid(t) /\ t.hostObs = session.hostObs /\ t.hostAcc = session.hostAcc
      /\ t.version = session.version /\ Keeps(t, session.snap)
  BY <1>1, TaskInvIs, InvalidateMid, InvalidateLocalFields DEF Keeps
<1>3. session' = t
  BY DEF CaptureDropped
<1> HIDE DEF t
<1>4. Good(session')
  BY <1>1, <1>2, <1>3 DEF Good, HostFresh
<1>5. IInv'
  BY <1>4, TaskInvIs DEF IInv, UsedFresh, CaptureDropped
<1>6. PageFit(page', session'.snap)
  BY <1>2, <1>3, TaskInvIs, FollowsFit DEF CaptureDropped
<1>7. CaptureFit'
  BY TaskInvIs DEF CaptureDropped, CaptureFit, Idle
<1> QED
  BY <1>5, <1>6, <1>7, TaskInvIs, QuietStep DEF CaptureDropped

\* Somebody copies a text.
LEMMA UserCopiesStep == ASSUME TaskInv, UserCopies PROVE TaskInv'
<1>1. IInv'
  BY TaskInvIs, NextIInv DEF UserCopies
<1>2. PageFit(page', session'.snap)
  BY TaskInvIs DEF UserCopies, vars
<1>3. CaptureFit'
  BY TaskInvIs DEF UserCopies, CaptureFit
<1> QED
  BY <1>1, <1>2, <1>3, TaskInvIs, QuietStep DEF UserCopies

\* A session opens without evidence; a pinned lease has bound its target.
LEMMA TaskInitInv == TaskInit => TaskInv
<1> SUFFICES ASSUME TaskInit PROVE TaskInv
  OBVIOUS
<1>1. IInv /\ session.snap = None
  <2>1. IInv
    BY InitIInv DEF TaskInit
  <2>2. session.snap = None
    BY DEF TaskInit, Init
  <2> QED
    BY <2>1, <2>2
<1>2. lease \in Leases /\ page = NewBrowserSession(lease) /\ handed = NoCall
  BY DEF TaskInit
<1>3. lease.scope.target \in Targets \cup {NoTarget}
  BY <1>2, BrowserTaskAssumption DEF Scope, NoScope
<1>4. PICK exact \in BOOLEAN :
        page = [target |-> lease.scope.target, exact |-> exact, tab |-> NoTab,
                doc |-> NoDoc, origin |-> NoOrigin, pending |-> NoPending]
  BY <1>2 DEF NewBrowserSession
<1>5. NoPending \in [tab : Tabs \cup {NoTab}, doc : Docs \cup {NoDoc}]
  BY DEF NoPending
<1>6. page \in PageState
  BY <1>3, <1>4, <1>5 DEF PageState
<1>7. page = ClearSnapshot(page)
  BY <1>4, <1>6, BareIs
<1>8. PageFit(page, session.snap)
  BY <1>1, <1>4, <1>6, <1>7 DEF PageFit
<1>9. InScope /\ AsConsented
  BY <1>2 DEF InScope, AsConsented, NoCall
<1>10. asked \in Seq(AnyPage) /\ CaptureFit
  BY DEF TaskInit, CaptureFit, Idle
<1> QED
  BY <1>1, <1>2, <1>8, <1>9, <1>10 DEF TaskInv

\* Every step of the session preserves the invariant.
LEMMA TaskNextInv == TaskInv /\ [TaskNext]_allVars => TaskInv'
<1> SUFFICES ASSUME TaskInv, [TaskNext]_allVars PROVE TaskInv'
  OBVIOUS
<1>1. ASSUME Request PROVE TaskInv'
  <2>1. ASSUME BrowserNavigateTo PROVE TaskInv'
    BY <2>1, NavigationStep DEF BrowserNavigateTo
  <2>2. ASSUME BrowserDialog PROVE TaskInv'
    BY <2>2, NavigationStep DEF BrowserDialog
  <2> QED
    BY <1>1, <2>1, <2>2, WindowRequestStep, BrowserBindStep, BrowserSnapshotTabStep,
       BrowserMutationStep, BrowserPrepareStep, BrowserTypeSecretStep, ClipboardCallStep,
       CaptureReadStep DEF Request
<1>2. ASSUME UNCHANGED allVars PROVE TaskInv'
  <2>1. IInv'
    BY <1>2, TaskInvIs, NextIInv DEF allVars
  <2>2. UNCHANGED <<session, lease, page, asked, handed, clipboard, vault, capture>>
    BY <1>2 DEF allVars, vars, taskVars
  <2>3. InScope' /\ AsConsented' /\ CaptureFit'
    BY <2>2 DEF TaskInv, InScope, AsConsented, CaptureFit, Pinned
  <2> QED
    BY <2>1, <2>2, <2>3 DEF TaskInv
<1> QED
  BY <1>1, <1>2, CaptureStoreStep, CaptureClearStep, CaptureDroppedStep, UserCopiesStep
  DEF TaskNext

\* The invariant holds for every instance of the session.
THEOREM TaskInvariant == TaskSpec => []TaskInv
BY TaskInitInv, TaskNextInv, PTL DEF TaskSpec

\* Every input, native or into the browser, acts on fresh evidence also when
\* the browser's requests, the secrets and the clipboard run beside the others.
THEOREM TaskInputOnFreshEvidence == TaskSpec => []InputOnFreshEvidence
<1>1. TaskInv => InputOnFreshEvidence
  BY DEF TaskInv, IInv, UsedFresh, InputOnFreshEvidence
<1> QED
  BY <1>1, TaskInvariant, PTL

\* For every set of leases and pages: what BrowserSession knows and the Host's
\* evidence agree, a call is in the scope of the lease, and a secret goes only to
\* the page its consent names.
THEOREM BrowserCallsAllowedAlways == TaskSpec => []BrowserCallsAllowed
<1>1. TaskInv => BrowserCallsAllowed
  BY DEF TaskInv, PageFit, BrowserCallsAllowed, PageFollowsEvidence
<1> QED
  BY <1>1, TaskInvariant, PTL

\* capture_clipboard_secret empties the clipboard only when the text it read is
\* in the vault.
THEOREM SecretKeptAlways == TaskSpec => SecretKept
<1>1. ASSUME TaskInv, TaskNext, clipboard # Empty, clipboard' = Empty
      PROVE  vault' = capture.value
  <2>1. CaptureFit
    BY <1>1, TaskInvIs
  <2>2. CASE CaptureClear
    BY <2>1, <2>2 DEF CaptureClear, CaptureFit
  <2>3. ASSUME UserCopies \/ ClipboardCall PROVE FALSE
    BY <1>1, <2>3, BrowserTaskAssumption DEF UserCopies, ClipboardCall
  <2>4. ASSUME \/ CaptureStore \/ CaptureDropped \/ CaptureRead \/ WindowRequest \/ BrowserBind
               \/ BrowserSnapshotTab \/ BrowserMutation \/ BrowserNavigateTo \/ BrowserDialog
               \/ BrowserPrepare \/ BrowserTypeSecret
        PROVE  clipboard' = clipboard
    BY <2>4 DEF CaptureStore, CaptureDropped, CaptureRead, WindowRequest, BrowserBind,
                BrowserSnapshotTab, BrowserMutation, BrowserNavigateTo, BrowserDialog,
                BrowserPrepare, BrowserTypeSecret
  <2> QED
    BY <1>1, <2>2, <2>3, <2>4 DEF TaskNext, Request
<1>2. TaskInv /\ [TaskNext]_allVars
        => [clipboard # Empty /\ clipboard' = Empty => vault' = capture.value]_allVars
  BY <1>1
<1> QED
  BY <1>2, TaskInvariant, PTL DEF TaskSpec, SecretKept
-----------------------------------------------------------------------------
(***************************************************************************)
(* The commands of one machine.                                            *)
(*                                                                         *)
(* Their inductive invariant.  For a task of the MCP server: what the      *)
(* server knows of its Host connection is what that connection is or was,  *)
(* so a task whose place is reclaimed has no connection left; and a        *)
(* revocation that has answered has read the connection's end.             *)
(***************************************************************************)
Conns == {"none", "serving", "closing", "ok", "err"}

\* A task p of the map, its Host connection c, and whether its session lives.
TaskFit(p, c, l) ==
    /\ p \in TaskProposal /\ c \in Conns /\ l \in BOOLEAN
    /\ l => c \in {"serving", "closing"}
    /\ p.session => c = "serving"
    /\ c \in {"serving", "closing"} => p.owner = "pending"
    /\ p.owner = "pending" => p.present /\ c # "none"
    /\ p.present /\ p.owner # "pending" => c = p.owner
    /\ ~ p.used => ~ p.present /\ c = "none"
    /\ p.owner = "none" => p.completion = "none"

TasksFit(f, c, l) ==
    /\ f \in [Tasks -> TaskProposal] /\ c \in [Tasks -> Conns] /\ l \in [Tasks -> BOOLEAN]
    /\ \A t \in Tasks : TaskFit(f[t], c[t], l[t])

McpRequests ==
    [pc : {"idle", "stopall", "derive", "open", "revoke", "stop", "finish", "cancel", "reissue"},
     task : Tasks \cup {NoTaskId}, workflow : Runs \cup {NoRun},
     next : {"reply", "startFailed", "rebind", "shutdown", "shutdownError"}]

\* The request r under way, and what it has left to do.
RpcFit(r, f, c) ==
    /\ r \in McpRequests
    /\ r.pc \notin {"idle", "stopall"} => r.task \in Tasks
    /\ r.pc \in {"derive", "cancel"} \/ r.next = "rebind" => r.workflow \in Runs
    /\ r.pc = "reissue" => r.next = "rebind"
    /\ r.pc = "derive" /\ r.next # "rebind" => ~ f[r.task].used
    /\ r.pc \in {"open", "stop"} => c[r.task] = "serving" /\ ~ f[r.task].session
    /\ r.pc \in {"stop", "finish", "reissue"} => f[r.task].present

\* A revocation has read how the connection of its task ended.
Completed(f, r) ==
    \A t \in Tasks : f[t].present /\ f[t].revoked /\ ~(r.pc = "stop" /\ r.task = t) =>
                        f[t].completion = f[t].owner

Confirmed(p) == p.present /\ p.revoked /\ StoppedStatus(p) = "stopped"

Ending == {"shutdown", "shutdownError"}

\* The end of input, s being the server's state and d the shutdown's: one
\* without an error has confirmed every task it began.
Closing(s, d, r, f) ==
    /\ s \in {"serving", "closing", "clean", "failed"}
    /\ d \in [begun : SUBSET Tasks, failed : BOOLEAN]
    /\ s = "serving" => d.begun = {} /\ r.next \notin Ending /\ r.pc # "stopall"
    /\ s # "serving" => r.pc \in {"idle", "stopall"} \/ r.next \in Ending
    /\ r.next \in Ending => r.pc \in {"revoke", "stop", "finish"}
    /\ r.next = "shutdown" /\ r.pc \in {"stop", "finish"} => f[r.task].revoked
    /\ \A t \in d.begun :
          d.failed \/ (r.task = t /\ r.next \in Ending) \/ Confirmed(f[t])
    /\ r.pc = "stopall" => s = "closing" /\ Present(f) \subseteq d.begun
    /\ s = "clean" => Present(f) \subseteq d.begun /\ ~ d.failed /\ r = NoRpc

\* A run whose process was seen to end has none.
RunFit(r) ==
    /\ r \in RunState
    /\ r.exitObserved \/ r.state = "none" => r.proc # "alive"
    /\ r.state = "none" => r.verification = "none"

RunsFit ==
    /\ WorkflowTypeOK
    /\ \A w \in Runs : RunFit(run[w])
    /\ srv = "clean" => \A w \in Runs : Settled(run[w])

McpInv ==
    /\ TasksFit(task, conn, live)
    /\ window \in Windows
    /\ RunsFit
    /\ RpcFit(rpc, task, conn)
    /\ Completed(task, rpc)
    /\ Closing(srv, shutdown, rpc, task)

(***************************************************************************)
(* host-ensure: before it polls and after it has failed a command has no   *)
(* Host; only an error in reading the Host's state leaves one.             *)
(***************************************************************************)
EnsureInv ==
    /\ pc \in [Procs -> {"none", "probe", "spawn", "poll"} \cup Answers]
    /\ child \in [Procs -> HostProcess]
    /\ endpoint \in Procs \cup {NoHost, OldHost}
    /\ \A p \in Procs : pc[p] \in {"none", "probe", "spawn"} \cup (Failures \ {"pollChild"})
                        => child[p].state \in {"none", "exited"}

(***************************************************************************)
(* Updates: one at a time holds the lock, and whoever has moved the        *)
(* executable away has its copy until another one is in place.             *)
(***************************************************************************)
Installing == {"locked", "replace", "moved", "failed"}
Standing == {"none", "begin", "prompt", "download", "arrived", "downloaded", "refused",
             "installed", "rolledBack", "incomplete", "crashed"}

UpdateInv ==
    /\ upc \in [Procs -> Standing \cup Installing]
    /\ exe \in Versions \cup {Missing}
    /\ backup \in [Procs -> Versions \cup {Missing}]
    /\ \A p \in Procs : upc[p] \in Installing => lock = p
    /\ \A p \in Procs : upc[p] \in {"replace", "moved", "failed"} => Kept(p)
    /\ exe = Missing =>
          \E p \in Procs : Kept(p) /\ upc[p] \in {"moved", "failed", "incomplete", "crashed"}

CommandInv == McpInv /\ EnsureInv /\ UpdateInv

-----------------------------------------------------------------------------
(***************************************************************************)
(* Updates.                                                                *)
(***************************************************************************)
\* The oldest and the newest release are releases.
LEMMA Releases == Installed \in Versions /\ Latest \in Versions /\ Missing \notin Versions
  BY VersionsAssumption DEF Installed, Latest, Missing

\* A step of the update of p that neither drops a copy nor moves the executable.
LEMMA UpdateMoves ==
    ASSUME UpdateInv, NEW p \in Procs, NEW g, GotoU(p, g), UNCHANGED <<exe, backup>>,
           g \in {"prompt", "download", "arrived", "downloaded", "refused", "incomplete",
                  "crashed", "failed", "locked"},
           g \in Installing => lock' = p,
           g = "failed" => Kept(p),
           \A q \in Procs \ {p} : upc[q] \in Installing => lock' = lock,
           upc[p] \in {"moved", "failed"} => g \in {"failed", "incomplete", "crashed"},
           upc[p] \notin {"incomplete", "crashed"}
    PROVE  UpdateInv'
<1>1. upc' = [upc EXCEPT ![p] = g] /\ \A q \in Procs : Kept(q)' <=> Kept(q)
  BY DEF GotoU, Kept
<1>2. upc' \in [Procs -> Standing \cup Installing]
  BY <1>1 DEF UpdateInv, Standing, Installing
<1>3. upc'[p] = g /\ \A q \in Procs \ {p} : upc'[q] = upc[q]
  BY <1>1 DEF UpdateInv
<1>4. \A q \in Procs : upc'[q] \in Installing => lock' = q
  BY <1>3 DEF UpdateInv
<1>5. \A q \in Procs : upc'[q] \in {"replace", "moved", "failed"} => Kept(q)'
  BY <1>1, <1>3 DEF UpdateInv
<1>6. exe' = Missing =>
        \E q \in Procs : Kept(q)' /\ upc'[q] \in {"moved", "failed", "incomplete", "crashed"}
  BY <1>1, <1>3 DEF UpdateInv
<1> QED
  BY <1>2, <1>4, <1>5, <1>6 DEF UpdateInv

\* An update that leaves an executable behind, with or without a copy.
LEMMA UpdateLeaves ==
    ASSUME UpdateInv, NEW p \in Procs, NEW g \in {"refused", "installed", "rolledBack", "incomplete"},
           Release(p, g, FALSE), upc[p] \in Installing, exe' \in Versions
    PROVE  UpdateInv'
<1>1. /\ upc' = [upc EXCEPT ![p] = g] /\ backup' = [backup EXCEPT ![p] = Missing]
      /\ lock' = IF lock = p THEN NoOwner ELSE lock
  BY DEF Release, GotoU
<1>2. /\ upc' \in [Procs -> Standing \cup Installing]
      /\ backup' \in [Procs -> Versions \cup {Missing}]
  BY <1>1 DEF UpdateInv, Standing, Installing
<1>3. /\ upc'[p] = g /\ \A q \in Procs \ {p} : upc'[q] = upc[q] /\ (Kept(q)' <=> Kept(q))
  BY <1>1 DEF UpdateInv, Kept
<1>4. \A q \in Procs : upc'[q] \in Installing => lock' = q
  BY <1>1, <1>3 DEF UpdateInv, Standing, Installing
<1>5. \A q \in Procs : upc'[q] \in {"replace", "moved", "failed"} => Kept(q)'
  BY <1>3 DEF UpdateInv
<1>6. exe' # Missing
  BY Releases
<1> QED
  BY <1>2, <1>4, <1>5, <1>6 DEF UpdateInv

\* The steps of an update.
LEMMA UpdateStep ==
    ASSUME UpdateInv, NEW p \in Procs, UpdateCommand(p) \/ UpdateAnswer(p) \/ Crash(p)
    PROVE  UpdateInv'
<1>0. /\ \A q \in Procs : upc[q] \in Installing => lock = q
      /\ NoOwner \notin Procs
  BY NoOwnerAssumption DEF UpdateInv
<1>1. CASE UpdateAnswer(p) \/ Verify(p)
  <2>1. CASE Listed(p)
    BY <2>1, UpdateMoves DEF Listed, Installing
  <2>2. CASE UserConfirms(p)
    BY <2>2, UpdateMoves DEF UserConfirms, Installing
  <2>3. CASE Downloaded(p)
    BY <2>3, UpdateMoves DEF Downloaded, Installing
  <2>4. CASE Verify(p)
    BY <2>4, UpdateMoves DEF Verify, Installing
  <2> QED  BY <1>1, <2>1, <2>2, <2>3, <2>4 DEF UpdateAnswer
<1>2. CASE Lock(p)
  <2>1. CASE lock = NoOwner
    <3>1. \A q \in Procs : upc[q] \notin Installing
      BY <1>0, <2>1
    <3> QED
      BY <1>2, <2>1, <3>1, UpdateMoves DEF Lock, Standing, Installing
  <2>2. CASE lock # NoOwner
    BY <1>2, <2>2, UpdateMoves DEF Lock, Standing, Installing
  <2> QED  BY <2>1, <2>2
<1>3. CASE Backup(p)
  <2>1. upc[p] = "locked" /\ UNCHANGED exe
    BY <1>3 DEF Backup
  <2>2. CASE exe # Missing /\ backup' = [backup EXCEPT ![p] = exe] /\ GotoU(p, "replace") /\ UNCHANGED lock
    <3>1. /\ upc' \in [Procs -> Standing \cup Installing]
          /\ backup' \in [Procs -> Versions \cup {Missing}]
      BY <2>2 DEF UpdateInv, Standing, Installing, GotoU
    <3>2. /\ upc'[p] = "replace" /\ \A q \in Procs \ {p} : upc'[q] = upc[q] /\ (Kept(q)' <=> Kept(q))
          /\ Kept(p)'
      BY <2>2 DEF UpdateInv, GotoU, Kept
    <3> QED
      BY <1>0, <2>1, <2>2, <3>1, <3>2 DEF UpdateInv, Standing, Installing
  <2>3. CASE Release(p, "refused", FALSE)
    <3>1. CASE exe \in Versions
      BY <2>1, <2>3, <3>1, UpdateLeaves DEF Standing, Installing
    <3>2. CASE exe = Missing
      <4>1. /\ upc' = [upc EXCEPT ![p] = "refused"] /\ backup' = [backup EXCEPT ![p] = Missing]
            /\ lock' = IF lock = p THEN NoOwner ELSE lock
        BY <2>3 DEF Release, GotoU
      <4>2. /\ upc' \in [Procs -> Standing \cup Installing]
            /\ backup' \in [Procs -> Versions \cup {Missing}]
        BY <4>1 DEF UpdateInv, Standing, Installing
      <4>3. upc'[p] = "refused" /\ \A q \in Procs \ {p} : upc'[q] = upc[q] /\ (Kept(q)' <=> Kept(q))
        BY <4>1 DEF UpdateInv, Kept
      <4>4. \A q \in Procs : upc'[q] \in Installing => lock' = q
        BY <1>0, <2>1, <4>1, <4>3 DEF UpdateInv, Standing, Installing
      <4>5. PICK q \in Procs : Kept(q) /\ upc[q] \in {"moved", "failed", "incomplete", "crashed"}
        BY <3>2 DEF UpdateInv
      <4>6. Kept(q)' /\ upc'[q] \in {"moved", "failed", "incomplete", "crashed"}
        BY <2>1, <4>3, <4>5
      <4>7. \A r \in Procs : upc'[r] \in {"replace", "moved", "failed"} => Kept(r)'
        BY <4>3 DEF UpdateInv
      <4> QED
        BY <2>1, <4>2, <4>4, <4>6, <4>7 DEF UpdateInv
    <3> QED  BY <3>1, <3>2 DEF UpdateInv
  <2> QED  BY <1>3, <2>2, <2>3 DEF Backup
<1>4. CASE MoveAway(p)
  <2>1. /\ upc[p] = "replace" /\ upc' = [upc EXCEPT ![p] = "moved"] /\ exe' = Missing
        /\ UNCHANGED <<lock, backup>>
    BY <1>4 DEF MoveAway, GotoU
  <2>2. /\ upc' \in [Procs -> Standing \cup Installing]
        /\ upc'[p] = "moved" /\ \A q \in Procs \ {p} : upc'[q] = upc[q]
        /\ \A q \in Procs : Kept(q)' <=> Kept(q)
    BY <2>1 DEF UpdateInv, Standing, Installing, Kept
  <2>3. Kept(p) /\ lock = p
    BY <1>0, <2>1 DEF UpdateInv, Standing, Installing
  <2> QED
    BY <1>0, <2>1, <2>2, <2>3 DEF UpdateInv
<1>5. CASE Replaced(p)
  BY <1>5, Releases, UpdateLeaves DEF Replaced, Standing, Installing
<1>6. CASE ReplaceFails(p)
  <2>1. Kept(p) /\ lock = p
    BY <1>0, <1>6 DEF ReplaceFails, UpdateInv, Standing, Installing
  <2> QED
    BY <1>6, <2>1, UpdateMoves DEF ReplaceFails
<1>7. CASE Rollback(p)
  <2>1. upc[p] = "failed" /\ Kept(p) /\ backup[p] \in Versions /\ lock = p
    BY <1>0, <1>7 DEF Rollback, UpdateInv, Kept, Standing, Installing
  <2>2. CASE exe # Missing /\ Release(p, "rolledBack", FALSE) /\ UNCHANGED exe
    <3>1. exe' \in Versions
      BY <2>2 DEF UpdateInv
    <3> QED  BY <2>1, <2>2, <3>1, UpdateLeaves DEF Standing, Installing
  <2>3. CASE exe = Missing /\ exe' = backup[p] /\ Release(p, "rolledBack", FALSE)
    BY <2>1, <2>3, UpdateLeaves DEF Standing, Installing
  <2>4. CASE Release(p, "incomplete", TRUE) /\ UNCHANGED exe
    <3>1. \A q \in Procs \ {p} : upc[q] \notin Installing
      BY <1>0, <2>1
    <3> QED  BY <2>1, <2>4, <3>1, UpdateMoves DEF Release, Standing, Installing
  <2> QED  BY <1>7, <2>2, <2>3, <2>4 DEF Rollback
<1>8. CASE Crash(p)
  <2>1. upc[p] \in Installing /\ lock = p /\ \A q \in Procs \ {p} : upc[q] \notin Installing
    BY <1>0, <1>8 DEF Crash, Standing, Installing
  <2> QED  BY <1>8, <2>1, UpdateMoves DEF Crash, Release, Standing, Installing
<1> QED
  BY <1>1, <1>2, <1>3, <1>4, <1>5, <1>6, <1>7, <1>8 DEF UpdateCommand

(***************************************************************************)
(* host-ensure.                                                            *)
(***************************************************************************)
\* The steps of host-ensure, of the Hosts it spawned and of their user.
LEMMA EnsureStep ==
    ASSUME EnsureInv, UpdateInv,
           HostStopped \/ \E p \in Procs : EnsureCommand(p) \/ HostBinds(p)
    PROVE  EnsureInv'
<1>0. /\ \A s \in {"none", "starting", "serving", "exited"}, v \in Versions :
            Child(s, v) \in HostProcess /\ Child(s, v).state = s
      /\ \A c \in HostProcess, s \in {"none", "starting", "serving", "exited"} :
            [c EXCEPT !.state = s] \in HostProcess /\ [c EXCEPT !.state = s].state = s
  BY DEF Child, HostProcess
<1>1. ASSUME NEW p \in Procs, NEW l \in Answers \cup {"spawn"}, Goto(p, l), UNCHANGED endpoint,
             pc[p] \in {"probe", "spawn", "poll"},
             child' = child, pc[p] = "poll" => l \in {"existing", "started", "pollChild"}
      PROVE  EnsureInv'
  BY <1>1 DEF EnsureInv, Goto, Answers, Failures
<1>2. ASSUME NEW p \in Procs, NEW l \in Failures, Goto(p, l), StopChild(p), pc[p] = "poll"
      PROVE  EnsureInv'
  <2>1. pc' \in [Procs -> {"none", "probe", "spawn", "poll"} \cup Answers]
    BY <1>2 DEF EnsureInv, Goto, Answers
  <2>2. /\ child' \in [Procs -> HostProcess] /\ child'[p].state = "exited"
        /\ \A q \in Procs \ {p} : child'[q] = child[q]
    BY <1>0, <1>2 DEF EnsureInv, StopChild
  <2>3. endpoint' \in Procs \cup {NoHost, OldHost}
    BY <1>2 DEF EnsureInv, StopChild
  <2>4. \A q \in Procs \ {p} : pc'[q] = pc[q]
    BY <1>2 DEF EnsureInv, Goto
  <2> QED
    BY <2>1, <2>2, <2>3, <2>4 DEF EnsureInv
<1>3. ASSUME NEW p \in Procs, Probe(p) PROVE EnsureInv'
  BY <1>1, <1>3 DEF Probe, Answers, Failures
<1>4. ASSUME NEW p \in Procs, Spawn(p) PROVE EnsureInv'
  <2>1. CASE exe # Missing /\ child' = [child EXCEPT ![p] = Child("starting", exe)] /\ Goto(p, "poll")
    <3>1. exe \in Versions
      BY <2>1 DEF UpdateInv
    <3>2. /\ child' \in [Procs -> HostProcess] /\ \A q \in Procs \ {p} : child'[q] = child[q]
      BY <1>0, <2>1, <3>1 DEF EnsureInv
    <3>3. /\ pc' \in [Procs -> {"none", "probe", "spawn", "poll"} \cup Answers]
          /\ pc'[p] = "poll" /\ \A q \in Procs \ {p} : pc'[q] = pc[q]
      BY <2>1 DEF EnsureInv, Goto
    <3> QED  BY <1>4, <3>2, <3>3 DEF EnsureInv, Spawn, Failures
  <2>2. CASE UNCHANGED child /\ (Goto(p, "spawnFailed") \/ Goto(p, "prepareSpawn"))
    <3>1. pc[p] = "spawn" /\ UNCHANGED endpoint
      BY <1>4 DEF Spawn
    <3>2. "spawnFailed" \in Answers /\ "prepareSpawn" \in Answers
      BY DEF Answers, Failures
    <3> QED  BY <1>1, <2>2, <3>1, <3>2
  <2> QED  BY <1>4, <2>1, <2>2 DEF Spawn
<1>5. ASSUME NEW p \in Procs, PollReady(p) PROVE EnsureInv'
  BY <1>1, <1>2, <1>5 DEF PollReady, Answers, Failures
<1>6. ASSUME NEW p \in Procs, PollExhausted(p) PROVE EnsureInv'
  BY <1>2, <1>6 DEF PollExhausted, Failures
<1>7. ASSUME NEW p \in Procs, PollFails(p) PROVE EnsureInv'
  BY <1>1, <1>7 DEF PollFails, Answers, Failures
<1>8. ASSUME NEW p \in Procs, NEW s \in {"serving", "exited"}, UNCHANGED pc,
             child' = [child EXCEPT ![p].state = s], s = "serving" => child[p].state = "starting",
             endpoint' \in Procs \cup {NoHost, OldHost}
      PROVE  EnsureInv'
  <2>1. /\ child' \in [Procs -> HostProcess] /\ child'[p].state = s
        /\ \A q \in Procs \ {p} : child'[q] = child[q]
    <3>1. child[p] \in HostProcess
      BY DEF EnsureInv
    <3>2. /\ [child[p] EXCEPT !.state = s] \in HostProcess
          /\ [child[p] EXCEPT !.state = s].state = s
      BY <1>0, <3>1, ZenonT(60)
    <3>3. PICK c \in HostProcess : c = [child[p] EXCEPT !.state = s] /\ c.state = s
      BY <3>2, Zenon
    <3>4. child' = [child EXCEPT ![p] = c]
      BY <1>8, <3>3
    <3> QED  BY <3>3, <3>4 DEF EnsureInv
  <2> QED  BY <1>8, <2>1 DEF EnsureInv
<1>9. ASSUME NEW p \in Procs, HostBinds(p) PROVE EnsureInv'
  BY <1>8, <1>9 DEF HostBinds, EnsureInv
<1>10. CASE HostStopped
  <2>1. CASE endpoint = OldHost
    BY <1>10, <2>1 DEF HostStopped, EnsureInv
  <2>2. CASE endpoint # OldHost
    <3>1. endpoint \in Procs
      BY <1>10, <2>2 DEF HostStopped, EnsureInv
    <3> QED  BY <1>8, <1>10, <2>2, <3>1 DEF HostStopped
  <2> QED  BY <2>1, <2>2
<1> QED
  BY <1>3, <1>4, <1>5, <1>6, <1>7, <1>9, <1>10 DEF EnsureCommand

(***************************************************************************)
(* Runs of a workflow.                                                     *)
(***************************************************************************)
\* An unknown outcome says nothing about the process.
LEMMA UnknownFit ==
    ASSUME NEW r, RunFit(r)
    PROVE  RunFit(Unknown(r)) /\ Unknown(r).proc = r.proc
  BY DEF RunFit, Unknown, RunState, RunStates, Terminations

\* What is forgotten of a settled run.
LEMMA ForgetFit ==
    ASSUME NEW r, RunFit(r)
    PROVE  RunFit(Forget(r))
<1>1. CASE Settled(r)
  <2> DEFINE q == [r EXCEPT !.asked = FALSE, !.timeUp = FALSE, !.termination = "none"]
  <2>1. q \in RunState
    BY DEF RunFit, RunState
  <2>2. /\ q.state = r.state /\ q.proc = r.proc /\ q.exitObserved = r.exitObserved
        /\ q.verification = r.verification
    BY DEF RunFit, RunState
  <2> HIDE DEF q
  <2>3. RunFit(q)
    BY <2>1, <2>2 DEF RunFit
  <2> QED  BY <1>1, <2>3 DEF Forget, q
<1>2. CASE ~ Settled(r)
  BY <1>2 DEF Forget
<1> QED
  BY <1>1, <1>2

\* The verdict of a verification ends it.
LEMMA VerdictFit ==
    ASSUME NEW r, RunFit(r)
    PROVE  RunFit(Verdict(r))
<1>1. CASE r.timeUp \/ policyOver
  BY <1>1, UnknownFit DEF Verdict
<1>2. CASE ~(r.timeUp \/ policyOver) /\ r.verification = "pending"
  BY <1>2 DEF Verdict
<1>3. CASE ~(r.timeUp \/ policyOver) /\ r.verification # "pending"
  <2>1. PICK g \in {"succeeded", "failed", "outcome_unknown"} :
           g = CASE r.verification = "true" -> "succeeded"
                 [] r.verification = "false" -> "failed"
                 [] OTHER -> "outcome_unknown"
    <3>1. CASE r.verification = "true"
      BY <3>1
    <3>2. CASE r.verification = "false"
      BY <3>2
    <3>3. CASE r.verification \notin {"true", "false"}
      BY <3>3
    <3> QED  BY <3>1, <3>2, <3>3
  <2> DEFINE q == [r EXCEPT !.verification = "none", !.state = g]
  <2>2. Verdict(r) = q
    BY <1>3, <2>1 DEF Verdict
  <2>3. q \in RunState
    BY DEF RunFit, RunState, RunStates
  <2>4. q.state = g /\ q.proc = r.proc /\ q.exitObserved = r.exitObserved
    BY DEF RunFit, RunState
  <2> HIDE DEF q
  <2> QED  BY <2>2, <2>3, <2>4 DEF RunFit
<1> QED
  BY <1>1, <1>2, <1>3

\* A process that was found to have ended.
LEMMA ExitedFit ==
    ASSUME NEW r, RunFit(r), r.proc # "alive", NEW s \in Exited(r)
    PROVE  RunFit(s)
<1> DEFINE q == [r EXCEPT !.exitObserved = TRUE]
<1>1. /\ q \in RunState /\ q.state = r.state /\ q.proc = r.proc /\ q.verification = r.verification
      /\ q.termination = r.termination
  BY DEF RunFit, RunState
<1> HIDE DEF q
<1>2. RunFit(q)
  BY <1>1 DEF RunFit
<1>3. ASSUME NEW g \in RunStates PROVE RunFit([q EXCEPT !.state = g])
  <2>1. [q EXCEPT !.state = g] \in RunState
    BY <1>1 DEF RunState
  <2>2. /\ [q EXCEPT !.state = g].state = g /\ [q EXCEPT !.state = g].proc = q.proc
    BY <1>1 DEF RunState
  <2>3. g # "none"
    BY DEF RunStates, Terminations
  <2> QED  BY <1>1, <2>1, <2>2, <2>3 DEF RunFit
<1>4. RunFit([q EXCEPT !.state = "verifying", !.verification = "pending"])
  <2>1. [q EXCEPT !.state = "verifying", !.verification = "pending"] \in RunState
    BY <1>1 DEF RunState, RunStates
  <2>2. /\ [q EXCEPT !.state = "verifying", !.verification = "pending"].state = "verifying"
        /\ [q EXCEPT !.state = "verifying", !.verification = "pending"].proc = q.proc
    BY <1>1 DEF RunState
  <2> QED  BY <1>1, <2>1, <2>2 DEF RunFit
<1>5. /\ \/ q.termination # "none" /\ s = [q EXCEPT !.state = q.termination]
         \/ s = q
         \/ s = [q EXCEPT !.state = "failed"]
         \/ s = Unknown(q)
         \/ s = [q EXCEPT !.state = "verifying", !.verification = "pending"]
  BY DEF Exited, q
<1>6. q.termination # "none" => q.termination \in RunStates
  BY <1>1 DEF RunState, RunStates
<1>7. "failed" \in RunStates
  BY DEF RunStates
<1> QED
  BY <1>2, <1>3, <1>4, <1>5, <1>6, <1>7, UnknownFit

\* A process that still runs.
LEMMA StillRunningFit ==
    ASSUME NEW r, RunFit(r), NEW s \in StillRunning(r)
    PROVE  RunFit(s)
<1>1. ASSUME NEW g \in Terminations PROVE RunFit([r EXCEPT !.termination = g])
  BY DEF RunFit, RunState
<1>2. \/ s = r \/ s = Unknown(r)
      \/ s = [r EXCEPT !.termination = "expired"]
      \/ s = [r EXCEPT !.termination = "timed_out"]
      \/ s = [r EXCEPT !.termination = "cancelled"]
  BY DEF StillRunning
<1>3. {"expired", "timed_out", "cancelled"} \subseteq Terminations
  BY DEF Terminations
<1> QED
  BY <1>1, <1>2, <1>3, UnknownFit

\* Whatever a refresh finds, it never takes a process that runs for ended.
LEMMA RefreshFit ==
    ASSUME NEW r, RunFit(r), NEW s \in Refresh(r)
    PROVE  RunFit(s)
<1>1. CASE LateVerification(r) /\ r.verification = "pending"
  BY <1>1 DEF Refresh
<1>2. CASE ~(LateVerification(r) /\ r.verification = "pending")
  <2>1. PICK q : q = IF LateVerification(r) THEN [r EXCEPT !.verification = "none"] ELSE r
    OBVIOUS
  <2>2. RunFit(q)
    <3>1. RunFit([r EXCEPT !.verification = "none"])
      BY DEF RunFit, RunState
    <3> QED  BY <2>1, <3>1
  <2>3. PICK x \in IF q.state = "verifying" THEN {Verdict(q)}
                   ELSE IF q.exitObserved THEN {q} ELSE Polled(q) : s = Forget(x)
    BY <1>2, <2>1 DEF Refresh
  <2>4. RunFit(x)
    <3>1. CASE x = Verdict(q) \/ x = q \/ x = Unknown(q)
      BY <2>2, <3>1, VerdictFit, UnknownFit
    <3>2. CASE Alive(q) /\ x \in StillRunning(q)
      BY <2>2, <3>2, StillRunningFit
    <3>3. CASE ~ Alive(q) /\ x \in Exited(q)
      BY <2>2, <3>3, ExitedFit DEF Alive
    <3> QED  BY <2>3, <3>1, <3>2, <3>3 DEF Polled
  <2> QED  BY <2>3, <2>4, ForgetFit
<1> QED
  BY <1>1, <1>2

\* Nor does a cancellation.
LEMMA CancelFit ==
    ASSUME NEW r, RunFit(r), NEW s \in Cancel(r)
    PROVE  RunFit(s)
<1>1. CASE r.state = "none"
  BY <1>1 DEF Cancel
<1>2. CASE r.state # "none"
  <2>1. PICK q \in Refresh(r) : s \in IF q.state = "running" /\ recipe.allowCancel
                                      THEN Refresh([q EXCEPT !.asked = TRUE]) ELSE {q}
    BY <1>2 DEF Cancel
  <2>2. RunFit(q)
    BY RefreshFit
  <2>3. RunFit([q EXCEPT !.asked = TRUE])
    BY <2>2 DEF RunFit, RunState
  <2> QED  BY <2>1, <2>2, <2>3, RefreshFit
<1> QED
  BY <1>1, <1>2

\* A settled run has no process, and no verification either.
LEMMA SettledFit ==
    ASSUME NEW r, RunFit(r), Settled(r)
    PROVE  r.proc # "alive" /\ r.verification = "none"
  BY DEF RunFit, Settled

(***************************************************************************)
(* Tasks of the MCP server.                                                *)
(***************************************************************************)
\* The first window is a window.
LEMMA FirstWindowIn == FirstWindow \in Windows
  BY WindowsAssumption DEF FirstWindow

\* A place of the map that holds no task, its id issued or not.
LEMMA NoTaskFit ==
    ASSUME NEW b \in BOOLEAN, NEW c \in Conns \ {"serving", "closing"}, b \/ c = "none"
    PROVE  TaskFit([NoTask EXCEPT !.used = b], c, FALSE)
<1> DEFINE q == [NoTask EXCEPT !.used = b]
<1>1. q \in TaskProposal
  BY FirstWindowIn DEF NoTask, TaskProposal
<1>2. /\ ~ q.present /\ q.used = b /\ ~ q.session /\ q.owner = "none" /\ q.completion = "none"
  BY DEF NoTask
<1> HIDE DEF q
<1>3. TaskFit(q, c, FALSE)
  BY <1>1, <1>2 DEF TaskFit
<1> QED
  BY <1>3 DEF q

\* Of a task whose place is reclaimed nothing is left at the Host.
LEMMA ReclaimFit ==
    ASSUME NEW p, NEW c, NEW l, TaskFit(p, c, l)
    PROVE  /\ TaskFit(Reclaim(p), c, l)
           /\ Reclaim(p).used = p.used
           /\ Reclaim(p) = p \/ ~ Reclaim(p).present
<1>1. CASE p.present /\ ~ Retained(p)
  <2>1. p.owner # "pending" /\ c = p.owner /\ p.used
    BY <1>1 DEF Retained, TaskFit
  <2>2. p.owner \in {"none", "pending", "ok", "err"}
    BY DEF TaskFit, TaskProposal
  <2>3. c \in Conns \ {"serving", "closing"} /\ l = FALSE
    BY <2>1, <2>2 DEF TaskFit
  <2>4. TaskFit([NoTask EXCEPT !.used = TRUE], c, FALSE)
    BY <2>3, NoTaskFit
  <2>5. Reclaim(p) = [NoTask EXCEPT !.used = TRUE]
    BY <1>1 DEF Reclaim
  <2>6. ~ [NoTask EXCEPT !.used = TRUE].present /\ [NoTask EXCEPT !.used = TRUE].used = TRUE
    BY DEF NoTask
  <2>7. p.used = TRUE
    BY <2>1 DEF TaskFit, TaskProposal
  <2> QED
    BY <2>3, <2>4, <2>5, <2>6, <2>7
<1>2. CASE ~(p.present /\ ~ Retained(p))
  BY <1>2 DEF Reclaim
<1> QED
  BY <1>1, <1>2

\* What a task is apart from its lease decides how it fits.
LEMMA SameFit ==
    ASSUME NEW p, NEW c, NEW l, TaskFit(p, c, l), NEW q \in TaskProposal,
           q.present = p.present, q.used = p.used, q.session = p.session, q.owner = p.owner,
           q.owner = "none" => q.completion = "none"
    PROVE  TaskFit(q, c, l)
  BY DEF TaskFit

\* The broker drops the lease of a task and nothing else.
LEMMA PrunedFit ==
    ASSUME NEW p, NEW c, NEW l, TaskFit(p, c, l)
    PROVE  /\ TaskFit(Pruned(p), c, l)
           /\ Pruned(p).present = p.present /\ Pruned(p).used = p.used
           /\ Pruned(p).revoked = p.revoked
           /\ Pruned(p).completion = p.completion /\ Pruned(p).owner = p.owner
<1>1. p \in TaskProposal
  BY DEF TaskFit
<1>2. PICK e \in {"none", "live", "revoked", "pruned"} :
         e = IF p.expired /\ p.lease # "none" THEN "pruned" ELSE p.lease
  BY <1>1 DEF TaskProposal
<1> DEFINE q == [p EXCEPT !.lease = e]
<1>3. q \in TaskProposal
  BY <1>1 DEF TaskProposal
<1>4. /\ q.present = p.present /\ q.used = p.used /\ q.session = p.session /\ q.owner = p.owner
      /\ q.completion = p.completion /\ q.revoked = p.revoked
  BY <1>1 DEF TaskProposal
<1>5. Pruned(p) = q
  BY <1>2 DEF Pruned
<1> HIDE DEF q
<1>6. TaskFit(q, c, l)
  BY <1>3, <1>4, SameFit DEF TaskFit
<1> QED
  BY <1>4, <1>5, <1>6

\* A prepared task has no Host yet.
LEMMA ProposalFit ==
    ASSUME NEW w \in Runs \cup {NoRun}, NEW x \in Windows
    PROVE  /\ TaskFit(Proposal(w, x), "none", FALSE)
           /\ Proposal(w, x).present /\ Proposal(w, x).used /\ ~ Proposal(w, x).revoked
           /\ Proposal(w, x).owner = "none" /\ ~ Proposal(w, x).session
<1> DEFINE q == Proposal(w, x)
<1>1. q \in TaskProposal
  BY FirstWindowIn DEF Proposal, NoTask, TaskProposal
<1>2. /\ q.present /\ q.used /\ ~ q.session /\ q.owner = "none" /\ q.completion = "none"
      /\ ~ q.revoked
  BY DEF Proposal, NoTask
<1> HIDE DEF q
<1>3. TaskFit(q, "none", FALSE)
  BY <1>1, <1>2 DEF TaskFit, Conns
<1> QED
  BY <1>2, <1>3 DEF q

\* One task, its connection and its session change.
LEMMA OneTask ==
    ASSUME NEW f, NEW c, NEW l, TasksFit(f, c, l), NEW t \in Tasks,
           NEW p, NEW d, NEW b, TaskFit(p, d, b)
    PROVE  TasksFit([f EXCEPT ![t] = p], [c EXCEPT ![t] = d], [l EXCEPT ![t] = b])
<1>1. p \in TaskProposal /\ d \in Conns /\ b \in BOOLEAN
  BY DEF TaskFit
<1> DEFINE F == [f EXCEPT ![t] = p]
           C == [c EXCEPT ![t] = d]
           L == [l EXCEPT ![t] = b]
<1>2. F \in [Tasks -> TaskProposal] /\ C \in [Tasks -> Conns] /\ L \in [Tasks -> BOOLEAN]
  BY <1>1 DEF TasksFit
<1>3. /\ F[t] = p /\ C[t] = d /\ L[t] = b
      /\ \A u \in Tasks \ {t} : F[u] = f[u] /\ C[u] = c[u] /\ L[u] = l[u]
  BY DEF TasksFit
<1> HIDE DEF F, C, L
<1>4. \A u \in Tasks : TaskFit(F[u], C[u], L[u])
  BY <1>3 DEF TasksFit
<1>5. TasksFit(F, C, L)
  BY <1>2, <1>4 DEF TasksFit
<1> QED
  BY <1>5 DEF F, C, L

\* Of two functions of tasks, one is the other with what was reclaimed and pruned.
ReclaimOf(g, f) ==
    \A u \in Tasks : /\ g[u].used = f[u].used
                     /\ g[u].present => /\ f[u].present
                                        /\ g[u].revoked = f[u].revoked
                                        /\ g[u].completion = f[u].completion
                                        /\ g[u].owner = f[u].owner

\* ensure_task_capacity reclaims, and every task left still fits.
LEMMA ReclaimedFit ==
    ASSUME NEW f, NEW c, NEW l, TasksFit(f, c, l)
    PROVE  TasksFit(Reclaimed(f), c, l) /\ ReclaimOf(Reclaimed(f), f)
<1> DEFINE g == Reclaimed(f)
<1>1. \A u \in Tasks : g[u] = Reclaim(f[u])
  BY DEF Reclaimed
<1>2. g = [u \in Tasks |-> g[u]]
  BY DEF Reclaimed
<1> HIDE DEF g
<1>3. ASSUME NEW u \in Tasks
      PROVE  TaskFit(g[u], c[u], l[u]) /\ g[u].used = f[u].used /\ (g[u] = f[u] \/ ~ g[u].present)
  <2>1. TaskFit(f[u], c[u], l[u])
    BY DEF TasksFit
  <2> QED  BY <1>1, <2>1, ReclaimFit
<1>4. \A u \in Tasks : g[u] \in TaskProposal
  BY <1>3 DEF TaskFit
<1>5. g \in [Tasks -> TaskProposal]
  BY <1>2, <1>4
<1>6. TasksFit(g, c, l)
  BY <1>3, <1>5 DEF TasksFit
<1>7. ReclaimOf(g, f)
  BY <1>3 DEF ReclaimOf
<1> QED
  BY <1>6, <1>7 DEF g

\* A task is prepared in a place whose id was never issued.
LEMMA PreparedFit ==
    ASSUME NEW f, NEW c, NEW l, TasksFit(f, c, l), NEW t \in Tasks, ~ f[t].used,
           NEW w \in Runs \cup {NoRun}, NEW x \in Windows
    PROVE  /\ TasksFit(Prepared(f, t, w, x), c, l)
           /\ Prepared(f, t, w, x)[t] = Proposal(w, x)
           /\ \A u \in Tasks \ {t} :
                 Prepared(f, t, w, x)[u].present =>
                    /\ f[u].present
                    /\ Prepared(f, t, w, x)[u].revoked = f[u].revoked
                    /\ Prepared(f, t, w, x)[u].completion = f[u].completion
                    /\ Prepared(f, t, w, x)[u].owner = f[u].owner
<1> DEFINE g == Prepared(f, t, w, x)
<1>1. g[t] = Proposal(w, x) /\ \A u \in Tasks \ {t} : g[u] = Pruned(Reclaim(f[u]))
  BY DEF Prepared
<1>2. g = [u \in Tasks |-> g[u]]
  BY DEF Prepared
<1> HIDE DEF g
<1>3. c[t] = "none" /\ l[t] = FALSE
  BY DEF TasksFit, TaskFit
<1>4. TaskFit(g[t], c[t], l[t])
  BY <1>1, <1>3, ProposalFit
<1>5. ASSUME NEW u \in Tasks \ {t}
      PROVE  /\ TaskFit(g[u], c[u], l[u])
             /\ g[u].present => /\ f[u].present /\ g[u].revoked = f[u].revoked
                                /\ g[u].completion = f[u].completion /\ g[u].owner = f[u].owner
  <2>1. PICK q : q = Reclaim(f[u])
    OBVIOUS
  <2>2. TaskFit(q, c[u], l[u]) /\ (q = f[u] \/ ~ q.present)
    BY <2>1, ReclaimFit DEF TasksFit
  <2>3. g[u] = Pruned(q)
    BY <1>1, <2>1
  <2> QED  BY <2>2, <2>3, PrunedFit
<1>6. \A u \in Tasks : TaskFit(g[u], c[u], l[u])
  BY <1>4, <1>5
<1>7. g \in [Tasks -> TaskProposal]
  BY <1>2, <1>6 DEF TaskFit
<1>8. TasksFit(g, c, l)
  BY <1>6, <1>7 DEF TasksFit
<1> QED
  BY <1>1, <1>5, <1>8 DEF g

(***************************************************************************)
(* McpRequests of the MCP client.                                             *)
(***************************************************************************)
\* The fields of a request.
LEMMA AtIs ==
    ASSUME NEW a \in {"stopall", "derive", "open", "revoke"},
           NEW t \in Tasks \cup {NoTaskId}, NEW w \in Runs \cup {NoRun},
           NEW n \in {"reply", "startFailed", "rebind", "shutdown", "shutdownError"}
    PROVE  /\ At(a, t, w, n) \in McpRequests
           /\ At(a, t, w, n).pc = a /\ At(a, t, w, n).task = t
           /\ At(a, t, w, n).workflow = w /\ At(a, t, w, n).next = n
  BY DEF At, McpRequests

\* No request is under way.
LEMMA NoRpcFit ==
    ASSUME NEW f, NEW c
    PROVE  /\ RpcFit(NoRpc, f, c)
           /\ NoRpc.pc = "idle" /\ NoRpc.task = NoTaskId /\ NoRpc.next = "reply"
  BY DEF NoRpc, RpcFit, McpRequests

\* While the server serves no shutdown has begun.
LEMMA StillServing ==
    ASSUME NEW d \in [begun : SUBSET Tasks, failed : BOOLEAN], d.begun = {},
           NEW r, r.next \notin Ending, r.pc # "stopall", NEW f
    PROVE  Closing("serving", d, r, f)
  BY DEF Closing, Ending

\* A request other than the shutdown's is only handled while the server serves.
LEMMA OnlyServing ==
    ASSUME McpInv, srv = "serving" \/ (rpc.pc \notin {"idle", "stopall"} /\ rpc.next \notin Ending)
    PROVE  /\ srv = "serving" /\ shutdown.begun = {} /\ rpc.pc # "stopall" /\ rpc.next \notin Ending
           /\ shutdown \in [begun : SUBSET Tasks, failed : BOOLEAN]
  BY DEF McpInv, Closing

\* A start that failed.
LEMMA FailedFit ==
    ASSUME NEW f, NEW c, NEW t \in Tasks, NEW w \in Runs \cup {NoRun},
           NEW n \in {"startFailed", "reply", "rebind"}
    PROVE  /\ RpcFit(Failed(t, w, n), f, c)
           /\ Failed(t, w, n).pc \in {"idle", "revoke"}
           /\ Failed(t, w, n).next \in {"reply", "startFailed"}
<1>1. CASE n = "startFailed"
  <2>1. Failed(t, w, n) = At("revoke", t, w, n)
    BY <1>1 DEF Failed
  <2> QED  BY <1>1, <2>1, AtIs DEF RpcFit
<1>2. CASE n # "startFailed"
  BY <1>2, NoRpcFit DEF Failed
<1> QED
  BY <1>1, <1>2

\* One run is refreshed, started or cancelled.
LEMMA OneRun ==
    ASSUME RunsFit, srv' # "clean", NEW w \in Runs, NEW r, RunFit(r),
           run' = [run EXCEPT ![w] = r], UNCHANGED recipe,
           policyOver' \in BOOLEAN, consumed' \in BOOLEAN
    PROVE  RunsFit'
<1>1. r \in RunState
  BY DEF RunFit
<1>2. run' \in [Runs -> RunState] /\ run'[w] = r /\ \A v \in Runs \ {w} : run'[v] = run[v]
  BY <1>1 DEF RunsFit, WorkflowTypeOK
<1>3. WorkflowTypeOK'
  BY <1>2 DEF RunsFit, WorkflowTypeOK
<1>4. \A v \in Runs : RunFit(run'[v])
  BY <1>2 DEF RunsFit
<1> QED
  BY <1>3, <1>4 DEF RunsFit

\* The runs stay as they are.
LEMMA SameRuns ==
    ASSUME RunsFit, UNCHANGED workflowVars, srv' = srv
    PROVE  RunsFit'
  BY DEF RunsFit, WorkflowTypeOK, workflowVars

\* A step of a server that serves on.
LEMMA ServesOn ==
    ASSUME srv = "serving", srv' = srv,
           shutdown' \in [begun : SUBSET Tasks, failed : BOOLEAN], shutdown'.begun = {},
           window' \in Windows, RunsFit', TasksFit(task', conn', live'),
           RpcFit(rpc', task', conn'), Completed(task', rpc'),
           rpc'.next \notin Ending, rpc'.pc # "stopall"
    PROVE  McpInv'
<1>1. PICK r, g, d : r = rpc' /\ g = task' /\ d = shutdown'
  OBVIOUS
<1>2. Closing("serving", d, r, g)
  BY <1>1, StillServing
<1>3. Closing(srv', shutdown', rpc', task')
  BY <1>1, <1>2
<1> QED
  BY <1>3 DEF McpInv

\* The Host connection of a task starts, or fails to.
LEMMA StartTaskInv ==
    ASSUME McpInv, srv = "serving", UNCHANGED <<live, srv, shutdown, window>>, RunsFit',
           NEW f, TasksFit(f, conn, live), NEW t \in Tasks, f[t].present, ~ f[t].revoked,
           \A u \in Tasks : f[u].present /\ f[u].revoked => f[u].completion = f[u].owner,
           NEW w \in Runs \cup {NoRun}, NEW n \in {"startFailed", "reply"}, StartTask(f, t, w, n)
    PROVE  McpInv'
<1>1. /\ shutdown.begun = {} /\ shutdown \in [begun : SUBSET Tasks, failed : BOOLEAN]
  BY OnlyServing
<1>2. ASSUME TasksFit(task', conn', live'), RpcFit(rpc', task', conn'), Completed(task', rpc'),
             rpc'.next \notin Ending, rpc'.pc # "stopall"
      PROVE  McpInv'
  <2>1. window' \in Windows
    BY DEF McpInv
  <2> QED  BY <1>1, <1>2, <2>1, ServesOn
<1>3. CASE task' = f /\ rpc' = NoRpc /\ UNCHANGED conn
  BY <1>2, <1>3, NoRpcFit DEF Completed, Ending
<1>4. CASE f[t].owner = "none"
  <2>1. f[t] \in TaskProposal /\ TaskFit(f[t], conn[t], live[t])
    BY DEF TasksFit
  <2>2. conn[t] = "none" /\ ~ f[t].session /\ live[t] = FALSE /\ f[t].used /\ f[t].completion = "none"
    BY <1>4, <2>1 DEF TaskFit
  <2>3. CASE /\ task' = [f EXCEPT ![t] = [f[t] EXCEPT !.attempted = TRUE, !.owner = "pending"]]
             /\ conn' = [conn EXCEPT ![t] = "serving"] /\ rpc' = At("open", t, w, n)
    <3>1. PICK q : q = [f[t] EXCEPT !.attempted = TRUE, !.owner = "pending"]
      OBVIOUS
    <3>2. q \in TaskProposal
      BY <2>1, <3>1 DEF TaskProposal
    <3>3. /\ q.present = f[t].present /\ q.used = f[t].used /\ q.session = f[t].session
          /\ q.owner = "pending" /\ q.revoked = f[t].revoked
      BY <2>1, <3>1 DEF TaskProposal
    <3>4. TaskFit(q, "serving", FALSE)
      BY <2>2, <3>2, <3>3 DEF TaskFit, Conns
    <3>5. live' = [live EXCEPT ![t] = FALSE] /\ task' = [f EXCEPT ![t] = q]
      BY <2>2, <2>3, <3>1 DEF TasksFit
    <3>6. TasksFit(task', conn', live')
      <4>1. TasksFit([f EXCEPT ![t] = q], [conn EXCEPT ![t] = "serving"], [live EXCEPT ![t] = FALSE])
        BY <3>4, OneTask
      <4> QED  BY <2>3, <3>5, <4>1
    <3>7. /\ task'[t] = q /\ conn'[t] = "serving" /\ \A u \in Tasks \ {t} : task'[u] = f[u]
      BY <2>3, <3>5 DEF TasksFit
    <3>8. rpc' \in McpRequests /\ rpc'.pc = "open" /\ rpc'.task = t /\ rpc'.next = n
      BY <2>3, AtIs
    <3>9. RpcFit(rpc', task', conn')
      BY <2>2, <3>3, <3>7, <3>8 DEF RpcFit
    <3>10. Completed(task', rpc')
      BY <3>3, <3>7 DEF Completed
    <3> QED  BY <1>2, <3>6, <3>8, <3>9, <3>10 DEF Ending
  <2>4. CASE /\ task' = [f EXCEPT ![t] = [f[t] EXCEPT !.attempted = TRUE]]
             /\ rpc' = Failed(t, w, n) /\ UNCHANGED conn
    <3>1. PICK q : q = [f[t] EXCEPT !.attempted = TRUE]
      OBVIOUS
    <3>2. q \in TaskProposal
      BY <2>1, <3>1 DEF TaskProposal
    <3>3. /\ q.present = f[t].present /\ q.used = f[t].used /\ q.session = f[t].session
          /\ q.owner = f[t].owner /\ q.revoked = f[t].revoked /\ q.completion = f[t].completion
      BY <2>1, <3>1 DEF TaskProposal
    <3>4. TaskFit(q, conn[t], live[t])
      BY <2>1, <2>2, <3>2, <3>3, SameFit
    <3>5. /\ live' = [live EXCEPT ![t] = live[t]] /\ conn' = [conn EXCEPT ![t] = conn[t]]
          /\ task' = [f EXCEPT ![t] = q]
      BY <2>4, <3>1 DEF TasksFit
    <3>6. TasksFit(task', conn', live')
      <4>1. TasksFit([f EXCEPT ![t] = q], [conn EXCEPT ![t] = conn[t]], [live EXCEPT ![t] = live[t]])
        BY <3>4, OneTask
      <4> QED  BY <3>5, <4>1
    <3>7. task'[t] = q /\ \A u \in Tasks \ {t} : task'[u] = f[u]
      BY <3>5 DEF TasksFit
    <3>8. PICK g, c : g = task' /\ c = conn'
      OBVIOUS
    <3>9. RpcFit(rpc', task', conn') /\ rpc'.pc \in {"idle", "revoke"} /\ rpc'.next \in {"reply", "startFailed"}
      BY <2>4, <3>8, FailedFit
    <3>10. Completed(task', rpc')
      BY <3>3, <3>7 DEF Completed
    <3> QED  BY <1>2, <3>6, <3>9, <3>10 DEF Ending
  <2> QED  BY <1>3, <1>4, <2>3, <2>4 DEF StartTask
<1> QED
  BY <1>3, <1>4 DEF StartTask

\* Tasks of which only leases, deadlines and the like differ.
Alike(g, f) == \A u \in Tasks : /\ g[u].present = f[u].present /\ g[u].used = f[u].used
                                /\ g[u].session = f[u].session /\ g[u].revoked = f[u].revoked
                                /\ g[u].owner = f[u].owner /\ g[u].completion = f[u].completion
                                /\ g[u].cleanup = f[u].cleanup

\* What the Host and time do leaves the request under way as it is.
LEMMA Unasked ==
    ASSUME McpInv, UNCHANGED <<rpc, srv, shutdown>>, srv \in {"serving", "closing"},
           RunsFit', window' \in Windows, TasksFit(task', conn', live'), Alike(task', task),
           \A u \in Tasks : conn[u] = "serving" => conn'[u] = "serving"
    PROVE  McpInv'
<1>1. RpcFit(rpc', task', conn')
  <2>1. RpcFit(rpc, task, conn)
    BY DEF McpInv
  <2>2. rpc.pc \notin {"idle", "stopall"} => rpc.task \in Tasks
    BY <2>1 DEF RpcFit
  <2>3. rpc.pc = "derive" /\ rpc.next # "rebind" => ~ task'[rpc.task].used
    BY <2>1, <2>2 DEF RpcFit, Alike
  <2>4. rpc.pc \in {"open", "stop"} => conn'[rpc.task] = "serving" /\ ~ task'[rpc.task].session
    BY <2>1, <2>2 DEF RpcFit, Alike
  <2>5. rpc.pc \in {"stop", "finish", "reissue"} => task'[rpc.task].present
    BY <2>1, <2>2 DEF RpcFit, Alike
  <2> QED  BY <2>1, <2>3, <2>4, <2>5 DEF RpcFit
<1>2. Completed(task', rpc')
  BY DEF McpInv, Completed, Alike
<1>3. Closing(srv', shutdown', rpc', task')
  <2>1. Closing(srv, shutdown, rpc, task)
    BY DEF McpInv
  <2>2. rpc.pc \in {"stop", "finish"} => rpc.task \in Tasks
    BY DEF McpInv, RpcFit
  <2>3. rpc.next = "shutdown" /\ rpc.pc \in {"stop", "finish"} => task'[rpc.task].revoked
    BY <2>1, <2>2 DEF Closing, Alike
  <2>4. \A t \in Tasks : Confirmed(task[t]) => Confirmed(task'[t])
    BY DEF Confirmed, StoppedStatus, Alike
  <2>5. Present(task') = Present(task)
    BY DEF Present, Alike
  <2>6. shutdown.begun \subseteq Tasks
    BY <2>1 DEF Closing
  <2>7. \A t \in shutdown.begun :
           shutdown.failed \/ (rpc.task = t /\ rpc.next \in Ending) \/ Confirmed(task'[t])
    BY <2>1, <2>4, <2>6 DEF Closing
  <2> QED  BY <2>1, <2>3, <2>5, <2>7 DEF Closing
<1> QED
  BY <1>1, <1>2, <1>3 DEF McpInv

\* One task changes, together with its connection and its session.
LEMMA TaskMoves ==
    ASSUME McpInv, NEW t \in Tasks, NEW p, NEW d, NEW b, TaskFit(p, d, b),
           task' = [task EXCEPT ![t] = p], conn' = [conn EXCEPT ![t] = d],
           live' = [live EXCEPT ![t] = b]
    PROVE  /\ TasksFit(task', conn', live')
           /\ task'[t] = p /\ \A u \in Tasks \ {t} : task'[u] = task[u]
           /\ conn'[t] = d /\ \A u \in Tasks \ {t} : conn'[u] = conn[u]
<1>1. TasksFit(task, conn, live)
  BY DEF McpInv
<1>2. TasksFit([task EXCEPT ![t] = p], [conn EXCEPT ![t] = d], [live EXCEPT ![t] = b])
  BY <1>1, OneTask
<1>3. TasksFit(task', conn', live')
  BY <1>2
<1> QED
  BY <1>1, <1>3 DEF TasksFit

\* The Host returns, or ends a session: the server learns of neither here.
LEMMA HostSteps ==
    ASSUME McpInv, NEW t \in Tasks, srv \in {"serving", "closing"},
           HostReturns(t) \/ HostEndsSession(t)
    PROVE  McpInv'
<1>0. /\ RunsFit' /\ window' \in Windows /\ task' = task /\ UNCHANGED <<rpc, srv, shutdown>>
      /\ Alike(task', task) /\ TaskFit(task[t], conn[t], live[t]) /\ TasksFit(task, conn, live)
  <2>1. RunsFit'
    BY SameRuns DEF McpInv, HostReturns, HostEndsSession
  <2>2. Alike(task', task)
    BY DEF HostReturns, HostEndsSession, Alike
  <2> QED  BY <2>1, <2>2 DEF McpInv, TasksFit, HostReturns, HostEndsSession
<1>1. task' = [task EXCEPT ![t] = task[t]] /\ live' = [live EXCEPT ![t] = FALSE]
  BY <1>0 DEF TasksFit, HostReturns, HostEndsSession
<1>2. PICK d \in Conns : conn' = [conn EXCEPT ![t] = d] /\ TaskFit(task[t], d, FALSE)
                         /\ (conn[t] = "serving" => d = "serving")
  <2>1. CASE HostReturns(t)
    <3>1. PICK r \in {"ok", "err"} : conn' = [conn EXCEPT ![t] = r]
      BY <2>1 DEF HostReturns
    <3>2. r \in Conns /\ conn[t] = "closing" /\ TaskFit(task[t], r, FALSE)
      BY <1>0, <2>1 DEF HostReturns, TaskFit, Conns
    <3> QED  BY <3>1, <3>2
  <2>2. CASE HostEndsSession(t)
    <3>1. conn' = [conn EXCEPT ![t] = conn[t]] /\ conn[t] \in Conns
      BY <1>0, <2>2 DEF HostEndsSession, TasksFit
    <3>2. TaskFit(task[t], conn[t], FALSE)
      BY <1>0, <2>2 DEF TaskFit
    <3> QED  BY <3>1, <3>2
  <2> QED  BY <2>1, <2>2
<1>3. TasksFit(task', conn', live')
  <2>1. TasksFit([task EXCEPT ![t] = task[t]], [conn EXCEPT ![t] = d], [live EXCEPT ![t] = FALSE])
    BY <1>0, <1>2, OneTask
  <2> QED  BY <1>1, <1>2, <2>1
<1>4. conn'[t] = d /\ \A u \in Tasks \ {t} : conn'[u] = conn[u]
  BY <1>0, <1>2 DEF TasksFit
<1>5. \A u \in Tasks : conn[u] = "serving" => conn'[u] = "serving"
  BY <1>2, <1>4
<1> QED
  BY <1>0, <1>3, <1>5, Unasked

\* The lifetime of a task passes.
LEMMA ExpireStep ==
    ASSUME McpInv, NEW t \in Tasks, srv \in {"serving", "closing"}, Expire(t)
    PROVE  McpInv'
<1>1. TaskFit(task[t], conn[t], live[t]) /\ TasksFit(task, conn, live) /\ task[t] \in TaskProposal
  BY DEF McpInv, TasksFit
<1>2. PICK p : p = [task[t] EXCEPT !.expired = TRUE]
  OBVIOUS
<1>3. p \in TaskProposal
  BY <1>1, <1>2 DEF TaskProposal
<1>4. /\ p.present = task[t].present /\ p.used = task[t].used /\ p.session = task[t].session
      /\ p.revoked = task[t].revoked /\ p.owner = task[t].owner
      /\ p.completion = task[t].completion /\ p.cleanup = task[t].cleanup
  BY <1>1, <1>2 DEF TaskProposal
<1>5. TaskFit(p, conn[t], live[t])
  BY <1>1, <1>3, <1>4, SameFit DEF TaskFit
<1>6. /\ task' = [task EXCEPT ![t] = p] /\ conn' = [conn EXCEPT ![t] = conn[t]]
      /\ live' = [live EXCEPT ![t] = live[t]]
  BY <1>1, <1>2 DEF Expire, TasksFit
<1>7. /\ TasksFit(task', conn', live') /\ task'[t] = p
      /\ \A u \in Tasks \ {t} : task'[u] = task[u]
  <2>1. PICK d, b : d = conn[t] /\ b = live[t]
    OBVIOUS
  <2> QED  BY <1>5, <1>6, <2>1, TaskMoves
<1>8. Alike(task', task)
  BY <1>4, <1>7 DEF Alike
<1>9. RunsFit'
  BY SameRuns DEF McpInv, Expire
<1>10. window' \in Windows /\ UNCHANGED <<rpc, srv, shutdown, conn>>
  BY DEF Expire, McpInv
<1> QED
  BY <1>7, <1>8, <1>9, <1>10, Unasked

\* The installer shows another window.
LEMMA WindowStep ==
    ASSUME McpInv, NEW t \in Tasks, srv \in {"serving", "closing"}, WindowReplaced(t)
    PROVE  McpInv'
<1>1. RunsFit' /\ window' \in Windows /\ UNCHANGED <<rpc, srv, shutdown, task, conn, live>>
  BY SameRuns DEF McpInv, WindowReplaced
<1>2. Alike(task', task) /\ TasksFit(task', conn', live')
  BY <1>1 DEF Alike, McpInv
<1> QED
  BY <1>1, <1>2, Unasked

\* The process of a run, its supervisor, its verification and its deadlines.
LEMMA WorkflowSteps ==
    ASSUME McpInv, srv \in {"serving", "closing"}, WorkflowStep, UNCHANGED mcpVars
    PROVE  McpInv'
<1>1. /\ UNCHANGED <<rpc, srv, shutdown, task, conn, live, window>>
      /\ RunsFit /\ WorkflowTypeOK /\ srv' # "clean" /\ window' \in Windows
  BY DEF mcpVars, McpInv, RunsFit
<1>2. Alike(task', task) /\ TasksFit(task', conn', live')
  BY <1>1 DEF Alike, McpInv
<1>3. ASSUME NEW w \in Runs, Supervise(w) PROVE RunsFit'
  <2>1. PICK r \in Refresh(run[w]) : run' = [run EXCEPT ![w] = r]
    BY <1>3 DEF Supervise
  <2>2. RunFit(r)
    BY <1>1, RefreshFit DEF RunsFit
  <2> QED  BY <1>1, <1>3, <2>1, <2>2, OneRun DEF Supervise, WorkflowTypeOK
<1>4. ASSUME NEW w \in Runs, ProcessEnds(w) PROVE RunsFit'
  <2>1. PICK code \in {"ok", "bad"} : run' = [run EXCEPT ![w].proc = code]
    BY <1>4 DEF ProcessEnds
  <2>2. RunFit(run[w]) /\ run[w] \in RunState
    BY <1>1 DEF RunsFit, RunFit
  <2>3. PICK r : r = [run[w] EXCEPT !.proc = code]
    OBVIOUS
  <2>4. r \in RunState /\ r.proc = code /\ r.state = run[w].state /\ r.verification = run[w].verification
    BY <2>2, <2>3 DEF RunState
  <2>5. RunFit(r)
    BY <2>2, <2>4 DEF RunFit
  <2>6. run' = [run EXCEPT ![w] = r]
    BY <2>1, <2>3
  <2> QED  BY <1>1, <1>4, <2>5, <2>6, OneRun DEF ProcessEnds, WorkflowTypeOK
<1>5. ASSUME NEW w \in Runs, VerifyResult(w) PROVE RunsFit'
  <2>1. PICK v \in {"true", "false", "error"} : run' = [run EXCEPT ![w].verification = v]
    BY <1>5 DEF VerifyResult
  <2>2. RunFit(run[w]) /\ run[w] \in RunState /\ run[w].verification = "pending"
    BY <1>1, <1>5 DEF RunsFit, RunFit, VerifyResult
  <2>3. PICK r : r = [run[w] EXCEPT !.verification = v]
    OBVIOUS
  <2>4. /\ r \in RunState /\ r.proc = run[w].proc /\ r.state = run[w].state
        /\ r.exitObserved = run[w].exitObserved
    BY <2>2, <2>3 DEF RunState
  <2>5. RunFit(r)
    BY <2>2, <2>4 DEF RunFit
  <2>6. run' = [run EXCEPT ![w] = r]
    BY <2>1, <2>3
  <2> QED  BY <1>1, <1>5, <2>5, <2>6, OneRun DEF VerifyResult, WorkflowTypeOK
<1>6. ASSUME NEW w \in Runs, TimeUp(w) PROVE RunsFit'
  <2>1. run' = [run EXCEPT ![w].timeUp = TRUE]
    BY <1>6 DEF TimeUp
  <2>2. RunFit(run[w]) /\ run[w] \in RunState
    BY <1>1 DEF RunsFit, RunFit
  <2>3. PICK r : r = [run[w] EXCEPT !.timeUp = TRUE]
    OBVIOUS
  <2>4. /\ r \in RunState /\ r.proc = run[w].proc /\ r.state = run[w].state
        /\ r.exitObserved = run[w].exitObserved /\ r.verification = run[w].verification
    BY <2>2, <2>3 DEF RunState
  <2>5. RunFit(r)
    BY <2>2, <2>4 DEF RunFit
  <2>6. run' = [run EXCEPT ![w] = r]
    BY <2>1, <2>3
  <2> QED  BY <1>1, <1>6, <2>5, <2>6, OneRun DEF TimeUp, WorkflowTypeOK
<1>7. CASE PolicyExpires
  <2>1. WorkflowTypeOK'
    BY <1>1, <1>7 DEF PolicyExpires, WorkflowTypeOK
  <2> QED  BY <1>1, <1>7, <2>1, <1>2, Unasked DEF PolicyExpires, RunsFit
<1> QED
  BY <1>1, <1>2, <1>3, <1>4, <1>5, <1>6, <1>7, Unasked DEF WorkflowStep

\* What holds whenever a step begins in a server that serves.
LEMMA ServingHas ==
    ASSUME McpInv, srv = "serving", UNCHANGED <<srv, shutdown, window>>
    PROVE  /\ srv' = srv /\ shutdown' \in [begun : SUBSET Tasks, failed : BOOLEAN]
           /\ shutdown'.begun = {} /\ window \in Windows /\ window' \in Windows
           /\ TasksFit(task, conn, live) /\ RpcFit(rpc, task, conn) /\ Completed(task, rpc)
           /\ RunsFit /\ rpc.next \notin Ending /\ rpc.pc # "stopall"
  BY OnlyServing DEF McpInv

\* A request that leaves the tasks alone.
LEMMA RpcMoves ==
    ASSUME McpInv, srv = "serving", UNCHANGED <<task, conn, live, srv, shutdown, window>>,
           rpc.pc # "stop", rpc'.pc \notin {"stop", "stopall"},
           RunsFit', RpcFit(rpc', task, conn), rpc'.next \notin Ending
    PROVE  McpInv'
<1>1. /\ srv' = srv /\ shutdown' \in [begun : SUBSET Tasks, failed : BOOLEAN]
      /\ shutdown'.begun = {} /\ window' \in Windows
  BY ServingHas
<1>2. TasksFit(task', conn', live') /\ RpcFit(rpc', task', conn')
  BY DEF McpInv
<1>3. Completed(task', rpc')
  BY DEF McpInv, Completed
<1> QED
  BY <1>1, <1>2, <1>3, ServesOn

\* start_task with an exact window.
LEMMA StartExactStep ==
    ASSUME McpInv, NEW t \in Tasks, StartExact(t)
    PROVE  McpInv'
<1>1. srv = "serving" /\ rpc.pc = "idle" /\ MayAsk(t) /\ UNCHANGED <<live, srv, shutdown, window>>
      /\ UNCHANGED workflowVars
  BY DEF StartExact, Serving
<1>2. RunsFit' /\ TasksFit(task, conn, live) /\ window \in Windows /\ Completed(task, rpc)
  BY <1>1, SameRuns DEF McpInv
<1>3. PICK f : f = Reclaimed(task)
  OBVIOUS
<1>4. TasksFit(f, conn, live) /\ ReclaimOf(f, task)
  BY <1>2, <1>3, ReclaimedFit
<1>5. CASE task' = f /\ UNCHANGED <<rpc, conn, refused>>
  <2>1. /\ srv' = srv /\ shutdown' \in [begun : SUBSET Tasks, failed : BOOLEAN]
        /\ shutdown'.begun = {} /\ window' \in Windows /\ rpc.next \notin Ending
    BY <1>1, ServingHas
  <2>2. RpcFit(rpc', task', conn')
    BY <1>1, <1>5 DEF McpInv, RpcFit, Closing, Ending
  <2>3. Completed(task', rpc')
    BY <1>1, <1>2, <1>4, <1>5 DEF Completed, ReclaimOf
  <2> QED  BY <1>1, <1>2, <1>4, <1>5, <2>1, <2>2, <2>3, ServesOn
<1>6. CASE StartTask(Prepared(f, t, NoRun, window), t, NoRun, "startFailed")
  <2>1. ~ task[t].used /\ ~ f[t].used
    <3>1. t \notin {u \in Tasks : u < t}
      BY TasksAssumption
    <3> QED  BY <1>1, <1>4, <3>1 DEF MayAsk, ReclaimOf
  <2>2. PICK g : g = Prepared(f, t, NoRun, window)
    OBVIOUS
  <2>3. PICK x \in Windows : x = window
    BY <1>2
  <2>4. /\ TasksFit(g, conn, live) /\ g[t] = Proposal(NoRun, x)
        /\ \A u \in Tasks \ {t} : g[u].present => /\ f[u].present /\ g[u].revoked = f[u].revoked
                                                  /\ g[u].completion = f[u].completion
                                                  /\ g[u].owner = f[u].owner
    BY <1>4, <2>1, <2>2, <2>3, PreparedFit
  <2>5. g[t].present /\ ~ g[t].revoked
    BY <2>4, ProposalFit
  <2>6. \A u \in Tasks : g[u].present /\ g[u].revoked => g[u].completion = g[u].owner
    BY <1>1, <1>2, <1>4, <2>4, <2>5 DEF Completed, ReclaimOf
  <2>7. StartTask(g, t, NoRun, "startFailed")
    BY <1>6, <2>2
  <2> QED  BY <1>1, <1>2, <2>4, <2>5, <2>6, <2>7, StartTaskInv
<1> QED
  BY <1>3, <1>5, <1>6 DEF StartExact

\* start_task with a recipe starts a process before it has a task.
LEMMA StartWorkflowStep ==
    ASSUME McpInv, NEW t \in Tasks, NEW w \in Runs, StartWorkflow(t, w)
    PROVE  McpInv'
<1>1. /\ srv = "serving" /\ rpc.pc = "idle" /\ MayAsk(t) /\ task' = Reclaimed(task)
      /\ UNCHANGED <<conn, live, srv, shutdown, window, refused>>
  BY DEF StartWorkflow, Serving
<1>2. /\ TasksFit(task, conn, live) /\ Completed(task, rpc) /\ RpcFit(rpc, task, conn)
      /\ srv' = srv /\ shutdown' \in [begun : SUBSET Tasks, failed : BOOLEAN]
      /\ shutdown'.begun = {} /\ window' \in Windows /\ rpc.next \notin Ending /\ RunsFit
  BY <1>1, ServingHas
<1>3. PICK f : f = Reclaimed(task)
  OBVIOUS
<1>4. TasksFit(f, conn, live) /\ ReclaimOf(f, task)
  BY <1>2, <1>3, ReclaimedFit
<1>5. TasksFit(task', conn', live')
  BY <1>1, <1>3, <1>4
<1>6. CASE LaunchRefused /\ UNCHANGED rpc
  <2>1. RpcFit(rpc', task', conn')
    BY <1>1, <1>2, <1>6 DEF RpcFit
  <2>2. Completed(task', rpc')
    BY <1>1, <1>2, <1>3, <1>4, <1>6 DEF Completed, ReclaimOf
  <2>3. RunsFit'
    BY <1>1, <1>2, <1>6, SameRuns DEF LaunchRefused, workflowVars
  <2> QED  BY <1>1, <1>2, <1>5, <1>6, <2>1, <2>2, <2>3, ServesOn
<1>7. CASE StartRun(w) /\ rpc' = At("derive", t, w, "startFailed") /\ UNCHANGED <<recipe, policyOver>>
  <2>1. ~ task[t].used /\ ~ f[t].used
    <3>1. t \notin {u \in Tasks : u < t}
      BY TasksAssumption
    <3> QED  BY <1>1, <1>4, <3>1 DEF MayAsk, ReclaimOf
  <2>2. /\ rpc' \in McpRequests /\ rpc'.pc = "derive" /\ rpc'.task = t /\ rpc'.workflow = w
        /\ rpc'.next = "startFailed"
    BY <1>7, AtIs
  <2>3. RpcFit(rpc', task', conn')
    BY <1>1, <1>3, <2>1, <2>2 DEF RpcFit
  <2>4. Completed(task', rpc')
    BY <1>1, <1>2, <1>3, <1>4 DEF Completed, ReclaimOf
  <2>5. PICK r : r = [NoRunState EXCEPT !.state = "running", !.proc = "alive"]
    OBVIOUS
  <2>6. RunFit(r)
    BY <2>5 DEF RunFit, RunState, RunStates, NoRunState
  <2>7. /\ run' = [run EXCEPT ![w] = r] /\ consumed' \in BOOLEAN /\ policyOver' \in BOOLEAN
        /\ UNCHANGED recipe /\ srv' # "clean"
    BY <1>1, <1>2, <1>7, <2>5 DEF StartRun, RunsFit, WorkflowTypeOK
  <2>8. RunsFit'
    BY <1>2, <2>6, <2>7, OneRun
  <2> QED  BY <1>1, <1>2, <1>5, <2>2, <2>3, <2>4, <2>8, ServesOn DEF Ending
<1> QED
  BY <1>6, <1>7 DEF StartWorkflow

\* A run that is refreshed or cancelled.
LEMMA RunMoves ==
    ASSUME RunsFit, srv' # "clean", NEW w \in Runs,
           NEW r \in Refresh(run[w]) \cup Cancel(run[w]), run' = [run EXCEPT ![w] = r],
           UNCHANGED <<recipe, policyOver, consumed>>
    PROVE  RunsFit'
<1>1. RunFit(run[w])
  BY DEF RunsFit
<1>2. RunFit(r)
  BY <1>1, RefreshFit, CancelFit
<1>3. policyOver' \in BOOLEAN /\ consumed' \in BOOLEAN
  BY DEF RunsFit, WorkflowTypeOK
<1> QED
  BY <1>2, <1>3, OneRun

\* No unique window was found, or a failed start cancels its workflow.
LEMMA DeriveFailsStep ==
    ASSUME McpInv, srv \in {"serving", "closing"}, DeriveFails \/ CancelStarted
    PROVE  McpInv'
<1>1. /\ rpc.pc \in {"derive", "cancel"} /\ rpc' = NoRpc /\ UNCHANGED <<task, conn, live, srv, shutdown, window>>
      /\ UNCHANGED <<recipe, policyOver, consumed>>
  BY DEF DeriveFails, CancelStarted
<1>2. rpc.workflow \in Runs /\ rpc.next \notin Ending
  BY <1>1 DEF McpInv, RpcFit, Closing
<1>3. PICK w \in Runs : w = rpc.workflow
  BY <1>2
<1>4. PICK r \in Refresh(run[w]) \cup Cancel(run[w]) : run' = [run EXCEPT ![w] = r]
  BY <1>3 DEF DeriveFails, CancelStarted
<1>5. srv = "serving" /\ srv' # "clean"
  BY <1>1, <1>2, OnlyServing
<1>6. RunsFit'
  BY <1>1, <1>4, <1>5, RunMoves DEF McpInv
<1>7. RpcFit(rpc', task, conn) /\ rpc'.pc = "idle" /\ rpc'.next \notin Ending
  BY <1>1, NoRpcFit DEF Ending
<1> QED
  BY <1>1, <1>5, <1>6, <1>7, RpcMoves

\* The one window was found, and the task is prepared for it.
LEMMA DeriveStartStep ==
    ASSUME McpInv, DeriveStart
    PROVE  McpInv'
<1>1. /\ rpc.pc = "derive" /\ rpc.next = "startFailed"
      /\ UNCHANGED <<live, srv, shutdown, window>> /\ UNCHANGED workflowVars
      /\ StartTask(Prepared(task, rpc.task, rpc.workflow, window), rpc.task, rpc.workflow, "startFailed")
  BY DEF DeriveStart
<1>2. rpc.workflow \in Runs /\ rpc.task \in Tasks /\ ~ task[rpc.task].used
  BY <1>1 DEF McpInv, RpcFit
<1>3. srv = "serving"
  BY <1>1, OnlyServing DEF Ending
<1>4. RunsFit' /\ TasksFit(task, conn, live) /\ window \in Windows /\ Completed(task, rpc)
  BY <1>1, SameRuns DEF McpInv
<1>5. PICK t \in Tasks, w \in Runs, x \in Windows : t = rpc.task /\ w = rpc.workflow /\ x = window
  BY <1>2, <1>4
<1>6. PICK g : g = Prepared(task, t, w, x)
  OBVIOUS
<1>7. /\ TasksFit(g, conn, live) /\ g[t] = Proposal(w, x)
      /\ \A u \in Tasks \ {t} : g[u].present => /\ task[u].present /\ g[u].revoked = task[u].revoked
                                                /\ g[u].completion = task[u].completion
                                                /\ g[u].owner = task[u].owner
  BY <1>2, <1>4, <1>5, <1>6, PreparedFit
<1>8. g[t].present /\ ~ g[t].revoked
  BY <1>7, ProposalFit
<1>9. \A u \in Tasks : g[u].present /\ g[u].revoked => g[u].completion = g[u].owner
  BY <1>1, <1>4, <1>7, <1>8 DEF Completed
<1>10. StartTask(g, t, w, "startFailed")
  BY <1>1, <1>5, <1>6
<1> QED
  BY <1>1, <1>3, <1>4, <1>7, <1>8, <1>9, <1>10, StartTaskInv

\* The Host opened the session, or the server gave up on it.
LEMMA OpenSteps ==
    ASSUME McpInv, OpenReturns \/ OpenFails
    PROVE  McpInv'
<1>1. /\ rpc.pc = "open" /\ UNCHANGED <<srv, shutdown, window>> /\ UNCHANGED workflowVars
  BY DEF OpenReturns, OpenFails
<1>2. /\ rpc.task \in Tasks /\ rpc.workflow \in Runs \cup {NoRun} /\ rpc.next \notin Ending
      /\ conn[rpc.task] = "serving" /\ ~ task[rpc.task].session
      /\ rpc.next \in {"startFailed", "reply", "rebind"}
  BY <1>1 DEF McpInv, RpcFit, McpRequests, Closing, Ending
<1>3. srv = "serving"
  BY <1>1, <1>2, OnlyServing
<1>4. /\ RunsFit' /\ TasksFit(task, conn, live) /\ Completed(task, rpc)
      /\ srv' = srv /\ shutdown' \in [begun : SUBSET Tasks, failed : BOOLEAN]
      /\ shutdown'.begun = {} /\ window' \in Windows
  BY <1>1, <1>3, SameRuns, ServingHas
<1>5. PICK t \in Tasks : t = rpc.task
  BY <1>2
<1>6. /\ task[t] \in TaskProposal /\ TaskFit(task[t], conn[t], live[t]) /\ conn[t] = "serving"
      /\ task[t].owner = "pending" /\ task[t].present
  BY <1>2, <1>4, <1>5 DEF TasksFit, TaskFit
<1>7. CASE OpenReturns
  <2>1. PICK p : p = [task[t] EXCEPT !.session = TRUE]
    OBVIOUS
  <2>2. p \in TaskProposal
    BY <1>6, <2>1 DEF TaskProposal
  <2>3. /\ p.present = task[t].present /\ p.used = task[t].used /\ p.session
        /\ p.revoked = task[t].revoked /\ p.owner = task[t].owner
        /\ p.completion = task[t].completion
    BY <1>6, <2>1 DEF TaskProposal
  <2>4. TaskFit(p, "serving", TRUE)
    BY <1>6, <2>2, <2>3 DEF TaskFit
  <2>5. /\ task' = [task EXCEPT ![t] = p] /\ conn' = [conn EXCEPT ![t] = "serving"]
        /\ live' = [live EXCEPT ![t] = TRUE] /\ rpc' = NoRpc
    BY <1>4, <1>5, <1>6, <1>7, <2>1 DEF OpenReturns, TasksFit
  <2>6. /\ TasksFit(task', conn', live') /\ task'[t] = p
        /\ \A u \in Tasks \ {t} : task'[u] = task[u]
    BY <2>4, <2>5, TaskMoves
  <2>7. Completed(task', rpc')
    BY <1>1, <1>4, <2>3, <2>6 DEF Completed
  <2>8. PICK g, c : g = task' /\ c = conn'
    OBVIOUS
  <2>9. RpcFit(rpc', task', conn') /\ rpc'.pc = "idle" /\ rpc'.next \notin Ending
    BY <2>5, <2>8, NoRpcFit DEF Ending
  <2> QED  BY <1>3, <1>4, <2>6, <2>7, <2>9, ServesOn
<1>8. CASE OpenFails
  <2>1. PICK b \in BOOLEAN : live' = [live EXCEPT ![t] = b]
    BY <1>5, <1>8 DEF OpenFails
  <2>2. /\ task' = [task EXCEPT ![t] = task[t]] /\ conn' = [conn EXCEPT ![t] = "closing"]
        /\ task' = task /\ rpc' = Failed(rpc.task, rpc.workflow, rpc.next)
    BY <1>4, <1>5, <1>8 DEF OpenFails, TasksFit
  <2>3. TaskFit(task[t], "closing", b)
    BY <1>2, <1>5, <1>6 DEF TaskFit, Conns
  <2>4. PICK p : p = task[t]
    OBVIOUS
  <2>5. TasksFit(task', conn', live')
    BY <2>1, <2>2, <2>3, <2>4, TaskMoves
  <2>6. PICK g, c, w, n : g = task' /\ c = conn' /\ w = rpc.workflow /\ n = rpc.next
    OBVIOUS
  <2>7. RpcFit(rpc', task', conn') /\ rpc'.pc \in {"idle", "revoke"} /\ rpc'.next \in {"reply", "startFailed"}
    BY <1>2, <1>5, <2>2, <2>6, FailedFit
  <2>8. Completed(task', rpc')
    BY <1>1, <1>4, <2>2 DEF Completed
  <2> QED  BY <1>3, <1>4, <2>5, <2>7, <2>8, ServesOn DEF Ending
<1> QED
  BY <1>7, <1>8

\* The requests that begin, or look for a window, and change no task.
LEMMA AsksSteps ==
    ASSUME McpInv, NEW t \in Tasks,
           StopTask(t) \/ CallRevokes(t) \/ WorkflowCancel(t) \/ WorkflowRebind(t)
    PROVE  McpInv'
<1>1. /\ srv = "serving" /\ rpc.pc = "idle" /\ UNCHANGED <<task, conn, live, srv, shutdown, window>>
  BY DEF StopTask, CallRevokes, WorkflowCancel, WorkflowRebind, Serving
<1>2. RunsFit /\ srv' # "clean" /\ task[t] \in TaskProposal
  BY <1>1 DEF McpInv, TasksFit
<1>3. task[t].workflow # NoRun => task[t].workflow \in Runs
  BY <1>2 DEF TaskProposal
<1>4. RpcFit(At("revoke", t, NoRun, "reply"), task, conn)
  BY AtIs DEF RpcFit
<1>5. At("revoke", t, NoRun, "reply").pc = "revoke" /\ At("revoke", t, NoRun, "reply").next = "reply"
  BY AtIs
<1>6. CASE StopTask(t)
  <2>1. RunsFit' /\ rpc' = At("revoke", t, NoRun, "reply")
    BY <1>1, <1>2, <1>6, SameRuns DEF StopTask
  <2> QED  BY <1>1, <1>4, <1>5, <2>1, RpcMoves DEF Ending
<1>7. CASE CallRevokes(t) \/ WorkflowCancel(t)
  <2>1. PICK w \in Runs : w = task[t].workflow
    BY <1>3, <1>7 DEF CallRevokes, WorkflowCancel
  <2>2. PICK r \in Refresh(run[w]) \cup Cancel(run[w]) : run' = [run EXCEPT ![w] = r]
    BY <1>7, <2>1 DEF CallRevokes, WorkflowCancel
  <2>3. UNCHANGED <<recipe, policyOver, consumed>>
    BY <1>7 DEF CallRevokes, WorkflowCancel
  <2>4. RunsFit'
    BY <1>2, <2>2, <2>3, RunMoves
  <2>5. rpc' = NoRpc \/ rpc' = At("revoke", t, NoRun, "reply")
    BY <1>7 DEF CallRevokes, WorkflowCancel
  <2>6. RpcFit(rpc', task, conn) /\ rpc'.pc \in {"idle", "revoke"} /\ rpc'.next = "reply"
    BY <1>4, <1>5, <2>5, NoRpcFit
  <2> QED  BY <1>1, <2>4, <2>6, RpcMoves DEF Ending
<1>8. CASE WorkflowRebind(t)
  <2>1. PICK w \in Runs : w = task[t].workflow
    BY <1>3, <1>8 DEF WorkflowRebind
  <2>2. RunsFit' /\ rpc' = At("derive", t, w, "rebind")
    BY <1>1, <1>2, <1>8, <2>1, SameRuns DEF WorkflowRebind
  <2>3. /\ rpc' \in McpRequests /\ rpc'.pc = "derive" /\ rpc'.task = t /\ rpc'.workflow = w
        /\ rpc'.next = "rebind"
    BY <2>2, AtIs
  <2>4. RpcFit(rpc', task, conn)
    BY <2>3 DEF RpcFit
  <2> QED  BY <1>1, <2>2, <2>3, <2>4, RpcMoves DEF Ending
<1> QED
  BY <1>6, <1>7, <1>8

\* require_user_action takes the lease only.
LEMMA UserActionStep ==
    ASSUME McpInv, NEW t \in Tasks, RequireUserAction(t)
    PROVE  McpInv'
<1>1. /\ srv = "serving" /\ UNCHANGED <<conn, live, rpc, srv, shutdown, window>> /\ UNCHANGED workflowVars
  BY DEF RequireUserAction, Serving
<1>2. TasksFit(task, conn, live) /\ TaskFit(task[t], conn[t], live[t]) /\ task[t] \in TaskProposal
  BY DEF McpInv, TasksFit
<1>3. PICK p : p = [task[t] EXCEPT !.userAction = TRUE, !.lease = "revoked"]
  OBVIOUS
<1>4. p \in TaskProposal
  BY <1>2, <1>3 DEF TaskProposal
<1>5. /\ p.present = task[t].present /\ p.used = task[t].used /\ p.session = task[t].session
      /\ p.revoked = task[t].revoked /\ p.owner = task[t].owner
      /\ p.completion = task[t].completion /\ p.cleanup = task[t].cleanup
  BY <1>2, <1>3 DEF TaskProposal
<1>6. TaskFit(p, conn[t], live[t])
  BY <1>2, <1>4, <1>5, SameFit DEF TaskFit
<1>7. /\ task' = [task EXCEPT ![t] = p] /\ conn' = [conn EXCEPT ![t] = conn[t]]
      /\ live' = [live EXCEPT ![t] = live[t]]
  <2>1. task' = [task EXCEPT ![t].userAction = TRUE, ![t].lease = "revoked"]
    BY DEF RequireUserAction
  <2>2. task' = [task EXCEPT ![t] = p]
    BY <1>2, <1>3, <2>1 DEF TasksFit
  <2> QED  BY <1>1, <1>2, <2>2 DEF TasksFit
<1>8. /\ TasksFit(task', conn', live') /\ task'[t] = p
      /\ \A u \in Tasks \ {t} : task'[u] = task[u]
  <2>1. PICK d, b : d = conn[t] /\ b = live[t]
    OBVIOUS
  <2> QED  BY <1>6, <1>7, <2>1, TaskMoves
<1>9. Alike(task', task)
  BY <1>5, <1>8 DEF Alike
<1>10. RunsFit' /\ window' \in Windows
  BY <1>1, SameRuns DEF McpInv
<1> QED
  BY <1>1, <1>8, <1>9, <1>10, Unasked

\* workflow_rebind finds the old window, or another one.
LEMMA DeriveRebindStep ==
    ASSUME McpInv, DeriveRebind
    PROVE  McpInv'
<1>1. /\ rpc.pc = "derive" /\ rpc.next = "rebind" /\ UNCHANGED workflowVars
      /\ UNCHANGED <<task, conn, live, srv, shutdown, window>>
      /\ rpc' = NoRpc \/ rpc' = [rpc EXCEPT !.pc = "revoke"]
  BY DEF DeriveRebind
<1>2. srv = "serving" /\ RpcFit(rpc, task, conn) /\ RunsFit
  BY <1>1, OnlyServing DEF McpInv, Ending
<1>3. PICK r : r = [rpc EXCEPT !.pc = "revoke"]
  OBVIOUS
<1>4. /\ r \in McpRequests /\ r.pc = "revoke" /\ r.task = rpc.task /\ r.workflow = rpc.workflow
      /\ r.next = rpc.next
  BY <1>2, <1>3 DEF RpcFit, McpRequests
<1>5. RpcFit(r, task, conn)
  BY <1>1, <1>2, <1>4 DEF RpcFit
<1>6. RpcFit(rpc', task, conn) /\ rpc'.pc \in {"idle", "revoke"} /\ rpc'.next \in {"reply", "rebind"}
  BY <1>1, <1>3, <1>4, <1>5, NoRpcFit
<1>7. RunsFit'
  BY <1>1, <1>2, SameRuns
<1> QED
  BY <1>1, <1>2, <1>6, <1>7, RpcMoves DEF Ending

\* The task is started again, for the other window.
LEMMA ReissueStep ==
    ASSUME McpInv, Reissue
    PROVE  McpInv'
<1>1. rpc.pc = "reissue" /\ UNCHANGED workflowVars /\ UNCHANGED <<live, srv, shutdown, window>>
  BY DEF Reissue
<1>2. /\ rpc.next = "rebind" /\ rpc.workflow \in Runs /\ rpc.task \in Tasks /\ task[rpc.task].present
      /\ TasksFit(task, conn, live) /\ window \in Windows /\ Completed(task, rpc)
  BY <1>1 DEF McpInv, RpcFit
<1>3. srv = "serving" /\ RunsFit'
  BY <1>1, <1>2, OnlyServing, SameRuns DEF McpInv, Ending
<1>4. PICK t \in Tasks, w \in Runs, x \in Windows : t = rpc.task /\ w = rpc.workflow /\ x = window
  BY <1>2
<1>5. CASE rpc' = NoRpc /\ UNCHANGED <<task, conn, refused>>
  <2>1. RpcFit(rpc', task, conn) /\ rpc'.pc = "idle" /\ rpc'.next \notin Ending
    BY <1>5, NoRpcFit DEF Ending
  <2> QED  BY <1>1, <1>3, <1>5, <2>1, RpcMoves
<1>6. CASE \E f : /\ f = [u \in Tasks |->
                            IF u = t THEN [task[t] EXCEPT !.target = x, !.lease = "live", !.revoked = FALSE,
                                                          !.cleanup = "none", !.completion = "none",
                                                          !.attempted = FALSE]
                            ELSE Pruned(task[u])]
                  /\ StartTask(f, t, w, "reply")
  <2>1. PICK p : p = [task[t] EXCEPT !.target = x, !.lease = "live", !.revoked = FALSE,
                                     !.cleanup = "none", !.completion = "none", !.attempted = FALSE]
    OBVIOUS
  <2>2. PICK f : /\ f = [u \in Tasks |-> IF u = t THEN p ELSE Pruned(task[u])]
                 /\ StartTask(f, t, w, "reply")
    BY <1>6, <2>1
  <2>3. TaskFit(task[t], conn[t], live[t]) /\ task[t] \in TaskProposal
    BY <1>2 DEF TasksFit
  <2>4. p \in TaskProposal
    BY <2>1, <2>3 DEF TaskProposal
  <2>5. /\ p.present = task[t].present /\ p.used = task[t].used /\ p.session = task[t].session
        /\ p.owner = task[t].owner /\ p.revoked = FALSE /\ p.completion = "none"
    BY <2>1, <2>3 DEF TaskProposal
  <2>6. TaskFit(p, conn[t], live[t])
    BY <2>3, <2>4, <2>5, SameFit
  <2>7. f[t] = p /\ \A u \in Tasks \ {t} : f[u] = Pruned(task[u])
    BY <2>2
  <2>8. ASSUME NEW u \in Tasks \ {t}
        PROVE  /\ TaskFit(f[u], conn[u], live[u])
               /\ f[u].present = task[u].present /\ f[u].revoked = task[u].revoked
               /\ f[u].completion = task[u].completion /\ f[u].owner = task[u].owner
    <3>1. TaskFit(task[u], conn[u], live[u])
      BY <1>2 DEF TasksFit
    <3> QED  BY <2>7, <3>1, PrunedFit
  <2>9. \A u \in Tasks : TaskFit(f[u], conn[u], live[u])
    BY <2>6, <2>7, <2>8
  <2>10. f \in [Tasks -> TaskProposal]
    <3>1. \A u \in Tasks : f[u] \in TaskProposal
      BY <2>9 DEF TaskFit
    <3>2. f = [u \in Tasks |-> f[u]]
      BY <2>2
    <3> QED  BY <3>1, <3>2
  <2>11. TasksFit(f, conn, live)
    BY <1>2, <2>9, <2>10 DEF TasksFit
  <2>12. f[t].present /\ ~ f[t].revoked
    BY <1>2, <1>4, <2>5, <2>7
  <2>13. \A u \in Tasks : f[u].present /\ f[u].revoked => f[u].completion = f[u].owner
    BY <1>1, <1>2, <2>8, <2>12 DEF Completed
  <2> QED  BY <1>1, <1>3, <2>2, <2>11, <2>12, <2>13, StartTaskInv
<1> QED
  BY <1>4, <1>5, <1>6 DEF Reissue

(***************************************************************************)
(* revoke_task, of a server that serves or that shuts down.                *)
(***************************************************************************)
\* A revocation that has more to do: a session to stop, a connection to await.
LEMMA RevokeGoesOn ==
    ASSUME McpInv, srv \in {"serving", "closing"}, NEW t \in Tasks, rpc.task = t,
           rpc.pc \in {"revoke", "stop", "finish"},
           NEW p, NEW d, NEW b, TaskFit(p, d, b),
           task' = [task EXCEPT ![t] = p], conn' = [conn EXCEPT ![t] = d],
           live' = [live EXCEPT ![t] = b],
           RunsFit', UNCHANGED <<srv, window, shutdown>>,
           NEW a \in {"stop", "finish"}, NEW n \in {rpc.next, "shutdownError"},
           n # rpc.next => rpc.next = "shutdown",
           rpc' = [rpc EXCEPT !.pc = a, !.next = n],
           p.present, n = "shutdown" => p.revoked,
           a = "stop" => d = "serving" /\ ~ p.session,
           a = "finish" /\ p.revoked => p.completion = p.owner
    PROVE  McpInv'
<1>1. /\ TasksFit(task', conn', live')
      /\ task'[t] = p /\ \A u \in Tasks \ {t} : task'[u] = task[u]
      /\ conn'[t] = d /\ \A u \in Tasks \ {t} : conn'[u] = conn[u]
  BY TaskMoves
<1>2. RpcFit(rpc, task, conn) /\ Closing(srv, shutdown, rpc, task) /\ Completed(task, rpc)
  BY DEF McpInv
<1>3. /\ rpc' \in McpRequests /\ rpc'.pc = a /\ rpc'.task = t /\ rpc'.next = n
      /\ rpc'.workflow = rpc.workflow
  BY <1>2 DEF RpcFit, McpRequests
<1>4. RpcFit(rpc', task', conn')
  BY <1>1, <1>2, <1>3 DEF RpcFit
<1>5. Completed(task', rpc')
  BY <1>1, <1>2, <1>3 DEF Completed
<1>6. Closing(srv', shutdown', rpc', task')
  <2>1. shutdown.begun \subseteq Tasks /\ shutdown \in [begun : SUBSET Tasks, failed : BOOLEAN]
    BY <1>2 DEF Closing
  <2>2. rpc.next \in Ending <=> n \in Ending
    BY DEF Ending
  <2>3. \A u \in shutdown.begun :
           shutdown.failed \/ (rpc'.task = u /\ rpc'.next \in Ending) \/ Confirmed(task'[u])
    <3>1. SUFFICES ASSUME NEW u \in shutdown.begun
                   PROVE  shutdown.failed \/ (rpc'.task = u /\ rpc'.next \in Ending) \/ Confirmed(task'[u])
      OBVIOUS
    <3>2. CASE u = t
      <4>1. srv = "closing"
        BY <1>2 DEF Closing
      <4>2. rpc.next \in Ending
        BY <1>2, <4>1 DEF Closing
      <4> QED  BY <1>3, <2>2, <3>2, <4>2
    <3>3. CASE u # t
      <4>1. task'[u] = task[u] /\ (shutdown.failed \/ Confirmed(task[u]))
        BY <1>1, <1>2, <2>1, <3>3 DEF Closing
      <4> QED  BY <4>1
    <3> QED  BY <3>2, <3>3
  <2>4. srv = "serving" => shutdown.begun = {} /\ n \notin Ending
    BY <1>2, <2>2 DEF Closing
  <2>5. srv # "serving" => n \in Ending
    BY <1>2, <2>2 DEF Closing
  <2> QED
    BY <1>1, <1>3, <2>1, <2>3, <2>4, <2>5 DEF Closing
<1>7. window' \in Windows
  BY DEF McpInv
<1> QED
  BY <1>1, <1>4, <1>5, <1>6, <1>7 DEF McpInv

\* A revocation that awaits the connection.
LEMMA RevokeFinishes ==
    ASSUME McpInv, srv \in {"serving", "closing"}, NEW t \in Tasks, rpc.task = t,
           rpc.pc \in {"revoke", "stop", "finish"},
           NEW p, NEW d, NEW b, TaskFit(p, d, b), p.present, p.completion = p.owner,
           task' = [task EXCEPT ![t] = p], conn' = [conn EXCEPT ![t] = d],
           live' = [live EXCEPT ![t] = b],
           RunsFit', UNCHANGED <<srv, window, shutdown>>,
           NEW n, n = rpc.next \/ (n = "shutdownError" /\ rpc.next = "shutdown"),
           n = "shutdown" => p.revoked,
           rpc' = [rpc EXCEPT !.pc = "finish", !.next = n]
    PROVE  McpInv'
<1>1. n \in {rpc.next, "shutdownError"} /\ (n # rpc.next => rpc.next = "shutdown")
  OBVIOUS
<1>2. PICK a \in {"stop", "finish"} : a = "finish"
  OBVIOUS
<1>3. rpc' = [rpc EXCEPT !.pc = a, !.next = n]
  BY <1>2
<1> QED
  BY <1>1, <1>2, <1>3, RevokeGoesOn

\* A revocation that stops the session.
LEMMA RevokeStops ==
    ASSUME McpInv, srv \in {"serving", "closing"}, NEW t \in Tasks, rpc.task = t,
           rpc.pc = "revoke",
           NEW p, NEW b, TaskFit(p, "serving", b), p.present, ~ p.session,
           task' = [task EXCEPT ![t] = p], conn' = [conn EXCEPT ![t] = "serving"],
           live' = [live EXCEPT ![t] = b],
           RunsFit', UNCHANGED <<srv, window, shutdown>>,
           NEW n, n = rpc.next \/ (n = "shutdownError" /\ rpc.next = "shutdown"),
           n = "shutdown" => p.revoked,
           rpc' = [rpc EXCEPT !.pc = "stop", !.next = n]
    PROVE  McpInv'
<1>1. n \in {rpc.next, "shutdownError"} /\ (n # rpc.next => rpc.next = "shutdown")
  OBVIOUS
<1>2. PICK a \in {"stop", "finish"} : a = "stop"
  OBVIOUS
<1>3. PICK d : d = "serving"
  OBVIOUS
<1>4. /\ rpc' = [rpc EXCEPT !.pc = a, !.next = n] /\ conn' = [conn EXCEPT ![t] = d]
      /\ TaskFit(p, d, b)
  BY <1>2, <1>3
<1> QED
  BY <1>1, <1>2, <1>3, <1>4, RevokeGoesOn

\* What follows the answer of a revocation.
LEMMA AfterRevokeIs ==
    ASSUME NEW f, NEW c, rpc \in McpRequests, rpc.task \in Tasks,
           rpc.next = "rebind" => rpc.workflow \in Runs, NEW s,
           rpc.next = "rebind" /\ s = "stopped" => f[rpc.task].present
    PROVE  /\ RpcFit(AfterRevoke(s), f, c)
           /\ AfterRevoke(s).pc \in {"idle", "reissue", "cancel"}
           /\ AfterRevoke(s).next \notin Ending
           /\ rpc.next \in Ending => AfterRevoke(s).pc = "idle"
<1>1. CASE rpc.next = "rebind" /\ s = "stopped"
  <2>1. PICK r : r = [rpc EXCEPT !.pc = "reissue"]
    OBVIOUS
  <2>2. AfterRevoke(s) = r
    BY <1>1, <2>1 DEF AfterRevoke
  <2>3. /\ r \in McpRequests /\ r.pc = "reissue" /\ r.task = rpc.task /\ r.next = rpc.next
        /\ r.workflow = rpc.workflow
    BY <2>1 DEF RpcFit, McpRequests
  <2>4. RpcFit(r, f, c)
    BY <1>1, <2>3 DEF RpcFit
  <2> QED  BY <1>1, <2>2, <2>3, <2>4 DEF Ending
<1>2. CASE rpc.next = "startFailed" /\ rpc.workflow # NoRun
  <2>1. PICK r : r = [rpc EXCEPT !.pc = "cancel"]
    OBVIOUS
  <2>2. AfterRevoke(s) = r
    BY <1>2, <2>1 DEF AfterRevoke
  <2>3. /\ r \in McpRequests /\ r.pc = "cancel" /\ r.task = rpc.task /\ r.next = rpc.next
        /\ r.workflow = rpc.workflow /\ rpc.workflow \in Runs
    BY <1>2, <2>1 DEF RpcFit, McpRequests
  <2>4. RpcFit(r, f, c)
    BY <1>2, <2>3 DEF RpcFit
  <2> QED  BY <1>2, <2>2, <2>3, <2>4 DEF Ending
<1>3. CASE ~(rpc.next = "rebind" /\ s = "stopped") /\ ~(rpc.next = "startFailed" /\ rpc.workflow # NoRun)
  <2>1. AfterRevoke(s) = NoRpc
    BY <1>3 DEF AfterRevoke
  <2> QED  BY <2>1, NoRpcFit DEF Ending
<1> QED
  BY <1>1, <1>2, <1>3

\* A revocation that answers: one of the shutdown has confirmed its task, or failed.
LEMMA RevokeAnswers ==
    ASSUME McpInv, srv \in {"serving", "closing"}, NEW t \in Tasks, rpc.task = t,
           rpc.pc \in {"revoke", "finish"},
           NEW p, TaskFit(p, conn[t], live[t]), task' = [task EXCEPT ![t] = p],
           UNCHANGED <<conn, live>>, RunsFit', UNCHANGED <<srv, window>>,
           NEW s, Answer(s),
           rpc.next = "rebind" /\ s = "stopped" => p.present,
           rpc.next = "shutdown" /\ s = "stopped" => Confirmed(p),
           p.present /\ p.revoked => p.completion = p.owner
    PROVE  McpInv'
<1>1. TasksFit(task, conn, live)
  BY DEF McpInv
<1>2. /\ TasksFit(task', conn', live')
      /\ task'[t] = p /\ \A u \in Tasks \ {t} : task'[u] = task[u]
  <2>1. PICK d, b : d = conn[t] /\ b = live[t]
    OBVIOUS
  <2>2. conn' = [conn EXCEPT ![t] = d] /\ live' = [live EXCEPT ![t] = b]
    BY <1>1, <2>1 DEF TasksFit
  <2>3. TaskFit(p, d, b)
    BY <2>1
  <2> QED  BY <2>2, <2>3, TaskMoves
<1>3. RpcFit(rpc, task, conn) /\ Closing(srv, shutdown, rpc, task) /\ Completed(task, rpc)
  BY DEF McpInv
<1>4. PICK g, c : g = task' /\ c = conn'
  OBVIOUS
<1>5. /\ RpcFit(rpc', task', conn') /\ rpc'.pc \in {"idle", "reissue", "cancel"}
      /\ rpc'.next \notin Ending /\ (rpc.next \in Ending => rpc'.pc = "idle")
  <2>1. rpc' = AfterRevoke(s)
    BY DEF Answer
  <2>2. /\ rpc \in McpRequests /\ rpc.task \in Tasks /\ (rpc.next = "rebind" => rpc.workflow \in Runs)
        /\ rpc.next = "rebind" /\ s = "stopped" => g[rpc.task].present
    BY <1>2, <1>3, <1>4 DEF RpcFit
  <2>3. /\ RpcFit(AfterRevoke(s), g, c)
        /\ AfterRevoke(s).pc \in {"idle", "reissue", "cancel"}
        /\ AfterRevoke(s).next \notin Ending
        /\ rpc.next \in Ending => AfterRevoke(s).pc = "idle"
    BY <2>2, AfterRevokeIs
  <2> QED  BY <1>4, <2>1, <2>3
<1>6. Completed(task', rpc')
  BY <1>2, <1>3 DEF Completed
<1>7. PICK e \in BOOLEAN :
         /\ e = (shutdown.failed \/ rpc.next = "shutdownError" \/ (rpc.next = "shutdown" /\ s # "stopped"))
         /\ shutdown' = [shutdown EXCEPT !.failed = e]
  BY <1>3 DEF Answer, Closing
<1>8. /\ shutdown' \in [begun : SUBSET Tasks, failed : BOOLEAN] /\ shutdown'.failed = e
      /\ shutdown'.begun = shutdown.begun /\ shutdown.begun \subseteq Tasks
  BY <1>3, <1>7 DEF Closing
<1>9. window' \in Windows
  BY DEF McpInv
<1>10. CASE srv = "serving"
  <2>1. shutdown'.begun = {}
    BY <1>3, <1>8, <1>10 DEF Closing
  <2> QED  BY <1>2, <1>5, <1>6, <1>8, <1>9, <1>10, <2>1, ServesOn
<1>11. CASE srv = "closing"
  <2>1. rpc.next \in Ending
    BY <1>3, <1>11 DEF Closing
  <2>2. \A u \in shutdown.begun : e \/ Confirmed(task'[u])
    <3>1. SUFFICES ASSUME NEW u \in shutdown.begun, ~ e PROVE Confirmed(task'[u])
      OBVIOUS
    <3>2. CASE u = t
      <4>1. rpc.next = "shutdown" /\ s = "stopped"
        BY <1>7, <2>1, <3>1 DEF Ending
      <4> QED  BY <1>2, <3>2, <4>1
    <3>3. CASE u # t
      <4>1. ~ shutdown.failed /\ u \in Tasks
        BY <1>7, <1>8, <3>1
      <4>2. Confirmed(task[u])
        BY <1>3, <3>1, <3>3, <4>1 DEF Closing
      <4> QED  BY <1>2, <3>3, <4>1, <4>2
    <3> QED  BY <3>2, <3>3
  <2>3. rpc'.pc = "idle"
    BY <1>5, <2>1
  <2>4. Closing(srv', shutdown', rpc', task')
    BY <1>5, <1>8, <1>11, <2>2, <2>3 DEF Closing
  <2> QED  BY <1>2, <1>5, <1>6, <1>9, <2>4 DEF McpInv
<1> QED
  BY <1>10, <1>11

\* finish_owned_host_task takes the result the server knows for the completion.
LEMMA FinishingFit ==
    ASSUME NEW p, NEW c, NEW l, TaskFit(p, c, l)
    PROVE  /\ TaskFit(Finishing(p), c, l)
           /\ Finishing(p).present = p.present /\ Finishing(p).session = p.session
           /\ Finishing(p).revoked = p.revoked
           /\ Finishing(p).completion = Finishing(p).owner
<1>0. p \in TaskProposal
  BY DEF TaskFit
<1>1. CASE p.owner = "none"
  BY <1>1 DEF Finishing, TaskFit
<1>2. CASE p.owner # "none"
  <2>1. PICK e \in {"none", "stopped", "failed", "unknown"} :
           e = IF p.cleanup = "none" THEN "unknown" ELSE p.cleanup
    BY <1>0 DEF TaskProposal
  <2>2. PICK q : q = [p EXCEPT !.cleanup = e, !.completion = p.owner]
    OBVIOUS
  <2>3. Finishing(p) = q
    BY <1>2, <2>1, <2>2 DEF Finishing
  <2>4. q \in TaskProposal
    BY <1>0, <2>2 DEF TaskProposal
  <2>5. /\ q.present = p.present /\ q.used = p.used /\ q.session = p.session /\ q.owner = p.owner
        /\ q.revoked = p.revoked /\ q.completion = p.owner
    BY <1>0, <2>2 DEF TaskProposal
  <2>6. TaskFit(q, c, l)
    BY <1>2, <2>4, <2>5, SameFit
  <2> QED  BY <2>3, <2>5, <2>6
<1> QED
  BY <1>1, <1>2

\* A revocation takes the session.
LEMMA TakenFit ==
    ASSUME NEW p, NEW c, NEW l, TaskFit(p, c, l)
    PROVE  /\ TaskFit([p EXCEPT !.session = FALSE], c, l)
           /\ [p EXCEPT !.session = FALSE].present = p.present
           /\ [p EXCEPT !.session = FALSE].session = FALSE
           /\ [p EXCEPT !.session = FALSE].revoked = p.revoked
<1>0. p \in TaskProposal
  BY DEF TaskFit
<1>1. PICK q : q = [p EXCEPT !.session = FALSE]
  OBVIOUS
<1>2. q \in TaskProposal
  BY <1>0, <1>1 DEF TaskProposal
<1>3. /\ q.present = p.present /\ q.used = p.used /\ q.session = FALSE /\ q.owner = p.owner
      /\ q.revoked = p.revoked /\ q.completion = p.completion
  BY <1>0, <1>1 DEF TaskProposal
<1>4. TaskFit(q, c, l)
  BY <1>2, <1>3 DEF TaskFit
<1> QED
  BY <1>1, <1>3, <1>4

\* It marks the task and its lease revoked.
LEMMA RevokedFit ==
    ASSUME NEW p, NEW c, NEW l, TaskFit(p, c, l)
    PROVE  /\ TaskFit([p EXCEPT !.lease = "revoked", !.revoked = TRUE], c, l)
           /\ [p EXCEPT !.lease = "revoked", !.revoked = TRUE].present = p.present
           /\ [p EXCEPT !.lease = "revoked", !.revoked = TRUE].revoked = TRUE
<1>0. p \in TaskProposal
  BY DEF TaskFit
<1>1. PICK r : r = [p EXCEPT !.lease = "revoked", !.revoked = TRUE]
  OBVIOUS
<1>2. r \in TaskProposal
  BY <1>0, <1>1 DEF TaskProposal
<1>3. /\ r.present = p.present /\ r.used = p.used /\ r.session = p.session /\ r.owner = p.owner
      /\ r.revoked = TRUE /\ r.completion = p.completion
  BY <1>0, <1>1 DEF TaskProposal
<1>4. TaskFit(r, c, l)
  BY <1>2, <1>3 DEF TaskFit
<1> QED
  BY <1>1, <1>3, <1>4

\* It records the evidence of the cleanup.
LEMMA CleanupFit ==
    ASSUME NEW p, NEW c, NEW l, TaskFit(p, c, l),
           NEW e \in {"none", "stopped", "failed", "unknown"}
    PROVE  /\ TaskFit([p EXCEPT !.cleanup = e], c, l)
           /\ [p EXCEPT !.cleanup = e].present = p.present
           /\ [p EXCEPT !.cleanup = e].revoked = p.revoked
<1>0. p \in TaskProposal
  BY DEF TaskFit
<1>1. PICK s : s = [p EXCEPT !.cleanup = e]
  OBVIOUS
<1>2. s \in TaskProposal
  BY <1>0, <1>1 DEF TaskProposal
<1>3. /\ s.present = p.present /\ s.used = p.used /\ s.session = p.session /\ s.owner = p.owner
      /\ s.revoked = p.revoked /\ s.completion = p.completion
  BY <1>0, <1>1 DEF TaskProposal
<1>4. TaskFit(s, c, l)
  BY <1>2, <1>3 DEF TaskFit
<1> QED
  BY <1>1, <1>3, <1>4

\* The entry of a revocation.
LEMMA RevokeStep ==
    ASSUME McpInv, srv \in {"serving", "closing"}, Revoke
    PROVE  McpInv'
<1>1. /\ rpc.pc = "revoke" /\ UNCHANGED <<conn, live, srv, window>>
      /\ UNCHANGED <<recipe, policyOver, consumed>>
  BY DEF Revoke
<1>2. /\ RpcFit(rpc, task, conn) /\ rpc.task \in Tasks /\ rpc \in McpRequests
      /\ TasksFit(task, conn, live) /\ Completed(task, rpc)
  BY <1>1 DEF McpInv, RpcFit
<1>t. PICK t \in Tasks : t = rpc.task
  BY <1>2
<1>3. PICK p, n, d, b : t = rpc.task /\ p = task[t] /\ n = rpc.next /\ d = conn[t] /\ b = live[t]
  BY <1>t
<1>4. p \in TaskProposal /\ TaskFit(p, d, b)
  BY <1>2, <1>3 DEF TasksFit
<1>5. /\ conn' = [conn EXCEPT ![t] = d] /\ live' = [live EXCEPT ![t] = b]
      /\ task = [task EXCEPT ![t] = p]
      /\ [rpc EXCEPT !.pc = "stop"] = [rpc EXCEPT !.pc = "stop", !.next = n]
      /\ [rpc EXCEPT !.pc = "finish"] = [rpc EXCEPT !.pc = "finish", !.next = n]
  BY <1>1, <1>2, <1>3 DEF TasksFit, McpRequests
<1>6. RunsFit'
  <2>1. PICK w : w = IF rpc.next = "rebind" THEN NoRun ELSE p.workflow
    OBVIOUS
  <2>2. w \in Runs \cup {NoRun}
    BY <1>4, <2>1 DEF TaskProposal
  <2>3. CASE w = NoRun
    <3>1. UNCHANGED workflowVars
      BY <1>1, <1>3, <2>1, <2>3 DEF Revoke, workflowVars
    <3> QED  BY <1>1, <3>1, SameRuns DEF McpInv
  <2>4. CASE w # NoRun
    <3>1. PICK r \in Cancel(run[w]) : run' = [run EXCEPT ![w] = r]
      BY <1>3, <2>1, <2>4 DEF Revoke
    <3> QED  BY <1>1, <2>2, <2>4, <3>1, RunMoves DEF McpInv
  <2> QED  BY <2>3, <2>4
<1>7. CASE ~ p.present /\ Answer("not found") /\ UNCHANGED task
  <2>1. task' = [task EXCEPT ![t] = p]
    BY <1>5, <1>7
  <2> QED  BY <1>1, <1>3, <1>4, <1>6, <1>7, <2>1, RevokeAnswers
<1>8. CASE /\ p.present /\ p.revoked /\ task' = [task EXCEPT ![t] = Finishing(p)]
           /\ rpc' = [rpc EXCEPT !.pc = "finish"] /\ UNCHANGED shutdown
  <2>1. PICK q : q = Finishing(p)
    OBVIOUS
  <2>2. TaskFit(q, d, b) /\ q.present /\ q.revoked /\ q.completion = q.owner
    BY <1>4, <1>8, <2>1, FinishingFit
  <2>3. task' = [task EXCEPT ![t] = q] /\ rpc' = [rpc EXCEPT !.pc = "finish", !.next = n]
    BY <1>5, <1>8, <2>1
  <2>4. /\ rpc.task = t /\ rpc.pc \in {"revoke", "stop", "finish"} /\ UNCHANGED <<srv, window, shutdown>>
        /\ n = rpc.next \/ (n = "shutdownError" /\ rpc.next = "shutdown")
        /\ n = "shutdown" => q.revoked
    BY <1>1, <1>3, <1>8, <2>2
  <2> QED
    BY <1>5, <1>6, <2>2, <2>3, <2>4, RevokeFinishes
<1>9. CASE /\ p.present /\ ~ p.revoked /\ p.session /\ rpc.next = "shutdown"
           /\ rpc' = [rpc EXCEPT !.pc = "stop", !.next = "shutdownError"]
           /\ task' = [task EXCEPT ![t] = [p EXCEPT !.session = FALSE]] /\ UNCHANGED shutdown
  <2>1. PICK q : q = [p EXCEPT !.session = FALSE]
    OBVIOUS
  <2>2. TaskFit(q, d, b) /\ q.present /\ ~ q.session /\ d = "serving"
    <3>1. d = "serving"
      BY <1>4, <1>9 DEF TaskFit
    <3> QED  BY <1>4, <1>9, <2>1, <3>1, TakenFit
  <2>3. /\ task' = [task EXCEPT ![t] = q] /\ conn' = [conn EXCEPT ![t] = "serving"]
        /\ TaskFit(q, "serving", b)
    BY <1>5, <1>9, <2>1, <2>2
  <2>4. /\ rpc.task = t /\ rpc.pc = "revoke" /\ UNCHANGED <<srv, window, shutdown>>
        /\ "shutdownError" = rpc.next \/ ("shutdownError" = "shutdownError" /\ rpc.next = "shutdown")
        /\ "shutdownError" = "shutdown" => q.revoked
        /\ rpc' = [rpc EXCEPT !.pc = "stop", !.next = "shutdownError"]
    BY <1>1, <1>3, <1>9
  <2> QED
    BY <1>5, <1>6, <2>2, <2>3, <2>4, RevokeStops
<1>10. CASE /\ p.present /\ ~ p.revoked /\ ~ p.session /\ rpc.next = "shutdown"
            /\ rpc' = [rpc EXCEPT !.pc = "finish", !.next = "shutdownError"]
            /\ task' = [task EXCEPT ![t] = Finishing([p EXCEPT !.cleanup = "stopped"])]
            /\ UNCHANGED shutdown
  <2>1. PICK r : r = [p EXCEPT !.cleanup = "stopped"]
    OBVIOUS
  <2>2. TaskFit(r, d, b) /\ r.present = p.present
    BY <1>4, <2>1, CleanupFit
  <2>3. PICK q : q = Finishing(r)
    OBVIOUS
  <2>4. TaskFit(q, d, b) /\ q.present /\ q.completion = q.owner
    BY <1>10, <2>2, <2>3, FinishingFit
  <2>5. task' = [task EXCEPT ![t] = q]
    BY <1>10, <2>1, <2>3
  <2>6. /\ rpc.task = t /\ rpc.pc \in {"revoke", "stop", "finish"} /\ UNCHANGED <<srv, window, shutdown>>
        /\ "shutdownError" = rpc.next \/ ("shutdownError" = "shutdownError" /\ rpc.next = "shutdown")
        /\ "shutdownError" = "shutdown" => q.revoked
        /\ rpc' = [rpc EXCEPT !.pc = "finish", !.next = "shutdownError"]
    BY <1>1, <1>3, <1>10, <2>4
  <2> QED
    BY <1>5, <1>6, <2>4, <2>5, <2>6, RevokeFinishes
<1>11. CASE p.present /\ ~ p.revoked /\ Answer("not found") /\ UNCHANGED task
  <2>1. task' = [task EXCEPT ![t] = p]
    BY <1>5, <1>11
  <2> QED  BY <1>1, <1>3, <1>4, <1>6, <1>11, <2>1, RevokeAnswers
<1>12. CASE /\ p.present /\ ~ p.revoked /\ p.session
            /\ \E q : /\ q = [p EXCEPT !.lease = "revoked", !.revoked = TRUE]
                      /\ task' = [task EXCEPT ![t] = [q EXCEPT !.session = FALSE]]
            /\ rpc' = [rpc EXCEPT !.pc = "stop"] /\ UNCHANGED shutdown
  <2>1. PICK r : /\ r = [p EXCEPT !.lease = "revoked", !.revoked = TRUE]
                 /\ task' = [task EXCEPT ![t] = [r EXCEPT !.session = FALSE]]
    BY <1>12
  <2>2. TaskFit(r, d, b) /\ r.present = p.present /\ r.revoked = TRUE
    BY <1>4, <2>1, RevokedFit
  <2>3. PICK q : q = [r EXCEPT !.session = FALSE]
    OBVIOUS
  <2>4. TaskFit(q, d, b) /\ q.present /\ q.revoked /\ ~ q.session
    BY <1>12, <2>2, <2>3, TakenFit
  <2>5. d = "serving"
    BY <1>4, <1>12 DEF TaskFit
  <2>6. task' = [task EXCEPT ![t] = q] /\ rpc' = [rpc EXCEPT !.pc = "stop", !.next = n]
    BY <1>5, <1>12, <2>1, <2>3
  <2>7. conn' = [conn EXCEPT ![t] = "serving"] /\ TaskFit(q, "serving", b)
    BY <1>5, <2>4, <2>5
  <2>8. /\ rpc.task = t /\ rpc.pc = "revoke" /\ UNCHANGED <<srv, window, shutdown>>
        /\ n = rpc.next \/ (n = "shutdownError" /\ rpc.next = "shutdown")
        /\ n = "shutdown" => q.revoked
    BY <1>1, <1>3, <1>12, <2>4
  <2> QED
    BY <1>5, <1>6, <2>4, <2>6, <2>7, <2>8, RevokeStops
<1>13. CASE /\ p.present /\ ~ p.revoked /\ ~ p.session
            /\ \E q : /\ q = [p EXCEPT !.lease = "revoked", !.revoked = TRUE]
                      /\ task' = [task EXCEPT ![t] = Finishing([q EXCEPT !.cleanup = NoSessionCleanup(q)])]
            /\ rpc' = [rpc EXCEPT !.pc = "finish"] /\ UNCHANGED shutdown
  <2>1. PICK r : /\ r = [p EXCEPT !.lease = "revoked", !.revoked = TRUE]
                 /\ task' = [task EXCEPT ![t] = Finishing([r EXCEPT !.cleanup = NoSessionCleanup(r)])]
    BY <1>13
  <2>2. TaskFit(r, d, b) /\ r.present = p.present /\ r.revoked = TRUE
    BY <1>4, <2>1, RevokedFit
  <2>3. PICK e \in {"none", "stopped", "failed", "unknown"} : e = NoSessionCleanup(r)
    BY DEF NoSessionCleanup
  <2>4. PICK s : s = [r EXCEPT !.cleanup = e]
    OBVIOUS
  <2>5. TaskFit(s, d, b) /\ s.present = r.present /\ s.revoked = r.revoked
    BY <2>2, <2>4, CleanupFit
  <2>6. PICK q : q = Finishing(s)
    OBVIOUS
  <2>7. TaskFit(q, d, b) /\ q.present /\ q.revoked /\ q.completion = q.owner
    BY <1>13, <2>2, <2>5, <2>6, FinishingFit
  <2>8. task' = [task EXCEPT ![t] = q] /\ rpc' = [rpc EXCEPT !.pc = "finish", !.next = n]
    BY <1>5, <1>13, <2>1, <2>3, <2>4, <2>6
  <2>9. /\ rpc.task = t /\ rpc.pc \in {"revoke", "stop", "finish"} /\ UNCHANGED <<srv, window, shutdown>>
        /\ n = rpc.next \/ (n = "shutdownError" /\ rpc.next = "shutdown")
        /\ n = "shutdown" => q.revoked
    BY <1>1, <1>3, <1>13, <2>7
  <2> QED
    BY <1>5, <1>6, <2>7, <2>8, <2>9, RevokeFinishes
<1> QED
  BY <1>3, <1>7, <1>8, <1>9, <1>10, <1>11, <1>12, <1>13 DEF Revoke

\* The Host has answered the stop, or has not in time.
LEMMA StopReturnsStep ==
    ASSUME McpInv, srv \in {"serving", "closing"}, StopReturns
    PROVE  McpInv'
<1>1. /\ rpc.pc = "stop" /\ UNCHANGED <<srv, shutdown, window>> /\ UNCHANGED workflowVars
      /\ rpc' = [rpc EXCEPT !.pc = "finish"]
  BY DEF StopReturns
<1>2. /\ rpc.task \in Tasks /\ rpc \in McpRequests /\ TasksFit(task, conn, live) /\ RunsFit
      /\ conn[rpc.task] = "serving" /\ task[rpc.task].present /\ ~ task[rpc.task].session
      /\ rpc.next = "shutdown" => task[rpc.task].revoked
  BY <1>1 DEF McpInv, RpcFit, Closing
<1>t. PICK t \in Tasks : t = rpc.task
  BY <1>2
<1>3. PICK p, n : t = rpc.task /\ p = task[t] /\ n = rpc.next
  BY <1>t
<1>4. PICK e \in {"stopped", "failed", "unknown"} :
         /\ task' = [task EXCEPT ![t] = Finishing([p EXCEPT !.cleanup = e])]
         /\ live' = [live EXCEPT ![t] = live[t] /\ e = "unknown"]
  BY <1>2, <1>3 DEF StopReturns, TasksFit
<1>5. PICK b \in BOOLEAN : b = (live[t] /\ e = "unknown")
  OBVIOUS
<1>6. /\ conn' = [conn EXCEPT ![t] = "closing"] /\ live' = [live EXCEPT ![t] = b]
      /\ rpc' = [rpc EXCEPT !.pc = "finish", !.next = n]
  BY <1>1, <1>2, <1>3, <1>4, <1>5 DEF StopReturns, McpRequests
<1>7. TaskFit(p, "closing", b)
  <2>1. TaskFit(p, conn[t], live[t])
    BY <1>2, <1>3 DEF TasksFit
  <2> QED  BY <1>2, <1>3, <2>1 DEF TaskFit, Conns
<1>8. PICK r : r = [p EXCEPT !.cleanup = e]
  OBVIOUS
<1>9. TaskFit(r, "closing", b) /\ r.present = p.present /\ r.revoked = p.revoked
  BY <1>7, <1>8, CleanupFit
<1>10. PICK q : q = Finishing(r)
  OBVIOUS
<1>11. TaskFit(q, "closing", b) /\ q.present /\ q.revoked = p.revoked /\ q.completion = q.owner
  BY <1>2, <1>3, <1>9, <1>10, FinishingFit
<1>12. task' = [task EXCEPT ![t] = q]
  BY <1>4, <1>8, <1>10
<1>13. RunsFit'
  BY <1>1, <1>2, SameRuns
<1>14. /\ rpc.task = t /\ rpc.pc \in {"revoke", "stop", "finish"} /\ UNCHANGED <<srv, window, shutdown>>
       /\ n = rpc.next \/ (n = "shutdownError" /\ rpc.next = "shutdown")
       /\ n = "shutdown" => q.revoked
  BY <1>1, <1>2, <1>3, <1>11
<1> QED
  BY <1>6, <1>11, <1>12, <1>13, <1>14, RevokeFinishes

\* The connection has ended, or has not in time.
LEMMA FinishReturnsStep ==
    ASSUME McpInv, srv \in {"serving", "closing"}, FinishReturns
    PROVE  McpInv'
<1>1. /\ rpc.pc = "finish" /\ UNCHANGED <<conn, live, srv, window>> /\ UNCHANGED workflowVars
  BY DEF FinishReturns
<1>2. /\ rpc.task \in Tasks /\ TasksFit(task, conn, live) /\ RunsFit /\ Completed(task, rpc)
      /\ task[rpc.task].present
      /\ rpc.next = "shutdown" => task[rpc.task].revoked
  BY <1>1 DEF McpInv, RpcFit, Closing
<1>t. PICK t \in Tasks : t = rpc.task
  BY <1>2
<1>3. PICK p, d, b : t = rpc.task /\ p = task[t] /\ d = conn[t] /\ b = live[t]
  BY <1>t
<1>4. /\ TaskFit(p, d, b) /\ p \in TaskProposal /\ p.present
      /\ rpc.next = "shutdown" => p.revoked
      /\ p.revoked => p.completion = p.owner
  BY <1>1, <1>2, <1>3 DEF TasksFit, Completed
<1>5. PICK q : q = IF p.completion = "pending" /\ d \in {"ok", "err"}
                   THEN [p EXCEPT !.owner = d, !.completion = d] ELSE p
  OBVIOUS
<1>6. task' = [task EXCEPT ![t] = q] /\ Answer(StoppedStatus(q))
  BY <1>3, <1>5 DEF FinishReturns
<1>7. TaskFit(q, d, b) /\ q.present /\ q.revoked = p.revoked /\ (q.revoked => q.completion = q.owner)
  <2>1. CASE p.completion = "pending" /\ d \in {"ok", "err"}
    <3>1. q = [p EXCEPT !.owner = d, !.completion = d]
      BY <1>5, <2>1
    <3>2. q \in TaskProposal
      BY <1>4, <2>1, <3>1 DEF TaskProposal
    <3>3. /\ q.present = p.present /\ q.used = p.used /\ q.session = p.session /\ q.owner = d
          /\ q.revoked = p.revoked /\ q.completion = d
      BY <1>4, <3>1 DEF TaskProposal
    <3>4. TaskFit(q, d, b)
      BY <1>4, <2>1, <3>2, <3>3 DEF TaskFit
    <3> QED  BY <1>4, <3>3, <3>4
  <2>2. CASE ~(p.completion = "pending" /\ d \in {"ok", "err"})
    BY <1>4, <1>5, <2>2
  <2> QED  BY <2>1, <2>2
<1>8. PICK s : s = StoppedStatus(q)
  OBVIOUS
<1>9. rpc.next = "shutdown" /\ s = "stopped" => Confirmed(q)
  BY <1>4, <1>7, <1>8 DEF Confirmed
<1>10. RunsFit'
  BY <1>1, <1>2, SameRuns
<1>11. TaskFit(q, conn[t], live[t])
  BY <1>3, <1>7
<1> QED
  BY <1>1, <1>3, <1>6, <1>7, <1>8, <1>9, <1>10, <1>11, RevokeAnswers

(***************************************************************************)
(* The end of input.                                                       *)
(***************************************************************************)
\* The input ends while the server awaits a request.
LEMMA EndOfInputStep ==
    ASSUME McpInv, EndOfInput
    PROVE  McpInv'
<1>1. /\ srv = "serving" /\ rpc.pc = "idle" /\ srv' = "closing" /\ UNCHANGED workflowVars
      /\ UNCHANGED <<task, conn, live, rpc, shutdown, window>>
  BY DEF EndOfInput, Serving
<1>2. RunsFit'
  BY <1>1 DEF McpInv, RunsFit, WorkflowTypeOK, workflowVars
<1>3. Closing(srv', shutdown', rpc', task')
  <2>1. Closing(srv, shutdown, rpc, task)
    BY DEF McpInv
  <2> QED  BY <1>1, <2>1 DEF Closing
<1> QED
  BY <1>1, <1>2, <1>3 DEF McpInv

\* shutdown_tasks begins the next task.
LEMMA ShutdownTaskStep ==
    ASSUME McpInv, NEW t \in Tasks, ShutdownTask(t)
    PROVE  McpInv'
<1>1. /\ srv = "closing" /\ rpc.pc = "idle" /\ rpc' = At("revoke", t, NoRun, "shutdown")
      /\ shutdown' = [shutdown EXCEPT !.begun = shutdown.begun \cup {t}]
      /\ UNCHANGED <<task, conn, live, srv, window>> /\ UNCHANGED workflowVars
  BY DEF ShutdownTask
<1>2. /\ RpcFit(rpc, task, conn) /\ Closing(srv, shutdown, rpc, task) /\ Completed(task, rpc)
      /\ TasksFit(task, conn, live) /\ RunsFit /\ window \in Windows
  BY DEF McpInv
<1>3. /\ rpc' \in McpRequests /\ rpc'.pc = "revoke" /\ rpc'.task = t /\ rpc'.next = "shutdown"
  BY <1>1, AtIs
<1>4. RpcFit(rpc', task', conn')
  BY <1>3 DEF RpcFit
<1>5. Completed(task', rpc')
  BY <1>1, <1>2 DEF Completed
<1>6. /\ shutdown' \in [begun : SUBSET Tasks, failed : BOOLEAN]
      /\ shutdown'.begun = shutdown.begun \cup {t} /\ shutdown'.failed = shutdown.failed
      /\ rpc.next \notin Ending
  BY <1>1, <1>2 DEF Closing
<1>7. \A u \in shutdown'.begun :
         shutdown'.failed \/ (rpc'.task = u /\ rpc'.next \in Ending) \/ Confirmed(task'[u])
  BY <1>1, <1>2, <1>3, <1>6 DEF Closing, Ending
<1>8. Closing(srv', shutdown', rpc', task')
  BY <1>1, <1>3, <1>6, <1>7 DEF Closing, Ending
<1>9. RunsFit'
  BY <1>1, <1>2, SameRuns
<1> QED
  BY <1>1, <1>2, <1>4, <1>5, <1>8, <1>9 DEF McpInv

\* stop_all cancels every run.
LEMMA StopAllStep ==
    ASSUME McpInv, StopAll
    PROVE  McpInv'
<1>1. /\ srv = "closing" /\ rpc.pc = "idle" /\ Present(task) \subseteq shutdown.begun
      /\ rpc' = At("stopall", NoTaskId, NoRun, "reply")
      /\ UNCHANGED <<task, conn, live, srv, shutdown, window>>
      /\ UNCHANGED <<recipe, policyOver, consumed>>
  BY DEF StopAll
<1>2. /\ RpcFit(rpc, task, conn) /\ Closing(srv, shutdown, rpc, task) /\ Completed(task, rpc)
      /\ TasksFit(task, conn, live) /\ RunsFit /\ window \in Windows
  BY DEF McpInv
<1>3. PICK f : /\ f \in [Runs -> UNION {Cancel(run[w]) : w \in Runs}]
               /\ \A w \in Runs : f[w] \in Cancel(run[w])
               /\ run' = f
  BY DEF StopAll
<1>4. \A w \in Runs : RunFit(f[w])
  BY <1>2, <1>3, CancelFit DEF RunsFit
<1>5. f \in [Runs -> RunState]
  BY <1>3, <1>4 DEF RunFit
<1>6. RunsFit'
  BY <1>1, <1>2, <1>3, <1>4, <1>5 DEF RunsFit, WorkflowTypeOK
<1>7. /\ rpc' \in McpRequests /\ rpc'.pc = "stopall" /\ rpc'.task = NoTaskId /\ rpc'.next = "reply"
  BY <1>1, AtIs
<1>8. RpcFit(rpc', task', conn') /\ Completed(task', rpc')
  BY <1>1, <1>2, <1>7 DEF RpcFit, Completed
<1>9. rpc.next \notin Ending
  BY <1>1, <1>2 DEF Closing
<1>10. Closing(srv', shutdown', rpc', task')
  BY <1>1, <1>2, <1>7, <1>9 DEF Closing, Ending
<1> QED
  BY <1>1, <1>2, <1>6, <1>8, <1>10 DEF McpInv

\* run_connection returns.
LEMMA ExitStep ==
    ASSUME McpInv, Exit
    PROVE  McpInv'
<1>1. /\ rpc.pc = "stopall" /\ rpc' = NoRpc /\ policyOver' = TRUE
      /\ UNCHANGED <<task, conn, live, shutdown, window, run, recipe, consumed>>
      /\ srv' \in {"clean", "failed"}
      /\ srv' = "clean" => ~ shutdown.failed /\ \A w \in Runs : Settled(run[w])
  BY DEF Exit
<1>2. /\ RpcFit(rpc, task, conn) /\ Closing(srv, shutdown, rpc, task) /\ Completed(task, rpc)
      /\ TasksFit(task, conn, live) /\ RunsFit /\ window \in Windows
  BY DEF McpInv
<1>3. RunsFit'
  BY <1>1, <1>2 DEF RunsFit, WorkflowTypeOK
<1>4. rpc'.pc = "idle" /\ rpc'.next = "reply" /\ RpcFit(rpc', task, conn)
  BY <1>1, NoRpcFit
<1>5. Completed(task', rpc') /\ RpcFit(rpc', task', conn')
  BY <1>1, <1>2, <1>4 DEF Completed
<1>6. rpc.next \notin Ending /\ Present(task) \subseteq shutdown.begun
  BY <1>1, <1>2 DEF Closing
<1>7. Closing(srv', shutdown', rpc', task')
  BY <1>1, <1>2, <1>4, <1>6 DEF Closing, Ending
<1> QED
  BY <1>1, <1>2, <1>3, <1>5, <1>7 DEF McpInv

(***************************************************************************)
(* All commands together.                                                  *)
(***************************************************************************)
\* Every step of the MCP server, of its client and of what surrounds it.
LEMMA McpStep ==
    ASSUME McpInv, srv \in {"serving", "closing"}, McpServer \/ McpClient \/ McpAnswer \/ McpEnvironment
    PROVE  McpInv'
<1>1. CASE McpServer
  BY <1>1, DeriveFailsStep, DeriveStartStep, RevokeStep, StopReturnsStep,
     FinishReturnsStep, DeriveRebindStep, ReissueStep, ShutdownTaskStep, StopAllStep, ExitStep
     DEF McpServer
<1>2. CASE McpClient
  BY <1>2, StartExactStep, AsksSteps, UserActionStep, StartWorkflowStep, EndOfInputStep
     DEF McpClient
<1>3. CASE McpEnvironment
  BY <1>3, HostSteps, ExpireStep, WindowStep, WorkflowSteps DEF McpEnvironment
<1>4. CASE McpAnswer
  BY <1>4, OpenSteps DEF McpAnswer
<1> QED
  BY <1>1, <1>2, <1>3, <1>4

\* A step of another command leaves the server alone.
LEMMA McpSame ==
    ASSUME McpInv, UNCHANGED mcpVars, UNCHANGED workflowVars
    PROVE  McpInv'
<1>1. UNCHANGED <<task, conn, live, rpc, srv, shutdown, window, run, recipe, policyOver, consumed>>
  BY DEF mcpVars, workflowVars
<1>2. RunsFit'
  BY <1>1, SameRuns DEF McpInv, workflowVars
<1> QED
  BY <1>1, <1>2 DEF McpInv

\* And the server leaves the others alone.
LEMMA OthersSame ==
    /\ EnsureInv /\ UNCHANGED ensureVars => EnsureInv'
    /\ UpdateInv /\ UNCHANGED updateVars => UpdateInv'
  BY DEF EnsureInv, ensureVars, UpdateInv, updateVars, Kept

\* Every process starts with no Host of its own, and the server with no task.
LEMMA CommandStarts == CommandInit => CommandInv
<1> SUFFICES ASSUME CommandInit PROVE CommandInv
  OBVIOUS
<1>1. Installed \in Versions /\ Versions \subseteq Nat \ {0}
  BY VersionsAssumption DEF Installed
<1>2. McpInv
  <2>1. /\ task = [t \in Tasks |-> NoTask] /\ conn = [t \in Tasks |-> "none"]
        /\ live = [t \in Tasks |-> FALSE] /\ rpc = NoRpc /\ srv = "serving"
        /\ shutdown = [begun |-> {}, failed |-> FALSE] /\ window = FirstWindow
    BY DEF CommandInit, McpInit
  <2>2. TaskFit(NoTask, "none", FALSE)
    <3>1. NoTask \in TaskProposal
      BY FirstWindowIn DEF NoTask, TaskProposal
    <3>2. /\ ~ NoTask.present /\ ~ NoTask.session /\ NoTask.owner = "none"
          /\ NoTask.completion = "none"
      BY DEF NoTask
    <3> QED  BY <3>1, <3>2 DEF TaskFit, Conns
  <2>3. NoTask \in TaskProposal /\ ~ NoTask.present
    BY <2>2 DEF TaskFit, NoTask
  <2>4. TasksFit(task, conn, live)
    BY <2>1, <2>2, <2>3 DEF TasksFit, Conns
  <2>5. window \in Windows
    BY <2>1, FirstWindowIn
  <2>6. RunsFit
    <3>1. RunFit(NoRunState) /\ NoRunState \in RunState
      BY DEF RunFit, NoRunState, RunState
    <3>2. /\ run = [w \in Runs |-> NoRunState] /\ recipe \in LoadedRecipes \cup {NoPolicy}
          /\ policyOver = FALSE /\ consumed = FALSE
      BY DEF CommandInit, WorkflowInit
    <3>3. recipe \in Recipe \cup {NoPolicy}
      BY <3>2, PoliciesAssumption DEF LoadedRecipes
    <3> QED  BY <2>1, <3>1, <3>2, <3>3 DEF RunsFit, WorkflowTypeOK
  <2>7. RpcFit(rpc, task, conn) /\ rpc.pc = "idle" /\ rpc.next = "reply"
    BY <2>1, NoRpcFit
  <2>8. Completed(task, rpc)
    BY <2>1, <2>3 DEF Completed
  <2>9. Closing(srv, shutdown, rpc, task)
    BY <2>1, <2>7 DEF Closing, Ending
  <2> QED  BY <2>4, <2>5, <2>6, <2>7, <2>8, <2>9 DEF McpInv
<1>3. EnsureInv
  <2>1. /\ pc = [p \in Procs |-> IF command[p] = "ensure" THEN "probe" ELSE "none"]
        /\ child = [p \in Procs |-> Child("none", Installed)]
        /\ endpoint \in {NoHost, OldHost}
    BY DEF CommandInit, EnsureInit
  <2>2. Child("none", Installed) \in HostProcess /\ Child("none", Installed).state = "none"
    BY <1>1 DEF Child, HostProcess
  <2> QED  BY <2>1, <2>2 DEF EnsureInv
<1>4. UpdateInv
  <2>1. /\ upc = [p \in Procs |-> IF command[p] = "update" THEN "begin" ELSE "none"]
        /\ exe = Installed /\ backup = [p \in Procs |-> Missing]
    BY DEF CommandInit, UpdateInit
  <2>2. exe # Missing /\ exe \in Versions
    BY <1>1, <2>1 DEF Missing
  <2>3. \A p \in Procs : upc[p] \in {"begin", "none"}
    BY <2>1
  <2> QED  BY <2>1, <2>2, <2>3 DEF UpdateInv, Standing, Installing
<1> QED
  BY <1>2, <1>3, <1>4 DEF CommandInv

\* Every step of every command keeps the invariant.
LEMMA CommandStep == CommandInv /\ [CommandNext]_commandVars => CommandInv'
<1> SUFFICES ASSUME CommandInv, [CommandNext]_commandVars PROVE CommandInv'
  OBVIOUS
<1>0. McpInv /\ EnsureInv /\ UpdateInv
  BY DEF CommandInv
<1>1. CASE Mcp(McpServer) \/ Mcp(McpClient) \/ Mcp(McpAnswer) \/ Mcp(McpEnvironment)
  <2>1. /\ srv \in {"serving", "closing"}
        /\ McpServer \/ McpClient \/ McpAnswer \/ McpEnvironment
        /\ UNCHANGED ensureVars /\ UNCHANGED updateVars
    BY <1>1 DEF Mcp
  <2> QED  BY <1>0, <2>1, McpStep, OthersSame DEF CommandInv
<1>2. CASE Ensure(HostStopped) \/ \E p \in Procs : Ensure(EnsureCommand(p)) \/ Ensure(HostBinds(p))
  <2>1. /\ HostStopped \/ \E p \in Procs : EnsureCommand(p) \/ HostBinds(p)
        /\ UNCHANGED mcpVars /\ UNCHANGED workflowVars /\ UNCHANGED updateVars
    BY <1>2 DEF Ensure
  <2> QED  BY <1>0, <2>1, EnsureStep, McpSame, OthersSame DEF CommandInv
<1>3. CASE \E p \in Procs : \/ Update(UpdateCommand(p)) \/ Update(UpdateAnswer(p))
                           \/ Update(Crash(p))
  <2>1. PICK p \in Procs : \/ Update(UpdateCommand(p)) \/ Update(UpdateAnswer(p))
                           \/ Update(Crash(p))
    BY <1>3
  <2>2. /\ UpdateCommand(p) \/ UpdateAnswer(p) \/ Crash(p)
        /\ UNCHANGED mcpVars /\ UNCHANGED workflowVars /\ UNCHANGED ensureVars
    BY <2>1 DEF Update
  <2> QED  BY <1>0, <2>2, UpdateStep, McpSame, OthersSame DEF CommandInv
<1>4. CASE UNCHANGED commandVars
  <2>1. UNCHANGED mcpVars /\ UNCHANGED workflowVars /\ UNCHANGED ensureVars /\ UNCHANGED updateVars
    BY <1>4 DEF commandVars
  <2> QED  BY <1>0, <2>1, McpSame, OthersSame DEF CommandInv
<1> QED
  BY <1>1, <1>2, <1>3, <1>4 DEF CommandNext, Program, Environment

\* The commands' inductive invariant: what an MCP server knows of its Hosts
\* is what they are, a shutdown has confirmed what it claims, host-ensure
\* stops what it spawned, and an update keeps the copy until it is over.
THEOREM CommandInvariant == CommandSpec => []CommandInv
  BY CommandStarts, CommandStep, PTL DEF CommandSpec

\* A confirmed stop has read the end of the connection.
LEMMA ConfirmedEnded ==
    ASSUME McpInv, NEW t \in Tasks, Confirmed(task[t]), ~(rpc.pc = "stop" /\ rpc.task = t)
    PROVE  ~ live[t] /\ conn[t] \in {"none", "ok"}
<1>1. TaskFit(task[t], conn[t], live[t]) /\ task[t].completion = task[t].owner
  BY DEF McpInv, TasksFit, Completed, Confirmed
<1>2. task[t].present /\ task[t].completion \notin {"pending", "err"}
  BY DEF Confirmed, StoppedStatus
<1>3. task[t].owner \in {"none", "ok"}
  BY <1>1, <1>2 DEF TaskFit, TaskProposal
<1> QED
  BY <1>1, <1>2, <1>3 DEF TaskFit

\* A task reported stopped has no session left and its Host connection has
\* returned, and an MCP server that exits without an error leaves neither a
\* session nor a connection nor a process of a workflow (mcp_server.rs,
\* stopped_task_status and run_connection): for every number of tasks and runs.
THEOREM StoppedMeansEndedHolds == CommandSpec => []StoppedMeansEnded
<1>1. CommandInv => StoppedMeansEnded
  <2> SUFFICES ASSUME CommandInv PROVE StoppedMeansEnded
    OBVIOUS
  <2>0. McpInv /\ EnsureInv /\ UpdateInv
    BY DEF CommandInv
  <2>1. CommandTypeOK
    BY <2>0 DEF CommandTypeOK, McpInv, TasksFit, RunsFit, EnsureInv, UpdateInv, Conns
  <2>2. \A t \in Tasks : task[t].present /\ task[t].revoked /\ rpc.task # t
                           /\ StoppedStatus(task[t]) = "stopped"
                         => ~live[t] /\ conn[t] \in {"none", "ok"}
    BY <2>0, ConfirmedEnded DEF Confirmed
  <2>3. ASSUME srv = "clean", NEW t \in Tasks
        PROVE  ~ live[t] /\ conn[t] \notin {"serving", "closing"}
    <3>0. /\ Closing(srv, shutdown, rpc, task) /\ rpc = NoRpc /\ ~ shutdown.failed
          /\ Present(task) \subseteq shutdown.begun
      BY <2>0, <2>3 DEF McpInv, Closing
    <3>1. CASE task[t].present
      <4>1. t \in shutdown.begun
        BY <3>0, <3>1 DEF Present
      <4>2. rpc.next \notin Ending /\ rpc.pc # "stop"
        BY <3>0 DEF NoRpc, Ending
      <4>3. Confirmed(task[t])
        BY <3>0, <4>1, <4>2 DEF Closing
      <4> QED  BY <2>0, <4>2, <4>3, ConfirmedEnded
    <3>2. CASE ~ task[t].present
      <4>1. TaskFit(task[t], conn[t], live[t])
        BY <2>0 DEF McpInv, TasksFit
      <4> QED  BY <3>2, <4>1 DEF TaskFit
    <3> QED  BY <3>1, <3>2
  <2>4. ASSUME srv = "clean", NEW w \in Runs
        PROVE  run[w].proc # "alive" /\ run[w].verification = "none"
    <3>1. RunFit(run[w]) /\ Settled(run[w])
      BY <2>0, <2>4 DEF McpInv, RunsFit
    <3> QED  BY <3>1, SettledFit
  <2> QED  BY <2>1, <2>2, <2>3, <2>4 DEF StoppedMeansEnded
<1> QED
  BY <1>1, CommandInvariant, PTL

\* Whoever crashes, and however updates and host-ensures interleave, the
\* installation has an executable or the copy of one (update.rs,
\* install_single_with), and a host-ensure that gave up leaves no Host of its
\* own, one whose state it could not read apart (host_lifecycle.rs).
THEOREM NothingLostHolds == CommandSpec => []NothingLost
<1>1. CommandInv => NothingLost
  <2> SUFFICES ASSUME CommandInv PROVE NothingLost
    OBVIOUS
  <2>1. exe = Missing => \E p \in Procs : Kept(p)
    BY DEF CommandInv, UpdateInv
  <2>2. \A p \in Procs : pc[p] \in Failures \ {"pollChild"} => child[p].state \in {"none", "exited"}
    BY DEF CommandInv, EnsureInv
  <2> QED  BY <2>1, <2>2 DEF NothingLost
<1> QED
  BY <1>1, CommandInvariant, PTL

=============================================================================
