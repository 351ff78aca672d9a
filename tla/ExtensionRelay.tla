---------------------------- MODULE ExtensionRelay ----------------------------
(***************************************************************************)
(* The browser extension route: a task of an MCP process calls the page    *)
(* through the provider registry of the Host, a native-messaging relay     *)
(* process, the background script of the extension and the bridge script   *)
(* inside the paired tab.                                                  *)
(*                                                                         *)
(* A pairing, its session nonce, its native port, its relay process and    *)
(* the provider the relay registers are all numbered by the same n: each   *)
(* click on the extension's action makes one of each.  One tab and one     *)
(* browser window are modelled; a snapshot is named by the call that took  *)
(* it.  All processes read the same clock, which never goes back.          *)
(***************************************************************************)
EXTENDS Integers, Sequences, FiniteSets

CONSTANTS
    None,
    Tasks,       \* the tasks (sessions) of the MCP process
    FirstTask,   \* the one that was started first
    Hellos,      \* what versions of the extension may announce
    MaxPairs,    \* bound on the pairings ever made
    MaxCalls,    \* bound on the calls ever made
    MaxTime,     \* bound of the clock
    Timeout,     \* timeout_ms of a call
    StaleAfter,  \* PROVIDER_STALE_AFTER
    MaxAge,      \* age at which an extension observation is refused
    Capacity,    \* PROVIDER_QUEUE_CAPACITY
    MaxEvents    \* bound on what user, browser and embedding do unasked

ASSUME Bounds == /\ FirstTask \in Tasks /\ None \notin Tasks /\ MaxPairs \in Nat /\ MaxCalls \in Nat /\ MaxTime \in Nat
                 /\ Timeout \in Nat \ {0} /\ StaleAfter \in Nat \ {0}
                 /\ MaxAge \in Nat /\ Capacity \in Nat \ {0} /\ MaxEvents \in Nat

Ports == 1..MaxPairs
Calls == 1..MaxCalls
Methods == {"snapshot", "click", "navigate"}

VARIABLES
    now,       \* the clock
    listener,  \* the task whose ProviderListener serves the endpoint, or None
    registry,  \* the provider ids the registry holds
    owner,     \* Provider::owner
    seen,      \* Provider::last_seen
    queue,     \* Provider::commands_tx/commands_rx
    pending,   \* calls with an entry in Provider::pending
    stale,     \* ids a prune_stale has collected and not yet removed: the request's (0), a registration's
    calls,     \* number of calls made
    call,      \* the calls
    req,       \* the one request the MCP server is in: the task's call, and where it is
    obs,       \* HostSession::extension_observation
    relay,     \* the relay processes
    hello,     \* the hello a relay was started with
    port,      \* nativePort of the background script (0: none)
    gen,       \* nativePortGeneration: the port connected last
    stored,    \* the pairing in session storage (0: none)
    begun,     \* pairings whose document is paired and whose port is not connected yet
    failing,   \* ports whose failure has still to clear the pairing
    loading,   \* a load of the tab whose listener has not run yet
    pairs,     \* number of pairings begun
    ext,       \* the native message each port's handler works on
    page,      \* the bridge script: session nonce and current snapshot
    events,    \* number of unasked events so far
    ran,       \* history: calls the page has run
    revoked    \* history: navigate calls that have invalidated the document

host == <<listener, registry, owner, seen, queue, pending, stale, calls, call, req, obs>>
background == <<port, gen, stored, begun, failing, loading, pairs>>
history == <<ran, revoked>>
vars == <<now, events, host, relay, hello, background, ext, page, history>>

Unasked == events < MaxEvents /\ events' = events + 1

Idle == [at |-> "idle", c |-> 0, by |-> 0]
Quiet == [at |-> "idle", c |-> 0]
Unpaired == [nonce |-> 0, snap |-> 0]

Init ==
    /\ now = 0 /\ listener = FirstTask /\ registry = {} /\ pending = {}
    /\ owner = [p \in Ports |-> None] /\ seen = [p \in Ports |-> 0]
    /\ queue = [p \in Ports |-> <<>>] /\ stale = [a \in 0..MaxPairs |-> {}]
    /\ calls = 0 /\ call = [c \in Calls |-> None]
    /\ req = Idle /\ obs = [t \in Tasks |-> None]
    /\ relay = [p \in Ports |-> [at |-> "none", c |-> 0, code |-> None, owner |-> None]]
    /\ hello = [p \in Ports |-> None]
    /\ port = 0 /\ gen = 0 /\ stored = 0 /\ begun = {} /\ failing = {}
    /\ loading = FALSE /\ pairs = 0
    /\ ext = [p \in Ports |-> Quiet] /\ page = Unpaired
    /\ ran = {} /\ revoked = {} /\ events = 0

\* Only differences of times matter: the clock starts with the first registration.
Tick ==
    /\ \E p \in Ports : owner[p] # None
    /\ now < MaxTime /\ now' = now + 1
    /\ UNCHANGED <<events, host, relay, hello, background, ext, page, history>>

-----------------------------------------------------------------------------
(* The endpoint of the provider: one listener per MCP connection, owned by *)
(* one task (extension_transport::ensure and revoke).                      *)

StartListener(t) ==
    /\ req.at = "idle" /\ listener = None /\ listener' = t
    /\ \A p \in Ports : owner[p] # t
    /\ UNCHANGED <<now, events, registry, owner, seen, queue, pending, stale, calls, call, req, obs,
                   relay, hello, background, ext, page, history>>

StopListener(t) ==
    /\ Unasked
    /\ req.at = "idle" /\ listener = t /\ listener' = None
    /\ UNCHANGED <<now, registry, owner, seen, queue, pending, stale, calls, call, req, obs,
                   relay, hello, background, ext, page, history>>

\* prune_stale collects under one lock and removes under another.
StaleProviders == {p \in registry : now - seen[p] >= StaleAfter}

-----------------------------------------------------------------------------
(* Calls of a task's session (Request::BrowserExtensionCall). *)

\* Mutant: whoever asks may use the provider.
ClaimsAny(t, p) == p \in registry

\* The process, window and origin of the pairing match; what may differ is the owner.
Claims(t, p) == p \in registry /\ owner[p] \in {None, t}

Observed(t, p) == /\ obs[t] # None
                  /\ obs[t].prov = p /\ now - obs[t].at <= MaxAge

Granted(t, p, m) ==
    CASE m = "snapshot" -> TRUE
      [] m = "click"    -> Observed(t, p)
      [] m = "navigate" -> Observed(t, p) /\ "tab_navigation_v1" \in hello[p].caps

\* Evidence is consumed before the call, whatever becomes of it.
CallBegin(t, p, m) ==
    /\ req.at = "idle" /\ calls < MaxCalls
    /\ now + 2 * Timeout <= MaxTime
    /\ Claims(t, p) /\ Granted(t, p, m)
    /\ owner' = [owner EXCEPT ![p] = IF @ = None THEN t ELSE @]
    /\ calls' = calls + 1
    /\ call' = [call EXCEPT ![calls + 1] =
                  [task |-> t, method |-> m, prov |-> p, deadline |-> 0, reply |-> None,
                   snap |-> IF m = "snapshot" THEN 0 ELSE obs[t].snap]]
    /\ obs' = [obs EXCEPT ![t] = None]
    /\ req' = [at |-> "remove", c |-> calls + 1, by |-> 0]
    /\ stale' = [stale EXCEPT ![0] = StaleProviders]
    /\ UNCHANGED <<now, events, listener, registry, seen, queue, pending, relay, hello,
                   background, ext, page, history>>

\* The window is not ready, the observation is stale, or the user says no.
CallRefused(t) ==
    /\ Unasked
    /\ req.at = "idle" /\ obs[t] # None
    /\ obs' = [obs EXCEPT ![t] = None]
    /\ UNCHANGED <<now, listener, registry, owner, seen, queue, pending, stale, calls, call,
                   req, relay, hello, background, ext, page, history>>

\* Request::BrowserExtensionStatus prunes, then reads.
Status ==
    /\ Unasked
    /\ req.at = "idle" /\ registry # {}
    /\ req' = [at |-> "remove", c |-> 0, by |-> 0]
    /\ stale' = [stale EXCEPT ![0] = StaleProviders]
    /\ UNCHANGED <<now, listener, registry, owner, seen, queue, pending, calls, call,
                   obs, relay, hello, background, ext, page, history>>

PruneRemove ==
    /\ req.at = "remove"
    /\ registry' = registry \ stale[0]
    /\ stale' = [stale EXCEPT ![0] = {}]
    /\ req' = [req EXCEPT !.at = IF req.c = 0 THEN "idle" ELSE "enqueue"]
    /\ UNCHANGED <<now, events, listener, owner, seen, queue, pending, calls, call, obs, relay, hello,
                   background, ext, page, history>>

\* The deadline in the command counts from before the queue accepts it.
Deadline == now + Timeout

\* navigation_provider_must_revoke: every other outcome gives the provider up.
CleanRefusals == {"navigation_unsupported", "target_not_foreground", "stale_observation",
    "command_expired", "navigation_target_refused", "navigation_cancelled"}

\* What relay, background script and page answer, and the errors of the call itself.
Codes == CleanRefusals \cup {"ok", "pairing_owned", "pairing_mismatch", "timed_out", "dropped",
    "provider_not_found", "navigation_pairing_required", "navigation_outcome_unknown"}

ASSUME NoAnswerYet == None \notin Codes

\* What the call does with its answer, an error of its own included.
CallEnds(code) ==
    LET c == req.c
        r == call[c]
        t == r.task
    IN /\ registry' = IF r.method = "navigate" /\ code \notin CleanRefusals
                      THEN registry \ {r.prov} ELSE registry
       /\ obs' = [obs EXCEPT ![t] = IF r.method = "snapshot" /\ code = "ok"
                                    THEN [prov |-> r.prov, snap |-> c, at |-> now] ELSE None]
       /\ pending' = pending \ {c}
       /\ req' = Idle

Enqueue ==
    /\ req.at = "enqueue"
    /\ LET c == req.c
           p == call[c].prov
           room == Len(queue[p]) < Capacity
       IN \/ /\ p \in registry
             /\ pending' = pending \union {c}
             /\ call' = [call EXCEPT ![c].deadline = Deadline]
             /\ queue' = IF room THEN [queue EXCEPT ![p] = Append(@, c)] ELSE queue
             /\ req' = [req EXCEPT !.at = IF room THEN "wait" ELSE "send", !.by = now + Timeout]
             /\ UNCHANGED <<registry, obs>>
          \/ /\ p \notin registry
             /\ CallEnds("provider_not_found") /\ UNCHANGED <<call, queue>>
    /\ UNCHANGED <<now, events, listener, owner, seen, stale, calls, relay, hello, background,
                   ext, page, history>>

\* The queue was full; the answer is awaited for a whole timeout from now.
Send ==
    /\ req.at = "send"
    /\ LET p == call[req.c].prov IN
         /\ Len(queue[p]) < Capacity
         /\ queue' = [queue EXCEPT ![p] = Append(@, req.c)]
    /\ req' = [req EXCEPT !.at = "wait", !.by = now + Timeout]
    /\ UNCHANGED <<now, events, listener, registry, owner, seen, pending, stale, calls, call, obs,
                   relay, hello, background, ext, page, history>>

\* Both timeouts leave the queue as it is: a command that is in it stays there.
CallTimesOut ==
    /\ req.at \in {"send", "wait"} /\ now >= req.by
    /\ ~(req.at = "wait" /\ call[req.c].reply # None)
    /\ CallEnds("timed_out")
    /\ UNCHANGED <<now, events, listener, owner, seen, queue, stale, calls, call, relay, hello,
                   background, ext, page, history>>

\* The answer has come, or the sender of the answer was dropped.
CallAnswered ==
    /\ req.at = "wait"
    /\ LET c == req.c IN
         \/ call[c].reply # None /\ CallEnds(call[c].reply)
         \/ call[c].reply = None /\ c \notin pending /\ CallEnds("dropped")
    /\ UNCHANGED <<now, events, listener, owner, seen, queue, stale, calls, call, relay, hello,
                   background, ext, page, history>>

-----------------------------------------------------------------------------
(* The relay process: a run loop that owns the native port and a worker    *)
(* that speaks to the Host.  relay[p].at is where the worker is:           *)
(* discover, remove (inside the registration), poll, parked (inside        *)
(* browser_extension_next), loop (its command is with the run loop),       *)
(* written (on the port), reply (answer to complete), stop, ended.         *)

Live == {"discover", "remove", "poll", "parked", "loop", "written", "reply"}

RelayAt(p, at) == relay' = [relay EXCEPT ![p].at = at]

\* The worker's connection lives as long as the listener it was accepted by.
Connected(p) == listener # None /\ listener = owner[p]

\* parse_extension_hello
HelloAccepted(h) == h.min <= 1 /\ h.max >= 1 /\ h.caps # {}

\* The worker connects to the one endpoint bound to the window and registers with the
\* hello its port was opened with; register_with_window begins with a prune_stale.
Register(p, h) ==
    /\ relay[p].at = "discover" /\ listener # None
    /\ IF HelloAccepted(h)
       THEN /\ RelayAt(p, "remove")
            /\ stale' = [stale EXCEPT ![p] = StaleProviders]
            /\ owner' = [owner EXCEPT ![p] = listener]
            /\ hello' = [hello EXCEPT ![p] = h]
       ELSE RelayAt(p, "stop") /\ UNCHANGED <<stale, owner, hello>>
    /\ UNCHANGED <<now, events, listener, registry, seen, queue, pending, calls, call, req, obs,
                   background, ext, page, history>>

\* Several endpoints match the window, or the records cannot be read in full.
DiscoverFails(p) ==
    /\ Unasked
    /\ relay[p].at = "discover" /\ RelayAt(p, "stop")
    /\ UNCHANGED <<now, host, hello, background, ext, page, history>>

RegisterInsert(p) ==
    /\ relay[p].at = "remove"
    /\ RelayAt(p, "poll")
    /\ registry' = (registry \ stale[p]) \union {p}
    /\ stale' = [stale EXCEPT ![p] = {}]
    /\ seen' = [seen EXCEPT ![p] = now]
    /\ UNCHANGED <<now, events, listener, owner, queue, pending, calls, call, req, obs, hello,
                   background, ext, page, history>>

\* Mutant: a poll that is refused is simply sent again.
PollBeginRetries(p) ==
    /\ \/ relay[p].at = "poll"
       \/ relay[p].at = "parked" /\ (Connected(p) => queue[p] = <<>>)
    /\ IF Connected(p) /\ p \in registry
       THEN RelayAt(p, "parked") /\ seen' = [seen EXCEPT ![p] = now]
       ELSE RelayAt(p, "poll") /\ UNCHANGED seen
    /\ UNCHANGED <<now, events, listener, registry, owner, queue, pending, stale, calls, call, req,
                   obs, hello, background, ext, page, history>>

\* next_command looks the provider up, then waits on its queue, for a second at most;
\* a worker whose request fails is at its end, and the relay with it.
PollBegin(p) ==
    /\ \/ relay[p].at = "poll"
       \/ relay[p].at = "parked" /\ (Connected(p) => queue[p] = <<>>)
    /\ IF Connected(p) /\ p \in registry
       THEN RelayAt(p, "parked") /\ seen' = [seen EXCEPT ![p] = now]
       ELSE RelayAt(p, "stop") /\ UNCHANGED seen
    /\ UNCHANGED <<now, events, listener, registry, owner, queue, pending, stale, calls, call, req,
                   obs, hello, background, ext, page, history>>

PollTakes(p) ==
    /\ relay[p].at = "parked" /\ Connected(p) /\ queue[p] # <<>>
    /\ relay' = [relay EXCEPT ![p].at = "loop", ![p].c = Head(queue[p])]
    /\ queue' = [queue EXCEPT ![p] = Tail(@)]
    /\ UNCHANGED <<now, events, listener, registry, owner, seen, pending, stale, calls, call, req,
                   obs, hello, background, ext, page, history>>

\* Mutant: the relay trusts the Host to have withdrawn what is too late.
RefusalIgnoresDeadline(p, front) ==
    LET r == call[relay[p].c] IN
    IF r.method # "snapshot" /\ ~front THEN "target_not_foreground"
    ELSE IF relay[p].owner \notin {None, owner[p]} THEN "pairing_owned"
    ELSE None

\* What the run loop and dispatch answer in place of the extension.
Refusal(p, front) ==
    LET r == call[relay[p].c] IN
    IF r.method # "snapshot" /\ ~front THEN "target_not_foreground"
    ELSE IF r.deadline <= now THEN "command_expired"
    ELSE IF relay[p].owner \notin {None, owner[p]} THEN "pairing_owned"
    ELSE None

RelayRefuses(p) ==
    /\ relay[p].at = "loop"
    /\ \E front \in BOOLEAN :
         /\ Refusal(p, front) # None
         /\ relay' = [relay EXCEPT ![p].at = "reply", ![p].code = Refusal(p, front)]
    /\ UNCHANGED <<now, events, host, hello, background, ext, page, history>>

RelayWrites(p) ==
    /\ relay[p].at = "loop" /\ Refusal(p, TRUE) = None
    /\ relay' = [relay EXCEPT ![p].at = "written", ![p].owner = owner[p]]
    /\ ext' = [ext EXCEPT ![p] = [at |-> "message", c |-> relay[p].c]]
    /\ UNCHANGED <<now, events, host, hello, background, page, history>>

\* No answer in time, or one that is too large or malformed.
RelayFails(p) ==
    /\ relay[p].at = "written"
    /\ \/ now >= call[relay[p].c].deadline /\ UNCHANGED events
       \/ Unasked
    /\ RelayAt(p, "stop")
    /\ UNCHANGED <<now, host, hello, background, ext, page, history>>

\* The port was disconnected by the extension.  A registration under way is
\* completed by the Host in any case.
RelayEof(p) ==
    /\ relay[p].at \in Live \ {"remove"} /\ port # p
    /\ RelayAt(p, "stop")
    /\ UNCHANGED <<now, events, host, hello, background, ext, page, history>>

\* complete(): an answer nobody waits for is an error, and the end of the worker.
Complete(p) ==
    /\ relay[p].at = "reply"
    /\ LET c == relay[p].c
           known == Connected(p) /\ p \in registry
       IN /\ seen' = IF known THEN [seen EXCEPT ![p] = now] ELSE seen
          /\ IF known /\ c \in pending
             THEN /\ pending' = pending \ {c}
                  /\ call' = [call EXCEPT ![c].reply = relay[p].code]
                  /\ relay' = [relay EXCEPT ![p].at = "poll", ![p].c = 0, ![p].code = None]
             ELSE RelayAt(p, "stop") /\ UNCHANGED <<pending, call>>
    /\ UNCHANGED <<now, events, listener, registry, owner, queue, stale, calls, req, obs, hello,
                   background, ext, page, history>>

\* On a fresh connection, within 500 ms; then the process ends.
Unregister(p) ==
    /\ relay[p].at = "stop"
    /\ relay' = [relay EXCEPT ![p] = [at |-> "ended", c |-> 0, code |-> None, owner |-> None]]
    /\ \/ /\ Connected(p) /\ p \in registry
          /\ registry' = registry \ {p}
          /\ pending' = {c \in pending : call[c].prov # p}
       \/ UNCHANGED <<registry, pending>>
    /\ UNCHANGED <<now, events, listener, owner, seen, queue, stale, calls, call, req, obs, hello,
                   background, ext, page, history>>

-----------------------------------------------------------------------------
(* The background script and the page. *)

\* pairTab sends the new nonce to the page ...
PairBegin ==
    /\ IF pairs = 0 THEN UNCHANGED events ELSE Unasked
    /\ pairs < MaxPairs /\ pairs' = pairs + 1
    /\ page' = [nonce |-> pairs + 1, snap |-> 0]
    /\ begun' = begun \union {pairs + 1}
    /\ UNCHANGED <<now, host, relay, hello, port, gen, stored, failing, loading, ext, history>>

\* ... and then saves the pairing and connects the port, which ends the previous one.
PairFinish(p) ==
    /\ p \in begun /\ begun' = begun \ {p}
    /\ stored' = p /\ port' = p /\ gen' = p
    /\ RelayAt(p, "discover")
    /\ UNCHANGED <<now, events, host, hello, failing, loading, pairs, ext, page, history>>

\* onDisconnect, failCurrentPort
PortFails(p) ==
    /\ port = p /\ relay[p].at = "ended"
    /\ port' = 0 /\ failing' = failing \union {p}
    /\ UNCHANGED <<now, events, host, relay, hello, gen, stored, begun, loading, pairs, ext, page, history>>

\* The queued update clears the pairing unless another port has been connected since.
ClearFailed(p) ==
    /\ p \in failing /\ failing' = failing \ {p}
    /\ stored' = IF gen = p THEN 0 ELSE stored
    /\ UNCHANGED <<now, events, host, relay, hello, port, gen, begun, loading, pairs, ext, page, history>>

\* The user loads another document in the tab; its bridge knows no nonce.
Load ==
    /\ Unasked
    /\ page # Unpaired /\ page' = Unpaired /\ loading' = TRUE
    /\ UNCHANGED <<now, host, relay, hello, port, gen, stored, begun, failing, pairs, ext, history>>

\* tabs.onUpdated, clearIfTab: whatever pairing the tab has by then is cleared.
ClearIfTab ==
    /\ loading /\ loading' = FALSE /\ stored' = 0
    /\ UNCHANGED <<now, events, host, relay, hello, port, gen, begun, failing, pairs, ext, page, history>>

\* The browser ends the background script; the next one starts by clearing the pairing.
\* A message it had sent to the page is still delivered.
BackgroundRestarts ==
    /\ Unasked
    /\ port # 0 /\ port' = 0 /\ gen' = 0 /\ stored' = 0
    /\ begun' = {} /\ failing' = {} /\ loading' = FALSE
    /\ ext' = [p \in Ports |-> IF ext[p].at = "tab" THEN ext[p] ELSE Quiet]
    /\ UNCHANGED <<now, host, relay, hello, pairs, page, history>>

Current(p) == port = p

\* The answer is posted on the port; a relay that has given up does not read it.
Answers(p, code) ==
    /\ ext' = [ext EXCEPT ![p] = Quiet]
    /\ relay' = IF Current(p) /\ relay[p].at = "written"
                THEN [relay EXCEPT ![p].at = "reply", ![p].code = code] ELSE relay

InTime(p) == now < call[ext[p].c].deadline

\* Why handleNativeMessage or navigatePairedTab refuses before it asks the page.
Admission(p, front) ==
    LET m == call[ext[p].c].method IN
    IF stored # p THEN "pairing_mismatch"
    ELSE IF m = "navigate" /\ ~InTime(p) THEN "command_expired"
    ELSE IF m # "snapshot" /\ ~front THEN "target_not_foreground"
    ELSE None

\* A message of a port that was replaced meanwhile is dropped.
HandleMessage(p) ==
    /\ ext[p].at = "message"
    /\ \/ /\ ~Current(p) /\ ext' = [ext EXCEPT ![p] = Quiet] /\ UNCHANGED relay
       \/ /\ Current(p)
          /\ \E front \in BOOLEAN :
               IF Admission(p, front) # None THEN Answers(p, Admission(p, front))
               ELSE ext' = [ext EXCEPT ![p].at = "tab"] /\ UNCHANGED relay
    /\ UNCHANGED <<now, events, host, hello, background, page, history>>

\* handle() of the bridge; an element may also have changed under its ref.
PageRuns(p) ==
    /\ ext[p].at = "tab"
    /\ LET c == ext[p].c
           r == call[c]
           current == page.nonce = p /\ page.snap = r.snap
       IN \/ /\ page.nonce # p
             /\ Answers(p, "pairing_mismatch") /\ UNCHANGED <<page, ran, revoked>>
          \/ /\ page.nonce = p /\ r.method = "snapshot"
             /\ page' = [page EXCEPT !.snap = c] /\ ran' = ran \union {c}
             /\ Answers(p, "ok") /\ UNCHANGED revoked
          \/ /\ page.nonce = p /\ r.method # "snapshot" /\ (r.method = "navigate" => ~current)
             /\ Answers(p, "stale_observation") /\ UNCHANGED <<page, ran, revoked>>
          \/ /\ current /\ r.method = "click"
             /\ page' = [page EXCEPT !.snap = 0] /\ ran' = ran \union {c}
             /\ Answers(p, "ok") /\ UNCHANGED revoked
          \/ /\ current /\ r.method = "navigate"
             /\ page' = Unpaired /\ revoked' = revoked \union {c}
             /\ ext' = [ext EXCEPT ![p].at = "invalidated"] /\ UNCHANGED <<relay, ran>>
    /\ UNCHANGED <<now, events, host, hello, background>>

\* Mutant: a deadline that passes behind the invalidation is reported as expiry.
NavRevokeExpires(p) ==
    /\ ext[p].at = "invalidated"
    /\ IF Current(p) /\ InTime(p) /\ stored = p
       THEN stored' = 0 /\ ext' = [ext EXCEPT ![p].at = "revoked"] /\ UNCHANGED relay
       ELSE Answers(p, "command_expired") /\ UNCHANGED stored
    /\ UNCHANGED <<now, events, host, hello, port, gen, begun, failing, loading, pairs, page, history>>

\* revokePairing, between two more looks at port and deadline.
NavRevoke(p) ==
    /\ ext[p].at = "invalidated"
    /\ IF Current(p) /\ InTime(p) /\ stored = p
       THEN stored' = 0 /\ ext' = [ext EXCEPT ![p].at = "revoked"] /\ UNCHANGED relay
       ELSE Answers(p, "navigation_pairing_required") /\ UNCHANGED stored
    /\ UNCHANGED <<now, events, host, hello, port, gen, begun, failing, loading, pairs, page, history>>

\* tabs.update may fail, and its outcome may come too late.
NavUpdate(p) ==
    /\ ext[p].at = "revoked"
    /\ \/ /\ Current(p) /\ InTime(p)
          /\ loading' = TRUE /\ page' = Unpaired
          /\ \E code \in {"ok", "navigation_outcome_unknown"} : Answers(p, code)
       \/ /\ ~(Current(p) /\ InTime(p))
          /\ Answers(p, "navigation_pairing_required") /\ UNCHANGED <<loading, page>>
    /\ UNCHANGED <<now, events, host, hello, port, gen, stored, begun, failing, pairs, history>>

-----------------------------------------------------------------------------
RelayStep(p) ==
    \/ RegisterInsert(p) \/ PollBegin(p) \/ PollTakes(p) \/ \E h \in Hellos : Register(p, h)
    \/ RelayRefuses(p) \/ RelayWrites(p) \/ RelayFails(p)
    \/ RelayEof(p) \/ Complete(p) \/ Unregister(p)

BackgroundStep(p) == PortFails(p) \/ ClearFailed(p) \/ HandleMessage(p)
                     \/ PageRuns(p) \/ NavRevoke(p) \/ NavUpdate(p)

Next ==
    \/ Status \/ PruneRemove \/ Enqueue \/ Send \/ CallTimesOut \/ CallAnswered
    \/ Tick \/ PairBegin \/ Load \/ ClearIfTab \/ BackgroundRestarts
    \/ \E t \in Tasks :
         \/ StartListener(t) \/ StopListener(t) \/ CallRefused(t)
         \/ \E p \in Ports, m \in Methods : CallBegin(t, p, m)
    \/ \E p \in Ports : \/ RelayStep(p) \/ BackgroundStep(p) \/ DiscoverFails(p)
                        \/ PairFinish(p)

\* Timers expire, and the relay and the background script run their loops.
Spec == /\ Init /\ [][Next]_vars
        /\ WF_vars(Tick)
        /\ \A p \in Ports : WF_vars(RelayStep(p)) /\ WF_vars(BackgroundStep(p))

-----------------------------------------------------------------------------
\* A command reaches the port of the extension only while its caller still waits
\* for it: what was queued by a call that has timed out is never dispatched
\* (call, relay::dispatch).
DispatchedWhileAwaited ==
    [][\A p \in Ports : relay[p].at = "loop" /\ relay'[p].at = "written" => relay[p].c \in pending]_vars

\* A pairing never moves between tasks: everything the page has run under one
\* nonce was asked for by one task (claim, relay).
OnePairingOneTask ==
    \A c, d \in ran \union revoked : call[c].prov = call[d].prov => call[c].task = call[d].task

\* A navigation that has invalidated the document costs the task its provider,
\* whatever the call was answered: the codes of extension and Host agree
\* (navigation_provider_must_revoke, navigatePairedTab).
NavigationRevokes ==
    \A c \in revoked : req.c # c => call[c].prov \notin registry

\* A provider that was removed from the registry, by a navigation or by a prune
\* between whose two locks it polled, does not leave the tab paired to a dead end:
\* wherever its worker is by then, parked in a poll of its empty queue, with a
\* command on the port or with an answer to complete, its relay ends, and the
\* extension gives the port up.
RemovedProviderEnds ==
    \A p \in Ports :
        (relay[p].at \in Live \ {"discover", "remove"} /\ p \notin registry)
            ~> (relay[p].at = "ended" /\ port # p)
=============================================================================
