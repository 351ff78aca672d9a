---------------------------- MODULE BrowserTask ----------------------------
(***************************************************************************)
(* What a session may do inside the browser of its window, and the secrets *)
(* it types there.  BrowserSession keeps the page it is bound to and what  *)
(* the latest snapshot showed of it; a task lease narrows the session to   *)
(* some origins, or pins it to one document; a secret needs a decision of  *)
(* the user about exactly the page it goes to, or a lease that covers it.  *)
(*                                                                         *)
(* The requests are those of ActionEvidence, which owns the snapshot's     *)
(* lifetime (session.snap); here they also meet the page and the lease.    *)
(* The driver names pages as it likes and the page changes by itself.      *)
(***************************************************************************)
EXTENDS ActionEvidence, Sequences

CONSTANTS
    Leases,      \* task leases the session may be opened with
    Targets,     \* browser targets the driver may bind
    Pages,       \* what a snapshot may show: [tab, doc, origin]
    Values,      \* texts that may be on the clipboard
    MaxAsked     \* bound: confirmations asked of the user

NoTarget == "no target"
NoTab == "no tab"
NoDoc == "no document"
NoOrigin == "no origin"     \* the page's URL was missing or not HTTP(S)
Empty == "empty"            \* nothing on the clipboard, nothing in the vault

Origins == {p.origin : p \in Pages} \ {NoOrigin}

Tabs == {p.tab : p \in Pages}

Docs == {p.doc : p \in Pages}

NoScope == [target |-> NoTarget, tab |-> NoTab, doc |-> NoDoc, origin |-> NoOrigin]

Scope == [target : Targets, tab : Tabs, doc : Docs, origin : Origins]

\* validate_lease and validate_registration: a lease is for some origins, or
\* pinned to a document, whose origin is then the only one.  secret: the lease
\* covers credential_input; held is FALSE for a session without a lease.
ASSUME BrowserTaskAssumption ==
    /\ Leases \subseteq [held : BOOLEAN, origins : SUBSET Origins,
                         scope : Scope \cup {NoScope}, secret : BOOLEAN]
    /\ \A l \in Leases :
          /\ ~l.held => l.scope = NoScope
          /\ l.scope # NoScope => l.origins = {l.scope.origin}
    /\ NoTarget \notin Targets
    /\ NoTab \notin Tabs
    /\ NoDoc \notin Docs
    /\ Empty \notin Values
    /\ MaxAsked \in Nat

VARIABLES
    lease,      \* the task lease of the session, fixed when it opens
    page,       \* BrowserSession, without the snapshot's identity
    asked,      \* confirmation requests that reached the user, in order
    clipboard,  \* the system clipboard
    vault,      \* the value stored under the one handle
    capture,    \* the clipboard_capture_secret request in progress
    handed      \* ghost: the browser call this step handed to the core

taskVars == <<lease, page, asked, clipboard, vault, capture, handed>>
allVars == <<vars, taskVars>>

(***************************************************************************)
(* BrowserSession.                                                         *)
(***************************************************************************)
\* The continuation an ancestor-scoped snapshot left: its tab and snapshot; its
\* token is the latest one, so a request either names it or another.
NoPending == [tab |-> NoTab, doc |-> NoDoc]

\* clear_snapshot.
ClearSnapshot(p) ==
    [p EXCEPT !.tab = NoTab, !.doc = NoDoc, !.origin = NoOrigin, !.pending = NoPending]

\* task_browser_session: a pinned lease binds its target before the first request.
NewBrowserSession(l) ==
    [target |-> l.scope.target, exact |-> l.scope # NoScope,
     tab |-> NoTab, doc |-> NoDoc, origin |-> NoOrigin, pending |-> NoPending]

\* store_binding: any new binding ends the snapshot.
StoreBinding(p, target, exact) ==
    [ClearSnapshot(p) EXCEPT !.target = target, !.exact = exact]

\* require_exact_target and require_mutation_target of a request.
RequireExactTarget(p, target) == p.target = target /\ p.exact

RequireMutationTarget(p, r) ==
    /\ RequireExactTarget(p, r.target)
    /\ p.doc # NoDoc
    /\ p.tab = r.tab
    /\ p.doc = r.doc

(***************************************************************************)
(* The lease.                                                              *)
(***************************************************************************)
Pinned == lease.scope # NoScope

\* require_task_authorized_browser_target and _document.
TargetAuthorized(r) ==
    Pinned => r.target = lease.scope.target /\ r.tab = lease.scope.tab

DocumentAuthorized(r) ==
    TargetAuthorized(r) /\ (Pinned => r.doc = lease.scope.doc)

\* require_current_task_authorized_browser_document, on what is known of the page.
CurrentDocumentAuthorized(p) ==
    Pinned => /\ p.target = lease.scope.target
              /\ p.tab = lease.scope.tab
              /\ p.doc = lease.scope.doc
              /\ p.origin = lease.scope.origin

\* require_allowed_browser_origin and require_current_allowed_browser_origin.
OriginAllowed(origin) == lease.held => origin \in lease.origins

CurrentOriginAllowed(p) == OriginAllowed(p.origin)

PageOf(p) == [target |-> p.target, tab |-> p.tab, doc |-> p.doc, origin |-> p.origin]

Nobody == [by |-> "nobody", at |-> NoScope]

NoCall == [kind |-> "none", at |-> NoScope, seen |-> FALSE, consent |-> Nobody]

(***************************************************************************)
(* Snapshots.                                                              *)
(***************************************************************************)
\* A request names a target, a tab and a document; a client may name any.
Requests == [target : Targets, tab : Tabs, doc : Docs]

\* The page as the request finds it: an epoch that moved has ended it.
Met == IF Begun.snap = None THEN ClearSnapshot(page) ELSE page

\* The page after a request of ActionEvidence that is not the browser's.
Follows == page' = IF session'.snap = None THEN ClearSnapshot(page) ELSE page

\* The driver answered the read of this step and nothing was published.
AnsweredUnpublished ==
    \E o \in Reads([Begun EXCEPT !.snap = None]) :
        o.code = "ok" /\ session' = Finished(DiscardBrowserEvidence(o.s), "ok")

\* A snapshot request without target_id binds one, exactly or read-only; a
\* refusal leaves the binding that was.
BrowserBind ==
    /\ ~Pinned
    /\ BrowserSnapshot
    /\ session'.snap = None
    /\ \/ page' = ClearSnapshot(page)
       \/ /\ AnsweredUnpublished
          /\ \E target \in Targets, exact \in BOOLEAN : page' = StoreBinding(page, target, exact)
    /\ UNCHANGED <<lease, asked, clipboard, vault, capture>>
    /\ handed' = NoCall

\* ancestor_scope_expectation: while a continuation is pending a request names
\* that one, on its tab, or none.
Expectation(p, token, tab) ==
    CASE token = "none" -> "none"
      [] token # "none" /\ p.pending = NoPending -> "untracked"
      [] token = "pending" /\ p.pending.tab = tab -> "tracked"
      [] OTHER -> "stale"

\* validate_ancestor_scope_response: what is accepted of an answer that shows a
\* page and carries no token, a new one or the one it was asked for.  A plain
\* snapshot and an untracked continuation carry none.
Accepted(p, expected, shown, next) ==
    CASE expected = "tracked" -> shown.doc = p.pending.doc /\ next # "same"
      [] expected = "none" -> next # "same"
      [] expected = "untracked" -> next = "none"
      [] OTHER -> FALSE

Shown(p, shown, next) ==
    [p EXCEPT !.tab = shown.tab, !.doc = shown.doc, !.origin = shown.origin,
              !.pending = IF next = "none" THEN NoPending
                          ELSE [tab |-> shown.tab, doc |-> shown.doc]]

\* BrowserSession::snapshot of a tab of the bound target, which the answer
\* shows, and finish_browser_snapshot_attempt: whatever is not published, a
\* page outside the lease too, leaves no evidence.
BrowserSnapshotTab ==
    /\ BrowserSnapshot
    /\ \/ session'.snap = None /\ page' = ClearSnapshot(page)
       \/ \E shown \in Pages, token \in {"none", "pending", "other"},
             next \in {"none", "new", "same"} :
             LET p == Shown(Met, shown, next)
             IN  /\ session'.snap # None
                 /\ Met.target # NoTarget
                 /\ TargetAuthorized(p)
                 /\ Accepted(Met, Expectation(Met, token, shown.tab), shown, next)
                 /\ CurrentDocumentAuthorized(p)
                 /\ page' = p
    /\ handed' = NoCall
    /\ UNCHANGED <<lease, asked, clipboard, vault, capture>>

(***************************************************************************)
(* Input, navigation and dialogs.                                          *)
(***************************************************************************)
\* A call of the browser handed to the core: the page the Host knew, whether a
\* snapshot still counted, and who allowed its secret.
Handed(kind, p, consent) ==
    [kind |-> kind, at |-> PageOf(p), seen |-> Begun.snap # None, consent |-> consent]

\* browser_click, _pointer, _set_input_files, _download and a browser_type of
\* a text: on the latest snapshot, which the attempt ends.
InputOn(r, consent) ==
    /\ DocumentAuthorized(r)
    /\ BrowserInput
    /\ CurrentOriginAllowed(page)
    /\ RequireMutationTarget(page, r)
    /\ page' = ClearSnapshot(page)
    /\ handed' = Handed("input", page, consent)

BrowserMutation ==
    /\ \E r \in Requests : InputOn(r, Nobody)
    /\ UNCHANGED <<lease, asked, clipboard, vault, capture>>

\* A navigation or a dialog addresses the exact bound target, and a pinned
\* lease its document as the latest snapshot shows it.
Addressed(target, tab) ==
    /\ TargetAuthorized([target |-> target, tab |-> tab])
    /\ CurrentDocumentAuthorized(Met)
    /\ RequireExactTarget(page, target)

\* browser_navigate: the URL's origin must be allowed; a pinned lease must see
\* its document before it is left.  No snapshot is needed otherwise.
BrowserNavigateTo ==
    /\ \E target \in Targets, tab \in Tabs : Addressed(target, tab)
    /\ \E origin \in Origins : OriginAllowed(origin)
    /\ BrowserNavigate
    /\ page' = ClearSnapshot(page)
    /\ handed' = Handed("navigate", Met, Nobody)
    /\ UNCHANGED <<lease, asked, clipboard, vault, capture>>

\* browser_dialog: needs no snapshot of its own, a lease needs a known origin.
BrowserDialog ==
    /\ \E target \in Targets, tab \in Tabs : Addressed(target, tab)
    /\ CurrentOriginAllowed(Met)
    /\ BrowserNavigate
    /\ page' = ClearSnapshot(page)
    /\ handed' = Handed("dialog", Met, Nobody)
    /\ UNCHANGED <<lease, asked, clipboard, vault, capture>>

\* browser_prepare is outside a pinned lease and keeps the binding.
BrowserPrepare ==
    /\ ~Pinned
    /\ BrowserNavigate
    /\ page' = ClearSnapshot(page)
    /\ UNCHANGED <<lease, asked, clipboard, vault, capture>>
    /\ handed' = NoCall

(***************************************************************************)
(* Secrets.                                                                *)
(***************************************************************************)
DecidesAny(request, decision) ==   \* mutant: the digest is not compared
    decision.action = "allow"

\* authorize_action_confirmation: an answer counts for the request whose
\* digest it carries.
Decides(request, decision) ==
    /\ decision.request = request
    /\ decision.action = "allow"

\* The decision the embedding host returns may be one the user took about an
\* earlier request; an answer that fails or never comes is no decision.
Decisions == [request : 1..Len(asked'), action : {"allow", "deny"}]

\* resolve_browser_type_request, then type_text.
BrowserTypeSecret ==
    \E r \in Requests :
        /\ Served
        /\ session.semantic
        /\ DocumentAuthorized(r)
        /\ Begun.browserEpoch = Begun.synced
        /\ Begun.snap # None
        /\ CurrentOriginAllowed(page)
        /\ RequireMutationTarget(page, r)
        /\ IF lease.held
           THEN /\ lease.secret
                /\ asked' = asked
                /\ vault # Empty
                /\ InputOn(r, [by |-> "lease", at |-> PageOf(page)])
           ELSE /\ Len(asked) < MaxAsked
                /\ asked' = Append(asked, PageOf(page))
                /\ \/ /\ session' = Begun
                      /\ handed' = NoCall
                      /\ UNCHANGED <<used, page>>
                   \/ \E d \in Decisions :
                         /\ Decides(Len(asked'), d)
                         /\ vault # Empty
                         /\ InputOn(r, [by |-> "user", at |-> asked'[d.request]])
        /\ UNCHANGED <<lease, clipboard, vault, capture>>

\* A tool bound to the session that reaches no window: it may find the window
\* gone, the provider's lease due, or fail.
BoundCalls(s) ==
    IF ~s.active THEN {Outcome(s, "other", FALSE)}
    ELSE PreDispatches(s) \cup {Outcome(s, "ok", FALSE)}

Idle == [at |-> "idle", value |-> Empty]

\* capture_clipboard_secret up to its read: on the latest observation, and
\* with the consent that Decides describes, here the user's or the lease's.
CaptureRead ==
    /\ Served
    /\ capture = Idle
    /\ session.semantic
    /\ Begun.hostObs # None
    /\ lease.held => lease.secret
    /\ \E o \in BoundCalls(Begun) :
          /\ session' = Finished(o.s, o.code)
          /\ capture' = IF o.code = "ok" /\ clipboard # Empty
                        THEN [at |-> "store", value |-> clipboard] ELSE Idle
    /\ Follows
    /\ UNCHANGED <<used, lease, asked, clipboard, vault>>
    /\ handed' = NoCall

CaptureStoreAfterClear ==   \* mutant: the clipboard is emptied before the value is stored
    /\ capture.at = "store"
    /\ clipboard' = Empty
    /\ \/ vault' = capture.value /\ capture' = Idle
       \/ vault' = vault /\ capture' = Idle
    /\ UNCHANGED <<vars, lease, page, asked>>
    /\ handed' = NoCall

\* The vault takes the value, or fails and the request with it.
CaptureStore ==
    /\ capture.at = "store"
    /\ \/ vault' = capture.value /\ capture' = [capture EXCEPT !.at = "clear"]
       \/ vault' = vault /\ capture' = Idle
    /\ UNCHANGED <<vars, lease, page, asked, clipboard>>
    /\ handed' = NoCall

\* Clearing the clipboard is reported, not required; a write that failed may
\* have happened.
CaptureClear ==
    /\ capture.at = "clear"
    /\ \E o \in BoundCalls(session) :
          /\ session' = Finished(o.s, o.code)
          /\ clipboard' \in IF o.code = "ok" THEN {Empty}
                            ELSE IF o.code = "other" /\ o.s.active THEN {Empty, clipboard}
                            ELSE {clipboard}
    /\ capture' = Idle
    /\ Follows
    /\ UNCHANGED <<used, lease, asked, vault>>
    /\ handed' = NoCall

\* The request is dropped between two awaits: the connection ends and takes
\* the session along.
CaptureDropped ==
    /\ capture # Idle
    /\ capture' = Idle
    /\ session' = InvalidateLocalSession(session)
    /\ Follows
    /\ UNCHANGED <<used, lease, asked, clipboard, vault>>
    /\ handed' = NoCall

\* clipboard_read and clipboard_write of the client.
ClipboardCall ==
    /\ Served
    /\ session.semantic
    /\ \E o \in BoundCalls(Begun) :
          /\ session' = Finished(o.s, o.code)
          /\ \/ clipboard' = clipboard
             \/ o.code = "ok" /\ clipboard' \in Values
    /\ Follows
    /\ UNCHANGED <<used, lease, asked, vault, capture>>
    /\ handed' = NoCall

\* Somebody at the desktop copies a text, at any time.
UserCopies ==
    /\ clipboard' \in Values
    /\ UNCHANGED <<vars, lease, page, asked, vault, capture>>
    /\ handed' = NoCall

(***************************************************************************)
(* The session: one request at a time.                                     *)
(***************************************************************************)
TaskInit ==
    /\ Init
    /\ lease \in Leases
    /\ page = NewBrowserSession(lease)
    /\ asked = <<>>
    /\ clipboard = Empty
    /\ vault \in Values \cup {Empty}   \* it outlives the session
    /\ capture = Idle
    /\ handed = NoCall

\* The requests that do not concern the browser.
WindowRequest ==
    /\ \/ Snapshot
       \/ SnapshotActivateBefore
       \/ AccessibilitySnapshot
       \/ WaitFor
       \/ ExecuteAction
       \/ WindowMutation
       \/ MinimizeWindow
       \/ CallTool
       \/ Sample
       \/ StopCore
       \/ ResumeSession
    /\ Follows
    /\ UNCHANGED <<lease, asked, clipboard, vault, capture>>
    /\ handed' = NoCall

Request ==
    /\ capture = Idle
    /\ \/ WindowRequest
       \/ BrowserBind
       \/ BrowserSnapshotTab
       \/ BrowserMutation
       \/ BrowserNavigateTo
       \/ BrowserDialog
       \/ BrowserPrepare
       \/ BrowserTypeSecret
       \/ ClipboardCall
       \/ CaptureRead

TaskNext ==
    \/ Request
    \/ CaptureStore
    \/ CaptureClear
    \/ CaptureDropped
    \/ UserCopies

TaskSpec == TaskInit /\ [][TaskNext]_allVars

(***************************************************************************)
(* Properties.                                                             *)
(***************************************************************************)
\* What BrowserSession knows of the page and the Host's evidence agree: a tab,
\* an origin or a continuation survive no step that ended the snapshot, and a
\* continuation belongs to the snapshot it continues.
PageFollowsEvidence ==
    /\ page.doc # NoDoc <=> session.snap # None
    /\ page.doc = NoDoc => page = ClearSnapshot(page)
    /\ page.pending # NoPending => page.pending.doc = page.doc /\ page.pending.tab = page.tab

InScope ==
    lease.held /\ handed.kind # "none" =>
        /\ handed.kind # "navigate" => handed.seen /\ handed.at.origin \in lease.origins
        /\ Pinned => handed.seen /\ handed.at = lease.scope

AsConsented == handed.consent # Nobody => handed.consent.at = handed.at

\* What is handed to the core for the browser is what somebody allowed, about
\* the page the evidence is of (PageFollowsEvidence).  Under
\* a lease it rests on a snapshot that still counts and that showed an allowed
\* origin, and a pinned lease saw exactly its target, tab, document and origin,
\* through any sequence of rebinding, navigation, samples and refusals.  A
\* secret goes only to the page its consent names: a user's answer about an
\* earlier dialog, for another page, never releases it.
BrowserCallsAllowed == PageFollowsEvidence /\ InScope /\ AsConsented

\* The Host empties the clipboard only when the text it read from it is in
\* the vault, whatever failed or was copied in between.
SecretKept ==
    [][clipboard # Empty /\ clipboard' = Empty => vault' = capture.value]_allVars
=============================================================================
