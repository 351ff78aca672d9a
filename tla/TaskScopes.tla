----------------------------- MODULE TaskScopes -----------------------------
(***************************************************************************)
(* The rules of task authorization that keep no state: which action scopes *)
(* exist, what a registration may say, what the Host accepts as a lease,   *)
(* how a task grant must agree with its lease, and what a requested action *)
(* needs.  Names and method lists are those of the Host; identifiers,      *)
(* labels and paths are reduced to whether they are there, a browser       *)
(* origin to its membership in Origins.                                    *)
(***************************************************************************)
EXTENDS Naturals, FiniteSets

CONSTANTS
    Origins,    \* the exact HTTP(S) origins (valid_browser_origin)
    None,       \* an absent optional value
    MaxTtl,     \* MAX_TASK_AUTHORIZATION_TTL_MS
    MaxActions  \* MAX_TASK_AUTHORIZATION_ACTIONS

-----------------------------------------------------------------------------
(* Action scopes: [action, kind, secret, category, origin]. *)

NATIVE_ACTIONS == {"move", "scroll", "click", "double_click", "right_click",
    "toggle", "drag", "type", "type_chars", "set_text", "set_value",
    "set_checked", "keypress", "press", "press_key", "keyboard_shortcut", "hotkey"}

PIXELS_INPUT_ACTIONS == {"click", "double_click", "right_click", "toggle", "drag",
    "keypress", "keyboard_shortcut", "type", "type_chars"}

SENSITIVE == {"account_access", "account_security", "content_change", "credential",
    "destructive", "destructive_write", "external_effect", "payment", "publishing"}

WindowScope(name) ==
    [action |-> name, kind |-> "window_state", secret |-> FALSE,
     category |-> "window_state", origin |-> None]

WINDOW_STATE_ACTIONS == {"minimize_window", "native_capture_popup_keyboard",
    "set_window_frame", "dismiss_menu", "capture_preparation_begin"}

IsPixelsInput(a) ==
    /\ a.action \in PIXELS_INPUT_ACTIONS
    /\ a.kind = "raw_input" /\ a.category = "raw_input"
    /\ ~a.secret /\ a.origin = None

ValidScope(a) ==
    \/ a \in {WindowScope(n) : n \in WINDOW_STATE_ACTIONS}
    \/ /\ a.kind = "browser" /\ a.origin \in Origins
       /\ \/ a.action = "browser_type" /\ a.secret /\ a.category = "credential"
          \/ a.action = "browser_extension_navigate" /\ ~a.secret /\ a.category = "external_effect"
    \/ /\ a.kind = "clipboard" /\ a.origin = None
       /\ a.action = "clipboard_capture_secret" /\ a.secret /\ a.category = "credential"
    \/ /\ a.kind = "raw_input" /\ a.origin = None
       /\ a.action \in NATIVE_ACTIONS /\ a.category \in {"raw_input", "credential"}
    \/ /\ a.kind = "semantic" /\ a.origin = None
       /\ a.action \in NATIVE_ACTIONS /\ a.category \in SENSITIVE \union {"task_grant"}
       /\ (a.category = "task_grant" => ~a.secret)

-----------------------------------------------------------------------------
(* Registrations and leases.  A registration is                            *)
(* [task, target, methods, actions, origins, scope, recording, preparation]*)
(* with target in {"exact", "owned", "bootstrap"}, scope the origin of an  *)
(* exact browser document or None, recording and preparation the two       *)
(* directories or None.                                                    *)

RECORDING == {"recording_start", "recording_state", "recording_stop"}

LIVE == {"live_observation_start", "live_observation_state", "live_observation_stop"}

PREPARATION == {"capture_preparation_begin", "capture_preparation_state",
    "capture_preparation_stop", "capture_preparation_snapshot"}

PIXELS_METHODS == {"get_window_state", "change_window_state", "minimize_window",
    "set_window_frame", "snapshot", "execute_action", "get_session_state",
    "get_input_state", "session_health", "poll_session_events"}
    \union LIVE \union RECORDING \union PREPARATION

PermitsMethod(mode, method) == mode = "semantic" \/ method \in PIXELS_METHODS

BROWSER_METHODS == {"browser_extension_status", "browser_extension_call",
    "browser_snapshot", "browser_prepare", "browser_navigate", "browser_click",
    "browser_type", "browser_pointer", "browser_set_input_files",
    "browser_download", "browser_dialog"}

AUTHORIZABLE == PIXELS_METHODS \union BROWSER_METHODS \union
    {"terminate_app", "clipboard_read", "clipboard_capture_secret", "clipboard_write",
     "invoke_menu", "zoom", "accessibility_snapshot", "verify_state", "call_tool",
     "find", "wait_for", "resume_session", "cursor_tool", "escalate_session"}

\* What a registration with a journal must permit besides.
PREPARATION_NEEDS == {"get_window_state", "capture_preparation_begin",
    "capture_preparation_state", "capture_preparation_stop"}

Prepares(r) == WindowScope("capture_preparation_begin") \in r.actions

\* The broker's check of a registration that expires at e (validate_registration);
\* ordinary are the directories that are there, without a link on their path.
ValidRegistration(r, e, now, ordinary) ==
    /\ e > now /\ e - now <= MaxTtl
    /\ Cardinality(r.actions) <= MaxActions /\ \A a \in r.actions : ValidScope(a)
    /\ r.methods # {} /\ r.methods \subseteq AUTHORIZABLE
    /\ (r.methods \cap PREPARATION # {}) = (r.preparation # None)
    /\ Prepares(r) = (r.preparation # None)
    /\ r.preparation # None =>
         /\ r.target = "exact" /\ r.preparation \in ordinary
         /\ r.recording # r.preparation
         /\ r.scope = None /\ r.origins = {}
         /\ PREPARATION_NEEDS \subseteq r.methods
    /\ r.recording # None =>
         r.target = "exact" /\ r.recording \in ordinary /\ RECORDING \subseteq r.methods
    /\ Cardinality(r.origins) <= MaxActions /\ r.origins \subseteq Origins
    /\ r.scope # None => /\ r.scope \in Origins /\ r.target = "exact"
                         /\ r.origins = {r.scope}
                         /\ "browser_snapshot" \in r.methods

\* Mutant: a lease must name an action, as if observation alone were no task.
ValidLeaseNeedsActions(r, issued, e, now, ordinary) ==
    /\ issued <= now /\ e > now /\ e - issued <= MaxTtl
    /\ r.actions # {} /\ \A a \in r.actions : ValidScope(a)
    /\ r.preparation # None => r.preparation \in ordinary

\* The Host's own check of the lease a broker hands it (validate_lease), made
\* when it is issued and whenever it is used: it reads the clock and the
\* journal's directory again, but not the recording's.
ValidLease(r, issued, e, now, ordinary) ==
    /\ issued <= now /\ e > now /\ e - issued <= MaxTtl
    /\ r.methods # {} /\ r.methods \subseteq AUTHORIZABLE
    /\ \A a \in r.actions : ValidScope(a)
    /\ Cardinality(r.actions) <= MaxActions
    /\ \A o \in r.origins : o \in Origins
    /\ Cardinality(r.origins) <= MaxActions
    /\ r.scope # None => r.scope \in Origins /\ r.origins = {r.scope}
    /\ r.recording # None => RECORDING \subseteq r.methods
    /\ IF r.preparation = None
       THEN r.methods \cap PREPARATION = {} /\ ~Prepares(r)
       ELSE /\ Prepares(r) /\ PREPARATION_NEEDS \subseteq r.methods
            /\ r.preparation \in ordinary /\ r.recording # r.preparation
            /\ r.scope = None /\ r.origins = {}

\* What a verifier accepts as a challenge; a bootstrap names its one step.
ValidChallenge(r, e, now) ==
    /\ e > now /\ e - now <= MaxTtl
    /\ r.methods # {}
    /\ \/ r.target = "bootstrap" /\ r.actions = {} /\ r.origins = {}
       \/ /\ r.target = "exact" /\ r.methods \subseteq AUTHORIZABLE
          /\ r.actions # {} /\ Cardinality(r.actions) <= MaxActions
          /\ \A a \in r.actions : ValidScope(a)
          /\ Cardinality(r.origins) <= MaxActions /\ r.origins \subseteq Origins
          /\ r.scope = None => /\ r.origins = {} /\ r.methods \cap BROWSER_METHODS = {}
                               /\ \A a \in r.actions : a.origin = None
          /\ r.scope # None =>
               /\ r.scope \in Origins /\ r.origins = {r.scope}
               /\ "browser_snapshot" \in r.methods
               /\ r.methods \cap {"browser_prepare", "browser_extension_status",
                                  "browser_extension_call"} = {}
               /\ \A a \in r.actions : a.origin = r.scope

\* A lease that may reach a login application carries a native permission.
GrantsNativeTarget(r) ==
    \E a \in r.actions :
        /\ a.category \in {"credential", "account_access"}
        /\ \/ a.kind \in {"semantic", "raw_input"} /\ "execute_action" \in r.methods
           \/ a.kind = "browser" /\ a.action = "browser_type" /\ a.secret
              /\ "browser_type" \in r.methods

-----------------------------------------------------------------------------
(* Task grants: [auth, mode, owned, raw, recording, live, preparation,      *)
(* output, showcase, origins, confirm, activate].                          *)

ValidGrant(g) ==
    /\ g.owned => g.auth # None /\ g.mode = "semantic"
    /\ g.preparation => g.mode = "pixels" /\ g.auth # None
    /\ (g.showcase \/ g.output # None) => g.recording
    /\ (g.mode = "pixels" /\ g.recording) =>
         g.output # None /\ g.auth # None /\ ~g.showcase /\ g.live
    /\ Cardinality(g.origins) <= MaxActions /\ g.origins \subseteq Origins

GrantMatchesLease(g, r) ==
    /\ g.preparation = (r.preparation # None)
    /\ r.preparation # None => g.mode = "pixels"
    /\ (g.output # None \/ r.recording # None) => g.mode = "pixels"
    /\ WindowScope("dismiss_menu") \in r.actions =>
         g.mode = "pixels" /\ {"get_window_state", "change_window_state"} \subseteq r.methods
    /\ g.mode = "pixels" =>
         LET raw == \E a \in r.actions : IsPixelsInput(a) IN
         /\ g.raw = raw
         /\ \A a \in r.actions : a.kind = "window_state" \/ IsPixelsInput(a)
         /\ "execute_action" \in r.methods => raw
         /\ "set_window_frame" \in r.methods =>
              WindowScope("set_window_frame") \in r.actions /\ "get_window_state" \in r.methods
         /\ IF g.recording
            THEN g.output = r.recording /\ r.recording # None /\ RECORDING \subseteq r.methods
            ELSE g.output = None /\ r.recording = None
         /\ "recording_start" \in r.methods => RECORDING \subseteq r.methods
         /\ "live_observation_start" \in r.methods => LIVE \subseteq r.methods
    /\ g.origins = r.origins
    /\ g.showcase => "recording_start" \in r.methods

-----------------------------------------------------------------------------
(* Requested actions: [action, kind, secret, keys, routine, element], with *)
(* element the classification of the addressed accessibility element,      *)
(* [tier, category], or None.  routine says that the action has the plain  *)
(* foreground form is_task_granted_pointer/keyboard_input asks for.        *)

UsesPhysicalKeyboard(x) ==
    x.keys \/ x.action \in {"keypress", "press", "press_key", "keyboard_shortcut", "hotkey"}

POINTER == {"click", "double_click", "right_click", "toggle", "drag"}

BaseTier(x) ==
    CASE UsesPhysicalKeyboard(x) ->
           IF x.kind = "raw_input" /\ x.routine /\ x.keys THEN "task_grant" ELSE "action_confirmation"
      [] ~UsesPhysicalKeyboard(x) /\ x.kind = "semantic" ->
           IF x.element = None THEN "hard_deny" ELSE x.element.tier
      [] ~UsesPhysicalKeyboard(x) /\ x.kind = "raw_input" ->
           IF x.action \in {"move", "scroll"} \/ (x.action \in POINTER /\ x.routine)
           THEN "task_grant"
           ELSE IF x.action \in POINTER \union {"type", "type_chars", "set_text",
                                                "set_value", "set_checked"}
           THEN "action_confirmation" ELSE "hard_deny"
      [] OTHER -> "hard_deny"

SafetyTier(x) ==
    IF x.secret /\ BaseTier(x) # "hard_deny" THEN "action_confirmation" ELSE BaseTier(x)

RequiresConfirmation(x) == SafetyTier(x) \in {"action_confirmation", "pre_approval"}

AuthorizationCategory(x) ==
    IF x.secret THEN "credential"
    ELSE IF x.kind = "raw_input" \/ UsesPhysicalKeyboard(x) THEN "raw_input"
    ELSE IF x.element # None /\ x.element.category \in SENSITIVE THEN x.element.category
    ELSE IF x.element # None /\ x.element.tier = "task_grant" THEN "task_grant"
    ELSE "unclassified_sensitive"

\* The scope a confirmation request stands for.
FromConfirmation(x) ==
    [action |-> x.action, kind |-> x.kind, secret |-> x.secret,
     category |-> AuthorizationCategory(x), origin |-> None]

ValidSecretSource(x) ==
    x.secret => x.action \in {"type", "type_chars", "set_text", "set_value"}

\* require_pixels_input_grant: no selector, no secret, an action of the lease.
PixelsInputGranted(x, raw, r) ==
    /\ x.kind = "raw_input" /\ x.action \in PIXELS_INPUT_ACTIONS
    /\ x.element = None /\ ~x.secret
    /\ raw /\ "execute_action" \in r.methods
    /\ \E a \in r.actions : IsPixelsInput(a) /\ a.action = x.action
=============================================================================
