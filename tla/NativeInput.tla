----------------------------- MODULE NativeInput -----------------------------
(* One native input call after the other on a shared desktop: the local fast *)
(* path of an ordinary session and the guarded path of a pixels-only one.    *)
(* Raw input is exclusive (HostControl), so calls do not overlap; the user,  *)
(* other programs and the system act between any two of their steps.         *)
EXTENDS ForegroundInput, GuardedInput

CONSTANTS
    Foreground,     \* requests of the fast path that occur
    Guarded         \* requests of the guarded path that occur

\* Names of keys; a button is not one.
KeyNames == STRING \ Buttons

ForegroundRequest ==
    [kind : {"click", "drag", "keys", "move"},
     backend : {"default", "send_input", "relative", "combined", "touch"},
     button : Buttons \cup {"none"}, clicks : Nat, keys : Seq(KeyNames),
     points : Nat, steps : Nat, destination : Int, hold : BOOLEAN, elevated : BOOLEAN]

GuardedRequest ==
    [kind : {"click", "drag", "keys", "text"}, button : Buttons \cup {"none"}, clicks : Nat,
     keys : Seq(KeyNames), points : Nat, hold : BOOLEAN, popup : BOOLEAN]

\* A click is one press or more (requested_clicks), a drag is one press.
ASSUME RequestsAssumption ==
    /\ Foreground \subseteq ForegroundRequest
    /\ Guarded \subseteq GuardedRequest
    /\ \A r \in Foreground \cup Guarded : r.kind \in {"click", "drag"} => r.clicks > 0

nativeVars == <<deviceVars, act, call, guard>>

InputInit ==
    /\ DeviceInit
    /\ act = NoActivation
    /\ call = NoCall
    /\ guard = NoGuard

CallsForeground == /\ guard.pc = "idle"
                   /\ \E r \in Foreground : ForegroundBegin(r)
                   /\ UNCHANGED guard
CallsGuarded == /\ call.pc = "idle"
                /\ \E r \in Guarded : GuardBegin(r)
                /\ UNCHANGED <<act, call>>

Activates == ActivationStep /\ UNCHANGED <<call, guard>>
FastPath == (Activated \/ ForegroundStep \/ Returned) /\ UNCHANGED guard
GuardedPath == (GuardStep \/ GuardReturned) /\ UNCHANGED <<act, call>>
Disturbs == Disturbance /\ UNCHANGED <<act, call, guard>>

\* The program's own steps once it has been called.
Program == Activates \/ FastPath \/ GuardedPath

InputNext == CallsForeground \/ CallsGuarded \/ Program \/ Disturbs

\* A called function runs to its end; nobody has to call it.
InputSpec == InputInit /\ [][InputNext]_nativeVars /\ WF_nativeVars(Program)

-----------------------------------------------------------------------------

Returning == call.pc = "return" \/ guard.pc = "return"

\* Whatever a call pressed is up again when it returns: on every path through
\* errors, stops and partial injections the only keys still down are those
\* whose release the system itself refused, and a call that reports success
\* has none of its own among them (release_all_keys, emergency button-up,
\* drag button-up, Transaction::cleanup).  Nor does an activation leave an
\* input queue of another thread attached.
NothingLeftHeld ==
    /\ Returning => held \subseteq trail.stuck
    /\ \A c \in {call, guard} :
        c.pc = "return" /\ c.status = "succeeded" =>
            held \cap trail.pressed = {}
    /\ act.phase \in {"idle", "done"} => act.attached = {}

\* Fenced back ends look at the target before they inject: once it is away at
\* most the one injection behind a passed check reaches another window, and in
\* the guarded path at most one follows a stop.  The relative drag looks for
\* the first time behind its button-down, so it may lose two.
StrayBounded ==
    /\ guard.pc # "idle" => trail.astray =< 1 /\ trail.late =< 1
    /\ call.pc # "idle" /\ call.req.kind = "drag" =>
        /\ Backend = "combined" => trail.astray =< 1
        /\ Backend = "relative" => trail.astray =< 2

\* A result that says no input was sent is true: the desktop has felt nothing
\* of the call, so the caller may repeat it; and a drag that succeeded brought
\* its load to the spot, or one unit beside it where a relative move no longer
\* changed the cursor: the drop is off by no more than what others have moved
\* the mouse since the last move or look, whatever they did to it before.  No
\* button goes down more often than the request says: a retry never repeats a
\* click the system may already have taken.
HonestResult ==
    /\ call.pc = "return" /\ call.sent = "NotSent" => ~trail.touched
    /\ guard.pc = "return" /\ guard.sent = "NotSent" => ~trail.touched
    /\ (call.pc = "return" /\ call.req.kind = "drag" /\ call.status = "succeeded" /\ Backend # "touch")
            => LET brought == cursor - trail.drift
               IN \/ brought = call.req.destination
                  \/ /\ Backend = "relative" /\ call.last.motion = 0
                     /\ Abs(brought - call.req.destination) = 1
    /\ \A c \in {call, guard} : c.pc # "idle" => trail.downs =< c.req.clicks

\* Every call ends, however the desktop behaves.
InputEnds == (call.pc # "idle" \/ guard.pc # "idle") ~> (call.pc = "idle" /\ guard.pc = "idle")
=============================================================================
