----------------------------- MODULE InputDevice -----------------------------
(* The desktop as the Windows input back ends meet it: the window they act   *)
(* for, which window is in the foreground, the buttons and keys that are     *)
(* down, the cursor, and SendInput, which inserts a prefix of the batch it   *)
(* is given.  Positions are on one axis.  The user, other programs and the   *)
(* system may change all of it between any two steps of a call.              *)
EXTENDS Integers, Sequences, FiniteSets, SequencesExt

CONSTANTS
    Relations,      \* WindowsForegroundRelation values that occur
    Nudges,         \* how far somebody else may move the cursor at a time
    MaxFaults       \* disturbances and cut injections in a behaviour

ASSUME RelationsAssumption == "ExactTarget" \in Relations
ASSUME NudgesAssumption == Nudges \subseteq Int
ASSUME FaultsAssumption == MaxFaults \in Nat

VARIABLES
    fg,       \* relation of the foreground window to the target
    window,   \* state of the target: "ok", "minimized" or "gone" (closed or reused)
    desk,     \* the interactive desktop accepts input
    stops,    \* interrupt generation
    popup,    \* the capture popup a request was observed with: "none", "open", "closed"
    held,     \* buttons and keys that are down
    cursor,   \* position of the OS cursor
    trail,    \* what the current call has done to the desktop (history)
    faults    \* disturbances that are left

world == <<fg, window, desk, stops, popup>>
device == <<held, cursor, trail>>
deviceVars == <<world, device, faults>>

Buttons == {"left", "right"}
WindowStates == {"ok", "minimized", "gone"}

\* touched: the desktop has felt the call; pressed: what it pressed; downs: its
\* button presses;
\* astray: injections, releases aside, in the present absence of the target;
\* late: injections after a stop; stuck: keys whose release was refused; drift:
\* how far others have moved the cursor since the call last placed or read it.
NoTrail == [touched |-> FALSE, pressed |-> {}, downs |-> 0, astray |-> 0, late |-> 0, stuck |-> {},
            drift |-> 0]

\* What is left of the history when the next call begins.
Fresh == [NoTrail EXCEPT !.stuck = trail.stuck \cap held]

Home == 0

-----------------------------------------------------------------------------
(* Events of a SendInput batch. *)

Move(x) == <<"move", x>>
Slide(d) == <<"slide", d>>
Down(k) == <<"down", k>>
Up(k) == <<"up", k>>
Letter == <<"letter", "c">>

\* A press and a release of key k.
IsDown(e, k) == e[1] = "down" /\ e[2] = k
IsUp(e, k) == e[1] = "up" /\ e[2] = k
NoUp(events, k) == \A j \in DOMAIN events : ~IsUp(events[j], k)

\* Key k is down behind the events: no release follows its last press.
StaysDown(events, k) ==
    \/ k \in held /\ NoUp(events, k)
    \/ \E i \in DOMAIN events :
        /\ IsDown(events[i], k)
        /\ \A j \in DOMAIN events : j > i => ~IsUp(events[j], k)

\* The cursor behind the events; no batch has more than one event that moves it.
Moves(e) == e[1] \in {"move", "slide"}
CursorFollows(events) ==
    \/ (\A i \in DOMAIN events : ~Moves(events[i])) /\ cursor' = cursor
    \/ \E i \in DOMAIN events :
        /\ Moves(events[i])
        /\ cursor' = IF events[i][1] = "move" THEN events[i][2] ELSE cursor + events[i][2]

Pressed(events) == {events[i][2] : i \in {j \in DOMAIN events : events[j][1] = "down"}}
Lifted(events) == {events[i][2] : i \in {j \in DOMAIN events : events[j][1] = "up"}}
Presses(events) ==
    Cardinality({j \in DOMAIN events : events[j][1] = "down" /\ events[j][2] \in Buttons})
OnlyReleases(events) == \A j \in DOMAIN events : events[j][1] = "up"

AtMost(cap, n) == IF n > cap THEN cap ELSE n
Away == fg # "ExactTarget" \/ window # "ok" \/ popup = "closed"

\* The history after the events of a batch in done, with the rest refused.
Trace(done, rest, begun) ==
    [touched |-> trail.touched \/ done # <<>>,
     pressed |-> trail.pressed \cup Pressed(done),
     downs |-> AtMost(3, trail.downs + Presses(done)),
     astray |-> IF Away /\ done # <<>> /\ ~OnlyReleases(done)
                THEN AtMost(3, trail.astray + 1) ELSE trail.astray,
     late |-> IF stops # begun /\ done # <<>> /\ ~OnlyReleases(done)
              THEN AtMost(2, trail.late + 1) ELSE trail.late,
     stuck |-> (trail.stuck \ Lifted(done)) \cup (Lifted(rest) \cap held),
     drift |-> IF \A i \in DOMAIN done : ~Moves(done[i]) THEN trail.drift ELSE 0]

\* submit: SendInput inserts the first n events of a batch.  begun is the
\* interrupt generation the call started at.
Submit(batch, n, begun) ==
    LET done == SubSeq(batch, 1, n)
        rest == SubSeq(batch, n + 1, Len(batch))
    IN /\ n = Len(batch) \/ faults > 0
       /\ faults' = IF n = Len(batch) THEN faults ELSE faults - 1
       /\ held' = {k \in held \cup Pressed(done) : StaysDown(done, k)}
       /\ CursorFollows(done)
       /\ trail' = Trace(done, rest, begun)

\* inject_consumable_mouse_move: SetCursorPos, then the same move as input;
\* ok says whether both were accepted.  A refused one may have moved the cursor.
Consumable(x, ok, begun) ==
    \/ ok /\ Submit(<<Move(x)>>, 1, begun)
    \/ ~ok /\ Submit(<<Move(x)>>, 0, begun)
    \/ /\ ~ok /\ faults > 0
       /\ faults' = faults - 1
       /\ cursor' = x
       /\ trail' = Trace(<<Move(x)>>, <<>>, begun)
       /\ UNCHANGED held

-----------------------------------------------------------------------------
(* What can be read of the desktop. *)

TargetCurrent == window # "gone"
Exact == fg = "ExactTarget"

-----------------------------------------------------------------------------
(* Other programs, the user and the system. *)

\* The target is back, or still away.
Absence == trail' = IF fg' = "ExactTarget" /\ window' = "ok" THEN [trail EXCEPT !.astray = 0] ELSE trail

FocusChanges ==
    /\ faults > 0
    /\ \E r \in Relations \ {fg} :
        /\ r = "ExactTarget" => window = "ok"
        /\ fg' = r
    /\ faults' = faults - 1
    /\ UNCHANGED window
    /\ Absence
    /\ UNCHANGED <<desk, stops, popup, held, cursor>>

WindowChanges ==
    /\ faults > 0 /\ window # "gone"
    /\ \E w \in WindowStates \ {window} :
        /\ window' = w
        /\ IF w = "ok" \/ ~Exact THEN UNCHANGED fg
           ELSE fg' \in Relations \ {"ExactTarget"}
    /\ faults' = faults - 1
    /\ Absence
    /\ UNCHANGED <<desk, stops, popup, held, cursor>>

DesktopChanges ==
    /\ faults > 0
    /\ desk' = ~desk
    /\ faults' = faults - 1
    /\ UNCHANGED <<fg, window, stops, popup, device>>

UserStops ==
    /\ faults > 0
    /\ stops' = stops + 1
    /\ faults' = faults - 1
    /\ UNCHANGED <<fg, window, desk, popup, device>>

\* Somebody else moves the mouse.  A call that has injected nothing yet places the
\* cursor before it relies on where it is.
CursorNudged ==
    /\ faults > 0 /\ trail.touched
    /\ \E d \in Nudges :
        /\ cursor' = cursor + d
        /\ trail' = [trail EXCEPT !.drift = @ + d]
    /\ faults' = faults - 1
    /\ UNCHANGED <<world, held>>

\* The popup goes away, often because of the very key that was sent to it.
PopupCloses ==
    /\ popup = "open"
    /\ popup' = "closed"
    /\ UNCHANGED <<fg, window, desk, stops, device, faults>>

DeviceInit ==
    /\ fg \in Relations
    /\ window = "ok"
    /\ desk = TRUE
    /\ stops = 0
    /\ popup = "none"
    /\ held = {}
    /\ cursor = Home
    /\ trail = NoTrail
    /\ faults = MaxFaults

Disturbance ==
    \/ FocusChanges \/ WindowChanges \/ DesktopChanges \/ UserStops \/ CursorNudged \/ PopupCloses
=============================================================================
