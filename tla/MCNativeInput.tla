--------------------------- MODULE MCNativeInput ---------------------------
(* A small instance of NativeInput: one request for each way through it. *)
EXTENDS NativeInput

OnePixel == {-1, 1}

Plain == [kind |-> "click", backend |-> "default", button |-> "left", clicks |-> 1, keys |-> <<>>,
          points |-> 2, steps |-> 1, destination |-> 1, hold |-> FALSE, elevated |-> FALSE]

DoubleClick == [Plain EXCEPT !.clicks = 2, !.keys = <<"ctrl", "shift">>]
HeldClick == [Plain EXCEPT !.hold = TRUE]
ElevatedClick == [Plain EXCEPT !.elevated = TRUE]
HeldKeys == [Plain EXCEPT !.kind = "keys", !.hold = TRUE, !.keys = <<"ctrl", "c">>, !.clicks = 0,
                           !.button = "none"]
OneKey == [HeldKeys EXCEPT !.hold = FALSE, !.keys = <<"c">>]
CursorMove == [Plain EXCEPT !.kind = "move", !.clicks = 0, !.button = "none"]

Drag(backend) == [Plain EXCEPT !.kind = "drag", !.backend = backend, !.steps = 2, !.destination = 5]
RightDrag == [Drag("default") EXCEPT !.button = "right"]
BlockedDrag == [Drag("send_input") EXCEPT !.elevated = TRUE]

ForegroundRequests ==
    {DoubleClick, HeldClick, ElevatedClick, HeldKeys, OneKey, CursorMove, RightDrag, BlockedDrag}
    \cup {Drag(b) : b \in {"send_input", "relative", "combined", "touch"}}

Pixel == [kind |-> "click", button |-> "left", clicks |-> 2, keys |-> <<"ctrl", "shift">>,
          points |-> 3, hold |-> FALSE, popup |-> FALSE]
PixelDrag == [Pixel EXCEPT !.kind = "drag", !.clicks = 1, !.keys = <<>>]
PixelKeys == [Pixel EXCEPT !.kind = "keys", !.button = "none", !.clicks = 0, !.hold = TRUE]
PixelText == [Pixel EXCEPT !.kind = "text", !.button = "none", !.clicks = 0, !.keys = <<"c">>]
PopupKey == [PixelKeys EXCEPT !.hold = FALSE, !.popup = TRUE]
PopupHold == [PixelKeys EXCEPT !.popup = TRUE]

PixelHeldClick == [Pixel EXCEPT !.hold = TRUE]

GuardedRequests == {Pixel, PixelHeldClick, PixelDrag, PixelKeys, PixelText, PopupKey, PopupHold}
=============================================================================
