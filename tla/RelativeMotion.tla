--------------------------- MODULE RelativeMotion ---------------------------
(* The calibration of run_windows_calibrated_relative_path on one axis: the  *)
(* relative command for a residual, and when a waypoint counts as reached.   *)
EXTENDS Integers

MaxAttemptsPerWaypoint == 6
EndpointTolerance == 0
StallTolerance == 1
IntermediateTolerance == 1
DampingMinEffectiveCommand == 2
EscapeMaxResidual == 3
EscapeMaxCommand == 4

Abs(x) == IF x < 0 THEN -x ELSE x
Sgn(x) == CASE x < 0 -> -1 [] x = 0 -> 0 [] OTHER -> 1
Larger(a, b) == IF a > b THEN a ELSE b
Smaller(a, b) == IF a < b THEN a ELSE b

\* What a waypoint remembers of its previous attempt, if there was one.
NoAttempt == [has |-> FALSE, residual |-> 0, command |-> 0, motion |-> 0]

\* Position of waypoint i of a path, rounded half away from zero.
Waypoint(source, destination, i, steps) ==
    LET way == (destination - source) * i
    IN source + Sgn(way) * ((2 * Abs(way) + steps) \div (2 * steps))

CursorReached(actual, expected, tolerance) == Abs(actual - expected) <= tolerance

ResidualCrossedTarget(last, residual) ==
    last.has /\ last.residual # 0 /\ residual # 0 /\ Sgn(last.residual) # Sgn(residual)

MinimumEffective(residual) == IF Abs(residual) > 1 THEN DampingMinEffectiveCommand ELSE 1

RelativeCommandForResidual(residual, damped) ==
    IF ~damped THEN residual
    ELSE Sgn(residual) * Larger(Abs(residual) \div 2, MinimumEffective(residual))

\* Scaled by the motion the last command caused once the target was crossed,
\* and never beyond the residual the waypoint began with.
BoundedRelativeCommand(residual, last, trust) ==
    LET crossed == ResidualCrossedTarget(last, residual)
        legacy == Abs(RelativeCommandForResidual(residual, crossed))
        before == Abs(last.command)
        adapts == /\ crossed
                  /\ last.command # 0 /\ last.motion # 0
                  /\ Sgn(last.command) = Sgn(last.motion)
                  /\ legacy > before
        adaptive == Smaller(before,
                        Larger((Abs(residual) * before) \div Abs(last.motion),
                               Smaller(MinimumEffective(residual), before)))
    IN Sgn(residual) * Smaller(IF adapts THEN adaptive ELSE legacy, trust)

\* A command that did not move the cursor is followed by a stronger one.
StagnationEscapeCommand(residual, command, last) ==
    IF /\ last.has /\ residual # 0 /\ Abs(residual) <= EscapeMaxResidual
       /\ last.motion = 0
       /\ last.command # 0 /\ Sgn(last.command) = Sgn(residual)
    THEN Sgn(residual) * Smaller(Larger(Abs(command), Abs(last.command) + 1), EscapeMaxCommand)
    ELSE command

RelativeCommand(residual, last, trust) ==
    StagnationEscapeCommand(residual, BoundedRelativeCommand(residual, last, trust), last)

\* Within the configured tolerance, within a pixel on the way, or one pixel
\* off and not moving.
CompletionRule(actual, target, final, last) ==
    \/ CursorReached(actual, target, EndpointTolerance)
    \/ /\ last.has /\ ~final /\ last.motion # 0
       /\ CursorReached(actual, target, IntermediateTolerance)
    \/ /\ last.has /\ last.motion = 0 /\ Abs(last.command) = 1
       /\ CursorReached(actual, target, StallTolerance)

\* Completion of a waypoint after an attempt.
Completed(actual, target, final, last) == CompletionRule(actual, target, final, last)

=============================================================================
