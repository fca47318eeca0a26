------------------------------- MODULE Needles -------------------------------
(***************************************************************************)
(* A needle of the dashboard, DashboardAnimator::advance in                *)
(* src/src/main.rs: from frame to frame it follows what the telemetry says *)
(* by then, however late the frame.  The provider it belongs to was first  *)
(* seen after the ignition sweep, which aims every needle at both ends.    *)
(***************************************************************************)
EXTENDS Instruments

CONSTANTS
  FrameTimes,   \* times between two frames of the render loop
  Readings,     \* what the telemetry may say
  MaxFrames     \* bound: frames drawn

VARIABLES
  dial,       \* the dial the needle is on
  needle,     \* its angle and velocity
  aims,       \* history: the values it was aimed at so far, that of its start included
  frames      \* how many frames were drawn

vars == <<dial, needle, aims, frames>>

\* A needle that is not initialized yet starts at the beginning of its dial.
Init ==
  /\ dial \in {Revs, Speed, Level}
  /\ needle = AtRest(dial.gauge.start)
  /\ aims = {0}
  /\ frames = 0

\* The next frame, dt after the last one.
Redraw(reading, dt) ==
  /\ frames < MaxFrames
  /\ needle' = AdvanceNeedle(needle, AngleOf(dial.gauge, reading), dt, dial.omega)
  /\ aims' = aims \cup {Clamp(reading, 0, dial.gauge.max)}
  /\ frames' = frames + 1
  /\ UNCHANGED dial

Next == \E reading \in Readings, dt \in FrameTimes : Redraw(reading, dt)

Spec == Init /\ [][Next]_vars

-----------------------------------------------------------------------------
\* The value that the dial shows.
Shown == ValueAt(dial.gauge, needle.angle)

\* "Advances a stable, critically damped instrument needle. dt_seconds is clamped so delayed
\* terminal redraws cannot cause a jump": whatever it is aimed at on its way and whenever the
\* next frame comes, a needle shows nothing beyond the values it was aimed at, to within the
\* rounding of a hundredth of a dial.
NeedleStaysBetween ==
  /\ \E value \in aims : value <= Shown + dial.gauge.max \div 100
  /\ \E value \in aims : value >= Shown - dial.gauge.max \div 100
=============================================================================
