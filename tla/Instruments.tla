----------------------------- MODULE Instruments -----------------------------
(***************************************************************************)
(* The instruments of src/src/instrument.rs as operators: calibrated       *)
(* gauges, needles that follow a target, and the state of the engine.      *)
(* Values are integers, angles hundredths of a degree, velocities          *)
(* hundredths of a degree per second and times tenths of a millisecond,    *)
(* where the code has floating-point numbers.                              *)
(***************************************************************************)
EXTENDS Integers, Sequences, SequencesExt

CONSTANTS
  RpmMax, TpmMax, RpdLimit   \* instruments: the ends of the dials

ASSUME InstrumentAssumption == {RpmMax, TpmMax, RpdLimit} \subseteq Nat \ {0}

Clamp(x, least, most) == IF x < least THEN least ELSE IF x > most THEN most ELSE x

Grows(a, b) == IF a > b THEN a ELSE b

-----------------------------------------------------------------------------
\* Gauges

\* tachometer, which speedometer repeats, and oil.  The zones that colour them are left out.
Tachometer(max) == [max |-> Grows(max, 1), start |-> -13500, end |-> 13500]

Oil(limit) == [max |-> Grows(limit, 1), start |-> -12000, end |-> 12000]

\* value_to_angle and angle_to_value: both stop at the ends of the dial.
AngleOf(gauge, value) ==
  gauge.start + (Clamp(value, 0, gauge.max) * (gauge.end - gauge.start)) \div gauge.max

ValueAt(gauge, angle) ==
  ((Clamp(angle, gauge.start, gauge.end) - gauge.start) * gauge.max) \div (gauge.end - gauge.start)

-----------------------------------------------------------------------------
\* Needles

AtRest(angle) == [angle |-> angle, velocity |-> 0]

\* NeedleState::advance over dt (at most 0.1 s), responsiveness omega.
Advance(needle, target, dt, omega) ==
  LET step  == Clamp(dt, 0, 1000)
      pull  == omega * omega * (target - needle.angle) - 2 * omega * needle.velocity
      speed == needle.velocity + ((pull \div 100) * step) \div 100
  IN [angle |-> needle.angle + (speed * step) \div 10000, velocity |-> speed]

\* advance_needle splits a frame into steps of 16 ms, but into 8 at most.
Substeps(dt) == Clamp((dt + 159) \div 160, 1, 8)

AdvanceNeedle(needle, target, dt, omega) ==
  FoldLeft(LAMBDA n, step : Advance(n, target, step, omega), needle,
           [i \in 1..Substeps(dt) |-> dt \div Substeps(dt)])

\* The dials, with the responsiveness of their needles.
Revs  == [gauge |-> Tachometer(RpmMax), omega |-> 14]
Speed == [gauge |-> Tachometer(TpmMax), omega |-> 17]
Level == [gauge |-> Oil(RpdLimit), omega |-> 9]

-----------------------------------------------------------------------------
\* engine_state: an unknown rate counts as none.
EngineState(freshness, rpm, tpm, rpd, rpmMax, tpmMax, rpdWarning) ==
  CASE freshness = "offline" -> "fault"
    [] freshness # "offline" /\ (rpd >= rpdWarning \/ freshness = "stale") -> "warning"
    [] OTHER -> IF 10 * rpm >= 9 * rpmMax \/ 10 * tpm >= 9 * tpmMax THEN "full"
                ELSE IF rpm > 0 /\ tpm > 0 THEN "cruising" ELSE "idle"
=============================================================================
