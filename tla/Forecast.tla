------------------------------ MODULE Forecast ------------------------------
(***************************************************************************)
(* Events and consumption rates, src/src/forecast.rs.                      *)
(*                                                                         *)
(* A sample is a counter read at an instant.  The rate is the slope of the *)
(* least-squares line through the samples since the counter was last       *)
(* reset, as a fraction; the confidence, a function of the number of       *)
(* samples, is left out.                                                   *)
(***************************************************************************)
EXTENDS Capacity

CONSTANT MinimumSamples   \* forecast.minimum_samples

ASSUME ForecastAssumption == MinimumSamples \in Nat

-----------------------------------------------------------------------------
\* Events

Event(key, at, kind) == [key |-> key, at |-> at, kind |-> kind]

EventsOf(s) ==
  {e \in {Event(s.key, s.reset, "QuotaReset"),
          Event(s.key, s.reset, "ExpectedRecovery"),
          Event(s.key, s.exhaustion, "ProjectedExhaustion")} :
     /\ e.at # NoInstant
     /\ e.kind = "ExpectedRecovery" => s.state = "Exhausted"
     /\ e.kind = "ProjectedExhaustion" => s.reset = NoInstant \/ Before(e.at, s.reset)}

KeyBefore(k, l) == k[1] < l[1] \/ (k[1] = l[1] /\ k[2] < l[2])

Rank(kind) ==
  CASE kind = "QuotaReset" -> 1
    [] kind = "ExpectedRecovery" -> 2
    [] kind = "ProjectedExhaustion" -> 3

\* Mutant: by key before instant.
KeyFirst(e, f) ==
  \/ KeyBefore(e.key, f.key)
  \/ e.key = f.key /\ Before(e.at, f.at)
  \/ e.key = f.key /\ e.at = f.at /\ Rank(e.kind) < Rank(f.kind)

\* By instant, then key, then kind.  No two events agree in all three.
EventBefore(e, f) ==
  \/ Before(e.at, f.at)
  \/ e.at = f.at /\ KeyBefore(e.key, f.key)
  \/ e.at = f.at /\ e.key = f.key /\ Rank(e.kind) < Rank(f.kind)

Events(snapshots) ==
  LET events == UNION {EventsOf(s) : s \in snapshots}
  IN Sorted(events, {p \in events \X events : EventBefore(p[1], p[2])})

-----------------------------------------------------------------------------
\* Rates

NoRate == [num |-> 0, den |-> 0, samples |-> 0, window |-> 0]

\* Positions at which a counter is lower than before: it was reset in between.
Resets(ordered) == {i \in 2..Len(ordered) : ordered[i].value < ordered[i - 1].value}

\* Mutant: the first reset is taken for the last.
SegmentAfterFirst(ordered) ==
  IF Resets(ordered) = {} THEN ordered ELSE SubSeq(ordered, Min(Resets(ordered)), Len(ordered))

\* The samples since the last reset.
Segment(ordered) ==
  IF Resets(ordered) = {} THEN ordered ELSE SubSeq(ordered, Max(Resets(ordered)), Len(ordered))

\* The sums of least squares for what f and g give the samples.
Scatter(f, g) ==
  Len(f) * SumFunction([i \in DOMAIN f |-> f[i] * g[i]]) - SumFunction(f) * SumFunction(g)

\* Per minute: the instants count in milliseconds since the first of the segment.
RegressionRate(samples, minimum) ==
  LET ordered == ElementsAt(samples, DOMAIN samples, ByTime(samples, DOMAIN samples))
      segment == Segment(ordered)
      n == Len(segment)
      enough(s) == Len(s) >= 2 /\ Len(s) >= minimum
      x == [i \in 1..n |-> Milliseconds(segment[1].at, segment[i].at)]
      y == [i \in 1..n |-> segment[i].value]
      window == Seconds(segment[1].at, segment[n].at)
  IN IF ~enough(samples) \/ ~enough(segment) THEN NoRate
     ELSE IF Scatter(x, x) = 0 \/ window <= 0 THEN NoRate
     ELSE [num |-> 60 * Base * Scatter(x, y), den |-> Scatter(x, x), samples |-> n, window |-> window]
=============================================================================
