------------------------------ MODULE Capacity ------------------------------
(***************************************************************************)
(* Capacity snapshots, src/src/capacity.rs: what observations of one       *)
(* provider and model say of its quotas, its headroom and its state.       *)
(*                                                                         *)
(* The headroom is a fraction.  The code takes it from one and that from   *)
(* one again, in floating point; what the rounding changes is which of the *)
(* thresholds a headroom that equals one falls below (RoundedDown).  What   *)
(* only the instruments show (telemetry, utilisation, requests per minute) *)
(* and the confidence are left out.                                        *)
(***************************************************************************)
EXTENDS Integers, Sequences, FiniteSets, Instants, Usage

CONSTANTS
  Moderate, Constrained, Critical,   \* the thresholds of CapacityPolicy, in per cent
  RoundedDown,   \* per cent p with 1.0 - (1.0 - p / 100.0) < p / 100.0
  Horizon        \* the last second that chrono has a date for

ASSUME CapacityAssumption ==
  /\ Critical \in Nat /\ Constrained \in Nat /\ Moderate \in Nat
  /\ Critical <= Constrained /\ Constrained <= Moderate /\ Moderate <= 100
  /\ RoundedDown \subseteq 0..100
  /\ Horizon \in Nat

NoHeadroom == [num |-> 0, den |-> 0]

\* Fractions have a positive denominator.
Less(f, g) == f.num * g.den < g.num * f.den

\* Mutant: the largest headroom is taken.
Loosest(F) == CHOOSE f \in F : \A g \in F : ~Less(f, g)

\* The least fraction of a set.
Tightest(F) == CHOOSE f \in F : \A g \in F : ~Less(g, f)

-----------------------------------------------------------------------------
\* The observations of one key, in the order of their instants and then as they come

KeyOf(o) == <<o.provider, o.model>>
Keys(observations) == {KeyOf(o) : o \in Range(observations)}

\* Places in s by observed_at, and as they come where that is equal.
ByTime(s, places) ==
  {p \in places \X places :
     Before(s[p[1]].at, s[p[2]].at) \/ (s[p[1]].at = s[p[2]].at /\ p[1] < p[2])}

Group(observations, key) ==
  LET own == {i \in DOMAIN observations : KeyOf(observations[i]) = key}
  IN ElementsAt(observations, own, ByTime(observations, own))

\* The value of the last observation of a metric.
Latest(group, metric, none) ==
  LET found == {i \in DOMAIN group : group[i].metric = metric}
  IN IF found = {} THEN none ELSE group[Max(found)].value

-----------------------------------------------------------------------------
\* Mutant: the difference wraps instead of stopping at zero.
RemainingWrapped(reported, limit, used) ==
  IF reported # None THEN reported
  ELSE IF Both(limit, used) THEN (limit - used) % 100 ELSE None

\* What is left: reported, or else the difference of limit and use.
Remaining(reported, limit, used) ==
  IF reported # None THEN reported
  ELSE IF Both(limit, used) THEN SaturatingSub(limit, used) ELSE None

QuotaOf(group, used, limit, remaining) ==
  LET u == Latest(group, used, None)
      l == Latest(group, limit, None)
  IN [metric |-> used, used |-> u, limit |-> l,
      remaining |-> Remaining(Latest(group, remaining, None), l, u)]

\* The quotas of which anything is known.
Quotas(group) ==
  {q \in {QuotaOf(group, "Tokens", "TokenLimit", "RemainingTokens"),
          QuotaOf(group, "Requests", "RequestLimit", "RemainingRequests")} :
     {q.used, q.limit, q.remaining} # {None}}

Headroom(quotas) ==
  LET known == {q \in quotas : q.limit > 0 /\ q.remaining # None}
      fractions == {[num |-> IF q.remaining < q.limit THEN q.remaining ELSE q.limit,
                     den |-> q.limit] : q \in known}
  IN IF fractions = {} THEN NoHeadroom ELSE Tightest(fractions)

\* A headroom below a threshold.
Below(h, threshold) ==
  \/ 100 * h.num < threshold * h.den
  \/ 100 * h.num = threshold * h.den /\ threshold \in RoundedDown

Classify(headroom, exhausted) ==
  IF exhausted THEN "Exhausted"
  ELSE IF headroom = NoHeadroom THEN "Unknown"
  ELSE CASE Below(headroom, Critical) -> "Critical"
         [] Below(headroom, Constrained) /\ ~Below(headroom, Critical) -> "Constrained"
         [] Below(headroom, Moderate) /\ ~Below(headroom, Constrained) -> "Moderate"
         [] ~Below(headroom, Moderate) -> "Healthy"

\* The instant at which the tokens run out at the present rate.
RunOut(tokens, rate, now) ==
  IF ~Both(tokens, rate) \/ rate = 0 THEN NoInstant
  ELSE LET at == Plus(now, (60 * tokens) \div rate)
       IN IF at[1] > Horizon THEN NoInstant ELSE at

\* A reset that comes first replaces the projection.  (Between i64::MAX / 1000 and
\* i64::MAX seconds the code panics; no numbers as large are taken here.)
Projected(tokens, rate, reset, now) ==
  LET at == RunOut(tokens, rate, now)
  IN IF at # NoInstant /\ (reset = NoInstant \/ Before(at, reset)) THEN at ELSE NoInstant

DeriveSnapshot(key, group, now) ==
  LET quotas == Quotas(group)
      reset == Latest(group, "ResetAt", NoInstant)
      tokens == QuotaOf(group, "Tokens", "TokenLimit", "RemainingTokens").remaining
  IN [key |-> key,
      quotas |-> quotas,
      headroom |-> Headroom(quotas),
      at |-> group[Len(group)].at,
      reset |-> reset,
      exhaustion |-> Projected(tokens, Latest(group, "TokensPerMinute", None), reset, now),
      state |-> Classify(Headroom(quotas), \E q \in quotas : q.remaining = 0)]

\* The code gives them in the order of their keys.
SnapshotsAt(observations, now) ==
  {DeriveSnapshot(key, Group(observations, key), now) : key \in Keys(observations)}
=============================================================================
