-------------------------------- MODULE Usage --------------------------------
(***************************************************************************)
(* What the provider adapters make of an answer, src/src/providers.rs:     *)
(* the records of a bridge and the rate-limit headers of Groq become       *)
(* observations that all carry the instant of the probe.                   *)
(*                                                                         *)
(* A record gives values to some metrics.  The metric tells what kind of   *)
(* value it is: an instant for ResetAt, a decimal for the two rates, taken *)
(* here in whole numbers, an integer for the others.                       *)
(***************************************************************************)
EXTENDS Integers, Sequences, SequencesExt, Lists, Instants

CONSTANT MaxRecords   \* general.max_records

None == -1      \* Option::None where a natural number may stand
BadName == -2   \* any provider or model name that does not validate
NoModel == 0    \* model: None.  Providers and models are numbers in the order of their names

Rates == {"TokensPerMinute", "RequestsPerMinute"}

\* The metrics of a record, in the order the adapter pushes them.
MetricOrder ==
  <<"Tokens", "TokenLimit", "RemainingTokens", "Requests", "RequestLimit", "RemainingRequests",
    "ResetAt", "TokensPerMinute", "RequestsPerMinute", "InputTokens", "OutputTokens",
    "MonthlyUsage", "MonthlyLimit", "BudgetUsage", "BudgetLimit", "DailyUsage", "DailyLimit">>

\* A record as it is read: rates may still be negative.
UsageRecord(r) ==
  /\ r.provider \in Int /\ r.model \in Int
  /\ DOMAIN r.values \subseteq Range(MetricOrder)
  /\ \A metric \in DOMAIN r.values :
       r.values[metric] \in IF metric = "ResetAt" THEN Instant
                            ELSE IF metric \in Rates THEN Int ELSE Nat

Observation ==
  {o \in [provider : Int, model : Int, metric : Range(MetricOrder), value : Nat \cup Instant, at : Instant] :
     o.value \in IF o.metric = "ResetAt" THEN Instant ELSE Nat}

Observed(provider, model, metric, value, now) ==
  [provider |-> provider, model |-> model, metric |-> metric, value |-> value, at |-> now]

\* One record or negative rate that is wrong spoils the whole answer.
Rejected(records) ==
  \/ Len(records) > MaxRecords
  \/ \E r \in Range(records) :
       \/ BadName \in {r.provider, r.model}
       \/ \E metric \in Rates \cap DOMAIN r.values : r.values[metric] < 0

ObservationsOf(r, now) ==
  LET present == Selected(MetricOrder, {i \in DOMAIN MetricOrder : MetricOrder[i] \in DOMAIN r.values})
  IN [i \in DOMAIN present |->
        Observed(r.provider, r.model, present[i], r.values[present[i]], now)]

\* The observations of an answer that is not rejected.
ParseUsage(records, now) == FlattenSeq([i \in DOMAIN records |-> ObservationsOf(records[i], now)])

\* Subtraction that stops at zero.
SaturatingSub(a, b) == IF a > b THEN a - b ELSE 0

Both(a, b) == a # None /\ b # None

\* Groq's headers describe the tokens of a minute and the requests of a day.
GroqHeaderObservations(provider, headers, now) ==
  LET usage(limit, remaining) ==
        IF Both(limit, remaining) THEN SaturatingSub(limit, remaining) ELSE None
      tokens == usage(headers.tokenLimit, headers.tokenRemaining)
      requests == usage(headers.requestLimit, headers.requestRemaining)
      read == << <<"TokenLimit", headers.tokenLimit>>,
                 <<"RemainingTokens", headers.tokenRemaining>>,
                 <<"Tokens", tokens>>,
                 <<"DailyLimit", headers.requestLimit>>,
                 <<"DailyUsage", requests>> >>
      present == Selected(read, {i \in DOMAIN read : read[i][2] # None})
                 \o << <<"TokensPerMinute", IF tokens = None THEN 0 ELSE tokens>> >>
  IN [i \in DOMAIN present |-> Observed(provider, NoModel, present[i][1], present[i][2], now)]
=============================================================================
