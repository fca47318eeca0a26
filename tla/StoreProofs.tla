---------------------------- MODULE StoreProofs ----------------------------
(***************************************************************************)
(* What holds of the store and of what is computed from it, for every      *)
(* answer of the providers, every number of rows, every clock and every    *)
(* bound.                                                                  *)
(*                                                                         *)
(* The rows are observations (RowsAreTyped, the inductive invariant); the  *)
(* rest is what queries, capacities, forecasts and events make of any rows *)
(* of that type.                                                           *)
(***************************************************************************)
EXTENDS Store, ListsProofs

-----------------------------------------------------------------------------
(* The order of texts is the order of time *)

\* Time is a strict total order of the instants.
LEMMA TimeIsTotal ==
  /\ \A a \in Instant : ~Before(a, a)
  /\ \A a, b, c \in Instant : Before(a, b) /\ Before(b, c) => Before(a, c)
  /\ \A a, b \in Instant : a = b \/ Before(a, b) \/ Before(b, a)
PROOF
  <1>1. \A a \in Instant : /\ a[1] \in Int /\ a[2] \in Int /\ a[3] \in Int /\ a[4] \in Int
                           /\ a = <<a[1], a[2], a[3], a[4]>>
    BY InstantAssumption DEF Instant, Digits
  <1>2. \A a \in Instant : ~Before(a, a)
    BY <1>1 DEF Before
  <1>3. ASSUME NEW a \in Instant, NEW b \in Instant, NEW c \in Instant, Before(a, b), Before(b, c)
        PROVE  Before(a, c)
    BY <1>1, <1>3 DEF Before
  <1>4. ASSUME NEW a \in Instant, NEW b \in Instant, ~Before(a, b), ~Before(b, a)
        PROVE  a = b
    <2>1. a[1] = b[1] /\ a[2] = b[2] /\ a[3] = b[3] /\ a[4] = b[4]
      BY <1>1, <1>4 DEF Before
    <2> QED BY <1>1, <2>1
  <1> QED BY <1>2, <1>3, <1>4

\* A text is the groups of digits up to the last that is not zero, and an offset.
LEMMA TextShape ==
  ASSUME NEW t \in Instant
  PROVE  \E n \in 2..5 :
           /\ DOMAIN Text(t) = 1..n
           /\ \A i \in 1..(n - 1) : Text(t)[i] = t[i]
           /\ Text(t)[n] = Offset
           /\ \A i \in n..4 : t[i] = 0
PROOF
  <1> DEFINE Ends(n) == (n = 1 \/ t[n] # 0) /\ \A i \in (n + 1)..4 : t[i] = 0
  <1>1. \E n \in 1..4 : Ends(n)
    <2>1. CASE t[4] # 0
      BY <2>1
    <2>2. CASE t[4] = 0 /\ t[3] # 0
      BY <2>2
    <2>3. CASE t[4] = 0 /\ t[3] = 0 /\ t[2] # 0
      BY <2>3
    <2>4. CASE t[4] = 0 /\ t[3] = 0 /\ t[2] = 0
      BY <2>4
    <2> QED BY <2>1, <2>2, <2>3, <2>4
  <1>2. Written(t) \in 1..4 /\ Ends(Written(t))
    BY <1>1 DEF Written
  <1>3. Written(t) + 1 \in 2..5
    BY <1>2
  <1> WITNESS Written(t) + 1 \in 2..5
  <1> QED BY <1>2 DEF Text

\* The first place at which two instants differ decides their order.
LEMMA FirstDifference ==
  ASSUME NEW a \in Instant, NEW b \in Instant
  PROVE  Before(a, b) <=>
           \E k \in 1..4 : a[k] < b[k] /\ \A j \in 1..(k - 1) : a[j] = b[j]
BY DEF Before, Instant

\* No text comes both before and after another.
LEMMA TextAsymmetric ==
  ASSUME NEW a \in Instant, NEW b \in Instant, TextBefore(a, b)
  PROVE  ~TextBefore(b, a)
PROOF
  <1>1. PICK n \in 2..5 : /\ DOMAIN Text(a) = 1..n
                          /\ \A i \in 1..(n - 1) : Text(a)[i] = a[i]
                          /\ Text(a)[n] = Offset
    BY TextShape
  <1>2. PICK m \in 2..5 : /\ DOMAIN Text(b) = 1..m
                          /\ \A i \in 1..(m - 1) : Text(b)[i] = b[i]
                          /\ Text(b)[m] = Offset
    BY TextShape
  <1>3. \A i \in 1..n : Text(a)[i] \in Int
    <2>1. \A i \in 1..4 : a[i] \in Int
      BY InstantAssumption DEF Instant, Digits
    <2> QED BY <1>1, <2>1 DEF Offset
  <1>4. \A i \in 1..m : Text(b)[i] \in Int
    <2>1. \A i \in 1..4 : b[i] \in Int
      BY InstantAssumption DEF Instant, Digits
    <2> QED BY <1>2, <2>1 DEF Offset
  <1>5. PICK i \in (1..n) \cap (1..m) : /\ Text(a)[i] < Text(b)[i]
                                        /\ \A j \in 1..(i - 1) : Text(a)[j] = Text(b)[j]
    BY <1>1, <1>2 DEF TextBefore
  <1>6. SUFFICES ASSUME NEW k \in (1..n) \cap (1..m),
                        Text(b)[k] < Text(a)[k],
                        \A j \in 1..(k - 1) : Text(b)[j] = Text(a)[j]
                 PROVE  FALSE
    BY <1>1, <1>2 DEF TextBefore
  <1>7. CASE i < k
    BY <1>3, <1>4, <1>5, <1>6, <1>7
  <1>8. CASE k < i
    BY <1>3, <1>4, <1>5, <1>6, <1>8
  <1>9. CASE i = k
    BY <1>3, <1>4, <1>5, <1>6, <1>9
  <1> QED BY <1>7, <1>8, <1>9

\* An earlier instant has a text that sorts before: where the earlier text has ended, its
\* offset sorts before the digits of the later one.
LEMMA EarlierSortsFirst ==
  ASSUME NEW a \in Instant, NEW b \in Instant, Before(a, b)
  PROVE  TextBefore(a, b)
PROOF
  <1>1. PICK n \in 2..5 : /\ DOMAIN Text(a) = 1..n
                          /\ \A i \in 1..(n - 1) : Text(a)[i] = a[i]
                          /\ Text(a)[n] = Offset
    BY TextShape
  <1>2. PICK m \in 2..5 : /\ DOMAIN Text(b) = 1..m
                          /\ \A i \in 1..(m - 1) : Text(b)[i] = b[i]
                          /\ \A i \in m..4 : b[i] = 0
    BY TextShape
  <1>3. /\ \A i \in 1..4 : a[i] \in Nat
        /\ \A i \in 1..4 : b[i] \in Nat
    BY InstantAssumption DEF Instant, Digits
  <1>4. PICK k \in 1..4 : a[k] < b[k] /\ \A j \in 1..(k - 1) : a[j] = b[j]
    BY FirstDifference
  <1>5. k < m
    BY <1>2, <1>3, <1>4
  <1>6. CASE k < n
    <2>1. /\ k \in DOMAIN Text(a) \cap DOMAIN Text(b)
          /\ Text(a)[k] < Text(b)[k]
      BY <1>1, <1>2, <1>4, <1>5, <1>6
    <2>2. \A j \in 1..(k - 1) : Text(a)[j] = Text(b)[j]
      BY <1>1, <1>2, <1>4, <1>5, <1>6
    <2> QED BY <2>1, <2>2 DEF TextBefore
  <1>7. CASE n <= k
    <2>1. /\ n \in DOMAIN Text(a) \cap DOMAIN Text(b)
          /\ Text(a)[n] < Text(b)[n]
      BY <1>1, <1>2, <1>3, <1>5, <1>7 DEF Offset
    <2>2. \A j \in 1..(n - 1) : Text(a)[j] = Text(b)[j]
      BY <1>1, <1>2, <1>4, <1>5, <1>7
    <2> QED BY <2>1, <2>2 DEF TextBefore
  <1> QED BY <1>6, <1>7

\* Comparing observed_at as text (the queries of Store) is comparing by time, whatever the
\* number of digits of the fractions.
THEOREM TextOrderIsTimeOrder ==
  \A a \in Instant, b \in Instant : TextBefore(a, b) <=> Before(a, b)
PROOF
  <1> TAKE a \in Instant, b \in Instant
  <1>1. CASE Before(a, b)
    BY <1>1, EarlierSortsFirst
  <1>2. CASE Before(b, a)
    <2>1. ~Before(a, b)
      BY <1>2, InstantAssumption DEF Before, Instant, Digits
    <2>2. ~TextBefore(a, b)
      BY <1>2, EarlierSortsFirst, TextAsymmetric
    <2> QED BY <2>1, <2>2
  <1>3. CASE ~Before(a, b) /\ ~Before(b, a)
    <2>1. a = b
      BY <1>3, InstantAssumption DEF Before, Instant, Digits
    <2>2. ~TextBefore(a, b)
      BY <2>1, TextAsymmetric
    <2> QED BY <1>3, <2>2
  <1> QED BY <1>1, <1>2, <1>3

-----------------------------------------------------------------------------
(* The rows *)

\* The rows are observations: what is not rejected has no negative rate left.
RowsTyped == rows \in Seq(Observation)

\* The observations of a record without negative rates are typed (observations_of).
LEMMA ObservationsTyped ==
  ASSUME NEW r, UsageRecord(r), \A metric \in Rates \cap DOMAIN r.values : r.values[metric] >= 0,
         NEW now \in Instant
  PROVE  ObservationsOf(r, now) \in Seq(Observation)
<1> DEFINE places == {i \in DOMAIN MetricOrder : MetricOrder[i] \in DOMAIN r.values}
           present == Selected(MetricOrder, places)
           Metric == Range(MetricOrder)
<1>1. MetricOrder \in Seq(Metric)
  <2>1. DOMAIN MetricOrder = 1..17 /\ MetricOrder = [i \in 1..17 |-> MetricOrder[i]]
    BY DEF MetricOrder
  <2>2. \A i \in 1..17 : MetricOrder[i] \in Metric
    BY <2>1 DEF Range
  <2> HIDE DEF Metric
  <2>3. MetricOrder \in [1..17 -> Metric]
    BY <2>1, <2>2
  <2>4. QED
    BY <2>3, FunctionIsList
<1>2. /\ present \in Seq(Metric)
      /\ \A n \in 1..Len(present) : \E i \in places : present[n] = MetricOrder[i]
  <2>1. places \subseteq DOMAIN MetricOrder
    OBVIOUS
  <2> HIDE DEF places, Metric
  <2>2. QED
    BY <1>1, <2>1, SelectedProperties
<1>3. \A n \in 1..Len(present) : present[n] \in DOMAIN r.values /\ present[n] \in Metric
  BY <1>2
<1>4. ObservationsOf(r, now) =
        [i \in 1..Len(present) |->
           Observed(r.provider, r.model, present[i], r.values[present[i]], now)]
  <2>1. DOMAIN present = 1..Len(present)
    BY <1>2
  <2>2. QED
    BY <2>1 DEF ObservationsOf
<1> HIDE DEF present, places
<1>5. \A i \in 1..Len(present) :
        Observed(r.provider, r.model, present[i], r.values[present[i]], now) \in Observation
  <2> SUFFICES ASSUME NEW i \in 1..Len(present)
               PROVE  Observed(r.provider, r.model, present[i], r.values[present[i]], now) \in Observation
    OBVIOUS
  <2> DEFINE metric == present[i]
  <2>1. metric \in DOMAIN r.values /\ metric \in Metric
    BY <1>3
  <2> HIDE DEF metric
  <2>2. r.values[metric] \in IF metric = "ResetAt" THEN Instant ELSE Nat
    BY <2>1 DEF UsageRecord, Rates
  <2>3. Observed(r.provider, r.model, metric, r.values[metric], now) \in Observation
    BY <2>1, <2>2 DEF Observed, Observation, UsageRecord
  <2>4. QED
    BY <2>3 DEF metric
<1>6. Len(present) \in Nat
  BY <1>2
<1>7. QED
  BY <1>4, <1>5, <1>6, FunctionIsList

\* So are those of an answer that is not rejected (parse_usage).
LEMMA ParsedTyped ==
  ASSUME NEW records \in Answers, ~Rejected(records), NEW now \in Instant
  PROVE  ParseUsage(records, now) \in Seq(Observation)
<1> DEFINE ss == [i \in DOMAIN records |-> ObservationsOf(records[i], now)]
<1>1. records \in Seq(Range(records)) /\ \A r \in Range(records) : UsageRecord(r)
  BY StoreAssumption
<1>2. DOMAIN records = 1..Len(records) /\ Len(records) \in Nat
  BY <1>1
<1>3. \A i \in 1..Len(records) : ObservationsOf(records[i], now) \in Seq(Observation)
  <2> SUFFICES ASSUME NEW i \in 1..Len(records)
               PROVE  ObservationsOf(records[i], now) \in Seq(Observation)
    OBVIOUS
  <2>1. records[i] \in Range(records)
    BY <1>2 DEF Range
  <2>2. \A metric \in Rates \cap DOMAIN records[i].values : records[i].values[metric] >= 0
    <3>1. \A metric \in Rates \cap DOMAIN records[i].values : ~(records[i].values[metric] < 0)
      BY <2>1 DEF Rejected
    <3>2. \A metric \in Rates \cap DOMAIN records[i].values : records[i].values[metric] \in Int
      BY <1>1, <2>1 DEF UsageRecord, Rates
    <3>3. QED
      BY <3>1, <3>2
  <2>3. QED
    BY <1>1, <2>1, <2>2, ObservationsTyped
<1>4. ss \in Seq(Seq(Observation))
  BY <1>2, <1>3, FunctionIsList
<1>5. QED
  BY <1>4, FlattenedElements DEF ParseUsage

\* So are those that the headers of a response give (groq_header_observations).
LEMMA HeadersTyped ==
  ASSUME NEW headers \in Headers, NEW now \in Instant
  PROVE  GroqHeaderObservations(1, headers, now) \in Seq(Observation)
<1> DEFINE Pair == {"TokenLimit", "RemainingTokens", "Tokens", "DailyLimit", "DailyUsage",
                    "TokensPerMinute"} \X (Nat \cup {None})
           usage(limit, remaining) ==
             IF Both(limit, remaining) THEN SaturatingSub(limit, remaining) ELSE None
           tokens == usage(headers.tokenLimit, headers.tokenRemaining)
           requests == usage(headers.requestLimit, headers.requestRemaining)
           read == << <<"TokenLimit", headers.tokenLimit>>,
                      <<"RemainingTokens", headers.tokenRemaining>>,
                      <<"Tokens", tokens>>,
                      <<"DailyLimit", headers.requestLimit>>,
                      <<"DailyUsage", requests>> >>
           places == {i \in DOMAIN read : read[i][2] # None}
           found == Selected(read, places)
           last == << <<"TokensPerMinute", IF tokens = None THEN 0 ELSE tokens>> >>
           present == found \o last
<1>1. /\ headers.tokenLimit \in Nat \cup {None} /\ headers.tokenRemaining \in Nat \cup {None}
      /\ headers.requestLimit \in Nat \cup {None} /\ headers.requestRemaining \in Nat \cup {None}
  BY StoreAssumption
<1>2. \A limit, remaining \in Nat \cup {None} : usage(limit, remaining) \in Nat \cup {None}
  BY DEF Both, SaturatingSub, None
<1>3. tokens \in Nat \cup {None} /\ requests \in Nat \cup {None}
  BY <1>1, <1>2
<1> HIDE DEF usage, tokens, requests
<1>4. read \in Seq(Pair)
  BY <1>1, <1>3
<1>5. last \in Seq(Pair) /\ Len(last) = 1 /\ last[1][2] # None
  BY <1>3 DEF None
<1> HIDE DEF read, last, Pair
<1>6. /\ found \in Seq(Pair) /\ Len(found) \in Nat
      /\ \A n \in 1..Len(found) : \E i \in places : found[n] = read[i]
  <2>1. places \subseteq DOMAIN read
    OBVIOUS
  <2> HIDE DEF places
  <2>2. QED
    BY <1>4, <2>1, SelectedProperties
<1>7. \A n \in 1..Len(found) : found[n][2] # None
  BY <1>6
<1> HIDE DEF found
<1>8. present \in Seq(Pair) /\ \A n \in 1..Len(present) : present[n][2] # None
  <2>1. /\ present \in Seq(Pair) /\ Len(present) = Len(found) + Len(last)
        /\ \A n \in 1..Len(found) + Len(last) :
             present[n] = IF n <= Len(found) THEN found[n] ELSE last[n - Len(found)]
    <3>1. found \in Seq(Pair) /\ last \in Seq(Pair)
      BY <1>5, <1>6
    <3>2. QED
      BY <3>1, ConcatProperties
  <2> HIDE DEF present
  <2>2. \A n \in 1..Len(present) : (present[n] = found[n] /\ n \in 1..Len(found)) \/ present[n] = last[1]
    BY <1>5, <1>6, <2>1
  <2>3. QED
    BY <1>5, <1>7, <2>1, <2>2
<1>9. GroqHeaderObservations(1, headers, now) =
        [i \in 1..Len(present) |-> Observed(1, NoModel, present[i][1], present[i][2], now)]
  <2>1. DOMAIN present = 1..Len(present)
    BY <1>8
  <2>2. GroqHeaderObservations(1, headers, now) =
          [i \in DOMAIN present |-> Observed(1, NoModel, present[i][1], present[i][2], now)]
    BY DEF GroqHeaderObservations, found, read, last, tokens, requests, usage, places
  <2>3. QED
    BY <2>1, <2>2
<1> HIDE DEF present
<1>10. \A i \in 1..Len(present) :
         Observed(1, NoModel, present[i][1], present[i][2], now) \in Observation
  <2> SUFFICES ASSUME NEW i \in 1..Len(present)
               PROVE  Observed(1, NoModel, present[i][1], present[i][2], now) \in Observation
    OBVIOUS
  <2>1. present[i] \in Pair /\ present[i][2] # None
    BY <1>8
  <2>2. present[i][2] \in Nat /\ present[i][1] # "ResetAt"
    BY <2>1 DEF Pair
  <2>3. present[i][1] \in Range(MetricOrder)
    BY <2>1 DEF Pair, MetricOrder, Range
  <2>4. QED
    BY <2>2, <2>3 DEF Observed, Observation, NoModel
<1>11. Len(present) \in Nat
  BY <1>8
<1>12. QED
  BY <1>9, <1>10, <1>11, FunctionIsList

\* Whatever the providers answer, only observations are stored: what a poll does not reject
\* has a time, a metric and a value that is no negative number.
THEOREM RowsAreTyped == Spec => []RowsTyped
<1>1. Init => RowsTyped
  BY DEF Init, RowsTyped
<1>2. RowsTyped /\ [Next]_vars => RowsTyped'
  <2> SUFFICES ASSUME RowsTyped, [Next]_vars
               PROVE  RowsTyped'
    OBVIOUS
  <2>1. ASSUME NEW batch \in Seq(Observation), InsertBatch(batch)
        PROVE  RowsTyped'
    BY <2>1, ConcatProperties DEF RowsTyped, InsertBatch
  <2>2. CASE Poll
    <3>1. PICK at \in Clock :
            \/ \E records \in Answers : ~Rejected(records) /\ InsertBatch(ParseUsage(records, at))
            \/ \E headers \in Headers : InsertBatch(GroqHeaderObservations(1, headers, at))
      BY <2>2 DEF Poll
    <3>2. at \in Instant
      BY StoreAssumption
    <3>3. QED
      BY <2>1, <3>1, <3>2, ParsedTyped, HeadersTyped
  <2>3. CASE Prune
    <3>1. PICK cutoff \in Clock : PruneBefore(cutoff)
      BY <2>3 DEF Prune
    <3>2. QED
      BY <3>1, SelectedProperties DEF PruneBefore, RowsTyped
  <2>4. CASE UNCHANGED rows
    BY <2>4 DEF RowsTyped
  <2>5. QED
    BY <2>2, <2>3, <2>4 DEF Next, SelectNewest, SelectSince, vars
<1>3. QED
  BY <1>1, <1>2, PTL DEF Spec

\* The rows at places chosen by the texts are the rows at the places chosen by the times.
THEOREM PrunedByTime == Spec => PruneByTime
<1> DEFINE Step == Len(rows') < Len(rows) =>
                     \E cutoff \in Clock :
                       rows' = Selected(rows, {i \in DOMAIN rows : ~Before(rows[i].at, cutoff)})
<1>1. RowsTyped /\ [Next]_vars => [Step]_vars
  <2> SUFFICES ASSUME RowsTyped, Next, Len(rows') < Len(rows)
               PROVE  \E cutoff \in Clock :
                        rows' = Selected(rows, {i \in DOMAIN rows : ~Before(rows[i].at, cutoff)})
    OBVIOUS
  <2>1. CASE Poll
    <3>1. ASSUME NEW batch \in Seq(Observation), InsertBatch(batch)
          PROVE  FALSE
      <4>1. Len(rows') = Len(rows) + Len(batch) /\ Len(batch) \in Nat /\ Len(rows) \in Nat
        BY <3>1, ConcatProperties DEF RowsTyped, InsertBatch
      <4>2. QED
        BY <4>1
    <3>2. PICK at \in Clock :
            \/ \E records \in Answers : ~Rejected(records) /\ InsertBatch(ParseUsage(records, at))
            \/ \E headers \in Headers : InsertBatch(GroqHeaderObservations(1, headers, at))
      BY <2>1 DEF Poll
    <3>3. at \in Instant
      BY StoreAssumption
    <3>4. QED
      BY <3>1, <3>2, <3>3, ParsedTyped, HeadersTyped
  <2>2. CASE Prune
    <3>1. PICK cutoff \in Clock : PruneBefore(cutoff)
      BY <2>2 DEF Prune
    <3>2. \A i \in DOMAIN rows : TextBefore(rows[i].at, cutoff) <=> Before(rows[i].at, cutoff)
      <4>1. \A i \in DOMAIN rows : rows[i].at \in Instant
        BY DEF RowsTyped, Observation
      <4>2. cutoff \in Instant
        BY StoreAssumption
      <4>3. QED
        BY <4>1, <4>2, TextOrderIsTimeOrder
    <3>3. {i \in DOMAIN rows : ~TextBefore(rows[i].at, cutoff)} =
            {i \in DOMAIN rows : ~Before(rows[i].at, cutoff)}
      BY <3>2
    <3>4. QED
      BY <3>1, <3>3 DEF PruneBefore
  <2>3. CASE UNCHANGED rows
    BY <2>3 DEF RowsTyped
  <2>4. QED
    BY <2>1, <2>2, <2>3 DEF Next, SelectNewest, SelectSince
<1>2. QED
  BY <1>1, RowsAreTyped, PTL DEF Spec, PruneByTime

-----------------------------------------------------------------------------
(* Queries *)

\* Places ordered by time, and at the same time as they are, are in a strict order.
LEMMA TimeOrdersPlaces ==
  ASSUME NEW s \in Seq(Observation), NEW P, P \subseteq DOMAIN s
  PROVE  StrictOrder(P, ByTime(s, P))
<1>1. \A p \in P : p \in Int /\ s[p].at \in Instant
  BY DEF Observation
<1>2. \A p, q \in P : <<p, q>> \in ByTime(s, P) <=>
        Before(s[p].at, s[q].at) \/ (s[p].at = s[q].at /\ p < q)
  BY DEF ByTime
<1>3. \A p \in P : <<p, p>> \notin ByTime(s, P)
  BY <1>1, <1>2, TimeIsTotal
<1>4. ASSUME NEW p \in P, NEW q \in P, NEW r \in P,
             <<p, q>> \in ByTime(s, P), <<q, r>> \in ByTime(s, P)
      PROVE  <<p, r>> \in ByTime(s, P)
  <2>1. CASE Before(s[p].at, s[q].at) /\ Before(s[q].at, s[r].at)
    BY <1>1, <1>2, <2>1, TimeIsTotal
  <2>2. CASE s[p].at = s[q].at /\ p < q
    BY <1>1, <1>2, <1>4, <2>2
  <2>3. CASE s[q].at = s[r].at /\ q < r
    BY <1>1, <1>2, <1>4, <2>3
  <2>4. QED
    BY <1>2, <1>4, <2>1, <2>2, <2>3
<1>5. ASSUME NEW p \in P, NEW q \in P
      PROVE  p = q \/ <<p, q>> \in ByTime(s, P) \/ <<q, p>> \in ByTime(s, P)
  <2>1. s[p].at = s[q].at \/ Before(s[p].at, s[q].at) \/ Before(s[q].at, s[p].at)
    BY <1>1, TimeIsTotal
  <2>2. p < q \/ q < p \/ p = q
    BY <1>1
  <2>3. QED
    BY <1>2, <2>1, <2>2
<1>6. QED
  BY <1>3, <1>4, <1>5 DEF StrictOrder

\* The order of the texts is the order of the times they stand for.
LEMMA TextOrdersPlaces ==
  ASSUME NEW s \in Seq(Observation), NEW P, P \subseteq DOMAIN s
  PROVE  ElementsAt(s, P, ByText(s, P)) = ElementsAt(s, P, ByTime(s, P))
<1>1. \A p \in P : s[p].at \in Instant
  BY DEF Observation
<1>2. \A p, q \in P : <<p, q>> \in ByText(s, P) <=> <<p, q>> \in ByTime(s, P)
  BY <1>1, TextOrderIsTimeOrder DEF ByTime, ByText
<1>3. Sorted(P, ByText(s, P)) = Sorted(P, ByTime(s, P))
  BY <1>2, SameOrder
<1>4. QED
  BY <1>3 DEF ElementsAt

\* h has what s has at the places P, in the order of time.
InTime(h, s, P) ==
  /\ h \in Seq(Observation) /\ Len(h) = Cardinality(P) /\ Cardinality(P) \in Nat
  /\ \A n \in 1..Len(h) : \E i \in P : h[n] = s[i]
  /\ \A i \in P : \E n \in 1..Len(h) : h[n] = s[i]
  /\ \A m, n \in 1..Len(h) : m < n => ~Before(h[n].at, h[m].at)

\* Sorting by time (ORDER BY observed_at, id) puts the rows at some places in order of time.
LEMMA SortedInTime ==
  ASSUME NEW s \in Seq(Observation), NEW P, P \subseteq DOMAIN s
  PROVE  InTime(ElementsAt(s, P, ByTime(s, P)), s, P)
<1> DEFINE R == ByTime(s, P)
           h == ElementsAt(s, P, R)
           order == Sorted(P, R)
           N == Cardinality(P)
<1>1. StrictOrder(P, R)
  BY TimeOrdersPlaces
<1> HIDE DEF R
<1>2. /\ IsFiniteSet(P) /\ N \in Nat /\ h \in Seq(Observation) /\ Len(h) = N
      /\ \A n \in 1..N : order[n] \in P /\ h[n] = s[order[n]]
  BY <1>1, AtProperties
<1>3. /\ \A m, n \in 1..N : m < n => <<order[m], order[n]>> \in R
      /\ \A x \in P : \E n \in 1..N : order[n] = x
  BY <1>1, <1>2, SortedInOrder
<1> HIDE DEF order, N, h
<1>4. \A p, q \in P : <<p, q>> \in R => ~Before(s[q].at, s[p].at)
  <2>1. \A p \in P : s[p].at \in Instant
    BY DEF Observation
  <2>2. \A p, q \in P : <<p, q>> \in R => Before(s[p].at, s[q].at) \/ s[p].at = s[q].at
    BY DEF R, ByTime
  <2>3. QED
    BY <2>1, <2>2, TimeIsTotal
<1>5. ASSUME NEW m \in 1..N, NEW n \in 1..N, m < n
      PROVE  ~Before(h[n].at, h[m].at)
  <2>1. <<order[m], order[n]>> \in R
    BY <1>3, <1>5
  <2>2. ~Before(s[order[n]].at, s[order[m]].at)
    BY <1>2, <1>4, <2>1
  <2>3. QED
    BY <1>2, <2>2
<1>6. \A i \in P : \E n \in 1..N : h[n] = s[i]
  BY <1>2, <1>3
<1>7. QED
  BY <1>2, <1>5, <1>6 DEF N, R, h, InTime

\* h has the last m elements of s.
LastOf(h, s, m) ==
  /\ m \in 0..Len(s) /\ Len(h) = m
  /\ \A n \in 1..m : h[n] = s[Len(s) - m + n] /\ Len(s) - m + n \in 1..Len(s)

\* The newest of a list are its last elements, as many as the limit lets through.
LEMMA NewestAreLast ==
  ASSUME NEW X, NEW s \in Seq(X), NEW limit \in Nat
  PROVE  /\ NewestOf(s, limit) \in Seq(X)
         /\ LastOf(NewestOf(s, limit), s, IF limit < Len(s) THEN limit ELSE Len(s))
<1> DEFINE m == IF limit < Len(s) THEN limit ELSE Len(s)
           h == NewestOf(s, limit)
           from == 1 + SaturatingSub(Len(s), limit)
<1>1. Len(s) \in Nat /\ from = Len(s) - m + 1 /\ m \in 0..Len(s)
  BY DEF SaturatingSub
<1>2. h = SubSeq(s, from, Len(s))
  BY DEF NewestOf
<1> HIDE DEF from, m, h
<1>3. from \in 1..(Len(s) + 1)
  BY <1>1
<1>4. /\ SubSeq(s, from, Len(s)) \in Seq(X)
      /\ Len(SubSeq(s, from, Len(s))) = IF from <= Len(s) THEN Len(s) - from + 1 ELSE 0
      /\ \A i \in 1..(Len(s) - from + 1) : SubSeq(s, from, Len(s))[i] = s[from + i - 1]
  <2>1. \A i \in from..Len(s) : s[i] \in X
    BY <1>1, <1>3
  <2>2. from \in Int /\ Len(s) \in Int
    BY <1>1, <1>3
  <2>3. QED
    BY <2>1, <2>2, SubSeqProperties
<1>5. Len(h) = m /\ Len(s) - from + 1 = m
  BY <1>1, <1>2, <1>4
<1>6. \A n \in 1..m : from + n - 1 = Len(s) - m + n /\ Len(s) - m + n \in 1..Len(s)
  BY <1>1
<1>7. \A n \in 1..m : h[n] = s[Len(s) - m + n]
  BY <1>2, <1>4, <1>5, <1>6
<1>8. QED
  BY <1>1, <1>2, <1>4, <1>5, <1>6, <1>7 DEF LastOf, m, h

\* The places whose instant is not before since, in text and in time.
LEMMA SinceByTime ==
  ASSUME RowsTyped, NEW since \in Instant \cup {NoInstant}
  PROVE  \A i \in DOMAIN rows :
           Since(rows[i], since) <=> since = NoInstant \/ ~Before(rows[i].at, since)
<1>1. \A i \in DOMAIN rows : rows[i].at \in Instant
  BY DEF RowsTyped, Observation
<1>2. QED
  BY <1>1, TextOrderIsTimeOrder DEF Since

Found(provider, model, metric, since) ==
  {i \in DOMAIN rows : Matches(rows[i], provider, model, metric) /\ Since(rows[i], since)}

\* h has m of the rows at these places, in the order of time and no newer one left out.
NewestRows(h, places, m) ==
  /\ m \in Nat /\ h \in Seq(Observation) /\ Len(h) = m
  /\ \A k, n \in 1..m : k < n => ~Before(h[n].at, h[k].at)
  /\ \A n \in 1..m : \E i \in places : h[n] = rows[i]
  /\ \A i \in places : \/ \E n \in 1..m : h[n] = rows[i]
                      \/ \A n \in 1..m : ~Before(h[n].at, rows[i].at)

\* The last elements of the rows found, in order of time, leave no newer one out.
LEMMA LastAreNewest ==
  ASSUME RowsTyped, NEW found, found \subseteq DOMAIN rows,
         NEW all, InTime(all, rows, found), NEW h \in Seq(Observation), NEW m, LastOf(h, all, m)
  PROVE  NewestRows(h, found, m)
<1> DEFINE d == Len(all) - m
<1>1. all \in Seq(Observation) /\ Len(all) \in Nat /\ m \in 0..Len(all) /\ Len(h) = m
  BY DEF InTime, LastOf
<1>2. \A n \in 1..m : h[n] = all[d + n] /\ d + n \in 1..Len(all)
  BY DEF LastOf
<1>3. /\ \A n \in 1..Len(all) : \E i \in found : all[n] = rows[i]
      /\ \A i \in found : \E n \in 1..Len(all) : all[n] = rows[i]
      /\ \A k, n \in 1..Len(all) : k < n => ~Before(all[n].at, all[k].at)
  BY DEF InTime
<1>4. d \in Nat
  BY <1>1
<1> HIDE DEF d
<1>5. ASSUME NEW k \in 1..m, NEW n \in 1..m, k < n
      PROVE  ~Before(h[n].at, h[k].at)
  <2>1. d + k < d + n
    BY <1>1, <1>4, <1>5
  <2>2. QED
    BY <1>2, <1>3, <2>1
<1>6. ASSUME NEW n \in 1..m
      PROVE  \E i \in found : h[n] = rows[i]
  BY <1>2, <1>3
<1>7. ASSUME NEW i \in found
      PROVE  \/ \E n \in 1..m : h[n] = rows[i]
             \/ \A n \in 1..m : ~Before(h[n].at, rows[i].at)
  <2>1. PICK k \in 1..Len(all) : all[k] = rows[i]
    BY <1>3
  <2>2. CASE k > d
    <3>1. k - d \in 1..m /\ d + (k - d) = k
      BY <1>1, <1>4, <2>2 DEF d
    <3>2. h[k - d] = rows[i]
      BY <1>2, <2>1, <3>1
    <3>3. QED
      BY <3>1, <3>2
  <2>3. CASE ~(k > d)
    <3>1. ASSUME NEW n \in 1..m
          PROVE  ~Before(h[n].at, rows[i].at)
      <4>1. k < d + n
        BY <1>1, <1>4, <2>3
      <4>2. ~Before(all[d + n].at, all[k].at)
        BY <1>2, <1>3, <4>1
      <4>3. QED
        BY <1>2, <2>1, <4>2
    <3>2. QED
      BY <3>1
  <2>4. QED
    BY <2>2, <2>3
<1>8. QED
  BY <1>1, <1>5, <1>6, <1>7 DEF NewestRows

\* history returns the newest of the rows it finds.
LEMMA HistoryProperties ==
  ASSUME RowsTyped, NEW provider, NEW model, NEW metric, NEW since, NEW limit \in Nat,
         NEW found, found = Found(provider, model, metric, since),
         NEW cap, cap = IF limit < HistoryCap THEN limit ELSE HistoryCap
  PROVE  /\ Cardinality(found) \in Nat
         /\ NewestRows(History(provider, model, metric, since, limit), found,
                       IF cap < Cardinality(found) THEN cap ELSE Cardinality(found))
<1> DEFINE all == ElementsAt(rows, found, ByTime(rows, found))
           h == NewestOf(all, cap)
           m == IF cap < Len(all) THEN cap ELSE Len(all)
<1>1. rows \in Seq(Observation) /\ found \subseteq DOMAIN rows
  BY DEF RowsTyped, Found
<1>2. History(provider, model, metric, since, limit) = h
  <2>1. History(provider, model, metric, since, limit) =
          NewestOf(ElementsAt(rows, found, ByText(rows, found)), cap)
    BY DEF History, Found
  <2>2. ElementsAt(rows, found, ByText(rows, found)) = all
    BY <1>1, TextOrdersPlaces
  <2>3. QED
    BY <2>1, <2>2
<1>3. InTime(all, rows, found)
  BY <1>1, SortedInTime
<1> HIDE DEF all
<1>4. all \in Seq(Observation) /\ Len(all) = Cardinality(found) /\ Cardinality(found) \in Nat
  BY <1>3 DEF InTime
<1>5. cap \in Nat
  BY StoreAssumption
<1>6. h \in Seq(Observation) /\ LastOf(h, all, m)
  BY <1>4, <1>5, NewestAreLast
<1> HIDE DEF h, m
<1>7. NewestRows(h, found, m)
  BY <1>1, <1>3, <1>6, LastAreNewest
<1>8. QED
  BY <1>2, <1>4, <1>7 DEF m

\* Store::history orders and cuts by the text of the times: for all rows and every filter it
\* returns what the times themselves would have, and as many rows as it may.
THEOREM HistoryReturnsNewest == Spec => []HistoryIsNewest
<1>1. RowsTyped => HistoryIsNewest
  <2> SUFFICES ASSUME RowsTyped,
                      NEW provider \in {NoFilter, 1}, NEW since \in Clock \cup {NoInstant}, NEW limit \in {1, 3}
               PROVE  LET h == History(provider, NoFilter, "any", since, limit)
                          match == {i \in DOMAIN rows : /\ provider \in {NoFilter, rows[i].provider}
                                                        /\ since = NoInstant \/ ~Before(rows[i].at, since)}
                          most == Min({limit, HistoryCap, Cardinality(match)})
                      IN /\ Len(h) = most
                         /\ \A n \in 2..most : ~Before(h[n].at, h[n - 1].at)
                         /\ \A i \in match : \/ rows[i] \in Range(h)
                                             \/ \A n \in 1..most : ~Before(h[n].at, rows[i].at)
    BY DEF HistoryIsNewest
  <2> DEFINE h == History(provider, NoFilter, "any", since, limit)
             match == {i \in DOMAIN rows : /\ provider \in {NoFilter, rows[i].provider}
                                           /\ since = NoInstant \/ ~Before(rows[i].at, since)}
             cap == IF limit < HistoryCap THEN limit ELSE HistoryCap
             least == IF cap < Cardinality(match) THEN cap ELSE Cardinality(match)
             most == Min({limit, HistoryCap, Cardinality(match)})
  <2>1. Found(provider, NoFilter, "any", since) = match
    <3>1. \A i \in DOMAIN rows : Since(rows[i], since) <=> since = NoInstant \/ ~Before(rows[i].at, since)
      BY StoreAssumption, SinceByTime
    <3>2. QED
      BY <3>1 DEF Matches, Found
  <2>2. limit \in Nat /\ HistoryCap \in Nat
    BY StoreAssumption
  <2>3. Cardinality(match) \in Nat /\ NewestRows(h, match, least)
    <3>1. cap = IF limit < HistoryCap THEN limit ELSE HistoryCap
      OBVIOUS
    <3> HIDE DEF match, cap
    <3>2. QED
      BY <2>1, <2>2, <3>1, HistoryProperties
  <2> HIDE DEF h, match
  <2>4. Len(h) = least /\ least \in Nat /\ h \in Seq(Observation)
    BY <2>3 DEF NewestRows
  <2>5. least = most
    <3> DEFINE S == {limit, HistoryCap, Cardinality(match)}
    <3>1. S \subseteq Nat /\ S # {}
      BY <2>2, <2>3
    <3>2. Min(S) \in S /\ \A x \in S : Min(S) <= x
      <4> HIDE DEF S
      <4>1. QED
        BY <3>1, LeastOfNaturals
    <3>3. least \in S /\ \A x \in S : least <= x
      BY <2>2, <2>3
    <3> HIDE DEF least
    <3>4. least <= Min(S) /\ Min(S) <= least /\ Min(S) \in Int
      BY <3>1, <3>2, <3>3
    <3>5. QED
      BY <2>4, <3>4
  <2> HIDE DEF most, least
  <2>6. DOMAIN h = 1..most
    BY <2>4, <2>5
  <2>7. \A n \in 2..most : ~Before(h[n].at, h[n - 1].at)
    <3>1. \A n \in 2..most : n - 1 \in 1..Len(h) /\ n \in 1..Len(h) /\ n - 1 < n
      BY <2>4, <2>5
    <3>2. QED
      BY <2>3, <2>4, <2>5, <3>1 DEF NewestRows
  <2>8. \A i \in match : rows[i] \in Range(h) \/ \A n \in 1..most : ~Before(h[n].at, rows[i].at)
    BY <2>3, <2>4, <2>5, <2>6 DEF Range, NewestRows
  <2>9. QED
    BY <2>4, <2>5, <2>7, <2>8 DEF h, match, most
<1>2. QED
  BY <1>1, RowsAreTyped, PTL

\* The first statement of latest finds the newest instant: the highest text is the last time.
LEMMA HighestIsNewest ==
  ASSUME RowsTyped, rows # <<>>
  PROVE  /\ HighestText \in Instant
         /\ \E o \in Range(rows) : o.at = HighestText
         /\ \A o \in Range(rows) : ~Before(HighestText, o.at)
<1> DEFINE ats == {o.at : o \in Range(rows)}
           top == {at \in ats : \A other \in Range(rows) : ~TextBefore(at, other.at)}
<1>1. /\ rows \in Seq(Observation) /\ DOMAIN rows = 1..Len(rows) /\ Len(rows) \in Nat
      /\ \A i \in DOMAIN rows : rows[i].at \in Instant
  BY DEF RowsTyped, Observation
<1>2. PICK i \in DOMAIN rows : \A j \in DOMAIN rows : ~Before(rows[i].at, rows[j].at)
  <2> DEFINE P == DOMAIN rows
             all == ElementsAt(rows, P, ByTime(rows, P))
  <2>1. /\ all \in Seq(Observation) /\ Len(all) \in Nat
        /\ \A n \in 1..Len(all) : \E i \in DOMAIN rows : all[n] = rows[i]
        /\ \A i \in DOMAIN rows : \E n \in 1..Len(all) : all[n] = rows[i]
        /\ \A m, n \in 1..Len(all) : m < n => ~Before(all[n].at, all[m].at)
    <3>1. P \subseteq DOMAIN rows
      OBVIOUS
    <3> HIDE DEF P
    <3>2. InTime(all, rows, P)
      BY <1>1, <3>1, SortedInTime
    <3> HIDE DEF all
    <3>3. QED
      BY <3>2 DEF InTime, P
  <2> HIDE DEF all
  <2>2. 1 \in DOMAIN rows
    BY <1>1
  <2>3. Len(all) \in 1..Len(all)
    BY <2>1, <2>2
  <2>4. PICK i \in DOMAIN rows : all[Len(all)] = rows[i]
    BY <2>1, <2>3
  <2>5. \A j \in DOMAIN rows : ~Before(rows[i].at, rows[j].at)
    <3> SUFFICES ASSUME NEW j \in DOMAIN rows
                 PROVE  ~Before(rows[i].at, rows[j].at)
      OBVIOUS
    <3>1. PICK n \in 1..Len(all) : all[n] = rows[j]
      BY <2>1
    <3>2. n < Len(all) \/ n = Len(all)
      BY <2>1
    <3>3. QED
      BY <1>1, <2>1, <2>3, <2>4, <3>1, <3>2, TimeIsTotal
  <2>6. QED
    BY <2>5
<1>3. HighestText \in top
  <2>1. \A j \in DOMAIN rows : ~TextBefore(rows[i].at, rows[j].at)
    BY <1>1, <1>2, TextOrderIsTimeOrder
  <2>2. rows[i].at \in top
    BY <2>1 DEF Range
  <2>3. HighestText = CHOOSE at \in ats : \A other \in Range(rows) : ~TextBefore(at, other.at)
    BY DEF HighestText
  <2>4. QED
    BY <2>2, <2>3
<1> HIDE DEF top
<1>4. PICK k \in DOMAIN rows : HighestText = rows[k].at
  BY <1>3 DEF Range, top
<1>5. \A j \in DOMAIN rows : ~TextBefore(HighestText, rows[j].at)
  BY <1>3 DEF Range, top
<1>6. HighestText \in Instant
  BY <1>1, <1>4
<1>7. \A j \in DOMAIN rows : ~Before(HighestText, rows[j].at)
  BY <1>1, <1>5, <1>6, TextOrderIsTimeOrder
<1>8. QED
  BY <1>4, <1>6, <1>7 DEF Range

\* Between the statements of latest an instant is kept.
NewestTyped == newest \in Instant \cup {NoInstant}

\* Store::latest compares the texts of the times, in two statements: whatever comes between
\* them, it starts from the newest instant and returns the rows that are not older, in time.
THEOREM LatestReturnsNewest == Spec => LatestIsNewest
<1> DEFINE Begin == newest = NoInstant /\ newest' # NoInstant =>
                      /\ \E o \in Range(rows) : o.at = newest'
                      /\ \A o \in Range(rows) : ~Before(newest', o.at)
           Return == newest # NoInstant =>
                       LET late == {i \in DOMAIN rows : ~Before(rows[i].at, newest)}
                       IN LatestRows = NewestOf(ElementsAt(rows, late, ByTime(rows, late)), HistoryCap)
<1>1. Init => NewestTyped
  BY DEF Init, NewestTyped
<1>2. RowsTyped /\ NewestTyped /\ [Next]_vars => NewestTyped'
  <2> SUFFICES ASSUME RowsTyped, NewestTyped, [Next]_vars
               PROVE  NewestTyped'
    OBVIOUS
  <2>1. CASE SelectNewest
    BY <2>1, HighestIsNewest DEF SelectNewest, NewestTyped
  <2>2. CASE SelectSince
    BY <2>2 DEF SelectSince, NewestTyped
  <2>3. CASE UNCHANGED newest
    BY <2>3 DEF NewestTyped
  <2>4. QED
    BY <2>1, <2>2, <2>3 DEF Next, Poll, Prune, InsertBatch, PruneBefore, vars
<1>3. RowsTyped /\ [Next]_vars => [Begin]_vars
  <2> SUFFICES ASSUME RowsTyped, Next, newest = NoInstant, newest' # NoInstant
               PROVE  /\ \E o \in Range(rows) : o.at = newest'
                      /\ \A o \in Range(rows) : ~Before(newest', o.at)
    OBVIOUS
  <2>1. SelectNewest
    BY DEF Next, Poll, Prune, InsertBatch, PruneBefore, SelectSince
  <2>2. QED
    BY <2>1, HighestIsNewest DEF SelectNewest
<1>4. RowsTyped /\ NewestTyped => Return
  <2> SUFFICES ASSUME RowsTyped, newest \in Instant, newest # NoInstant
               PROVE  Return
    BY DEF NewestTyped
  <2> DEFINE late == {i \in DOMAIN rows : ~Before(rows[i].at, newest)}
  <2>1. {i \in DOMAIN rows : Matches(rows[i], NoFilter, NoFilter, "any") /\ Since(rows[i], newest)} = late
    <3>1. \A i \in DOMAIN rows : Since(rows[i], newest) <=> ~Before(rows[i].at, newest)
      BY SinceByTime
    <3>2. \A i \in DOMAIN rows : Matches(rows[i], NoFilter, NoFilter, "any")
      BY DEF Matches
    <3>3. QED
      BY <3>1, <3>2
  <2>2. late \subseteq DOMAIN rows /\ rows \in Seq(Observation)
    BY DEF RowsTyped
  <2> HIDE DEF late
  <2>3. LatestRows = NewestOf(ElementsAt(rows, late, ByText(rows, late)), HistoryCap)
    BY <2>1 DEF LatestRows, History
  <2>4. ElementsAt(rows, late, ByText(rows, late)) = ElementsAt(rows, late, ByTime(rows, late))
    BY <2>2, TextOrdersPlaces
  <2>5. QED
    BY <2>3, <2>4 DEF late
<1>5. QED
  BY <1>1, <1>2, <1>3, <1>4, RowsAreTyped, PTL DEF Spec, LatestIsNewest

-----------------------------------------------------------------------------
(* Capacity *)

\* What a group says last of a metric has the type of the metric.
LEMMA LatestTyped ==
  ASSUME NEW group \in Seq(Observation), NEW metric, NEW none
  PROVE  Latest(group, metric, none) \in
           {none} \cup (IF metric = "ResetAt" THEN Instant ELSE Nat)
<1> DEFINE found == {i \in DOMAIN group : group[i].metric = metric}
<1>1. CASE found = {}
  BY <1>1 DEF Latest
<1>2. CASE found # {}
  <2>1. found \subseteq Int /\ \A i \in found : i <= Len(group)
    OBVIOUS
  <2>2. Len(group) \in Int
    OBVIOUS
  <2> DEFINE F == found
  <2> HIDE DEF F
  <2>3. Max(F) \in F
    BY <1>2, <2>1, <2>2, Greatest DEF F
  <2>4. Latest(group, metric, none) = group[Max(F)].value
    BY <1>2 DEF Latest, F
  <2>5. Max(F) \in DOMAIN group /\ group[Max(F)].metric = metric
    BY <2>3 DEF F
  <2>6. group[Max(F)] \in Observation
    BY <2>5
  <2>7. group[Max(F)].value \in IF metric = "ResetAt" THEN Instant ELSE Nat
    BY <2>5, <2>6 DEF Observation
  <2>8. QED
    BY <2>4, <2>7
<1>3. QED
  BY <1>1, <1>2

Count == Nat \cup {None}
Quota == [metric : {"Tokens", "Requests"}, used : Count, limit : Count, remaining : Count]

\* What remains is a count, or unknown.
LEMMA RemainingTyped ==
  ASSUME NEW reported \in Count, NEW limit \in Count, NEW used \in Count
  PROVE  Remaining(reported, limit, used) \in Count
BY DEF Remaining, Count, Both, SaturatingSub, None

\* A quota is made of counts (quota in capacity.rs).
LEMMA QuotaTyped ==
  ASSUME NEW group \in Seq(Observation), NEW used \in {"Tokens", "Requests"}, NEW limit, NEW remaining,
         used # "ResetAt", limit # "ResetAt", remaining # "ResetAt"
  PROVE  QuotaOf(group, used, limit, remaining) \in Quota
<1>1. \A metric \in {used, limit, remaining} : Latest(group, metric, None) \in Count
  BY LatestTyped DEF Count
<1>2. QED
  BY <1>1, RemainingTyped DEF QuotaOf, Quota

\* Fractions that are not greater.
NotMore(f, g) == f.num * g.den <= g.num * f.den

Fraction == [num : Nat, den : Nat \ {0}]

\* A threshold that a headroom is below, every lesser headroom is below.
LEMMA BelowMonotone ==
  ASSUME NEW f \in Fraction, NEW g \in Fraction, NotMore(f, g), NEW t \in Nat, Below(g, t)
  PROVE  Below(f, t)
<1> DEFINE a == f.num
           b == f.den
           c == g.num
           d == g.den
<1>1. a \in Nat /\ b \in Nat \ {0} /\ c \in Nat /\ d \in Nat \ {0}
  BY DEF Fraction
<1>2. a * d <= c * b /\ (100 * c < t * d \/ (100 * c = t * d /\ t \in RoundedDown))
  BY DEF NotMore, Below
<1>3. Below(f, t) <=> 100 * a < t * b \/ (100 * a = t * b /\ t \in RoundedDown)
  BY DEF Below
<1> HIDE DEF a, b, c, d
<1>4. (100 * a) * d <= (100 * c) * b
  <2>1. (100 * a) * d = 100 * (a * d) /\ (100 * c) * b = 100 * (c * b) /\ a * d \in Nat /\ c * b \in Nat
    BY <1>1
  <2>2. QED
    BY <1>2, <2>1
<1>5. CASE 100 * c < t * d
  <2>1. (100 * c) * b < (t * d) * b
    BY <1>1, <1>5
  <2>2. (t * d) * b = (t * b) * d
    BY <1>1
  <2>3. (100 * a) * d < (t * b) * d
    BY <1>1, <1>4, <2>1, <2>2
  <2>4. 100 * a < t * b
    BY <1>1, <2>3
  <2>5. QED
    BY <1>3, <2>4
<1>6. CASE 100 * c = t * d /\ t \in RoundedDown
  <2>1. (100 * c) * b = (t * b) * d
    BY <1>1, <1>6
  <2>2. (100 * a) * d <= (t * b) * d
    BY <1>4, <2>1
  <2>3. 100 * a <= t * b
    BY <1>1, <2>2
  <2>4. QED
    BY <1>1, <1>3, <1>6, <2>3
<1>7. QED
  BY <1>2, <1>5, <1>6

\* A headroom below a threshold is below every greater one.
LEMMA BelowGreater ==
  ASSUME NEW f \in Fraction, NEW t \in Nat, NEW u \in Nat, t <= u, Below(f, t)
  PROVE  Below(f, u)
<1>1. CASE t = u
  BY <1>1
<1>2. CASE t < u
  <2>1. 100 * f.num <= t * f.den /\ f.den \in Nat \ {0} /\ f.num \in Nat
    BY DEF Below, Fraction
  <2>2. t * f.den < u * f.den
    BY <1>2, <2>1
  <2>3. 100 * f.num < u * f.den
    BY <2>1, <2>2
  <2>4. QED
    BY <2>3 DEF Below
<1>3. QED
  BY <1>1, <1>2

Level(h) ==
  IF Below(h, Critical) THEN "Critical"
  ELSE IF Below(h, Constrained) THEN "Constrained"
  ELSE IF Below(h, Moderate) THEN "Moderate"
  ELSE "Healthy"

\* The cases of classify are those of a chain of thresholds.
LEMMA ClassifyByLevel ==
  ASSUME NEW h \in Fraction
  PROVE  /\ h # NoHeadroom
         /\ \A exhausted \in BOOLEAN : Classify(h, exhausted) = IF exhausted THEN "Exhausted" ELSE Level(h)
<1>1. h # NoHeadroom
  BY DEF Fraction, NoHeadroom
<1>2. /\ Below(h, Critical) => Below(h, Constrained)
      /\ Below(h, Constrained) => Below(h, Moderate)
  BY CapacityAssumption, BelowGreater
<1>3. QED
  BY <1>1, <1>2 DEF Classify, Level

\* The severities, one by one.
LEMMA Severities ==
  /\ Severity["Unknown"] = 0 /\ Severity["Healthy"] = 1 /\ Severity["Moderate"] = 2
  /\ Severity["Constrained"] = 3 /\ Severity["Critical"] = 4 /\ Severity["Exhausted"] = 5
BY DEF Severity

\* A lesser headroom, and what is exhausted staying so, never makes a state better.
LEMMA LessIsWorse ==
  ASSUME NEW f \in Fraction, NEW g \in Fraction \cup {NoHeadroom}, g # NoHeadroom => NotMore(f, g),
         NEW wasExhausted \in BOOLEAN, NEW exhausted \in BOOLEAN, wasExhausted => exhausted
  PROVE  Severity[Classify(f, exhausted)] >= Severity[Classify(g, wasExhausted)]
<1>1. Classify(f, exhausted) = IF exhausted THEN "Exhausted" ELSE Level(f)
  BY ClassifyByLevel
<1>2. CASE wasExhausted
  BY <1>1, <1>2, Severities DEF Classify
<1>3. CASE ~wasExhausted /\ g = NoHeadroom
  <2>1. Classify(g, wasExhausted) = "Unknown"
    BY <1>3 DEF Classify
  <2>2. QED
    BY <1>1, <2>1, Severities DEF Level
<1>4. CASE ~wasExhausted /\ g # NoHeadroom
  <2>1. Classify(g, wasExhausted) = Level(g)
    BY <1>4, ClassifyByLevel
  <2>2. \A t \in {Critical, Constrained, Moderate} : Below(g, t) => Below(f, t)
    BY <1>4, CapacityAssumption, BelowMonotone
  <2>3. QED
    BY <1>1, <2>1, <2>2, Severities DEF Level
<1>5. QED
  BY <1>2, <1>3, <1>4

\* The fraction of a quota of which a headroom is known.
Known(q) == q.limit > 0 /\ q.remaining # None
FractionOf(q) == [num |-> IF q.remaining < q.limit THEN q.remaining ELSE q.limit, den |-> q.limit]

\* What remains of a known quota is a fraction of its limit.
LEMMA FractionTyped ==
  ASSUME NEW q \in Quota, Known(q)
  PROVE  FractionOf(q) \in Fraction
BY DEF Quota, Count, Known, FractionOf, Fraction, None

\* The headroom of at most two quotas is that of one of them, and not more than any.
LEMMA HeadroomIsLeast ==
  ASSUME NEW p \in Quota, NEW r \in Quota, NEW quotas, quotas \subseteq {p, r}
  PROVE  /\ Headroom(quotas) = NoHeadroom <=> ~\E q \in quotas : Known(q)
         /\ Headroom(quotas) # NoHeadroom =>
              \E q \in quotas : Known(q) /\ Headroom(quotas) = FractionOf(q)
         /\ \A q \in quotas : Known(q) => NotMore(Headroom(quotas), FractionOf(q))
<1> DEFINE F == {FractionOf(q) : q \in {k \in quotas : Known(k)}}
<1>1. Headroom(quotas) = IF F = {} THEN NoHeadroom ELSE Tightest(F)
  BY DEF Headroom, Known, FractionOf
<1>2. F \subseteq {FractionOf(p), FractionOf(r)} /\ \A f \in F : f \in Fraction
  BY FractionTyped
<1>3. \A q \in quotas : Known(q) => FractionOf(q) \in F
  OBVIOUS
<1>4. \A f \in F : \E q \in quotas : Known(q) /\ f = FractionOf(q)
  OBVIOUS
<1> HIDE DEF F
<1>5. CASE F = {}
  BY <1>1, <1>3, <1>5
<1>6. CASE F # {}
  <2>1. \A f, g \in F : Less(f, g) => ~Less(g, f)
    <3>1. \A f \in F : f.num \in Nat /\ f.den \in Nat
      BY <1>2 DEF Fraction
    <3>2. \A f, g \in F : f.num * g.den \in Nat /\ g.num * f.den \in Nat
      BY <3>1
    <3>3. QED
      BY <3>2 DEF Less
  <2>2. \E f \in F : \A g \in F : ~Less(g, f)
    BY <1>2, <1>6, <2>1
  <2>3. Tightest(F) \in F /\ \A g \in F : ~Less(g, Tightest(F))
    BY <2>2 DEF Tightest
  <2>4. \A g \in F : NotMore(Tightest(F), g)
    <3>1. ASSUME NEW f \in F, NEW g \in F, ~Less(g, f)
          PROVE  NotMore(f, g)
      <4>1. f.num \in Nat /\ f.den \in Nat /\ g.num \in Nat /\ g.den \in Nat
        BY <1>2 DEF Fraction
      <4>2. f.num * g.den \in Nat /\ g.num * f.den \in Nat
        BY <4>1
      <4>3. QED
        BY <3>1, <4>2 DEF Less, NotMore
    <3>2. QED
      BY <2>3, <3>1
  <2>5. Headroom(quotas) \in Fraction /\ Headroom(quotas) # NoHeadroom
    <3>1. Headroom(quotas) \in Fraction
      BY <1>1, <1>2, <1>6, <2>3
    <3>2. QED
      BY <3>1, ClassifyByLevel
  <2>6. QED
    BY <1>1, <1>3, <1>4, <1>6, <2>3, <2>4, <2>5
<1>7. QED
  BY <1>5, <1>6

\* The places of a key in a list of observations.
Own(s, key) == {i \in DOMAIN s : KeyOf(s[i]) = key}

\* The observations of a key are in order of time.
LEMMA GroupInTime ==
  ASSUME NEW s \in Seq(Observation), NEW key
  PROVE  InTime(Group(s, key), s, Own(s, key))
<1>1. Own(s, key) \subseteq DOMAIN s
  BY DEF Own
<1>2. Group(s, key) = ElementsAt(s, Own(s, key), ByTime(s, Own(s, key)))
  BY DEF Group, Own
<1>3. QED
  BY <1>1, <1>2, SortedInTime

\* The two quotas of a group.
TokensOf(group) == QuotaOf(group, "Tokens", "TokenLimit", "RemainingTokens")
RequestsOf(group) == QuotaOf(group, "Requests", "RequestLimit", "RemainingRequests")

\* A key has a quota of tokens and one of requests, as far as they are known.
LEMMA TwoQuotas ==
  ASSUME NEW group \in Seq(Observation)
  PROVE  /\ TokensOf(group) \in Quota /\ RequestsOf(group) \in Quota
         /\ Quotas(group) = {q \in {TokensOf(group), RequestsOf(group)} :
                               ~(q.used = None /\ q.limit = None /\ q.remaining = None)}
<1>1. TokensOf(group) \in Quota /\ RequestsOf(group) \in Quota
  <2>1. "Tokens" # "ResetAt" /\ "TokenLimit" # "ResetAt" /\ "RemainingTokens" # "ResetAt"
    OBVIOUS
  <2>2. "Requests" # "ResetAt" /\ "RequestLimit" # "ResetAt" /\ "RemainingRequests" # "ResetAt"
    OBVIOUS
  <2>3. QuotaOf(group, "Tokens", "TokenLimit", "RemainingTokens") \in Quota
    BY <2>1, QuotaTyped
  <2>4. QuotaOf(group, "Requests", "RequestLimit", "RemainingRequests") \in Quota
    BY <2>2, QuotaTyped
  <2>5. QED
    BY <2>3, <2>4 DEF TokensOf, RequestsOf
<1>2. \A q : {q.used, q.limit, q.remaining} # {None} <=>
              ~(q.used = None /\ q.limit = None /\ q.remaining = None)
  OBVIOUS
<1>3. QED
  BY <1>1, <1>2 DEF Quotas, TokensOf, RequestsOf

\* What a query returns are observations.
LEMMA HistoryTyped ==
  ASSUME RowsTyped, NEW provider, NEW model, NEW metric, NEW since, NEW limit \in Nat
  PROVE  History(provider, model, metric, since, limit) \in Seq(Observation)
<1> DEFINE found == Found(provider, model, metric, since)
           cap == IF limit < HistoryCap THEN limit ELSE HistoryCap
<1>1. found = Found(provider, model, metric, since) /\ cap = IF limit < HistoryCap THEN limit ELSE HistoryCap
  OBVIOUS
<1> HIDE DEF found, cap
<1>2. NewestRows(History(provider, model, metric, since, limit), found,
                 IF cap < Cardinality(found) THEN cap ELSE Cardinality(found))
  BY <1>1, HistoryProperties
<1>3. QED
  BY <1>2 DEF NewestRows

\* An export is made of observations.
LEMMA ExportTyped ==
  ASSUME RowsTyped, NEW since, NEW now
  PROVE  \E known \in Seq(Observation) : Export(since, now) = SnapshotsAt(known, now)
<1>1. History(NoFilter, NoFilter, "any", since, HistoryCap) \in Seq(Observation)
  BY StoreAssumption, HistoryTyped
<1>2. QED
  BY <1>1 DEF Export

\* So is a status, whatever came between the two statements of its read.
LEMMA StatusTyped ==
  ASSUME RowsTyped, NEW now
  PROVE  \E known \in Seq(Observation) : Status(now) = SnapshotsAt(known, now)
<1>1. History(NoFilter, NoFilter, "any", newest, HistoryCap) \in Seq(Observation)
  BY StoreAssumption, HistoryTyped
<1>2. <<>> \in Seq(Observation)
  OBVIOUS
<1>3. LatestRows \in Seq(Observation)
  BY <1>1, <1>2 DEF LatestRows
<1>4. QED
  BY <1>3 DEF Status

\* derive_snapshot over any observations: the state of a key is no better than any one of its
\* quotas alone would make it.
THEOREM TightestRules == Spec => []TightestQuotaRules
<1>1. RowsTyped => TightestQuotaRules
  <2> SUFFICES ASSUME RowsTyped, NEW since \in Clock \cup {NoInstant}, NEW now \in Clock,
                      NEW s \in Export(since, now) \cup Status(now), NEW q \in s.quotas
               PROVE  Severity[s.state] >= Severity[Classify(Headroom({q}), q.remaining = 0)]
    BY DEF TightestQuotaRules
  <2>1. PICK known \in Seq(Observation) : s \in SnapshotsAt(known, now)
    BY ExportTyped, StatusTyped
  <2>2. PICK key : s = DeriveSnapshot(key, Group(known, key), now)
    BY <2>1 DEF SnapshotsAt
  <2> DEFINE group == Group(known, key)
             Q == Quotas(group)
  <2>3. group \in Seq(Observation)
    <3>1. InTime(Group(known, key), known, Own(known, key))
      BY <2>1, GroupInTime
    <3>2. QED
      BY <3>1 DEF InTime
  <2> HIDE DEF group
  <2>4. Q \subseteq {TokensOf(group), RequestsOf(group)}
    BY <2>3, TwoQuotas
  <2>5. s.quotas = Q /\ s.state = Classify(Headroom(Q), \E k \in Q : k.remaining = 0)
    BY <2>2 DEF DeriveSnapshot, group
  <2> HIDE DEF Q
  <2>6. TokensOf(group) \in Quota /\ RequestsOf(group) \in Quota /\ q \in Quota /\ q \in Q
    BY <2>3, <2>4, <2>5, TwoQuotas
  <2> DEFINE one == {q}
             exhausted == \E k \in Q : k.remaining = 0
  <2>7. one \subseteq {q, q} /\ \A k \in one : k = q
    OBVIOUS
  <2>8. q.remaining = 0 => exhausted
    BY <2>6
  <2>9. q \in one
    OBVIOUS
  <2> HIDE DEF one, exhausted
  <2>10. /\ Headroom(one) = NoHeadroom <=> ~Known(q)
         /\ Known(q) => Headroom(one) = FractionOf(q)
    BY <2>6, <2>7, <2>9, HeadroomIsLeast
  <2>11. CASE Known(q)
    <3>1. /\ NotMore(Headroom(Q), FractionOf(q))
          /\ \E k \in Q : Known(k) /\ Headroom(Q) = FractionOf(k)
      BY <2>4, <2>6, <2>11, HeadroomIsLeast
    <3>2. Headroom(Q) \in Fraction /\ FractionOf(q) \in Fraction
      <4>1. \A k \in Q : k \in Quota
        BY <2>4, <2>6
      <4>2. QED
        BY <2>6, <2>11, <3>1, <4>1, FractionTyped
    <3>3. (q.remaining = 0) \in BOOLEAN /\ exhausted \in BOOLEAN
      BY DEF exhausted
    <3>4. Severity[Classify(Headroom(Q), exhausted)] >= Severity[Classify(FractionOf(q), q.remaining = 0)]
      BY <2>8, <3>1, <3>2, <3>3, LessIsWorse
    <3>5. QED
      BY <2>5, <2>10, <2>11, <3>4 DEF one, exhausted
  <2>12. CASE ~Known(q)
    <3>1. CASE q.remaining = 0
      <4>1. Classify(Headroom(Q), exhausted) = "Exhausted" /\ Classify(Headroom(one), q.remaining = 0) = "Exhausted"
        BY <2>8, <3>1 DEF Classify
      <4>2. s.state = "Exhausted" /\ Classify(Headroom({q}), q.remaining = 0) = "Exhausted"
        BY <2>5, <4>1 DEF one, exhausted
      <4>3. QED
        BY <4>2, Severities
    <3>2. CASE q.remaining # 0
      <4>1. Classify(Headroom(one), q.remaining = 0) = "Unknown"
        BY <2>10, <2>12, <3>2 DEF Classify
      <4>2. Severity[Classify(Headroom(Q), exhausted)] >= 0
        <5>1. CASE Headroom(Q) = NoHeadroom
          BY <5>1, Severities DEF Classify
        <5>2. CASE Headroom(Q) # NoHeadroom
          <6>1. Headroom(Q) \in Fraction
            <7>1. \A k \in Q : k \in Quota
              BY <2>4, <2>6
            <7>2. \E k \in Q : Known(k) /\ Headroom(Q) = FractionOf(k)
              BY <2>4, <2>6, <5>2, HeadroomIsLeast
            <7>3. QED
              BY <7>1, <7>2, FractionTyped
          <6>2. Classify(Headroom(Q), exhausted) = IF exhausted THEN "Exhausted" ELSE Level(Headroom(Q))
            BY <6>1, ClassifyByLevel DEF exhausted
          <6>3. QED
            BY <6>2, Severities DEF Level
        <5>3. QED
          BY <5>1, <5>2
      <4>3. QED
        BY <2>5, <4>1, <4>2, Severities DEF one, exhausted
    <3>3. QED
      BY <3>1, <3>2
  <2>13. QED
    BY <2>11, <2>12
<1>2. QED
  BY <1>1, RowsAreTyped, PTL

\* Of these places the one whose observation is last.
LastPlace(s, F, i) ==
  /\ i \in F
  /\ \A j \in F : j = i \/ Before(s[j].at, s[i].at) \/ (s[j].at = s[i].at /\ j < i)

Says(s, key, metric) == {i \in Own(s, key) : s[i].metric = metric}

\* What is latest in a group is what the last of its observations of the metric says.
LEMMA LatestOfGroup ==
  ASSUME NEW s \in Seq(Observation), NEW key, NEW metric, NEW none
  PROVE  /\ Says(s, key, metric) = {} => Latest(Group(s, key), metric, none) = none
         /\ \A i : LastPlace(s, Says(s, key, metric), i) =>
                     Latest(Group(s, key), metric, none) = s[i].value
         /\ Says(s, key, metric) # {} => \E i : LastPlace(s, Says(s, key, metric), i)
<1> DEFINE P == Own(s, key)
           R == ByTime(s, P)
           g == Group(s, key)
           order == Sorted(P, R)
           N == Cardinality(P)
           F == Says(s, key, metric)
           found == {n \in DOMAIN g : g[n].metric = metric}
<1>1. P \subseteq DOMAIN s /\ g = ElementsAt(s, P, R)
  BY DEF Group, Own
<1>2. \A p, q \in P : <<p, q>> \in R <=> Before(s[p].at, s[q].at) \/ (s[p].at = s[q].at /\ p < q)
  BY DEF ByTime
<1>3. F = {i \in P : s[i].metric = metric}
  BY DEF Says
<1> HIDE DEF P
<1>4. StrictOrder(P, R)
  BY <1>1, TimeOrdersPlaces
<1> HIDE DEF R, F, g
<1>5. /\ IsFiniteSet(P) /\ N \in Nat /\ g \in Seq(Observation) /\ Len(g) = N
      /\ \A n \in 1..N : order[n] \in P /\ g[n] = s[order[n]]
  BY <1>1, <1>4, AtProperties
<1>6. /\ \A m, n \in 1..N : m < n => <<order[m], order[n]>> \in R
      /\ \A x \in P : \E n \in 1..N : order[n] = x
  BY <1>4, <1>5, SortedInOrder
<1> HIDE DEF order, N
<1>7. DOMAIN g = 1..N
  BY <1>5
<1>8. \A n \in 1..N : n \in found <=> order[n] \in F
  BY <1>3, <1>5, <1>7
<1>9. \A i \in F : \E n \in found : order[n] = i
  BY <1>3, <1>6, <1>7, <1>8
<1>10. \A n \in found : n \in 1..N
  BY <1>7
<1> HIDE DEF found
<1>11. Latest(g, metric, none) = IF found = {} THEN none ELSE g[Max(found)].value
  BY DEF Latest, found
<1>12. CASE F = {}
  <2>1. found = {}
    BY <1>8, <1>10, <1>12
  <2>2. Latest(g, metric, none) = none
    BY <1>11, <2>1
  <2>3. \A i : ~LastPlace(s, F, i)
    BY <1>12 DEF LastPlace
  <2>4. QED
    BY <1>12, <2>2, <2>3 DEF F, g
<1>13. CASE F # {}
  <2> DEFINE k == Max(found)
  <2>1. found # {}
    BY <1>9, <1>13
  <2>2. k \in found /\ \A n \in found : n <= k
    <3>1. found \subseteq Int /\ \A n \in found : n <= N
      BY <1>5, <1>10
    <3>2. N \in Int
      BY <1>5
    <3>3. Max(found) \in found /\ \A n \in found : n <= Max(found)
      BY <2>1, <3>1, <3>2, Greatest
    <3>4. QED
      BY <3>3
  <2> HIDE DEF k
  <2>3. k \in 1..N /\ order[k] \in F /\ order[k] \in P
    BY <1>5, <1>8, <1>10, <2>2
  <2>4. Latest(g, metric, none) = s[order[k]].value
    BY <1>5, <1>11, <2>1, <2>3 DEF k
  <2>5. LastPlace(s, F, order[k])
    <3> SUFFICES ASSUME NEW j \in F, j # order[k]
                 PROVE  Before(s[j].at, s[order[k]].at) \/ (s[j].at = s[order[k]].at /\ j < order[k])
      BY <2>3 DEF LastPlace
    <3>1. PICK n \in found : order[n] = j
      BY <1>9
    <3>2. n < k /\ n \in 1..N
      <4>1. n \in 1..N /\ n <= k /\ n # k
        BY <1>10, <2>2, <3>1
      <4>2. QED
        BY <2>3, <4>1
    <3>3. <<j, order[k]>> \in R
      BY <1>6, <2>3, <3>1, <3>2
    <3>4. QED
      BY <1>2, <1>3, <2>3, <3>3
  <2>6. ASSUME NEW i, LastPlace(s, F, i)
        PROVE  i = order[k]
    <3>1. i \in F /\ i \in P
      BY <1>3, <2>6 DEF LastPlace
    <3>2. s[i].at \in Instant /\ s[order[k]].at \in Instant /\ i \in Int /\ order[k] \in Int
      BY <1>1, <2>3, <3>1 DEF Observation
    <3>3. i = order[k] \/ Before(s[order[k]].at, s[i].at) \/ (s[order[k]].at = s[i].at /\ order[k] < i)
      BY <2>3, <2>6 DEF LastPlace
    <3>4. i = order[k] \/ Before(s[i].at, s[order[k]].at) \/ (s[order[k]].at = s[i].at /\ i < order[k])
      BY <2>5, <3>1 DEF LastPlace
    <3>5. CASE Before(s[order[k]].at, s[i].at)
      BY <3>2, <3>4, <3>5, TimeIsTotal
    <3>6. CASE s[order[k]].at = s[i].at /\ order[k] < i
      BY <3>2, <3>4, <3>6, TimeIsTotal
    <3>7. QED
      BY <3>3, <3>5, <3>6
  <2>7. QED
    BY <1>13, <2>4, <2>5, <2>6 DEF F, g
<1>14. QED
  BY <1>12, <1>13

\* A new observation at an instant that is not before any other is the last of its metric,
\* and leaves the others as they are.
LEMMA LatestAfter ==
  ASSUME NEW s \in Seq(Observation), NEW o \in Observation,
         \A p \in Range(s) : ~Before(o.at, p.at),
         NEW metric, NEW none
  PROVE  Latest(Group(Append(s, o), KeyOf(o)), metric, none) =
           IF metric = o.metric THEN o.value ELSE Latest(Group(s, KeyOf(o)), metric, none)
<1> DEFINE t == Append(s, o)
           key == KeyOf(o)
           last == Len(s) + 1
           F == Says(s, key, metric)
           G == Says(t, key, metric)
<1>1. /\ t \in Seq(Observation) /\ Len(s) \in Nat /\ Len(t) = last
      /\ DOMAIN s = 1..Len(s) /\ DOMAIN t = 1..last
      /\ \A i \in 1..Len(s) : t[i] = s[i]
      /\ t[last] = o
  BY AppendProperties
<1>2. /\ \A i : i \in F <=> i \in 1..Len(s) /\ KeyOf(s[i]) = key /\ s[i].metric = metric
      /\ \A i : i \in G <=> i \in 1..last /\ KeyOf(t[i]) = key /\ t[i].metric = metric
  BY <1>1 DEF Says, Own
<1> HIDE DEF F, G, t
<1>3. CASE metric = o.metric
  <2>1. last \in G
    BY <1>1, <1>2, <1>3
  <2>2. ASSUME NEW j \in G, j # last
        PROVE  Before(t[j].at, o.at) \/ (t[j].at = o.at /\ j < last)
    <3>1. j \in 1..Len(s) /\ t[j] = s[j]
      BY <1>1, <1>2, <2>2
    <3>2. s[j] \in Observation /\ s[j] \in Range(s)
      BY <1>1, <3>1 DEF Range
    <3>3. ~Before(o.at, s[j].at) /\ s[j].at \in Instant /\ o.at \in Instant
      BY <3>2 DEF Observation
    <3>4. QED
      BY <1>1, <3>1, <3>3, TimeIsTotal
  <2>3. LastPlace(t, G, last)
    BY <1>1, <2>1, <2>2 DEF LastPlace
  <2>4. Latest(Group(t, key), metric, none) = t[last].value
    BY <1>1, <2>3, LatestOfGroup DEF G
  <2>5. QED
    BY <1>1, <1>3, <2>4 DEF t
<1>4. CASE metric # o.metric
  <2>1. F = G
    <3>1. last \notin G
      BY <1>1, <1>2, <1>4
    <3>2. \A i : i \in G <=> i \in F
      <4> SUFFICES ASSUME NEW i PROVE i \in G <=> i \in F
        OBVIOUS
      <4>1. i \in 1..Len(s) => (i \in G <=> i \in F)
        BY <1>1, <1>2
      <4>2. i \in 1..last => i = last \/ i \in 1..Len(s)
        BY <1>1
      <4>3. QED
        BY <1>2, <3>1, <4>1, <4>2
    <3>3. QED
      BY <3>2
  <2>2. CASE F = {}
    <3>0. t \in Seq(Observation) /\ Says(t, key, metric) = {}
      BY <1>1, <2>1, <2>2 DEF G
    <3>1. Latest(Group(t, key), metric, none) = none
      BY <3>0, LatestOfGroup
    <3>2. Latest(Group(s, key), metric, none) = none
      BY <2>2, LatestOfGroup DEF F
    <3>3. QED
      BY <1>4, <3>1, <3>2 DEF t
  <2>3. CASE F # {}
    <3>1. PICK i : LastPlace(s, F, i)
      BY <2>3, LatestOfGroup DEF F
    <3>2. i \in F /\ \A j \in F : s[j] = t[j]
      BY <1>1, <1>2, <3>1 DEF LastPlace
    <3>3. LastPlace(t, G, i)
      BY <2>1, <3>1, <3>2 DEF LastPlace
    <3>4. Latest(Group(s, key), metric, none) = s[i].value
      BY <3>1, LatestOfGroup DEF F
    <3>5. Latest(Group(t, key), metric, none) = t[i].value
      BY <1>1, <3>3, LatestOfGroup DEF G
    <3>6. QED
      BY <1>4, <3>2, <3>4, <3>5 DEF t
  <2>4. QED
    BY <2>2, <2>3
<1>5. QED
  BY <1>3, <1>4

\* There is one snapshot of a key.
LEMMA SnapshotOfKey ==
  ASSUME NEW observations, NEW key \in Keys(observations), NEW now
  PROVE  (CHOOSE s \in SnapshotsAt(observations, now) : s.key = key) =
           DeriveSnapshot(key, Group(observations, key), now)
<1> DEFINE Of(k) == DeriveSnapshot(k, Group(observations, k), now)
<1>0. \A k : Of(k).key = k
  BY DEF DeriveSnapshot
<1>1. \A s \in SnapshotsAt(observations, now) : \E k \in Keys(observations) : s = Of(k)
  BY DEF SnapshotsAt
<1>2. Of(key) \in SnapshotsAt(observations, now)
  BY DEF SnapshotsAt
<1> HIDE DEF Of
<1>3. (CHOOSE s \in SnapshotsAt(observations, now) : s.key = key) = Of(key)
  BY <1>0, <1>1, <1>2
<1>4. QED
  BY <1>3 DEF Of

\* More used leaves as much or less.
LEMMA UseTightens ==
  ASSUME NEW q \in Quota, NEW r \in Quota, r.limit = q.limit, q.used # None, r.used # None,
         NEW reported \in Count,
         q.remaining = Remaining(reported, q.limit, q.used),
         r.remaining = Remaining(reported, q.limit, r.used),
         q.used <= r.used
  PROVE  /\ Known(q) <=> Known(r)
         /\ Known(q) => NotMore(FractionOf(r), FractionOf(q))
         /\ q.remaining = 0 => r.remaining = 0
<1>1. /\ q.limit \in Count /\ q.used \in Nat /\ r.used \in Nat
      /\ q.remaining \in Count /\ r.remaining \in Count
  BY DEF Quota, Count
<1>2. /\ q.remaining = None <=> r.remaining = None
      /\ q.remaining # None => r.remaining <= q.remaining /\ r.remaining \in Nat /\ q.remaining \in Nat
  BY <1>1 DEF Remaining, Both, SaturatingSub, Count, None
<1>3. ASSUME Known(q)
      PROVE  NotMore(FractionOf(r), FractionOf(q))
  <2> DEFINE a == FractionOf(r).num
             b == FractionOf(q).num
  <2>1. a \in Nat /\ b \in Nat /\ a <= b /\ q.limit \in Nat
    BY <1>1, <1>2, <1>3 DEF Known, FractionOf, Count, None
  <2>2. FractionOf(r).den = q.limit /\ FractionOf(q).den = q.limit
    BY DEF FractionOf
  <2> HIDE DEF a, b
  <2>3. a * q.limit <= b * q.limit
    BY <2>1
  <2>4. QED
    BY <2>2, <2>3 DEF NotMore, a, b
<1>4. QED
  BY <1>1, <1>2, <1>3 DEF Known, Count, None

\* Fractions are compared transitively.
LEMMA NotMoreTransitive ==
  ASSUME NEW f \in Fraction, NEW g \in Fraction, NEW h \in Fraction, NotMore(f, g), NotMore(g, h)
  PROVE  NotMore(f, h)
<1> DEFINE a == f.num
           b == f.den
           c == g.num
           d == g.den
           x == h.num
           y == h.den
<1>1. /\ a \in Nat /\ b \in Nat \ {0} /\ c \in Nat /\ d \in Nat \ {0} /\ x \in Nat /\ y \in Nat \ {0}
  BY DEF Fraction
<1>2. a * d <= c * b /\ c * y <= x * d /\ (NotMore(f, h) <=> a * y <= x * b)
  BY DEF NotMore
<1> HIDE DEF a, b, c, d, x, y
<1>3. (a * d) * y <= (c * b) * y
  BY <1>1, <1>2
<1>4. (c * y) * b <= (x * d) * b
  BY <1>1, <1>2
<1>5. (a * y) * d <= (x * b) * d
  <2>1. /\ (a * d) * y = (a * y) * d /\ (c * b) * y = (c * y) * b /\ (x * d) * b = (x * b) * d
        /\ (a * y) * d \in Nat /\ (c * y) * b \in Nat /\ (x * b) * d \in Nat
    BY <1>1
  <2>2. QED
    BY <1>3, <1>4, <2>1
<1>6. a * y <= x * b
  <2>1. a * y \in Nat /\ x * b \in Nat
    BY <1>1
  <2>2. CASE a * y > x * b
    <3>1. (a * y) * d > (x * b) * d
      BY <1>1, <2>1, <2>2
    <3>2. QED
      BY <1>1, <1>5, <2>1, <3>1
  <2>3. QED
    BY <2>1, <2>2
<1>7. QED
  BY <1>2, <1>6

\* More of one quota used never makes a state better.
LEMMA UseWorsens ==
  ASSUME NEW g \in Seq(Observation), NEW h \in Seq(Observation),
         TokensOf(g).used # None, TokensOf(h).used # None, RequestsOf(h) = RequestsOf(g),
         Known(TokensOf(g)) <=> Known(TokensOf(h)),
         Known(TokensOf(g)) => NotMore(FractionOf(TokensOf(h)), FractionOf(TokensOf(g))),
         TokensOf(g).remaining = 0 => TokensOf(h).remaining = 0
  PROVE  Severity[Classify(Headroom(Quotas(h)), \E q \in Quotas(h) : q.remaining = 0)] >=
           Severity[Classify(Headroom(Quotas(g)), \E q \in Quotas(g) : q.remaining = 0)]
<1> DEFINE Q == Quotas(g)
           R == Quotas(h)
           t == TokensOf(g)
           u == TokensOf(h)
           r == RequestsOf(g)
           was == \E q \in Q : q.remaining = 0
           is == \E q \in R : q.remaining = 0
<1>1. /\ t \in Quota /\ u \in Quota /\ r \in Quota
      /\ t \in Q /\ u \in R /\ Q \subseteq {t, r} /\ R \subseteq {u, r}
      /\ (r \in Q => r \in R) /\ (r \in R /\ r # u => r \in Q)
  BY TwoQuotas
<1> HIDE DEF Q, R, t, u, r
<1>2. /\ Known(t) <=> Known(u)
      /\ Known(t) => NotMore(FractionOf(u), FractionOf(t))
      /\ t.remaining = 0 => u.remaining = 0
  BY DEF t, u
<1>3. was => is
  BY <1>1, <1>2
<1>4. was \in BOOLEAN /\ is \in BOOLEAN
  OBVIOUS
<1>5. \A q \in Q : q \in Quota
  BY <1>1
<1>6. \A q \in R : q \in Quota
  BY <1>1
<1> HIDE DEF was, is
<1>7. /\ Headroom(Q) = NoHeadroom <=> ~\E q \in Q : Known(q)
      /\ Headroom(Q) # NoHeadroom => \E q \in Q : Known(q) /\ Headroom(Q) = FractionOf(q)
  BY <1>1, HeadroomIsLeast
<1>8. /\ Headroom(R) = NoHeadroom <=> ~\E q \in R : Known(q)
      /\ Headroom(R) # NoHeadroom => \E q \in R : Known(q) /\ Headroom(R) = FractionOf(q)
      /\ \A q \in R : Known(q) => NotMore(Headroom(R), FractionOf(q))
  BY <1>1, HeadroomIsLeast
<1>9. CASE Headroom(R) = NoHeadroom
  <2>1. Headroom(Q) = NoHeadroom
    BY <1>1, <1>2, <1>7, <1>8, <1>9
  <2>2. Severity[Classify(NoHeadroom, is)] >= Severity[Classify(NoHeadroom, was)]
    BY <1>3, <1>4, Severities DEF Classify
  <2>3. QED
    BY <1>9, <2>1, <2>2 DEF is, was, Q, R
<1>10. CASE Headroom(R) # NoHeadroom
  <2>1. Headroom(R) \in Fraction
    BY <1>6, <1>8, <1>10, FractionTyped
  <2>2. Headroom(Q) \in Fraction \cup {NoHeadroom}
    BY <1>5, <1>7, FractionTyped
  <2>3. ASSUME Headroom(Q) # NoHeadroom
        PROVE  NotMore(Headroom(R), Headroom(Q))
    <3>1. PICK q \in Q : Known(q) /\ Headroom(Q) = FractionOf(q)
      BY <1>7, <2>3
    <3>2. CASE q \in R
      BY <1>8, <3>1, <3>2
    <3>3. CASE q = t
      <4>1. NotMore(Headroom(R), FractionOf(u)) /\ NotMore(FractionOf(u), FractionOf(t))
        BY <1>1, <1>2, <1>8, <3>1, <3>3
      <4>2. FractionOf(u) \in Fraction /\ FractionOf(t) \in Fraction
        BY <1>1, <1>2, <3>1, <3>3, FractionTyped
      <4>3. NotMore(Headroom(R), FractionOf(t))
        BY <2>1, <4>1, <4>2, NotMoreTransitive
      <4>4. QED
        BY <3>1, <3>3, <4>3
    <3>4. QED
      BY <1>1, <3>2, <3>3
  <2>4. Severity[Classify(Headroom(R), is)] >= Severity[Classify(Headroom(Q), was)]
    BY <1>3, <1>4, <2>1, <2>2, <2>3, LessIsWorse
  <2>5. QED
    BY <2>4 DEF is, was, Q, R
<1>11. QED
  BY <1>9, <1>10

\* derive_snapshot and classify over any observations: another one that reports more tokens
\* used never improves the state of its key, whatever else is known of it.
THEOREM UseWeighs == Spec => []UseNeverRelieves
<1>1. RowsTyped => UseNeverRelieves
  <2> DEFINE known == History(NoFilter, NoFilter, "any", NoInstant, HistoryCap)
  <2> SUFFICES ASSUME RowsTyped, NEW key \in Keys(known), NEW more \in {1, 10}, NEW now \in Clock,
                      Latest(Group(known, key), "Tokens", None) # None,
                      \A o \in Range(known) : ~Before(now, o.at)
               PROVE  LET used == Latest(Group(known, key), "Tokens", None)
                          later == Append(known, Observed(key[1], key[2], "Tokens", used + more, now))
                          state(observations) ==
                            (CHOOSE s \in SnapshotsAt(observations, now) : s.key = key).state
                      IN Severity[state(later)] >= Severity[state(known)]
    BY DEF UseNeverRelieves
  <2> DEFINE used == Latest(Group(known, key), "Tokens", None)
             o == Observed(key[1], key[2], "Tokens", used + more, now)
             later == Append(known, o)
             g == Group(known, key)
             h == Group(later, key)
  <2>1. known \in Seq(Observation)
    BY StoreAssumption, HistoryTyped
  <2> HIDE DEF known
  <2>2. g \in Seq(Observation)
    <3>1. InTime(Group(known, key), known, Own(known, key))
      BY <2>1, GroupInTime
    <3>2. QED
      BY <3>1 DEF InTime
  <2>3. used \in Nat
    <3>1. used \in {None} \cup (IF "Tokens" = "ResetAt" THEN Instant ELSE Nat)
      BY <2>2, LatestTyped
    <3>2. QED
      BY <3>1
  <2>4. key = <<key[1], key[2]>> /\ key[1] \in Int /\ key[2] \in Int
    <3>1. PICK p \in Range(known) : key = <<p.provider, p.model>>
      BY DEF Keys, KeyOf
    <3>2. p \in Observation
      BY <2>1, <3>1 DEF Range
    <3>3. QED
      BY <3>1, <3>2 DEF Observation
  <2>5. o \in Observation /\ KeyOf(o) = key /\ o.metric = "Tokens" /\ o.value = used + more /\ o.at = now
    <3>1. now \in Instant /\ used + more \in Nat
      BY <2>3, StoreAssumption
    <3>2. "Tokens" \in Range(MetricOrder)
      BY DEF MetricOrder, Range
    <3> HIDE DEF used
    <3>3. o \in Observation
      BY <2>4, <3>1, <3>2 DEF Observed, Observation
    <3>4. KeyOf(o) = <<key[1], key[2]>>
      BY DEF KeyOf, Observed
    <3>5. QED
      BY <2>4, <3>3, <3>4 DEF Observed
  <2> HIDE DEF o
  <2>6. later \in Seq(Observation) /\ key \in Keys(later)
    <3>1. later \in Seq(Observation) /\ Len(known) + 1 \in DOMAIN later /\ later[Len(known) + 1] = o
      BY <2>1, <2>5, AppendProperties
    <3>2. o \in Range(later)
      BY <3>1 DEF Range
    <3>3. QED
      BY <2>5, <3>1, <3>2 DEF Keys
  <2>7. \A metric, none : Latest(h, metric, none) =
          IF metric = "Tokens" THEN used + more ELSE Latest(g, metric, none)
    <3> TAKE metric, none
    <3>1. \A p \in Range(known) : ~Before(o.at, p.at)
      BY <2>5
    <3>2. Latest(Group(Append(known, o), KeyOf(o)), metric, none) =
            IF metric = o.metric THEN o.value ELSE Latest(Group(known, KeyOf(o)), metric, none)
      BY <2>1, <2>5, <3>1, LatestAfter
    <3>3. QED
      BY <2>5, <3>2
  <2>8. h \in Seq(Observation)
    <3> HIDE DEF later
    <3>1. InTime(Group(later, key), later, Own(later, key))
      BY <2>6, GroupInTime
    <3>2. QED
      BY <3>1 DEF InTime
  <2>9. used = Latest(g, "Tokens", None)
    OBVIOUS
  <2>10. /\ (CHOOSE s \in SnapshotsAt(later, now) : s.key = key) = DeriveSnapshot(key, h, now)
         /\ (CHOOSE s \in SnapshotsAt(known, now) : s.key = key) = DeriveSnapshot(key, g, now)
    BY <2>6, SnapshotOfKey
  <2> HIDE DEF g, h, later, used
  <2>11. RequestsOf(h) = RequestsOf(g)
    BY <2>7 DEF RequestsOf, QuotaOf
  <2> DEFINE t == TokensOf(g)
             u == TokensOf(h)
             reported == Latest(g, "RemainingTokens", None)
  <2>12. /\ t.used = used /\ u.used = used + more /\ u.limit = t.limit
         /\ t.remaining = Remaining(reported, t.limit, t.used)
         /\ u.remaining = Remaining(reported, t.limit, u.used)
    BY <2>7, <2>9 DEF TokensOf, QuotaOf
  <2>13. t \in Quota /\ u \in Quota
    BY <2>2, <2>8, TwoQuotas
  <2>14. reported \in Count
    <3>1. reported \in {None} \cup (IF "RemainingTokens" = "ResetAt" THEN Instant ELSE Nat)
      BY <2>2, LatestTyped
    <3>2. QED
      BY <3>1 DEF Count
  <2> HIDE DEF t, u, reported
  <2>15. t.used # None /\ u.used # None /\ t.used <= u.used
    BY <2>3, <2>12 DEF None
  <2>16. /\ Known(t) <=> Known(u)
         /\ Known(t) => NotMore(FractionOf(u), FractionOf(t))
         /\ t.remaining = 0 => u.remaining = 0
    BY <2>12, <2>13, <2>14, <2>15, UseTightens
  <2>17. Severity[Classify(Headroom(Quotas(h)), \E q \in Quotas(h) : q.remaining = 0)] >=
           Severity[Classify(Headroom(Quotas(g)), \E q \in Quotas(g) : q.remaining = 0)]
    BY <2>2, <2>8, <2>11, <2>15, <2>16, UseWorsens DEF t, u
  <2>18. Severity[DeriveSnapshot(key, h, now).state] >= Severity[DeriveSnapshot(key, g, now).state]
    BY <2>17 DEF DeriveSnapshot
  <2>19. QED
    BY <2>10, <2>18 DEF later, o, used, g
<1>2. QED
  BY <1>1, RowsAreTyped, PTL

-----------------------------------------------------------------------------
(* Projections and events *)

\* What a snapshot says of instants.
LEMMA SnapshotTyped ==
  ASSUME NEW key \in Int \X Int, NEW group \in Seq(Observation), NEW now \in Instant,
         NEW s, s = DeriveSnapshot(key, group, now)
  PROVE  /\ s.key = key /\ s.reset = Latest(group, "ResetAt", NoInstant)
         /\ s.reset \in Instant \cup {NoInstant} /\ s.exhaustion \in Instant \cup {NoInstant}
<1>1. s.key = key /\ s.reset = Latest(group, "ResetAt", NoInstant)
  BY DEF DeriveSnapshot
<1>2. s.reset \in Instant \cup {NoInstant}
  BY <1>1, LatestTyped
<1> DEFINE tokens == TokensOf(group).remaining
           rate == Latest(group, "TokensPerMinute", None)
<1>3. s.exhaustion = Projected(tokens, rate, s.reset, now)
  BY <1>1 DEF DeriveSnapshot, TokensOf
<1>4. tokens \in Count /\ rate \in Count
  <2>1. TokensOf(group) \in Quota
    BY TwoQuotas
  <2>2. rate \in {None} \cup (IF "TokensPerMinute" = "ResetAt" THEN Instant ELSE Nat)
    BY LatestTyped
  <2>3. QED
    BY <2>1, <2>2 DEF Quota, Count
<1> HIDE DEF tokens, rate
<1>5. RunOut(tokens, rate, now) \in Instant \cup {NoInstant}
  <2>1. CASE ~Both(tokens, rate) \/ rate = 0
    BY <2>1 DEF RunOut
  <2>2. CASE Both(tokens, rate) /\ rate # 0
    <3>1. tokens \in Nat /\ rate \in Nat \ {0}
      BY <1>4, <2>2 DEF Count, Both
    <3>2. (60 * tokens) \div rate \in Nat
      <4>1. 60 * tokens \in Nat
        BY <3>1
      <4>2. QED
        BY <3>1, <4>1
    <3>3. Plus(now, (60 * tokens) \div rate) \in Instant
      BY <3>2 DEF Plus, Instant
    <3>4. QED
      BY <2>2, <3>3 DEF RunOut
  <2>3. QED
    BY <2>1, <2>2
<1>6. QED
  BY <1>1, <1>2, <1>3, <1>5 DEF Projected

\* Events as the code has them.
EventType ==
  [key : Int \X Int, at : Instant, kind : {"QuotaReset", "ExpectedRecovery", "ProjectedExhaustion"}]

\* The events of a snapshot: all but the projected exhaustion are at its reset.
LEMMA EventsTyped ==
  ASSUME NEW key \in Int \X Int, NEW group \in Seq(Observation), NEW now \in Instant,
         NEW e \in EventsOf(DeriveSnapshot(key, group, now))
  PROVE  /\ e \in EventType /\ e.key = key
         /\ e.kind # "ProjectedExhaustion" => e.at = Latest(group, "ResetAt", NoInstant)
<1> DEFINE s == DeriveSnapshot(key, group, now)
<1>1. /\ s.key = key /\ s.reset = Latest(group, "ResetAt", NoInstant)
      /\ s.reset \in Instant \cup {NoInstant} /\ s.exhaustion \in Instant \cup {NoInstant}
  <2>1. s = DeriveSnapshot(key, group, now)
    OBVIOUS
  <2> HIDE DEF s
  <2>2. QED
    BY <2>1, SnapshotTyped
<1> HIDE DEF s
<1>2. /\ e \in {Event(s.key, s.reset, "QuotaReset"),
                Event(s.key, s.reset, "ExpectedRecovery"),
                Event(s.key, s.exhaustion, "ProjectedExhaustion")}
      /\ e.at # NoInstant
  BY DEF EventsOf, s
<1>3. CASE e = Event(s.key, s.reset, "QuotaReset")
  BY <1>1, <1>2, <1>3 DEF Event, EventType
<1>4. CASE e = Event(s.key, s.reset, "ExpectedRecovery")
  BY <1>1, <1>2, <1>4 DEF Event, EventType
<1>5. CASE e = Event(s.key, s.exhaustion, "ProjectedExhaustion")
  BY <1>1, <1>2, <1>5 DEF Event, EventType
<1>6. QED
  BY <1>2, <1>3, <1>4, <1>5

\* Events are in a strict total order: no two have the same instant, key and kind.
LEMMA EventOrder ==
  ASSUME NEW E, E \subseteq EventType, NEW R, \A e, f \in E : <<e, f>> \in R <=> EventBefore(e, f)
  PROVE  StrictOrder(E, R)
<1>1. \A e \in E : /\ e.at \in Instant /\ e.key[1] \in Int /\ e.key[2] \in Int /\ Rank(e.kind) \in Int
                   /\ e.key = <<e.key[1], e.key[2]>>
                   /\ e = [key |-> e.key, at |-> e.at, kind |-> e.kind]
  BY DEF EventType, Rank
<1>2. \A e, f \in E : Rank(e.kind) = Rank(f.kind) => e.kind = f.kind
  BY DEF EventType, Rank
<1>3. \A e \in E : <<e, e>> \notin R
  BY <1>1, TimeIsTotal DEF EventBefore, KeyBefore
<1>4. ASSUME NEW e \in E, NEW f \in E, NEW g \in E, EventBefore(e, f), EventBefore(f, g)
      PROVE  EventBefore(e, g)
  <2>1. \A k, l, m \in {e.key, f.key, g.key} : KeyBefore(k, l) /\ KeyBefore(l, m) => KeyBefore(k, m)
    BY <1>1 DEF KeyBefore
  <2>2. CASE Before(e.at, f.at)
    <3>1. Before(f.at, g.at) \/ f.at = g.at
      BY <1>4 DEF EventBefore
    <3>2. QED
      BY <1>1, <2>2, <3>1, TimeIsTotal DEF EventBefore
  <2>3. CASE e.at = f.at
    BY <1>1, <1>4, <2>1, <2>3, TimeIsTotal DEF EventBefore
  <2>4. QED
    BY <1>4, <2>2, <2>3 DEF EventBefore
<1>5. ASSUME NEW e \in E, NEW f \in E, ~EventBefore(e, f), ~EventBefore(f, e)
      PROVE  e = f
  <2>1. e.at = f.at
    BY <1>1, <1>5, TimeIsTotal DEF EventBefore
  <2>2. e.key[1] = f.key[1] /\ e.key[2] = f.key[2]
    BY <1>1, <1>5, <2>1 DEF EventBefore, KeyBefore
  <2>3. e.key = f.key
    BY <1>1, <2>2
  <2>4. e.kind = f.kind
    BY <1>1, <1>2, <1>5, <2>1, <2>3 DEF EventBefore
  <2>5. QED
    BY <1>1, <2>1, <2>3, <2>4
<1>6. QED
  BY <1>3, <1>4, <1>5 DEF StrictOrder

\* The elements of finitely many finite sets are finitely many.
LEMMA FiniteImage ==
  ASSUME NEW s, DOMAIN s = 1..Len(s), Len(s) \in Nat, NEW E,
         \A e \in E : \E n \in 1..Len(s) : e \in s[n],
         \A n \in 1..Len(s) : IsFiniteSet(s[n])
  PROVE  IsFiniteSet(E)
<1> DEFINE P == {m \in Nat : m <= Len(s) => IsFiniteSet(UNION {s[n] : n \in 1..m})}
<1>1. 0 \in P
  <2>1. UNION {s[n] : n \in 1..0} = {}
    OBVIOUS
  <2>2. QED
    BY <2>1, FS_EmptySet
<1>2. ASSUME NEW m \in Nat, m \in P
      PROVE  m + 1 \in P
  <2> SUFFICES ASSUME m + 1 <= Len(s)
               PROVE  IsFiniteSet(UNION {s[n] : n \in 1..(m + 1)})
    OBVIOUS
  <2> DEFINE A == UNION {s[n] : n \in 1..m}
  <2>1. IsFiniteSet(A) /\ IsFiniteSet(s[m + 1])
    BY <1>2
  <2>2. UNION {s[n] : n \in 1..(m + 1)} = A \cup s[m + 1]
    <3>1. 1..(m + 1) = (1..m) \cup {m + 1}
      OBVIOUS
    <3>2. QED
      BY <3>1
  <2> HIDE DEF A
  <2>3. IsFiniteSet(A \cup s[m + 1])
    BY <2>1, FS_Union
  <2>4. QED
    BY <2>2, <2>3
<1>3. Len(s) \in P
  <2> HIDE DEF P
  <2>1. Nat \subseteq P
    BY <1>1, <1>2, Induction
  <2>2. QED
    BY <2>1
<1>4. IsFiniteSet(UNION {s[n] : n \in 1..Len(s)}) /\ E \subseteq UNION {s[n] : n \in 1..Len(s)}
  BY <1>3
<1>5. QED
  BY <1>4, FS_Subset

\* forecast::events over any snapshots: events are in order of time over all keys, and the
\* expected recovery of a key follows its reset.
THEOREM EventsAreInOrder == Spec => []EventsInOrder
<1>1. RowsTyped => EventsInOrder
  <2> SUFFICES ASSUME RowsTyped, NEW now \in Clock, NEW snapshots \in {Status(now), Export(NoInstant, now)}
               PROVE  LET e == Events(snapshots)
                      IN \A m \in DOMAIN e, n \in DOMAIN e :
                           /\ m < n => ~Before(e[n].at, e[m].at)
                           /\ e[m].kind = "QuotaReset" /\ e[n].kind = "ExpectedRecovery" /\ e[m].key = e[n].key
                                => m < n
    BY DEF EventsInOrder
  <2>1. PICK known \in Seq(Observation) : snapshots = SnapshotsAt(known, now)
    BY ExportTyped, StatusTyped
  <2>2. /\ known \in Seq(Observation) /\ now \in Instant
        /\ snapshots = {DeriveSnapshot(key, Group(known, key), now) : key \in Keys(known)}
    BY <2>1, StoreAssumption DEF SnapshotsAt
  <2> DEFINE Of(key) == EventsOf(DeriveSnapshot(key, Group(known, key), now))
             E == UNION {EventsOf(s) : s \in snapshots}
             R == {p \in E \X E : EventBefore(p[1], p[2])}
             e == Sorted(E, R)
             N == Cardinality(E)
  <2>3. \A key \in Keys(known) : key \in Int \X Int /\ \E n \in 1..Len(known) : key = KeyOf(known[n])
    <3> SUFFICES ASSUME NEW key \in Keys(known)
                 PROVE  key \in Int \X Int /\ \E n \in 1..Len(known) : key = KeyOf(known[n])
      OBVIOUS
    <3>1. PICK n \in 1..Len(known) : key = KeyOf(known[n])
      BY <2>1 DEF Keys, Range
    <3>2. known[n] \in Observation
      BY <2>1
    <3>3. QED
      BY <3>1, <3>2 DEF KeyOf, Observation
  <2>4. \A key : Group(known, key) \in Seq(Observation)
    BY <2>2, GroupInTime DEF InTime
  <2>5. \A x \in E : \E key \in Keys(known) : x \in Of(key)
    BY <2>2
  <2>6. \A key \in Keys(known) : \A x \in Of(key) :
          /\ x \in EventType /\ x.key = key
          /\ x.kind # "ProjectedExhaustion" => x.at = Latest(Group(known, key), "ResetAt", NoInstant)
    BY <2>2, <2>3, <2>4, EventsTyped
  <2>7. \A key : IsFiniteSet(Of(key))
    <3> TAKE key
    <3> DEFINE s == DeriveSnapshot(key, Group(known, key), now)
    <3>1. \A x, y, z : IsFiniteSet({x, y, z})
      <4> TAKE x, y, z
      <4>1. IsFiniteSet({x}) /\ IsFiniteSet({y}) /\ IsFiniteSet({z})
        BY FS_Singleton
      <4>2. IsFiniteSet({x} \cup {y})
        BY <4>1, FS_Union
      <4>3. IsFiniteSet(({x} \cup {y}) \cup {z})
        BY <4>1, <4>2, FS_Union
      <4>4. {x, y, z} = ({x} \cup {y}) \cup {z}
        OBVIOUS
      <4>5. QED
        BY <4>3, <4>4
    <3>2. EventsOf(s) \subseteq {Event(s.key, s.reset, "QuotaReset"),
                                Event(s.key, s.reset, "ExpectedRecovery"),
                                Event(s.key, s.exhaustion, "ProjectedExhaustion")}
      BY DEF EventsOf
    <3>3. QED
      BY <3>1, <3>2, FS_Subset
  <2> HIDE DEF Of, E
  <2>8. IsFiniteSet(E)
    <3> DEFINE s == [n \in 1..Len(known) |-> Of(KeyOf(known[n]))]
    <3>1. DOMAIN s = 1..Len(s) /\ Len(s) = Len(known) /\ Len(s) \in Nat
      BY <2>1
    <3>2. \A n \in 1..Len(known) : s[n] = Of(KeyOf(known[n]))
      OBVIOUS
    <3> HIDE DEF s
    <3>3. \A x \in E : \E n \in 1..Len(s) : x \in s[n]
      BY <2>3, <2>5, <3>1, <3>2
    <3>4. \A n \in 1..Len(s) : IsFiniteSet(s[n])
      BY <2>7, <3>1, <3>2
    <3>5. QED
      BY <3>1, <3>3, <3>4, FiniteImage
  <2>9. E \subseteq EventType
    BY <2>5, <2>6
  <2>10. \A x, y \in E : <<x, y>> \in R <=> EventBefore(x, y)
    OBVIOUS
  <2> HIDE DEF R
  <2>11. StrictOrder(E, R)
    BY <2>9, <2>10, EventOrder
  <2>12. /\ N \in Nat /\ e \in [1..N -> E]
         /\ \A m, n \in 1..N : m < n => <<e[m], e[n]>> \in R
    BY <2>8, <2>11, SortedInOrder
  <2>13. Events(snapshots) = e
    BY DEF Events, E, R
  <2> HIDE DEF e, N
  <2>14. ASSUME NEW m \in 1..N, NEW n \in 1..N, m < n
         PROVE  EventBefore(e[m], e[n]) /\ ~Before(e[n].at, e[m].at)
    <3>1. EventBefore(e[m], e[n]) /\ e[m] \in EventType /\ e[n] \in EventType
      BY <2>9, <2>10, <2>12, <2>14
    <3>2. e[m].at \in Instant /\ e[n].at \in Instant
      BY <3>1 DEF EventType
    <3>3. Before(e[m].at, e[n].at) \/ e[m].at = e[n].at
      BY <3>1 DEF EventBefore
    <3>4. QED
      BY <3>1, <3>2, <3>3, TimeIsTotal
  <2>15. ASSUME NEW m \in 1..N, NEW n \in 1..N,
                e[m].kind = "QuotaReset", e[n].kind = "ExpectedRecovery", e[m].key = e[n].key
         PROVE  m < n
    <3>1. e[m] \in E /\ e[n] \in E
      BY <2>12
    <3>2. e[m].at = e[n].at /\ e[m].at \in Instant
      <4>1. PICK key \in Keys(known) : e[m] \in Of(key)
        BY <2>5, <3>1
      <4>2. PICK k \in Keys(known) : e[n] \in Of(k)
        BY <2>5, <3>1
      <4>3. key = k
        BY <2>6, <2>15, <4>1, <4>2
      <4>4. e[m].at = Latest(Group(known, key), "ResetAt", NoInstant)
        BY <2>6, <2>15, <4>1
      <4>5. e[n].at = Latest(Group(known, key), "ResetAt", NoInstant)
        BY <2>6, <2>15, <4>2, <4>3
      <4>6. e[m].at \in Instant
        BY <2>9, <3>1 DEF EventType
      <4>7. QED
        BY <4>4, <4>5, <4>6
    <3>3. ~EventBefore(e[n], e[m])
      <4>1. e[m].key[1] \in Int /\ e[m].key[2] \in Int
        BY <2>9, <3>1 DEF EventType
      <4>2. Rank(e[m].kind) = 1 /\ Rank(e[n].kind) = 2
        BY <2>15 DEF Rank
      <4>3. ~Before(e[n].at, e[m].at)
        BY <3>2, TimeIsTotal
      <4>4. ~KeyBefore(e[n].key, e[m].key)
        BY <2>15, <4>1 DEF KeyBefore
      <4>5. QED
        BY <4>2, <4>3, <4>4 DEF EventBefore
    <3>4. ~(n < m) /\ m # n
      BY <2>14, <2>15, <3>3
    <3>5. QED
      BY <3>4
  <2>16. DOMAIN e = 1..N
    BY <2>12
  <2>17. QED
    BY <2>13, <2>14, <2>15, <2>16
<1>2. QED
  BY <1>1, RowsAreTyped, PTL

-----------------------------------------------------------------------------
(* Rates *)

\* The sum of the first so many of a list.
Total(f, m) == SumFunctionOnSet(f, 1..m)

\* A sum of the first elements grows by the next one.
LEMMA SumUpToNext ==
  ASSUME NEW n \in Nat, NEW f, \A i \in 1..n : f[i] \in Int
  PROVE  /\ Total(f, 0) = 0
         /\ \A m \in 0..n : Total(f, m) \in Int
         /\ \A m \in 0..n : m < n => Total(f, m + 1) = f[m + 1] + Total(f, m)
<1>1. 1..0 = {}
  OBVIOUS
<1>2. Total(f, 0) = 0
  BY <1>1, EmptySum DEF Total
<1>3. ASSUME NEW m \in 0..n
      PROVE  Total(f, m) \in Int
  <2> DEFINE S == 1..m
  <2>1. IsFiniteSet(S) /\ \A i \in S : f[i] \in Int
    BY FS_Interval
  <2> HIDE DEF S
  <2>2. SumFunctionOnSet(f, S) \in Int
    BY <2>1, SumIsInteger
  <2>3. QED
    BY <2>2 DEF Total, S
<1>4. ASSUME NEW m \in 0..n, m < n
      PROVE  Total(f, m + 1) = f[m + 1] + Total(f, m)
  <2> DEFINE S == 1..(m + 1)
             k == m + 1
  <2>1. IsFiniteSet(S) /\ (\A i \in S : f[i] \in Int) /\ k \in S /\ S \ {k} = 1..m
    <3>1. IsFiniteSet(S)
      BY FS_Interval
    <3>2. \A i \in S : f[i] \in Int
      BY <1>4
    <3>3. k \in S /\ S \ {k} = 1..m
      OBVIOUS
    <3>4. QED
      BY <3>1, <3>2, <3>3
  <2> HIDE DEF S, k
  <2>2. SumFunctionOnSet(f, S) = f[k] + SumFunctionOnSet(f, S \ {k})
    BY <2>1, SumWithout
  <2>3. SumFunctionOnSet(f, S) = f[k] + SumFunctionOnSet(f, 1..m)
    BY <2>1, <2>2
  <2>4. QED
    BY <2>3 DEF Total, S, k
<1>5. QED
  BY <1>2, <1>3, <1>4

\* The sum of the products of two deviations grows by a product of differences.
LEMMA StepProduct ==
  ASSUME NEW p \in Int, NEW k \in Int, NEW x \in Int, NEW y \in Int, NEW a \in Int, NEW b \in Int,
         NEW c \in Int, NEW d \in Int
  PROVE  (c * d + p) + (k + 1) * (x * y) - (c + a) * y - x * (d + b) =
           (p + k * (x * y) - a * y - x * b) + (x - c) * (y - d)
<1>1. /\ (k + 1) * (x * y) = k * (x * y) + x * y
      /\ (c + a) * y = c * y + a * y
      /\ x * (d + b) = x * d + x * b
      /\ (x - c) * (y - d) = x * y - x * d - c * y + c * d
  OBVIOUS
<1>2. /\ c * d \in Int /\ k * (x * y) \in Int /\ x * y \in Int /\ c * y \in Int /\ a * y \in Int
      /\ x * d \in Int /\ x * b \in Int
  OBVIOUS
<1>3. QED
  BY <1>1, <1>2

\* The deviations of a list from a point that is not below any are of one sign.
LEMMA DeviationsPositive ==
  ASSUME NEW n \in Nat, NEW f, NEW g, NEW h,
         \A i \in 1..n : f[i] \in Int /\ g[i] \in Int /\ h[i] = f[i] * g[i],
         NEW x \in Int, NEW y \in Int, \A i \in 1..n : f[i] <= x /\ g[i] <= y
  PROVE  Total(h, n) + n * (x * y) - Total(f, n) * y - x * Total(g, n) >= 0
<1> DEFINE D(m) == Total(h, m) + m * (x * y) - Total(f, m) * y - x * Total(g, m)
           P == {m \in Nat : m <= n => D(m) >= 0}
<1>1. \A i \in 1..n : f[i] \in Int /\ g[i] \in Int /\ h[i] \in Int
  OBVIOUS
<1>2. /\ Total(f, 0) = 0 /\ Total(g, 0) = 0 /\ Total(h, 0) = 0
      /\ \A m \in 0..n : Total(f, m) \in Int /\ Total(g, m) \in Int /\ Total(h, m) \in Int
      /\ \A m \in 0..n : m < n => /\ Total(f, m + 1) = f[m + 1] + Total(f, m)
                                  /\ Total(g, m + 1) = g[m + 1] + Total(g, m)
                                  /\ Total(h, m + 1) = h[m + 1] + Total(h, m)
  <2>1. \A i \in 1..n : f[i] \in Int
    BY <1>1
  <2>2. \A i \in 1..n : g[i] \in Int
    BY <1>1
  <2>3. \A i \in 1..n : h[i] \in Int
    BY <1>1
  <2>4. QED
    BY <2>1, <2>2, <2>3, SumUpToNext
<1>3. 0 \in P
  BY <1>2
<1>4. ASSUME NEW m \in Nat, m \in P
      PROVE  m + 1 \in P
  <2> SUFFICES ASSUME m + 1 <= n
               PROVE  D(m + 1) >= 0
    OBVIOUS
  <2> DEFINE c == f[m + 1]
             d == g[m + 1]
             p == Total(h, m)
             a == Total(f, m)
             b == Total(g, m)
  <2>1. m \in 0..n /\ m < n /\ m + 1 \in 1..n
    OBVIOUS
  <2>2. /\ p \in Int /\ a \in Int /\ b \in Int /\ c \in Int /\ d \in Int /\ c <= x /\ d <= y
        /\ h[m + 1] = c * d
    BY <1>2, <2>1
  <2>3. D(m + 1) = (c * d + p) + (m + 1) * (x * y) - (c + a) * y - x * (d + b)
    BY <1>2, <2>1, <2>2
  <2>4. D(m) = p + m * (x * y) - a * y - x * b /\ D(m) >= 0
    BY <1>4
  <2> HIDE DEF D, a, b, c, d, p
  <2>5. D(m + 1) = D(m) + (x - c) * (y - d)
    BY <2>2, <2>3, <2>4, StepProduct
  <2>6. (x - c) * (y - d) \in Nat
    <3>1. x - c \in Nat /\ y - d \in Nat
      BY <2>2
    <3>2. QED
      BY <3>1
  <2>7. D(m) \in Int
    BY <2>2, <2>4
  <2>8. QED
    BY <2>4, <2>5, <2>6, <2>7
<1>5. n \in P
  <2> HIDE DEF P
  <2>1. Nat \subseteq P
    BY <1>3, <1>4, Induction
  <2>2. QED
    BY <2>1
<1>6. QED
  BY <1>5

\* The scatter of one more point, from that of the others.
LEMMA NextScatter ==
  ASSUME NEW m \in Int, NEW h \in Int, NEW f \in Int, NEW g \in Int, NEW x \in Int, NEW y \in Int
  PROVE  (m + 1) * (x * y + h) - (x + f) * (y + g) =
           (m * h - f * g) + (h + m * (x * y) - f * y - x * g)
<1>1. /\ (m + 1) * (x * y + h) = m * (x * y) + m * h + x * y + h
      /\ (x + f) * (y + g) = x * y + x * g + f * y + f * g
  OBVIOUS
<1>2. /\ m * (x * y) \in Int /\ m * h \in Int /\ x * y \in Int /\ x * g \in Int
      /\ f * y \in Int /\ f * g \in Int
  OBVIOUS
<1>3. QED
  BY <1>1, <1>2

\* Lists that rise together do not scatter the wrong way.
LEMMA ScatterPositive ==
  ASSUME NEW n \in Nat, NEW f \in [1..n -> Int], NEW g \in [1..n -> Int],
         \A i, j \in 1..n : i < j => f[i] <= f[j] /\ g[i] <= g[j]
  PROVE  Scatter(f, g) \in Nat
<1> DEFINE h == [i \in 1..n |-> f[i] * g[i]]
           A(m) == m * Total(h, m) - Total(f, m) * Total(g, m)
           P == {m \in Nat : m <= n => A(m) >= 0}
<1>1. \A i \in 1..n : f[i] \in Int /\ g[i] \in Int /\ h[i] = f[i] * g[i] /\ h[i] \in Int
  OBVIOUS
<1>2. Scatter(f, g) = A(n)
  <2>1. DOMAIN f = 1..n /\ DOMAIN g = 1..n /\ DOMAIN h = 1..n /\ Len(f) = n
    BY FunctionIsList
  <2>2. h = [i \in DOMAIN f |-> f[i] * g[i]]
    BY <2>1
  <2> HIDE DEF h
  <2>3. QED
    BY <2>1, <2>2 DEF Scatter, SumFunction, Total
<1> HIDE DEF h
<1>3. /\ Total(f, 0) = 0 /\ Total(g, 0) = 0 /\ Total(h, 0) = 0
      /\ \A m \in 0..n : Total(f, m) \in Int /\ Total(g, m) \in Int /\ Total(h, m) \in Int
      /\ \A m \in 0..n : m < n => /\ Total(f, m + 1) = f[m + 1] + Total(f, m)
                                  /\ Total(g, m + 1) = g[m + 1] + Total(g, m)
                                  /\ Total(h, m + 1) = h[m + 1] + Total(h, m)
  <2>1. \A i \in 1..n : f[i] \in Int
    BY <1>1
  <2>2. \A i \in 1..n : g[i] \in Int
    BY <1>1
  <2>3. \A i \in 1..n : h[i] \in Int
    BY <1>1
  <2>4. QED
    BY <2>1, <2>2, <2>3, SumUpToNext
<1>4. 0 \in P
  BY <1>3
<1>5. ASSUME NEW m \in Nat, m \in P
      PROVE  m + 1 \in P
  <2> SUFFICES ASSUME m + 1 <= n
               PROVE  A(m + 1) >= 0
    OBVIOUS
  <2> DEFINE x == f[m + 1]
             y == g[m + 1]
             D == Total(h, m) + m * (x * y) - Total(f, m) * y - x * Total(g, m)
             a == Total(f, m)
             b == Total(g, m)
             c == Total(h, m)
  <2>1. m \in 0..n /\ m < n /\ m + 1 \in 1..n
    OBVIOUS
  <2>2. x \in Int /\ y \in Int /\ a \in Int /\ b \in Int /\ c \in Int /\ h[m + 1] = x * y
    BY <1>1, <1>3, <2>1
  <2>3. D >= 0
    <3>1. \A i \in 1..m : f[i] \in Int /\ g[i] \in Int /\ h[i] = f[i] * g[i]
      BY <1>1, <2>1
    <3>2. \A i \in 1..m : f[i] <= x /\ g[i] <= y
      <4>1. \A i \in 1..m : i \in 1..n /\ i < m + 1
        BY <2>1
      <4>2. QED
        BY <2>1, <4>1
    <3>3. x \in Int /\ y \in Int
      BY <2>2
    <3> HIDE DEF x, y
    <3>4. QED
      BY <3>1, <3>2, <3>3, DeviationsPositive
  <2>4. A(m + 1) = (m + 1) * (x * y + c) - (x + a) * (y + b)
    BY <1>3, <2>1, <2>2
  <2>5. A(m) = m * c - a * b /\ A(m) >= 0 /\ D = c + m * (x * y) - a * y - x * b
    BY <1>5, <2>1
  <2> HIDE DEF A, D, x, y, a, b, c
  <2>6. A(m + 1) = A(m) + D
    BY <2>2, <2>4, <2>5, NextScatter
  <2>7. A(m) \in Int /\ D \in Int
    BY <2>2, <2>5
  <2>8. QED
    BY <2>3, <2>5, <2>6, <2>7
<1>6. n \in P
  <2> HIDE DEF P
  <2>1. Nat \subseteq P
    BY <1>4, <1>5, Induction
  <2>2. QED
    BY <2>1
<1>7. A(n) \in Int
  <2>1. Total(f, n) \in Int /\ Total(g, n) \in Int /\ Total(h, n) \in Int
    BY <1>3
  <2>2. QED
    BY <2>1
<1>8. QED
  BY <1>2, <1>6, <1>7

-----------------------------------------------------------------------------

\* Nothing falls in a list after its last reset.
LEMMA SegmentRises ==
  ASSUME NEW s \in Seq(Observation), \A i \in 1..Len(s) : s[i].value \in Nat
  PROVE  /\ Segment(s) \in Seq(Observation)
         /\ \A i \in 1..Len(Segment(s)) : \E d \in Nat :
              \A j \in 1..Len(Segment(s)) : Segment(s)[j] = s[d + j] /\ d + j \in 1..Len(s)
         /\ \A i \in 2..Len(Segment(s)) : Segment(s)[i - 1].value <= Segment(s)[i].value
<1> DEFINE R == Resets(s)
           g == Segment(s)
<1>1. Len(s) \in Nat /\ \A i \in R : i \in 2..Len(s)
  BY DEF Resets
<1>2. \A i \in 2..Len(s) : i \notin R => s[i - 1].value <= s[i].value
  <2>1. \A i \in 2..Len(s) : i - 1 \in 1..Len(s) /\ i \in 1..Len(s)
    BY <1>1
  <2>2. \A i \in 2..Len(s) : i \notin R => ~(s[i].value < s[i - 1].value)
    BY DEF Resets
  <2>3. QED
    BY <2>1, <2>2
<1> HIDE DEF R
<1>3. CASE R = {}
  <2>1. g = s
    BY <1>3 DEF Segment, R
  <2> HIDE DEF g
  <2>2. \A j \in 1..Len(g) : g[j] = s[0 + j] /\ 0 + j \in 1..Len(s)
    BY <1>1, <2>1
  <2>3. \A i \in 2..Len(g) : g[i - 1].value <= g[i].value
    BY <1>2, <1>3, <2>1
  <2>4. QED
    BY <2>1, <2>2, <2>3 DEF g
<1>4. CASE R # {}
  <2> DEFINE k == Max(R)
  <2>1. k \in R /\ \A i \in R : i <= k
    <3>1. R \subseteq Int /\ (\A i \in R : i <= Len(s)) /\ Len(s) \in Int
      BY <1>1
    <3>2. Max(R) \in R /\ \A i \in R : i <= Max(R)
      BY <1>4, <3>1, Greatest
    <3>3. QED
      BY <3>2
  <2>2. g = SubSeq(s, k, Len(s))
    BY <1>4 DEF Segment, R
  <2> HIDE DEF k, g
  <2>3. k \in 2..Len(s)
    BY <1>1, <2>1
  <2>4. /\ g \in Seq(Observation) /\ Len(g) = Len(s) - k + 1
        /\ \A i \in 1..(Len(s) - k + 1) : g[i] = s[k + i - 1]
    <3>1. \A i \in k..Len(s) : s[i] \in Observation
      BY <1>1, <2>3
    <3>2. k \in Int /\ Len(s) \in Int /\ k <= Len(s)
      BY <1>1, <2>3
    <3>3. QED
      BY <2>2, <3>1, <3>2, SubSeqProperties
  <2>5. k - 1 \in Nat /\ \A j \in 1..Len(g) : g[j] = s[(k - 1) + j] /\ (k - 1) + j \in 1..Len(s)
    <3>1. \A j \in 1..Len(g) : (k - 1) + j = k + j - 1 /\ (k - 1) + j \in 1..Len(s) /\ j \in 1..(Len(s) - k + 1)
      BY <1>1, <2>3, <2>4
    <3>2. QED
      BY <2>3, <2>4, <3>1
  <2>6. ASSUME NEW i \in 2..Len(g)
        PROVE  g[i - 1].value <= g[i].value
    <3> DEFINE j == (k - 1) + i
    <3>1. /\ i \in 1..Len(g) /\ i - 1 \in 1..Len(g) /\ j \in 2..Len(s) /\ j > k
          /\ (k - 1) + (i - 1) = j - 1
      BY <1>1, <2>3, <2>4
    <3>2. j \notin R
      <4> HIDE DEF j
      <4>1. k \in Int /\ j \in Int
        BY <2>3, <3>1
      <4>2. QED
        BY <2>1, <3>1, <4>1
    <3>3. g[i] = s[j] /\ g[i - 1] = s[j - 1]
      BY <2>5, <3>1
    <3> HIDE DEF j
    <3>4. QED
      BY <1>2, <3>1, <3>2, <3>3
  <2>7. QED
    BY <2>4, <2>5, <2>6 DEF g
<1>5. QED
  BY <1>3, <1>4

\* What rises from one to the next rises throughout.
LEMMA RisesThroughout ==
  ASSUME NEW n \in Nat, NEW y, \A i \in 1..n : y[i] \in Int,
         \A i \in 2..n : y[i - 1] <= y[i]
  PROVE  \A i, j \in 1..n : i < j => y[i] <= y[j]
<1> DEFINE P == {m \in Nat : \A i \in 1..n : i + m \in 1..n => y[i] <= y[i + m]}
<1>1. 0 \in P
  OBVIOUS
<1>2. ASSUME NEW m \in Nat, m \in P
      PROVE  m + 1 \in P
  <2> SUFFICES ASSUME NEW i \in 1..n, i + (m + 1) \in 1..n
               PROVE  y[i] <= y[i + (m + 1)]
    OBVIOUS
  <2>1. i + m \in 1..n /\ i + (m + 1) \in 2..n /\ (i + (m + 1)) - 1 = i + m
    OBVIOUS
  <2>2. y[i] <= y[i + m]
    BY <1>2, <2>1
  <2>3. y[i + m] <= y[i + (m + 1)]
    BY <2>1
  <2>4. QED
    BY <2>1, <2>2, <2>3
<1>3. ASSUME NEW i \in 1..n, NEW j \in 1..n, i < j
      PROVE  y[i] <= y[j]
  <2>1. j - i \in Nat /\ i + (j - i) = j
    BY <1>3
  <2>2. j - i \in P
    <3> HIDE DEF P
    <3>1. Nat \subseteq P
      BY <1>1, <1>2, Induction
    <3>2. QED
      BY <2>1, <3>1
  <2>3. QED
    BY <2>1, <2>2
<1>4. QED
  BY <1>3

\* Time in whole units does not run back.
LEMMA NanosRise ==
  ASSUME NEW a \in Instant, NEW b \in Instant, ~Before(b, a)
  PROVE  Nanos(a) <= Nanos(b) /\ Nanos(a) \in Int /\ Nanos(b) \in Int
<1>1. ASSUME NEW p \in Nat, NEW q \in Nat, NEW u \in Digits, NEW v \in Digits, p < q
      PROVE  p * Base + u < q * Base + v /\ p * Base + u \in Nat /\ q * Base + v \in Nat
  <2>1. Base \in Nat \ {0} /\ u \in 0..(Base - 1) /\ v \in 0..(Base - 1)
    BY InstantAssumption DEF Digits
  <2>2. q - (p + 1) \in Nat
    BY <1>1
  <2>3. (q - (p + 1)) * Base \in Nat
    BY <2>1, <2>2
  <2>4. (q - (p + 1)) * Base = q * Base - p * Base - Base
    BY <2>1
  <2>5. p * Base \in Nat /\ q * Base \in Nat
    BY <2>1
  <2>6. QED
    BY <2>1, <2>3, <2>4, <2>5
<1>19. ASSUME NEW p \in Nat, NEW u \in Digits, NEW v \in Digits
       PROVE  /\ u < v => p * Base + u < p * Base + v
              /\ u <= v => p * Base + u <= p * Base + v
  <2>1. p * Base \in Int /\ u \in Int /\ v \in Int
    BY InstantAssumption DEF Digits
  <2>2. QED
    BY <2>1
<1>2. /\ a[1] \in Nat /\ a[2] \in Digits /\ a[3] \in Digits /\ a[4] \in Digits
      /\ b[1] \in Nat /\ b[2] \in Digits /\ b[3] \in Digits /\ b[4] \in Digits
  BY DEF Instant
<1> DEFINE a2 == a[1] * Base + a[2]
           b2 == b[1] * Base + b[2]
           a3 == a2 * Base + a[3]
           b3 == b2 * Base + b[3]
           a4 == a3 * Base + a[4]
           b4 == b3 * Base + b[4]
<1>3. Nanos(a) = a4 /\ Nanos(b) = b4
  BY DEF Nanos
<1>4. \A p \in Nat, u \in Digits : p * Base + u \in Nat
  BY InstantAssumption DEF Digits
<1>5. a2 \in Nat /\ b2 \in Nat
  BY <1>2, <1>4
<1>6. a[1] < b[1] => a2 < b2
  BY <1>1, <1>2
<1>7. a[1] = b[1] /\ a[2] < b[2] => a2 < b2
  BY <1>2, <1>19
<1>8. a[1] = b[1] /\ a[2] = b[2] => a2 = b2
  OBVIOUS
<1> HIDE DEF a2, b2
<1>9. a3 \in Nat /\ b3 \in Nat
  BY <1>2, <1>4, <1>5
<1>10. a2 < b2 => a3 < b3
  BY <1>1, <1>2, <1>5
<1>11. a2 = b2 /\ a[3] < b[3] => a3 < b3
  BY <1>2, <1>5, <1>19
<1>12. a2 = b2 /\ a[3] = b[3] => a3 = b3
  OBVIOUS
<1> HIDE DEF a3, b3
<1>13. a4 \in Nat /\ b4 \in Nat
  BY <1>2, <1>4, <1>9
<1>14. a3 < b3 => a4 < b4
  BY <1>1, <1>2, <1>9
<1>15. a3 = b3 /\ a[4] <= b[4] => a4 <= b4
  BY <1>2, <1>9, <1>19
<1> HIDE DEF a4, b4
<1>16. \/ a[1] < b[1]
       \/ a[1] = b[1] /\ a[2] < b[2]
       \/ a[1] = b[1] /\ a[2] = b[2] /\ a[3] < b[3]
       \/ a[1] = b[1] /\ a[2] = b[2] /\ a[3] = b[3] /\ a[4] <= b[4]
  BY <1>2, InstantAssumption DEF Before, Digits
<1>17. a4 <= b4
  BY <1>6, <1>7, <1>8, <1>10, <1>11, <1>12, <1>13, <1>14, <1>15, <1>16
<1>18. QED
  BY <1>3, <1>13, <1>17

\* A greater number has no smaller quotient.
LEMMA Quotients ==
  ASSUME NEW d \in Nat \ {0}, NEW x \in Int, NEW y \in Int, x <= y
  PROVE  x \div d \in Int /\ y \div d \in Int /\ x \div d <= y \div d
<1> DEFINE p == x \div d
           q == y \div d
<1>1. p \in Int /\ q \in Int
  OBVIOUS
<1>2. d * p <= x /\ x < d * p + d /\ d * q <= y /\ y < d * q + d
  OBVIOUS
<1> HIDE DEF p, q
<1>3. CASE q < p
  <2>1. q + 1 <= p
    BY <1>1, <1>3
  <2>2. d * (q + 1) <= d * p
    BY <1>1, <2>1
  <2>3. d * (q + 1) = d * q + d
    BY <1>1
  <2>4. d * p \in Int /\ d * q \in Int
    BY <1>1
  <2>5. QED
    BY <1>2, <2>2, <2>3, <2>4
<1>4. QED
  BY <1>1, <1>3 DEF p, q

\* A later instant is no fewer milliseconds away.
LEMMA UnitsRise ==
  ASSUME NEW a \in Instant, NEW b \in Instant, NEW c \in Instant, ~Before(c, b)
  PROVE  /\ Milliseconds(a, b) \in Int /\ Milliseconds(a, c) \in Int
         /\ Milliseconds(a, b) <= Milliseconds(a, c)
<1>1. Nanos(b) <= Nanos(c) /\ Nanos(b) \in Int /\ Nanos(c) \in Int
  BY NanosRise
<1>2. Nanos(a) \in Int
  BY NanosRise, TimeIsTotal
<1>3. /\ Nanos(b) - Nanos(a) \in Int /\ Nanos(c) - Nanos(a) \in Int
      /\ Nanos(b) - Nanos(a) <= Nanos(c) - Nanos(a)
  BY <1>1, <1>2
<1>4. Base * Base \in Nat \ {0}
  BY InstantAssumption
<1> DEFINE d == Base * Base
           x == Nanos(b) - Nanos(a)
           y == Nanos(c) - Nanos(a)
<1>5. Milliseconds(a, b) = x \div d /\ Milliseconds(a, c) = y \div d
  BY DEF Milliseconds
<1>6. d \in Nat \ {0} /\ x \in Int /\ y \in Int /\ x <= y
  BY <1>3, <1>4
<1> HIDE DEF d, x, y
<1>7. QED
  BY <1>5, <1>6, Quotients

\* The rate of samples of a counter is no negative one.
LEMMA RegressionPositive ==
  ASSUME NEW samples \in Seq(Observation), \A i \in 1..Len(samples) : samples[i].value \in Nat,
         NEW minimum \in Nat, NEW r, r = RegressionRate(samples, minimum), r # NoRate
  PROVE  r.num >= 0 /\ r.den > 0 /\ r.samples >= minimum /\ r.window > 0
<1> DEFINE P == DOMAIN samples
           ordered == ElementsAt(samples, P, ByTime(samples, P))
           segment == Segment(ordered)
           n == Len(segment)
           x == [i \in 1..n |-> Milliseconds(segment[1].at, segment[i].at)]
           y == [i \in 1..n |-> segment[i].value]
           window == Seconds(segment[1].at, segment[n].at)
           few(s) == ~(Len(s) >= 2 /\ Len(s) >= minimum)
<1>1. r = IF few(samples) \/ few(segment) THEN NoRate
          ELSE IF Scatter(x, x) = 0 \/ window <= 0 THEN NoRate
          ELSE [num |-> 60 * Base * Scatter(x, y), den |-> Scatter(x, x), samples |-> n, window |-> window]
  BY DEF RegressionRate
<1>2. InTime(ordered, samples, P)
  <2>1. P \subseteq DOMAIN samples
    OBVIOUS
  <2> HIDE DEF P
  <2>2. QED
    BY <2>1, SortedInTime
<1> HIDE DEF ordered
<1>3. /\ ordered \in Seq(Observation)
      /\ \A i \in 1..Len(ordered) : ordered[i].value \in Nat
      /\ \A i, j \in 1..Len(ordered) : i < j => ~Before(ordered[j].at, ordered[i].at)
  <2>1. P = 1..Len(samples)
    OBVIOUS
  <2> HIDE DEF P
  <2>2. QED
    BY <1>2, <2>1 DEF InTime
<1> HIDE DEF P
<1>4. /\ segment \in Seq(Observation)
      /\ \A i \in 1..n : \E d \in Nat :
           \A j \in 1..n : segment[j] = ordered[d + j] /\ d + j \in 1..Len(ordered)
      /\ \A i \in 2..n : segment[i - 1].value <= segment[i].value
  BY <1>3, SegmentRises
<1> HIDE DEF segment
<1> SUFFICES ASSUME ~few(segment), Scatter(x, x) # 0, ~(window <= 0)
             PROVE  /\ 60 * Base * Scatter(x, y) >= 0 /\ Scatter(x, x) > 0 /\ n >= minimum
                    /\ window > 0
  BY <1>1
<1>5. n \in Nat /\ n >= 2 /\ n >= minimum
  BY <1>4
<1>6. PICK d \in Nat : \A j \in 1..n : segment[j] = ordered[d + j] /\ d + j \in 1..Len(ordered)
  BY <1>4, <1>5
<1>7. \A i \in 1..n : segment[i].value \in Nat /\ segment[i].at \in Instant
  <2>1. \A i \in 1..n : segment[i] \in Observation
    BY <1>4
  <2>2. QED
    BY <1>3, <1>6, <2>1 DEF Observation
<1>8. \A i, j \in 1..n : i < j => ~Before(segment[j].at, segment[i].at)
  <2> SUFFICES ASSUME NEW i \in 1..n, NEW j \in 1..n, i < j
               PROVE  ~Before(segment[j].at, segment[i].at)
    OBVIOUS
  <2>1. d + i < d + j /\ d + i \in 1..Len(ordered) /\ d + j \in 1..Len(ordered)
    BY <1>6
  <2>2. QED
    BY <1>3, <1>6, <2>1
<1>9. n \in 1..n /\ 1 \in 1..n
  BY <1>5
<1>10. \A i \in 1..n : x[i] = Milliseconds(segment[1].at, segment[i].at) /\ y[i] = segment[i].value
  OBVIOUS
<1>11. x \in [1..n -> Int] /\ y \in [1..n -> Int]
  <2>1. \A i \in 1..n : Milliseconds(segment[1].at, segment[i].at) \in Int
    BY <1>7, <1>9, TimeIsTotal, UnitsRise
  <2>2. QED
    BY <1>7, <2>1
<1> HIDE DEF x, y
<1>12. \A i, j \in 1..n : i < j => x[i] <= x[j]
  BY <1>7, <1>8, <1>9, <1>10, UnitsRise
<1>13. \A i, j \in 1..n : i < j => y[i] <= y[j]
  <2>1. \A i \in 2..n : y[i - 1] <= y[i]
    <3>1. \A i \in 2..n : i \in 1..n /\ i - 1 \in 1..n
      BY <1>5
    <3>2. QED
      BY <1>4, <1>10, <3>1
  <2>2. \A i \in 1..n : y[i] \in Int
    BY <1>11
  <2>3. QED
    BY <1>5, <2>1, <2>2, RisesThroughout
<1>14. Scatter(x, y) \in Nat
  BY <1>5, <1>11, <1>12, <1>13, ScatterPositive
<1>15. Scatter(x, x) \in Nat
  BY <1>5, <1>11, <1>12, ScatterPositive
<1>16. window \in Int
  <2> DEFINE k == Base * Base * Base
             z == Nanos(segment[n].at) - Nanos(segment[1].at)
  <2>1. k \in Nat \ {0}
    BY InstantAssumption
  <2>2. z \in Int
    BY <1>7, <1>9, NanosRise, TimeIsTotal
  <2>3. window = z \div k
    BY DEF Seconds
  <2> HIDE DEF k, z
  <2>4. z \div k \in Int
    BY <2>1, <2>2, Quotients
  <2>5. QED
    BY <2>3, <2>4
<1> HIDE DEF window
<1>17. window > 0
  BY <1>16
<1>18. 60 * Base * Scatter(x, y) >= 0
  <2> DEFINE c == Scatter(x, y)
  <2>1. c \in Nat /\ Base \in Nat
    BY <1>14, InstantAssumption
  <2> HIDE DEF c
  <2>2. 60 * Base * c \in Nat
    BY <2>1
  <2>3. QED
    BY <2>2 DEF c
<1>19. QED
  BY <1>5, <1>15, <1>17, <1>18

\* regression_rate over any rows: its segment never falls and its times never go back, so that
\* its slope is not negative; and it rests on enough samples and on a window of some length.
THEOREM RatesAreNotNegative == Spec => []RateNeverNegative
<1>1. RowsTyped => RateNeverNegative
  <2> SUFFICES ASSUME RowsTyped, NEW since \in Clock, NEW f \in ForecastOf(NoFilter, NoFilter, since)
               PROVE  /\ f.rate.num >= 0 /\ f.rate.den > 0
                      /\ f.rate.samples >= MinimumSamples /\ f.rate.window > 0
    BY DEF RateNeverNegative
  <2> DEFINE history == History(NoFilter, NoFilter, "Tokens", since, HistoryCap)
             places(key) == {i \in DOMAIN history : KeyOf(history[i]) = key}
             samples(key) == Selected(history, places(key))
  <2>1. PICK key : f.rate = RegressionRate(samples(key), MinimumSamples) /\ f.rate # NoRate
    BY DEF ForecastOf
  <2>2. /\ history \in Seq(Observation)
        /\ \A i \in 1..Len(history) : history[i].metric = "Tokens"
    <3> DEFINE found == Found(NoFilter, NoFilter, "Tokens", since)
               cap == IF HistoryCap < HistoryCap THEN HistoryCap ELSE HistoryCap
               most == IF cap < Cardinality(found) THEN cap ELSE Cardinality(found)
    <3>1. HistoryCap \in Nat /\ found = Found(NoFilter, NoFilter, "Tokens", since)
          /\ cap = IF HistoryCap < HistoryCap THEN HistoryCap ELSE HistoryCap
      BY StoreAssumption
    <3>2. \A i \in found : rows[i].metric = "Tokens"
      BY DEF Found, Matches
    <3> HIDE DEF found, cap
    <3>3. NewestRows(history, found, most)
      BY <3>1, HistoryProperties
    <3> HIDE DEF history, most
    <3>4. QED
      BY <3>2, <3>3 DEF NewestRows
  <2> DEFINE Q == places(key)
             s == Selected(history, Q)
  <2>3. Q \subseteq DOMAIN history /\ f.rate = RegressionRate(s, MinimumSamples)
    BY <2>1
  <2> HIDE DEF Q, history
  <2>4. s \in Seq(Observation) /\ \A n \in 1..Len(s) : \E i \in Q : s[n] = history[i]
    BY <2>2, <2>3, SelectedProperties
  <2> HIDE DEF s
  <2>5. \A n \in 1..Len(s) : s[n].value \in Nat
    <3> SUFFICES ASSUME NEW n \in 1..Len(s)
                 PROVE  s[n].value \in Nat
      OBVIOUS
    <3>1. s[n] \in Observation /\ s[n].metric = "Tokens"
      BY <2>2, <2>3, <2>4
    <3>2. s[n].value \in IF s[n].metric = "ResetAt" THEN Instant ELSE Nat
      BY <3>1 DEF Observation
    <3>3. QED
      BY <3>1, <3>2
  <2> DEFINE r == f.rate
  <2>6. r = RegressionRate(s, MinimumSamples) /\ r # NoRate /\ MinimumSamples \in Nat
    BY <2>1, <2>3, ForecastAssumption
  <2> HIDE DEF r
  <2>7. r.num >= 0 /\ r.den > 0 /\ r.samples >= MinimumSamples /\ r.window > 0
    BY <2>4, <2>5, <2>6, RegressionPositive
  <2>8. QED
    BY <2>7 DEF r
<1>2. QED
  BY <1>1, RowsAreTyped, PTL
=============================================================================
