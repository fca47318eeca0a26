------------------------------- MODULE Store -------------------------------
(***************************************************************************)
(* The observations table, src/src/store.rs, and what the commands make of *)
(* it, src/src/app.rs: status and next (the latest observations), export   *)
(* (history since an instant) and forecast (a window of one metric).       *)
(*                                                                         *)
(* Rows are written by polls, of the daemon and of commands, and pruned by *)
(* the daemon.  A row keeps the text of its instant, and SQLite compares   *)
(* these texts.  The rows are in the order of their ids: a new row has a   *)
(* higher id than any in the table.  Each statement of SQL sees one state   *)
(* of the table, but the two of Store::latest are no transaction: polls    *)
(* and the pruning of other processes may come between them.               *)
(***************************************************************************)
EXTENDS Forecast

CONSTANTS
  Answers,     \* answers of bridges: sequences of records
  Headers,     \* answers of Groq
  Clock,       \* instants told apart
  MaxRows,     \* bound: rows in the table
  HistoryCap   \* the most rows a query returns: 100,000

ASSUME StoreAssumption ==
  /\ \A records \in Answers :
       records \in Seq(Range(records)) /\ \A r \in Range(records) : UsageRecord(r)
  /\ Headers \subseteq [{"tokenLimit", "tokenRemaining", "requestLimit", "requestRemaining"}
                       -> Nat \cup {None}]
  /\ Clock \subseteq Instant
  /\ MaxRows \in Nat /\ HistoryCap \in Nat

VARIABLES
  rows,
  newest   \* what the first statement of latest has answered, until the second is done

vars == <<rows, newest>>

NoFilter == -3   \* a filter that is not given

-----------------------------------------------------------------------------
\* Queries

Matches(o, provider, model, metric) ==
  /\ provider \in {NoFilter, o.provider}
  /\ model \in {NoFilter, o.model}
  /\ metric \in {"any", o.metric}

\* observed_at >= since, in text.
Since(o, since) == since = NoInstant \/ ~TextBefore(o.at, since)

\* Places in s by the text of the instants, then by id.
ByText(s, places) ==
  {p \in places \X places :
     TextBefore(s[p[1]].at, s[p[2]].at) \/ (s[p[1]].at = s[p[2]].at /\ p[1] < p[2])}

\* Mutant: ORDER BY without DESC.
OldestFirst(s, limit) == SubSeq(s, 1, IF limit < Len(s) THEN limit ELSE Len(s))

\* ORDER BY observed_at DESC, id DESC LIMIT, and the result reversed.
NewestOf(s, limit) == SubSeq(s, 1 + SaturatingSub(Len(s), limit), Len(s))

History(provider, model, metric, since, limit) ==
  LET found == {i \in DOMAIN rows : Matches(rows[i], provider, model, metric) /\ Since(rows[i], since)}
  IN NewestOf(ElementsAt(rows, found, ByText(rows, found)), IF limit < HistoryCap THEN limit ELSE HistoryCap)

\* SELECT MAX(observed_at), of a table with rows: the highest text.
HighestText ==
  CHOOSE at \in {o.at : o \in Range(rows)} : \A other \in Range(rows) : ~TextBefore(at, other.at)

\* What latest returns, if its second statement runs now.
LatestRows ==
  IF newest = NoInstant THEN <<>> ELSE History(NoFilter, NoFilter, "any", newest, HistoryCap)

\* App::status and next.
Status(now) == SnapshotsAt(LatestRows, now)

\* App::export_padagonia.
Export(since, now) == SnapshotsAt(History(NoFilter, NoFilter, "any", since, HistoryCap), now)

\* App::forecast: the rate of each key that has one.
ForecastOf(provider, model, since) ==
  LET history == History(provider, model, "Tokens", since, HistoryCap)
      samples(key) == Selected(history, {i \in DOMAIN history : KeyOf(history[i]) = key})
  IN {f \in {[key |-> key, rate |-> RegressionRate(samples(key), MinimumSamples)] :
               key \in Keys(history)} : f.rate # NoRate}

-----------------------------------------------------------------------------
Init == rows = <<>> /\ newest = NoInstant

\* insert_batch: one transaction for the observations of an answer.
InsertBatch(batch) ==
  /\ Len(rows) + Len(batch) <= MaxRows
  /\ rows' = rows \o batch
  /\ UNCHANGED newest

\* A poll of a bridge, or of Groq, that took its instant before it asked.
Poll ==
  \E at \in Clock :
    \/ \E records \in Answers : ~Rejected(records) /\ InsertBatch(ParseUsage(records, at))
    \/ \E headers \in Headers : InsertBatch(GroqHeaderObservations(1, headers, at))

\* Mutant: the cutoff is pruned too.
PruneThrough(cutoff) ==
  /\ rows' = Selected(rows, {i \in DOMAIN rows : TextBefore(cutoff, rows[i].at)})
  /\ UNCHANGED newest

\* prune_before
PruneBefore(cutoff) ==
  /\ rows' = Selected(rows, {i \in DOMAIN rows : ~TextBefore(rows[i].at, cutoff)})
  /\ UNCHANGED newest

Prune == \E cutoff \in Clock : PruneBefore(cutoff)

\* The first statement of latest.  Without rows there is no second.
SelectNewest ==
  /\ newest = NoInstant /\ rows # <<>>
  /\ newest' = HighestText
  /\ UNCHANGED rows

\* The second, which returns LatestRows.
SelectSince ==
  /\ newest # NoInstant
  /\ newest' = NoInstant
  /\ UNCHANGED rows

Next == Poll \/ Prune \/ SelectNewest \/ SelectSince

Spec == Init /\ [][Next]_vars

-----------------------------------------------------------------------------
(* Properties *)

\* Whatever is inserted or pruned between the two statements of latest (Store::latest, read by
\* status and next): it starts from the newest instant of the table, by time and not by text,
\* and returns in the order of time the rows there are then that are not older, all of them
\* or, beyond the cap, the newest.  So if nothing comes between, these are the rows of the
\* newest instant alone; a poll in between adds rows of its own instant.
LatestIsNewest ==
  /\ [][newest = NoInstant /\ newest' # NoInstant =>
          /\ \E o \in Range(rows) : o.at = newest'
          /\ \A o \in Range(rows) : ~Before(newest', o.at)]_vars
  /\ [](newest # NoInstant =>
          LET late == {i \in DOMAIN rows : ~Before(rows[i].at, newest)}
          IN LatestRows = NewestOf(ElementsAt(rows, late, ByTime(rows, late)), HistoryCap))

\* history (Store::history) returns as many matching rows as it may, in the order of time,
\* and never leaves out a row that is newer than one it returns.
HistoryIsNewest ==
  \A provider \in {NoFilter, 1}, since \in Clock \cup {NoInstant}, limit \in {1, 3} :
    LET h == History(provider, NoFilter, "any", since, limit)
        match == {i \in DOMAIN rows : /\ provider \in {NoFilter, rows[i].provider}
                                      /\ since = NoInstant \/ ~Before(rows[i].at, since)}
        most == Min({limit, HistoryCap, Cardinality(match)})
    IN /\ Len(h) = most
       /\ \A n \in 2..most : ~Before(h[n].at, h[n - 1].at)
       /\ \A i \in match : \/ rows[i] \in Range(h)
                           \/ \A n \in 1..most : ~Before(h[n].at, rows[i].at)

\* Pruning (Store::prune_before) removes what is older than some cutoff and keeps the rest,
\* by time and not by text.
PruneByTime ==
  [][Len(rows') < Len(rows) =>
       \E cutoff \in Clock :
         rows' = Selected(rows, {i \in DOMAIN rows : ~Before(rows[i].at, cutoff)})]_vars

Severity ==
  [Unknown |-> 0, Healthy |-> 1, Moderate |-> 2, Constrained |-> 3, Critical |-> 4, Exhausted |-> 5]

\* Whatever observations an export or a status is made of, the state of a key
\* (derive_snapshot) is no better than any one of its quotas alone would make it.
TightestQuotaRules ==
  \A since \in Clock \cup {NoInstant}, now \in Clock :
    \A s \in Export(since, now) \cup Status(now) : \A q \in s.quotas :
      Severity[s.state] >= Severity[Classify(Headroom({q}), q.remaining = 0)]

\* Whatever has been observed of a key, another observation that reports more tokens used
\* (derive_snapshot, classify) never improves its state, beyond the limit either.
UseNeverRelieves ==
  LET known == History(NoFilter, NoFilter, "any", NoInstant, HistoryCap)
  IN \A key \in Keys(known), more \in {1, 10}, now \in Clock :
       LET used == Latest(Group(known, key), "Tokens", None)
           later == Append(known, Observed(key[1], key[2], "Tokens", used + more, now))
           state(observations) ==
             (CHOOSE s \in SnapshotsAt(observations, now) : s.key = key).state
       IN used # None /\ (\A o \in Range(known) : ~Before(now, o.at)) =>
            Severity[state(later)] >= Severity[state(known)]

\* events (forecast::events) is in the order of time over all keys, and the expected recovery
\* of a key follows its reset, whether the snapshots are those of the latest rows or come
\* from rows of any instants.
EventsInOrder ==
  \A now \in Clock : \A snapshots \in {Status(now), Export(NoInstant, now)} :
    LET e == Events(snapshots)
    IN \A m \in DOMAIN e, n \in DOMAIN e :
         /\ m < n => ~Before(e[n].at, e[m].at)
         /\ e[m].kind = "QuotaReset" /\ e[n].kind = "ExpectedRecovery" /\ e[m].key = e[n].key => m < n

\* The rate of a counter that was reset any number of times (regression_rate) is never
\* negative, though zero where it did not move, and rests on enough samples that lie at
\* least a second apart.
RateNeverNegative ==
  \A since \in Clock : \A f \in ForecastOf(NoFilter, NoFilter, since) :
    /\ f.rate.num >= 0 /\ f.rate.den > 0
    /\ f.rate.samples >= MinimumSamples /\ f.rate.window > 0
=============================================================================
