# Formal models of InGauge

InGauge watches the remaining capacity of inference providers and, through its
daemon, tells callers when they may start a call. This directory holds TLA+
models of the parts of it where order, failure and time matter, the TLC
configurations that check them and proofs checked by TLAPS. Paths below are
those of the repository.

## The system

| component | state it keeps | operations | where |
|---|---|---|---|
| admission controller | snapshot table, leases per (provider, model), both behind one mutex | `admit`, `complete`, `update_snapshots` | `src/admission.rs`, `src/admission/` |
| gate client | the progress of one call: asking, sleeping, working, reporting | `wait_and_admit`, `complete` | `crates/ingauge-gate` |
| daemon loop | configuration, what was copied out of it, last success, the ticker | tick, SIGINT/SIGTERM, SIGHUP, exit | `src/daemon.rs` |
| poll | the targets left, attempts, observations so far | `probe`, `probe_target` | `src/app.rs` |
| store | observations, probe runs, one row of daemon state | `insert_batch`, `record_probe`, `heartbeat`, `prune_before`, `latest`, `history` | `src/store.rs` |
| capacity, forecast | none | `derive_snapshot`, `classify`, `events`, `regression_rate` | `src/capacity.rs`, `src/forecast.rs` |
| network monitor | counters per socket, cooldowns, totals per provider | `observe` | `src/network.rs` |
| setup, configuration files | the configuration file, the secret vault | `run`, `upsert_secret`, `save`, `load` | `src/setup.rs`, `src/config.rs` |
| dashboard | the last status, the last activity, displayed provider, needles | sample, render, cycle | `src/main.rs`, `src/instrument.rs` |
| launch | none | brace expansion of `--config`, load, `validate` | `src/main.rs`, `src/curly_expand.rs`, `src/config.rs` |

They interact as follows. The daemon loop polls the targets one after the
other, writes each result to the store, and hands the snapshots of the poll to
the admission controller, whose HTTP handlers run on other threads. Callers
use the gate client, which speaks HTTP to the handlers. The command line reads
the store and polls for itself; setup writes the files that the daemon loads.
The dashboard polls in one task, samples `ss` in another, and draws what either
has left behind.

What is hard, and hardly reached by a test:

* a handler reads the clock before it waits for the mutex, so critical sections
  run in another order than the instants they use;
* a completion names no lease, and removes the oldest one of its key;
* leases expire while their callers work, responses are lost, and callers go on
  without admission (`fallback_on_error`) yet report completion;
* leases and snapshots are lost when the daemon restarts; the store is not;
* a poll writes in many transactions, any of which may fail, and the process may
  die between two of them;
* a partial success replaces the whole admission table, a failed poll leaves it;
* bytes and requests are inferred from counters of sockets that are missed by a
  listing, change their owner, close, and come back under the same addresses;
* the dashboard joins a status and an activity that were sampled at different
  times;
* setups read, change and write two files in several system calls without a
  lock, beside each other and beside programs that load them;
* SIGTERM and SIGHUP wait for the poll under way, SIGINT is lost in it; a reload
  replaces part of what is running.

`PROJECT.json` lists these hazards with their lines and the properties that
cover them.

## Modules

| module | models | checked by | proved in |
|---|---|---|---|
| `Admission` | the admission controller and its handlers | `MCAdmission`: `Admission.cfg` | `AdmissionProofs` |
| `PermitPool` | what the controller promises: timed permits per key, and the same when crashes may empty it | refined by `Admission` and `GateClient` | `AdmissionProofs`, `GateProofs` |
| `GatedCalls` | what the crate promises: each call runs once at most, under a lease of its own or ungated | refined by `GateClient` | `GateProofs` |
| `GateClient` | callers against one controller, the network, restarts (extends `Admission`) | `MCGateClient`: `GateClient.cfg`, `GateLive.cfg`, `GateOversleep.cfg` | `GateProofs` |
| `Daemon` | daemon loop, poll, the store's transactions, systemd | `MCDaemon`: `Daemon.cfg`, `DaemonReload.cfg`, `DaemonInterrupt.cfg` | `DaemonProofs` |
| `Instants` | instants and the text the store compares them by | through `Store` | `StoreProofs` |
| `Lists` | sorting and selecting, by ranks | through `Store` and `Launch` | `ListsProofs` |
| `Usage` | what the adapters make of an answer (extends `Instants`, `Lists`) | through `Store` | `StoreProofs` |
| `Capacity` | snapshots: quotas, headroom, projection, state (extends `Usage`) | through `Store` | `StoreProofs` |
| `Forecast` | events and rates (extends `Capacity`) | through `Store` | `StoreProofs` |
| `Store` | the observations table, its queries, and what the commands derive (extends `Forecast`) | `MCStore`: `Store.cfg` | `StoreProofs` |
| `NetworkMonitor` | the collector of encrypted traffic against the kernel's sockets | `MCNetwork`: `Network.cfg` | `NetworkProofs` |
| `Instruments` | gauges, needles, the state of the engine | through `Cockpit` and `Needles` | - |
| `Needles` | a needle that follows its readings from frame to frame (extends `Instruments`) | `Needles.cfg` | - |
| `Cockpit` | samplers and render loop of the dashboard (extends `NetworkMonitor`, `Instruments`) | `MCCockpit`: `Cockpit.cfg` | `NetworkProofs` |
| `ConfigFiles` | interactive setups, the configuration file and the vault | through `Launch` | `ConfigFilesProofs` |
| `Validation` | what makes a configuration valid | through `Launch` | `LaunchProofs` |
| `CurlyExpand` | brace expansion | through `Launch` | `LaunchProofs` |
| `Launch` | a program that is started on what setups leave (extends the three) | `MCFiles`: `Files.cfg` | `LaunchProofs` |

### Admission

`snapshots` and `leases` are the two maps of `InnerState`. A lease is numbered
by the order in which it was granted, which gives every `Vec<Lease>` its order;
a key's Vec is `LeasesOf(k)`. `call[h]` is the request that handler `h` serves
together with the `now` it read, `reply[h]` the response it returned.

A request is `Arrive` (the handler starts and reads the clock) followed by one
action for each way out of the critical section: `RefuseName`, `DelayAtLimit`,
`DelayForCapacity`, `Grant`; `CompleteNothing`, `Complete`. Each performs the
pruning that precedes its exit in the code. Nothing else in the code holds the
mutex, so a critical section is one step. `UpdateSnapshots` is the poll loop's.

Time is relative: the present is 0 and `Tick` moves every stored instant one
unit into the past, as far as `-MaxLag`. No handler that still runs read the
clock earlier than that (this is the bound on how long one waits for the
mutex), so older instants need not be told apart. This keeps the state space
finite without stopping the clock, which liveness needs. Leases count in
seconds in the code and delays in milliseconds; one unit stands for both,
since they are never compared with each other. A token estimate counts in
thousands, so that the ttl is the estimate clamped to `MinTtl..MaxTtl`.

The clock is taken to be monotone. `Utc::now()` is not, if the system clock is
set back; the effect of that is not modelled.

* `ConcurrencyLimit`: the limit holds for the table whatever the clocks.
* `LeaseHorizon`: no lease lasts beyond the longest ttl. (It is proved, and checked as
  part of `ImplementsPermitPool`: a permit is acquired for `MaxLife` at most.)
* `LiveLeaseLeavesByCompletion`: pruning, with however stale a clock, never takes
  a lease that has not expired; a completion takes exactly the oldest live one.
* `LimitDelayIsJustified`: nobody is delayed for leases that had expired.
* `NoOversleep`: adding a delay measured at the decision to an older clock read
  never yields a start after the reset.
* `ImplementsPermitPool`: with the map `TimeLeft` (the remaining life of each live
  lease) every step is a step of `PermitPool` or leaves the pool alone.

Bounds: two handlers (two requests race; a third adds no new pair), one provider
and one model (two keys, provider-wide and exact, which is what the fallback to
the provider's snapshot needs), limit 2 (so that "the oldest" is a choice), ttl
1 and 2, lag 1, three grants (one more than the limit). The four requests are
short and long, for the model and for the provider, and one with a bad name; the
two tables are room on the provider alone and pressure on both until a reset.
Before the first poll nothing is known and nobody is admitted
(`AdmitWhenUnknown` is false here and true in the runs of `GateClient`).

### GateClient

Each caller makes one call. `Ask` connects it to an idle handler, `Hear` reads
the response, `TimeOut` and `Unreachable` are the errors that `wait_and_admit`
answers with fallback or failure, `Report`/`Lose`/`Reported` are `complete`.
`peer[h]` says who reads the response of `h`: nobody, once the caller has given
up, although the handler still serves the request and may grant a lease that
has no owner. `Restart` empties the controller and resets the connections; the
callers' work goes on. `open`, `stray` and `paidBy` are history: the admissions
whose completion has not been served with the life their callers still count
on, and the completions sent by callers without a live lease.

* `OneLeasePerCall`: no loss or delay gives a call two leases.
* `NoLeakedSlot`: live leases never outnumber admissions still open.
* `SlotsCoverCallers`: since completions take the oldest lease, callers that
  estimate alike are always covered, except for one slot per stray completion.
  It is checked for callers with equal estimates only. With unequal ones it does
  not hold: the completion of a short call may take the long lease of another
  caller, who is then covered by the short lease alone.
* `WorkersWithinLimit`: the purpose of `max_concurrent` as the provider sees it, from
  the two before: the callers at work inside their leases stay within the limit, save
  one per stray completion (equal estimates again).
* `ImplementsVolatilePool`: with the same `TimeLeft` as in `Admission`, every step of
  the composition is a step of `PermitPool`, a `Crash` of it (`Restart`), or leaves
  it alone.
* `ImplementsGatedCalls`: with `Phases` (what the program that calls can tell) and
  `Held`, callers, network and controller together implement `GatedCalls`: a call runs
  at most once, under a lease that no other call ever holds, or ungated; ungated or
  given up is for `fallback_on_error` alone to decide.
* `EveryCallStarts` (liveness): whoever asks stops asking in the end, if its names
  validate. A name that does not is answered with Delay for ever
  (`src/admission.rs:85`, `:97`), and `wait_and_admit` asks for ever: the crate
  promises to fall back when InGauge is unreachable or disabled, and here it is
  neither.

`EveryCallStarts` is checked with polls that find capacity. Its fairness is: the
runtime runs handlers (`Handle`, `Discard`), the HTTP client's timeout fires
(`TimeOut`, `Reported`), a caller whose sleep is over asks again (`Ask`), and
time passes (`Elapse`). Nothing obliges a caller to finish its work or to
report it, a poll to run, or the daemon to restart. `gate_oversleep` is a violated
run (see Findings).

Bounds: three callers and two slots for safety (two hold leases while a third
waits), ttl 3 with lag 1 so that the order of two leases shows in their lives;
two unlike callers and one slot for liveness and `OneLeasePerCall`, with one
restart. A completion is the request of its caller without the token estimate, so
`GateAssumption` asks that `Requests` has these too. `MaxGrants` is no less than the number of callers, and so never keeps
an admission out: leases and admissions under way are no more than the calls
begun (`OneClaimPerCall` in `GateProofs`).

### Daemon

`pc` follows the loop: `select` (waiting), `probe`, `insert`, `record` (inside
the poll), `heartbeat`, `prune` (the rest of the tick), `checkpoint` (after a
signal), `stopped` (exit 0), `failed` (killed, or an error of the `?` operators)
and `down`. Every transaction of the store is an action of its own, so a `Kill`
or an error may come between any two. `config` is `app.config`; `retention` and
`limit` are the copies that the code makes at the start and never renews.
Targets are numbered in the order of the `BTreeMap`. What a target reports is
reduced to whether it reports anything: the harness bridge names the providers
of its records itself, so a table entry is identified by the target it came
from, not by a provider.

* `TableFromConfig`: admission never decides on a target that is not configured.
* `SuccessWithinBeat`, `SuccessNeverForgotten`: what `health` shows of the last
  success is consistent, and never goes back across failures and restarts.
* `RunHasRows`: a recorded success has its observations, unless they were
  pruned.
* `TableAgeShown`: a failed poll leaves the table of the controller in force, with no
  limit to its age, and nothing in the controller tells that age. `sampled` is
  history: the poll that the table comes from. Outside of a tick it is what `health`
  shows as the last success, through failed polls, reloads and restarts, as long as
  the table is not empty. It depends on the order of the arguments of `COALESCE` in
  `src/store.rs`.
* `SignalsServed` (liveness): SIGTERM ends the process and SIGHUP is looked at,
  although ticks may be due without a pause. SIGINT is another matter: see
  Findings.

Fairness: `WF(Tick)`, because a probe is bounded by `request_timeout` and its
retries by `max_attempts`; `SF(Terminate)` and `SF(Hangup)`, because each is
enabled only between ticks and `tokio::select!` picks at random among the
branches that are ready. (A SIGINT that was heard is lost again when another
branch is picked; strong fairness does not help it, as in the code.) Nothing is
assumed of the clock, the operator, the store or systemd.

Signals: `tokio` keeps a SIGTERM or SIGHUP in a stream that was made before the
loop (`term`, `hup`). `ctrl_c()` makes a new listener in each turn, which hears
only what is sent while it exists: `sigint` says whether the signal was heard
or lost.

Bounds: one target, two attempts, two instants, one kill (errors of the store end
the process any number of times), retention of less than one unit so that
pruning happens, and three configurations: the target, none, and one on another
database, which a reload must reject. `Kill` is a kill or a panic: after a power
cut the last transactions may be gone (`synchronous` is `NORMAL`), which is left
out. Safety and liveness are checked together.
With one target no poll succeeds in part; the safety properties are proved for
any set of targets in `DaemonProofs`, and `daemon_reload` polls two.

### Store, with Instants, Usage, Capacity and Forecast

`rows` is the observations table in the order of its ids. `newest` is what
`Store::latest` knows between its two statements, which are no transaction:
`SelectNewest` asks for the highest instant, `SelectSince` for the rows from it
on, and another process may insert or prune in between.
`Poll` takes an instant, asks a bridge (`ParseUsage`) or Groq
(`GroqHeaderObservations`) and inserts the whole answer, or nothing if one record
is wrong. Since daemon and commands poll side by side and take their instants
before they ask, batches arrive in any order of their instants. `Prune` is the
daemon's; where it stands in the loop is a matter of `Daemon`.

The other queries are operators over `rows`, and the pure functions operators over
what the queries return, so that they are evaluated on every table the program
can build within the bounds. What is under test is how they fit together:

* Instants are stored as text whose fraction has none, three, six or nine
  digits. `Text` keeps the groups that are written and the offset that ends
  them, and `TextBefore` compares as SQLite does. `LatestIsNewest`,
  `HistoryIsNewest` and `PruneByTime` state the queries by time alone. They hold
  because `+` sorts before `.` and every digit; with `Z` they would not.
* `LatestIsNewest` says what `latest` returns whatever comes between its
  statements: the rows that are not older than the instant that was newest at
  the first of them. If nothing comes between, these are the rows of one
  instant, and since each target of a poll takes its own (`src/app.rs:176`),
  `status` without `--refresh` shows the target polled last and no other. A poll
  in between adds rows of its own instant, and `status` then mixes the two.
* `TightestQuotaRules`, `UseNeverRelieves`: snapshots made of contradictory counts
  and of more use than the limit never look better than any one quota, or than
  the same observations with less use.
* `EventsInOrder`, `RateNeverNegative`: the events of all keys in one order, and
  rates of counters that start again. A rate may be zero, of a counter that does
  not move: the list of `docs/improvements-v0.2.md` has "Reject non-positive
  consumption forecasts" as done, but only the projection of an exhaustion
  (`src/capacity.rs:139`) does so.

Sorting and selecting (`ORDER BY`, `sort_by_key`, `filter`) are operators of
`Lists`: an order on a finite set is a set of pairs, and an element stands where
as many come before it. An order on places of a sequence that goes by a key and
then by the place is a stable sort. The properties are stated for every instant
`now` at which a command may run. A record is one that `serde` can have read:
its metrics have values of their types, and nothing more is assumed of it.

Headrooms and rates are exact fractions. The code's `1.0 - (1.0 - x)` decides
only in which of two states a headroom that equals a threshold falls;
`RoundedDown` lists the percentages at which it falls below (10 % is
one: a headroom of exactly a tenth is critical).

Bounds: four instants with fractions of every width in two seconds, so that two
rows can be a second apart, or share a second; five rows, of which a query
returns four, so that the cap bites; answers with every kind of quota, a reset,
rates, use beyond the limit and a counter that falls twice. A group of digits
counts to two: only whether it is zero matters to the text.

### NetworkMonitor

`conn` is the kernel's table of established sockets: connections open, carry
bytes in either direction, change the processes that hold them, and close; an
address and port may be used again. `Sample` is one `observe`: it is given the
open sockets that `ss` lists and that parse, and computes the whole of
`previous_sockets`, `last_calls`, the queues `calls` and `tokens`, the counts and
the activity it returns. A listing that fails changes nothing but the age of
what is shown, so it is a stuttering step. A listing may miss a connection, and
`ss` may learn late who holds one (both count as `misses`).

The key of a socket is its addresses and its owner, as in the code, so a missed
listing or a change of owner makes the monitor forget a connection and count its
counters from zero when it comes back. `old`, `since` and `balance` are history:
what a connection had received at the last sample, when it was last charged a
call, and, for each provider and connection, the bytes it received for the
provider (and received again, when it came back) less those that went into the
provider's `tokens` (`Arrivals`, the very rows that are appended there).

* `CountedOnce`: in the tokens of a provider no byte is counted twice, none from
  before the first sample and none of an address that is not the provider's,
  except for the bytes of connections that come back. The exception is needed: it
  is what the code does after a missed listing. The bytes of an address that
  several providers share go to each of them, as in the code, so that their sum
  counts a byte once for each.
* `CallsSpaced`: a sample charges a connection at most one call although its
  address may stand for several providers, and none within the cooldown, with
  the same exception.

Ages replace instants, and stop growing past the longest window. Bounds: two
connections, one after the other at the same address (with the same key, or not);
two bytes each way, so that a handshake can be all of a burst or half of it; one
address that two providers share, one that one of them has alone, one that
belongs to nobody; one miss. The
cooldown is two, so that a burst can fall into it, the request window two, the
token window one (in the code the cooldown is shorter than either, but they are
never compared with each other).

### Cockpit, with Instruments

`latest` is what the status sampler stored last, `activity` what the network
sampler did; both tasks run beside the render loop, which clones the one
(`Read`), then reads the other (`Draw`), so that the monitor may run between the
two. `turn` is the elapsed time divided by the cycle time, counted modulo
`Round`, a multiple of every number of providers. `frame` is what is drawn, with
its needles at rest.

* `HonestRates`: a rate on the dials is the provider's own, or it is labelled.
* `EstimateDecays` (liveness): when connections carry nothing more, estimates
  leave the dials.
* `EveryProviderTurns` (liveness): each configured provider is shown again and
  again.

Fairness: time passes (`Tick`, `NextTurn`), the interval of the network sampler
fires and `ss` lists what there is (`Sample(Open)`: a sampler that fails for
ever keeps the last estimate on the dials for ever), and the render loop goes
on. Nothing obliges a status to arrive. A turn is at least a second and a frame
a fraction of it, so `NextTurn` waits for a frame.

Bounds: one connection on a shared address, one byte; two providers, of which
one is configured; two statuses, one of a failed probe, one with rates that are
known, zero, unknown and stale.

### Needles

`dial` is one of the three (their gauge and the responsiveness omega of their
needle), `needle` its angle and velocity, `aims` the values it was aimed at so
far. `Redraw` is one frame: `advance_needle` towards the reading of the moment,
however long after the last frame. `Instruments` translates it with integers
(angles in hundredths of a degree).

* `NeedleStaysBetween`: a needle shows nothing beyond the values it was aimed at,
  to a hundredth of the dial, as the doc of `NeedleState::advance` claims of
  delayed redraws. A frame is cut into steps of 16 ms, but into eight at most,
  so a late one makes long steps. With `h` for omega times the step, the
  integration does not overshoot up to `h` = 0.5 and is unstable beyond 0.83.
  For the fastest needle (omega 17) these are steps of 29 ms and 49 ms, frames of
  0.24 s and 0.39 s.

`needles_late` has frames of 0.08 s (the render loop's own) and of 0.42 s, readings at
both ends and within the dial and up to four frames, as it takes a reading that
changes while the needle is on its way. It is violated (see Findings): two frames
of 0.42 s are enough. With frames of 0.39 s at most it holds for five frames.

### ConfigFiles, with Validation, CurlyExpand and Launch

`ConfigFiles` follows `setup::run` from system call to system call. A name
refers to an inode, opening truncates the inode, a write goes over what the
inode holds by then. The vault is rewritten in place (`ReadVault`, `OpenVault`,
`WriteVault`); the configuration is written to a temporary file and renamed
(`OpenTemp`, `WriteTemp`, `Rename`). A write may fail and a setup may be killed
between any two calls (`WriteFails`, `Die`). A power cut is another matter: nothing is
synced before the rename (`src/config.rs:487`), so that it may leave the file torn
or empty under its name. What is shown holds for kills and failing calls. `typed`, `saved`, `hurt`, `crossed`
and `raced` are history. A write is atomic with respect to other calls, but what
it leaves may be any mixture of the old text and the new.

The properties are conditional, and the conditions are exactly what the code
does not guard against:

* `ConfigWhole`: the configuration is never torn, unless two setups had the
  temporary file, whose name is the same for all, open at once (`crossed`).
* `KeysSurvive`: no key is lost, unless a setup died in the middle of rewriting
  the vault, could not read it (any error counts as an empty vault), or read it
  while another one was rewriting it (`hurt`).
* `ConfiguredKeysResolve`: a provider is configured only after its typed key is
  in the vault.
* `SavedSetupStays`: what was reported as saved stays, unless another setup had
  loaded the configuration in the meantime (`raced`).

`Launch` starts a program with `--config` on what the setups leave. It expands the
argument and runs itself again for every expansion, or loads and validates.

* `RunsAgainOnce`: what a token expands to stands for itself, so the program
  that is run again does not run itself again.
* `SavedConfigStarts`: once a setup has reported success, a program that loads the
  configuration runs on it, whatever other setups do to the file, fail or die over
  (unless `crossed`). It needs that `setup` validates what it is about to save with
  every provider in it, and never saves over a good file what would be refused.

`Validation` translates `validate` field by field. What it lets through is not always
what the rest of the code can run on: a retention or a forecast window is bounded
by nothing but the width of its seconds, and one of 100000000 days ends the daemon
or the command where it is subtracted from the present (`src/daemon.rs:65`,
`src/app.rs:278`). That is beyond this model, which ends with the validation. Visible
in it are a warning threshold of zero or one equal to the critical threshold, which
are accepted against the message for them (`src/config/validation.rs:79`), and the
host `[::1]`, which is refused for plain HTTP, as the parsed host keeps its
brackets and the code compares with `::1`.

Bounds: two setups side by side (the races need no third), two providers that
may share a variable, one variable that does not validate, a file that is there
at first or not. Configurations are the defaults with one field, or one pair of
related fields, at and beyond both ends of its range; only the default one meets
setups that race. `MaxSeconds` stands for the largest `u64`. Tokens are the balanced and nearly balanced ones of six
characters, of braces, commas and one letter, which hold nested and adjacent
groups and empty members.

## Proofs

The type invariant of `Daemon` is checked by a run and proved. Those of
`Admission`, `GateClient`, `NetworkMonitor`, `ConfigFiles` and the modules built on
them are proved only.

All proofs are for arbitrary constants that satisfy the named assumptions:
`AdmissionAssumption`, `DaemonAssumption`, `GateAssumption`, `FilesAssumption`,
`MonitorAssumption` (there are finitely many sockets), `LaunchAssumption` (settings
have the types they are read with, in whatever range; arguments are any finite
sequences of characters) and, for the store,
`InstantAssumption` (a group of digits can be written), `CapacityAssumption`
(thresholds in the order that `validate` demands), `ForecastAssumption` and
`StoreAssumption` (what answers and headers can be read as; no bound on their
length, number or values).

`AdmissionProofs`. `TypeCorrect` proves the type invariant action by action.
`ConcurrencyLimit` is inductive with it: only `Grant` adds a lease, to a key
that has fewer than the limit after pruning, and pruning only shrinks a key
(`LimitHolds`). `OnlyCompletionsFree` needs more: that every clock a handler
holds is not in the future (`ClockReads`), so that what is pruned has expired
now. With `Budget` (grants made or under way stay within `MaxGrants`), `TypeOK`
and `ClockReads` form the inductive invariant `IInv`. `Implementation` shows
that `Init` and each action map to `PermitPool`: a grant is `Acquire`, a
completion that finds a live lease `Release`, `Tick` is `Elapse`, and everything
else, pruning included, leaves `TimeLeft` unchanged. `HorizonHolds` bounds
every expiry by `MaxTtl`.

`LimitDelaysAreJustified` and `NobodyOversleeps` rest on a lemma about the step
in which a reply appears: only the handler of that reply decides, and the reason
tells which exit it took. For the second, `ClockReads` bounds how far the start
can precede the reset.

`DaemonProofs`. `TypeCorrect`, then the inductive invariant `IInv`, whose parts
tie the poll under way to the process and the store: `PollFits` (what is probed
and reported belongs to the running configuration, since a reload cannot happen
during a poll), `NothingAhead` (no instant is in the future), `SuccessNewer` (a
success that the process remembers is no older than the stored one, because it
was later than a heartbeat that was later than the stored one), `RowsFirst`
(a run is recorded after its observations), and for the age of the table
`TableSampled` (a table that is not empty was sampled at the success that the process
remembers) and `SuccessWritten` (that success is in the store, except between the poll
and its heartbeat). `TableFromConfig`,
`SuccessWithinBeat` and `RunHasRows` are proved as parts of it, `TableAgeIsShown`
from the last two, `SuccessNeverForgotten` for each step from `SuccessNewer`. None of this needs
the bounds.

`StoreProofs`, the instants. `TextOrderIsTimeOrder`: for any number of digits in a group, the
order of two texts is the order of the instants. A text is the digits up to
the last group that is not zero, then the offset (`TextShape`). At the first group
in which two instants differ, the later one is not zero, so its text has not
ended there, and the earlier one either has the smaller digits or has ended,
where its offset sorts first (`EarlierSortsFirst`). The converse follows as
no text sorts both before and after another (`TextAsymmetric`).

`ListsProofs` holds what the other proofs need of the operators of `Lists` and of
the sums and folds of the community modules. Induction is done without the
schemas of the library: on naturals through the least member of a set of
counterexamples (`Induction`), on finite sets through their cardinality
(`SubsetInduction`). `SortedInOrder` says that a list sorted by a strict total
order on a finite set has each element once, each before those that follow it
in the order; `AtProperties` and `SelectedProperties` say what a selection keeps.
Sums of naturals are naturals (`SumOfNaturals`), and grow by no more than what is
added (`SumGrowsByUnion`).

`StoreProofs`, the rest. `RowsTyped` (each row is an observation of an instant of the clock)
is inductive: an answer that is not rejected becomes typed rows, and pruning
keeps some of them; what the first statement of `latest` answered is an instant
until the second is done. `LatestIsNewest` (a property of the step of the
first statement, and of every state between the two), `HistoryIsNewest` and `PruneByTime` follow
from the sorting lemmas and from `TextOrderIsTimeOrder`, by which the order and
the cutoff in text are those in time. `TightestQuotaRules` needs that the least
of finitely many fractions exists (`Less` is a strict order on fractions with a
positive denominator), and that the state is monotone in the headroom whatever
`RoundedDown` holds. `UseNeverRelieves` compares the groups of a key before
and after one observation more: the new one is the last of its metric, every
other metric keeps its latest value, and the remaining count falls unless it was
reported. `EventsInOrder` needs that the order of events is a strict total order
on the events of all snapshots (no two of them agree in instant, key and kind).
`RateNeverNegative`: behind the last reset a counter never falls
(`Segment`), instants never go back, and for two lists that rise together the sum
of least squares is not negative, proved by induction on their length: the sum
grows by the deviations of the next sample from those before it, which are all
of one sign.

`NetworkProofs`, the monitor. `NetTypeOK` is inductive. `CountedOnce` is not inductive
by itself: how much a sample takes off a balance depends on what `previous` holds. The
inductive invariant
`NetInv` adds what relates the two: `OldIsReceived` (no connection had more at
the last sample than it has now), `PreviousCoversOld` (a socket the monitor
remembers is remembered with what it had then), `NothingBefore` (nothing is
counted before the first sample) and `NewIsInBalance` (what came for a provider since
the last sample is still in its balance). `OnceForEachProvider` follows for any
sockets, peers, owners and bounds.

`CallsSpaced` rests on another invariant, `CooldownInv`: a connection that was
charged within the cooldown has sent enough for a call (`ChargedHasSent`), and as
long as the monitor knows its socket, the time of the last call that it keeps is
no older than that charge (`ChargedCoolsDown`). A sample then charges only
connections whose cooldown is over and those it does not know, one call each
(`BurstIsOneCall`; the sum over providers is that of `ListsProofs`).

`NetworkProofs`, the dashboard. `FrameOfHeld`, the inductive invariant with
the types: the frame on the screen was made of the status that the render loop
still holds and of some activity, whatever the samplers have stored since. So
`RatesAreHonest` need only be shown of a frame made of any status and any
activity: `WithNetwork` fills in nothing but what the status lacks, and labels it
(`DialIsHonest`). `CockpitKeepsMonitor` shows that every step of the
dashboard is a step of the monitor or leaves it alone, so that all that is
proved of `NetSpec` holds in `Cockpit`.

`ConfigFilesProofs`. The inductive invariant `FilesInv` is the types with four
parts: `TempIsMine` (unless `crossed`, at most one setup is between opening and
renaming the temporary file, and the file is whole by the time it is renamed),
`VaultIsMine` (unless `hurt`, at most one setup rewrites the vault, from all the
keys typed by then), `AllResolved` (a typed key that any file or setup refers to
has been put into the vault) and `HandAgrees` (unless `raced`, at most one setup
has the configuration in hand, and what it has says all that was saved).
`ConfigStaysWhole`, `OtherKeysSurvive`, `KeysOfConfiguredResolve` and
`SavedStays` follow for any number of setups. That such a strengthening is
needed shows in the fields the properties do not mention: the text of a
temporary file that nobody has renamed yet decides what the configuration will
be.

`GateProofs`. The inductive invariant `GateInv` is the types with four parts.
`RepliesGranted`: a response names only leases that were granted. `KeysAgree`:
wherever an open admission is remembered (by its caller, in the response on its
way, in its completion) its key is the one of the request, so that a completion
closes an admission of the key it takes a lease from. `EveryLeaseOpen` is
`NoLeakedSlot` for all leases in the table, expired ones too: for the live ones
alone it is not inductive, because a completion whose clock is stale may take a
lease that has expired since, and closes an admission all the same. From these
follows `NoSlotLeaks`. `OneClaimPerCall` counts leases granted, admissions
under way, delays on their way to a caller and callers that wait: every action
moves a claim from one of these to another, drops it, or begins a call, so that
there are never more of them than calls begun (`ClaimsMove`, `ClaimBegins`).
From it follows `OneLease`.

`SlotsCovered` assumes that those who call under one key are estimated to take the
same time (`EstimatesAlike`); with unequal estimates a long call can lose its slot to a
short one. The property says nothing about which lease a completion takes, so
it is not inductive: `Covered` says the same of the callers and live leases of a
key from its n-th grant on, for every n. Then a completion that takes a younger
lease than its caller's own has found no older one, and what covered its own
suffix covers the shorter one with one to spare (`CompletionCovers`). When time passes,
`LaterLastLonger` (a later lease of the same key ends no earlier, up to the lag of the
clocks) keeps every lease alive that is younger than the oldest caller still entitled
(`ElapseCovers`). It holds because all leases of a key are granted for the same
time (`CallsAlike`), so that an open admission never has more left than a new lease
gets (`LeftWithin`). `CoverInv` is `GateInv` with these four.

What is proved of the controller alone holds beside its callers. Every step of
`GateNext` is a step of `Next`, a `Restart`, or leaves the controller alone
(`CallersFollow`), and a restart keeps the invariants of `AdmissionProofs`
(`RestartKeeps`, `BesideCallers`). From this follow `LimitBesideCallers` (the limit and
the horizon of leases), `DelaysBesideCallers` (the two properties of delays, by the
same lemmas about single steps) and `PoolBesideCallers`, where a restart is the `Crash`
of the pool.

`CallsAreGated` needs to know whose a lease is. `OwnGrants`: the number of a lease is with
one caller or in one response, never in two places. `GrantsFit`: a caller that
has not been admitted has none, and no answer to a completion reaches a caller that asks.
The two are inductive with `GateInv` (`GrantsInductive`; a new grant has a number that
nobody has seen, by `RepliesGranted`). Then each action of a caller is one of
`GatedCalls` (`CallerRefines`, `HearRefines`), and the controller's steps stutter.
`WorkersBounded` combines `OwnGrants`, by which each caller at work has an admission
of its own (`WorkersHaveLeases`), with `SlotsCovered` and the limit beside callers; it
assumes `EstimatesAlike`, as `SlotsCovered` does.

`LaunchProofs`. The files keep `FilesInv` beside a program, wherever it starts
(`FilesBesideProgram`). `SavedStarts` needs more than a whole file: by `OnlyValid` (in
`ConfigFilesProofs`, inductive with `FilesInv`) every text that a setup is about to
rename into place holds a configuration that validates, and so does the
configuration itself from the first success on. The constant `Acceptable` of
`ConfigFiles` is what `Validates` accepts (`LaunchAssumption`), so that a setup and a
program that starts later judge alike.

`RunsAgainOnce` needs that a token expands to tokens without a group, and such a
token to itself. The first group of a balanced token closes where the depth is zero
again, and what is before it, in it and after it are balanced slices
(`FirstGroup`, `SliceBalanced`, `GroupParts`); so are the alternatives between its
commas (`SplitsInSlices`). All of them are shorter than the token, so the recursion
over slices is well founded (`ValuesExist`, by induction on the length, since
`ExpansionDepends` on shorter slices alone), and every value is a product of
literals (`ExpansionIsLiteral`, `JoinedLiterals`). A token that is not balanced stands
for itself. With that `ArgumentInv` is inductive: only a program with a group in its
argument runs itself again, and its child has none.

Only model-checked: `NeedleStaysBetween`, a fact about particular frame times and
not about every constant (it is false for longer ones); and every liveness property (out of
reach of the prover, like `ENABLED`).

## Findings

* `gate_oversleep`: `wait_once` sleeps `delay_ms` again when the estimated start
  has passed (`lib.rs:242`), against the doc comment of `wait_and_admit`.
* `daemon_reload`: retention and the whole `[admission]` table keep their old
  values after SIGHUP (`src/daemon.rs:18`, `:27`), against `README.md:43`.
* `daemon_interrupt`: a SIGINT that arrives while a poll is under way is lost
  (`src/daemon.rs:69`), and the daemon goes on until another one happens to
  arrive between polls, against the same line of the README.
* `needles_late`: frames that come 0.42 s after each other throw a needle beyond every
  value it was aimed at (`src/main.rs:446`; the longer the frame, the further), against the doc
  of `NeedleState::advance` (`src/instrument.rs:150`), which says that its clamp
  prevents this. The clamp at 0.1 s is twice what the integration tolerates.

## Not modelled, and the plan

In the order of their importance:

1. The rest of the store: migration and schema versions, `health`, backup.
2. The width of integers and dates (delays in `Admission`, seconds in `Capacity`, the
   retention of a valid configuration).
3. The telemetry that `Capacity` leaves out, and what the dashboard accumulates
   of it: the ignition sweep, the coloured zones, odometer and peak hold. None of them feeds a
   decision.

Left out for good: terminal rendering and wording, HTTP and JSON encoding,
SQLite itself, the resolution of paths and the parsing of environment files,
harness discovery, logging, the Python scripts.
