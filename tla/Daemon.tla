------------------------------- MODULE Daemon -------------------------------
(***************************************************************************)
(* The daemon loop, src/src/daemon.rs, with the poll it runs (App::probe,  *)
(* src/src/app.rs), the SQLite store it writes (src/src/store.rs) and the  *)
(* systemd unit that restarts it.                                          *)
(*                                                                         *)
(* One iteration of the loop is a tick, which probes every target, writes  *)
(* each result in transactions of its own, writes the heartbeat and prunes *)
(* history; or it is a signal.  SIGTERM and SIGHUP have streams that exist *)
(* before the loop and keep a signal until the end of a tick.  SIGINT has  *)
(* a future that each turn of select! makes anew, so that only a signal    *)
(* sent while the loop waits is heard, and only if its branch is taken.    *)
(* The process may be killed anywhere; the store survives, the rest does   *)
(* not.  Whether the admission server could bind its address is not kept:  *)
(* the loop goes on alike.                                                 *)
(*                                                                         *)
(* A target is a [providers.*] table of the configuration.  What it        *)
(* reports is abstracted to whether it reports anything.                   *)
(*                                                                         *)
(* A definition marked "Mutant" is no part of Spec: see Admission.         *)
(***************************************************************************)
EXTENDS Integers, FiniteSets

CONSTANTS
  Target,        \* targets by their position in the configuration: a BTreeMap's order
  Configs,       \* configuration files an operator may write
  Signals,       \* signals that are sent to the daemon
  MaxAttempts,   \* general.max_attempts
  MaxClock,      \* bound: instants told apart
  MaxKills       \* bound: kills of the process

\* enabled targets, the two settings that are copied out of the configuration when the
\* daemon starts, the database path, and whether the file loads and validates at all.
Config == [targets : SUBSET Target, retention : Nat, limit : Nat,
           database : {"usage", "other"}, valid : BOOLEAN]

ASSUME DaemonAssumption ==
  /\ Target \subseteq Nat /\ IsFiniteSet(Target)
  /\ Configs \subseteq Config
  /\ Signals \subseteq {"SIGINT", "SIGTERM", "SIGHUP"}
  /\ MaxAttempts \in Nat \ {0}
  /\ MaxClock \in Nat /\ MaxKills \in Nat

VARIABLES
  clock,      \* Utc::now()
  file,       \* the configuration file
  pc,         \* where the process is
  config,     \* app.config
  retention,  \* the local variable retention
  limit,      \* config.max_concurrent of the admission controller
  success,    \* the local variable last_success
  table,      \* targets whose report the admission controller decides on
  sampled,    \* history: when the reports in it were made, None if it is empty
  due,        \* the ticker has a tick to give
  left,       \* the poll under way: targets still to probe,
  attempt,    \* the attempt at the first of them,
  started,    \* when its probe started,
  at,         \* when its last attempt did,
  ok,         \* the targets that answered,
  reports,    \* and those of them that reported anything
  rows,       \* the store: per target, the instant of its newest observations,
  runs,       \* per target, the start of its newest successful run that had any,
  beat,       \* heartbeat_at and
  stored,     \* last_success_at of daemon_state,
  cutoff,     \* and the latest instant that history was pruned before
  term, hup,  \* SIGTERM, and SIGHUP, pending
  sigint,     \* what became of SIGINT, if any was sent to the process
  kills       \* kills so far

poll == <<left, attempt, started, at, ok, reports>>
store == <<rows, runs, beat, stored, cutoff>>
process == <<config, retention, limit, success, table, sampled, due, poll>>
outside == <<file, term, hup, sigint, kills>>
vars == <<clock, pc, process, store, outside>>

None == -1   \* Option::None, a NULL column or an empty table, where an instant may stand
Instant == 0..MaxClock
Later(s, t) == IF s > t THEN s ELSE t

First(S) == CHOOSE t \in S : \A other \in S : t <= other

Stages == {"down", "select", "probe", "insert", "record", "heartbeat", "prune", "checkpoint",
           "stopped", "failed"}
Running == {"select", "probe", "insert", "record", "heartbeat", "prune", "checkpoint"}

\* No poll is under way; the next target's turn comes.
ForgetPoll ==
  left' = {} /\ attempt' = 1 /\ started' = 0 /\ at' = 0 /\ ok' = {} /\ reports' = {}

NextTarget ==
  /\ left' = left \ {First(left)} /\ attempt' = 1 /\ started' = clock /\ at' = clock
  /\ UNCHANGED <<ok, reports>>

-----------------------------------------------------------------------------
Init ==
  /\ clock = 0
  /\ file \in {c \in Configs : c.valid /\ c.database = "usage"}
  /\ pc = "down"
  /\ config = file /\ retention = file.retention /\ limit = file.limit
  /\ success = None /\ table = {} /\ sampled = None /\ due = FALSE
  /\ left = {} /\ attempt = 1 /\ started = 0 /\ at = 0 /\ ok = {} /\ reports = {}
  /\ rows = [t \in Target |-> None] /\ runs = [t \in Target |-> None]
  /\ beat = None /\ stored = None /\ cutoff = None
  /\ term = FALSE /\ hup = FALSE /\ sigint = "none" /\ kills = 0

\* The process starts, at first or because systemd restarts it on failure: the file is
\* loaded and validated, and parts of it are copied.  A daemon on another database than
\* the one modelled is another system.
Start ==
  /\ pc \in {"down", "failed"}
  /\ file.valid /\ file.database = "usage"
  /\ pc' = "select"
  /\ config' = file /\ retention' = file.retention /\ limit' = file.limit
  /\ success' = None /\ table' = {} /\ sampled' = None /\ due' = TRUE
  /\ ForgetPoll
  /\ UNCHANGED <<clock, store, outside>>

\* Another branch of select! is taken: the future of ctrl_c() goes, with what it heard.
DropListener == sigint' = IF sigint = "heard" THEN "lost" ELSE sigint

\* The first branch of select!: a poll begins.
BeginPoll ==
  /\ pc = "select" /\ due
  /\ pc' = "probe"
  /\ due' = FALSE
  /\ left' = config.targets /\ attempt' = 1 /\ started' = clock /\ at' = clock
  /\ ok' = {} /\ reports' = {}
  /\ DropListener
  /\ UNCHANGED <<clock, config, retention, limit, success, table, sampled, store, file, term, hup, kills>>

Probing == pc = "probe" /\ left # {}

\* The target answers, with observations or with none.
Answered ==
  /\ Probing
  /\ pc' = "insert"
  /\ ok' = ok \cup {First(left)}
  /\ reports' \in {reports, reports \cup {First(left)}}
  /\ UNCHANGED <<clock, config, retention, limit, success, table, sampled, due, left, attempt, started,
                 at, store, outside>>

\* Mutants: <= where the code has <; the count of attempts starts over.
RetryPastLast ==
  /\ Probing
  /\ attempt <= MaxAttempts
  /\ attempt' = attempt + 1 /\ at' = clock
  /\ UNCHANGED <<clock, pc, config, retention, limit, success, table, sampled, due, left, started, ok,
                 reports, store, outside>>

RetryForever ==
  /\ Probing
  /\ attempt' = (attempt % MaxAttempts) + 1 /\ at' = clock
  /\ UNCHANGED <<clock, pc, config, retention, limit, success, table, sampled, due, left, started, ok,
                 reports, store, outside>>

\* A transient error before the last attempt: sleep and try again.
Retry ==
  /\ Probing
  /\ attempt < MaxAttempts
  /\ attempt' = attempt + 1 /\ at' = clock
  /\ UNCHANGED <<clock, pc, config, retention, limit, success, table, sampled, due, left, started, ok,
                 reports, store, outside>>

\* The probe of the target fails for good.  The row that records the failure is not kept
\* here, nor does an error of writing it matter to the poll.
ProbeFails ==
  /\ Probing
  /\ NextTarget
  /\ UNCHANGED <<clock, pc, config, retention, limit, success, table, sampled, due, store, outside>>

\* A store that does not open is skipped without an error.
StoreSkipped ==
  /\ pc = "insert"
  /\ pc' = "probe"
  /\ NextTarget
  /\ UNCHANGED <<clock, config, retention, limit, success, table, sampled, due, store, outside>>

\* insert_batch: the observations carry the instant of the attempt that got them.
InsertBatch ==
  /\ pc = "insert"
  /\ pc' = "record"
  /\ rows' = [rows EXCEPT ![First(left)] = IF First(left) \in reports THEN Later(@, at) ELSE @]
  /\ UNCHANGED <<clock, process, runs, beat, stored, cutoff, outside>>

\* record_probe: a transaction of its own, after the observations'.
RecordProbe ==
  /\ pc = "record"
  /\ pc' = "probe"
  /\ runs' = [runs EXCEPT ![First(left)] =
                 IF First(left) \in reports THEN Later(@, started) ELSE @]
  /\ NextTarget
  /\ UNCHANGED <<clock, config, retention, limit, success, table, sampled, due, rows, beat, stored,
                 cutoff, outside>>

\* Mutant: an error of insert_batch is logged, and the run recorded all the same.
WriteErrorLogged ==
  /\ pc = "insert"
  /\ pc' = "record"
  /\ UNCHANGED <<clock, process, store, outside>>

\* Either write fails: probe() returns the error whatever the other targets gave.
WriteFails ==
  /\ pc \in {"insert", "record"}
  /\ pc' = "heartbeat"
  /\ ForgetPoll
  /\ UNCHANGED <<clock, config, retention, limit, success, table, sampled, due, store, outside>>

\* probe() is Ok if any target answered, or if there is none.
PollSucceeded == ok # {} \/ config.targets = {}

\* probe() returns: a success replaces the whole table, an error leaves it alone.
EndPoll ==
  /\ pc = "probe" /\ left = {}
  /\ IF PollSucceeded
     THEN /\ success' = clock /\ table' = reports
          /\ sampled' = IF reports = {} THEN None ELSE clock
     ELSE UNCHANGED <<success, table, sampled>>
  /\ pc' = "heartbeat"
  /\ ForgetPoll
  /\ UNCHANGED <<clock, config, retention, limit, due, store, outside>>

\* Mutant: the column is overwritten with what this process knows.
Overwrite(known, new) == new

\* Mutant: the arguments of COALESCE the other way round.
FirstKnown(known, new) == IF known # None THEN known ELSE new

\* COALESCE(excluded.last_success_at, daemon_state.last_success_at).
Coalesce(known, new) == IF new # None THEN new ELSE known

\* Mutant: the upsert leaves heartbeat_at out of its SET clause.
HeartbeatOnce ==
  /\ pc = "heartbeat"
  /\ pc' = "prune"
  /\ beat' = IF beat = None THEN clock ELSE beat
  /\ stored' = Coalesce(stored, success)
  /\ UNCHANGED <<clock, process, rows, runs, cutoff, outside>>

Heartbeat ==
  /\ pc = "heartbeat"
  /\ pc' = "prune"
  /\ beat' = clock
  /\ stored' = Coalesce(stored, success)
  /\ UNCHANGED <<clock, process, rows, runs, cutoff, outside>>

\* prune_before(now - retention).
Prune ==
  /\ pc = "prune"
  /\ pc' = "select"
  /\ rows' = [t \in Target |-> IF rows[t] < clock - retention THEN None ELSE rows[t]]
  /\ cutoff' = Later(cutoff, clock - retention)
  /\ UNCHANGED <<clock, process, runs, beat, stored, outside>>

\* The process ends in stage last, with what it had in memory and its pending signals.
Exit(last) ==
  /\ pc' = last
  /\ success' = None /\ table' = {} /\ sampled' = None /\ due' = FALSE
  /\ ForgetPoll
  /\ term' = FALSE /\ hup' = FALSE /\ sigint' = "none"
  /\ UNCHANGED <<clock, config, retention, limit, store, file>>

\* The ? operators of the loop: an error of the store ends the daemon.
StoreFails ==
  /\ pc \in {"heartbeat", "prune", "checkpoint"}
  /\ Exit("failed")
  /\ UNCHANGED kills

\* SIGTERM, or a SIGINT that was heard.
Terminate ==
  /\ pc = "select" /\ (term \/ sigint = "heard")
  /\ pc' = "checkpoint"
  /\ UNCHANGED <<clock, process, store, outside>>

\* The WAL is folded into the database, which changes nothing that is in it.
Checkpoint ==
  /\ pc = "checkpoint"
  /\ Exit("stopped")
  /\ UNCHANGED kills

\* reload(): the file loads and validates, and names the same database.
ReloadAccepted == file.valid /\ file.database = config.database

\* Mutant: the admission controller keeps the snapshots of the old configuration.
ReloadKeepingTable ==
  /\ pc = "select" /\ hup
  /\ hup' = FALSE /\ DropListener
  /\ ReloadAccepted
  /\ config' = file /\ due' = TRUE
  /\ UNCHANGED <<clock, pc, retention, limit, success, table, sampled, poll, store, file, term, kills>>

\* SIGHUP with a file that is accepted: a new App and an immediate tick.
Reload ==
  /\ pc = "select" /\ hup
  /\ hup' = FALSE /\ DropListener
  /\ ReloadAccepted
  /\ config' = file /\ table' = {} /\ sampled' = None /\ due' = TRUE
  /\ UNCHANGED <<clock, pc, retention, limit, success, poll, store, file, term, kills>>

\* SIGHUP with any other file: a warning.
RejectReload ==
  /\ pc = "select" /\ hup
  /\ hup' = FALSE /\ DropListener
  /\ ~ReloadAccepted
  /\ UNCHANGED <<clock, pc, process, store, file, term, kills>>

-----------------------------------------------------------------------------
\* What goes on around the process.

Elapse == clock < MaxClock /\ clock' = clock + 1
          /\ UNCHANGED <<pc, process, store, outside>>

TickDue == pc \in Running /\ ~due /\ due' = TRUE
           /\ UNCHANGED <<clock, pc, config, retention, limit, success, table, sampled, poll, store, outside>>

EditFile == \E c \in Configs : file' = c
            /\ UNCHANGED <<clock, pc, process, store, term, hup, sigint, kills>>

\* A SIGINT before the first turn of select! has its default effect, which is a Kill.
Signal == /\ pc \in Running
          /\ \/ "SIGTERM" \in Signals /\ term' = TRUE /\ UNCHANGED <<hup, sigint>>
             \/ "SIGHUP" \in Signals /\ hup' = TRUE /\ UNCHANGED <<term, sigint>>
             \/ /\ "SIGINT" \in Signals
                /\ sigint' = IF pc = "select" THEN "heard" ELSE "lost"
                /\ UNCHANGED <<term, hup>>
          /\ UNCHANGED <<clock, pc, process, store, file, kills>>

\* SIGKILL or a panic.  Committed transactions survive it; a power cut might take the last
\* ones back, as synchronous is NORMAL, and is left out.
Kill ==
  /\ pc \in Running /\ kills < MaxKills
  /\ kills' = kills + 1
  /\ Exit("failed")

Tick == BeginPoll \/ Answered \/ Retry \/ ProbeFails \/ StoreSkipped \/ InsertBatch
        \/ RecordProbe \/ WriteFails \/ EndPoll \/ Heartbeat \/ Prune \/ StoreFails \/ Checkpoint

Hangup == Reload \/ RejectReload

Next == Start \/ Tick \/ Terminate \/ Hangup
        \/ Elapse \/ TickDue \/ EditFile \/ Signal \/ Kill

Spec == Init /\ [][Next]_vars

\* A probe is bounded by request_timeout and the process is scheduled, so a tick goes on;
\* select! picks at random among the branches that are ready, so none is passed over for
\* ever although each is ready only between ticks.
Fairness == WF_vars(Tick) /\ SF_vars(Terminate) /\ SF_vars(Hangup)

FairSpec == Spec /\ Fairness

-----------------------------------------------------------------------------
TypeOK ==
  /\ clock \in Instant
  /\ file \in Configs /\ config \in Configs /\ config.valid
  /\ pc \in Stages
  /\ retention \in Nat /\ limit \in Nat
  /\ success \in Instant \cup {None}
  /\ table \subseteq Target /\ sampled \in Instant \cup {None}
  /\ left \subseteq Target /\ ok \subseteq Target /\ reports \subseteq Target
  /\ attempt \in 1..MaxAttempts
  /\ started \in Instant /\ at \in Instant
  /\ rows \in [Target -> Instant \cup {None}] /\ runs \in [Target -> Instant \cup {None}]
  /\ beat \in Instant \cup {None} /\ stored \in Instant \cup {None}
  /\ cutoff \in Int
  /\ sigint \in {"none", "heard", "lost"}
  /\ due \in BOOLEAN /\ term \in BOOLEAN /\ hup \in BOOLEAN
  /\ kills \in 0..MaxKills

\* The controller never decides on the report of a target that the running configuration
\* does not have: not after a reload, a failed poll or a restart.
TableFromConfig == pc \in Running => table \subseteq config.targets

\* health shows no success later than the heartbeat it shows, whichever of the two writes
\* a process got to.
SuccessWithinBeat == stored <= beat

\* Nothing in the controller tells how old the reports are that it decides on: failed polls
\* leave them in force.  But health shows it: outside a tick the last success in the store
\* is the very poll they come from, through failures, reloads and new processes.
TableAgeShown == table # {} /\ pc # "heartbeat" => stored = sampled

\* A successful probe run in the store has its observations there too, unless they were
\* pruned; a kill or an error between the two writes cannot undo that.
RunHasRows ==
  \A t \in Target : runs[t] >= cutoff => rows[t] >= runs[t]

\* What the store says of the last success never goes back, although a new process starts
\* without one and may fail from the first poll on.
SuccessNeverForgotten == [][stored' >= stored]_vars

\* A signal that has a stream is served: the process ends after SIGTERM, and SIGHUP does not wait
\* for ever, although polls follow each other without a pause and any target may fail.
SignalsServed == (term ~> ~term) /\ (hup ~> ~hup)

\* "shuts down cleanly on SIGINT or SIGTERM": the process ends after SIGINT, too.
InterruptServed == sigint # "none" ~> sigint = "none"

\* "SIGHUP atomically reloads valid configuration": what runs is one configuration.
RunsOneConfig == pc \in Running => retention = config.retention /\ limit = config.limit
=============================================================================
