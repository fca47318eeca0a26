---------------------------- MODULE DaemonProofs ----------------------------
(***************************************************************************)
(* What holds of the daemon for every set of targets, every file that an   *)
(* operator may write and every bound.                                     *)
(***************************************************************************)
EXTENDS Daemon, WellFoundedInduction, TLAPS

\* The targets that a poll deals with are those of the running configuration, an attempt
\* does not precede the probe it belongs to, and a write has a target to write for.
PollFits ==
  /\ pc \in {"probe", "insert", "record"} =>
       left \cup reports \subseteq config.targets /\ started <= at
  /\ pc \in {"insert", "record"} => left # {}

\* Nothing the process or the store knows is later than now.
NothingAhead == success <= clock /\ beat <= clock /\ started <= clock /\ at <= clock

\* A process that has had a success had it no earlier than the store's last one.
SuccessNewer == success # None => success >= stored

\* When the run of a target is recorded, the observations of that probe are stored.
RowsFirst == pc = "record" /\ First(left) \in reports => rows[First(left)] >= started

\* While a table is in force, the process is there and remembers the poll that made it; and outside a tick
\* the store knows what the process remembers.
TableSampled   == table # {} => pc \in Running /\ sampled # None /\ success = sampled
SuccessWritten == pc \in Running \ {"heartbeat"} /\ success # None => stored = success

IInv == /\ TypeOK /\ PollFits /\ NothingAhead /\ SuccessNewer /\ RowsFirst
        /\ TableSampled /\ SuccessWritten
        /\ TableFromConfig /\ SuccessWithinBeat /\ RunHasRows

-----------------------------------------------------------------------------
\* The targets are probed in an order: a set of them that is not empty has a first.
LEMMA FirstOfTargets ==
  ASSUME DaemonAssumption, NEW S \in SUBSET Target, S # {}
  PROVE  First(S) \in S
<1> DEFINE R == OpToRel(<, Nat)
<1>1. IsWellFoundedOn(R, Nat)
  BY NatLessThanWellFounded
<1>2. \A x, y \in Nat : <<y, x>> \in R <=> y < x
  BY DEF OpToRel
<1> HIDE DEF R
<1>3. S \subseteq Nat
  BY DEF DaemonAssumption
<1>4. PICK x \in S : \A y \in S : <<y, x>> \notin R
  BY <1>1, <1>3, WFMin
<1>5. \A y \in S : ~ (y < x)
  BY <1>2, <1>3, <1>4, Zenon
<1>6. \A y \in S : x <= y
  BY <1>3, <1>5
<1>7. QED
  BY <1>6 DEF First

-----------------------------------------------------------------------------
\* Type correctness

LEMMA ConstantTypes ==
  ASSUME DaemonAssumption
  PROVE  /\ 1 \in 1..MaxAttempts
         /\ 0 \in Instant
         /\ Instant \subseteq Nat
         /\ \A c \in Configs : c.targets \subseteq Target /\ c.retention \in Nat /\ c.limit \in Nat
<1>1. MaxAttempts \in Nat \ {0} /\ MaxClock \in Nat
  BY DEF DaemonAssumption
<1>2. 1 \in 1..MaxAttempts /\ 0 \in Instant /\ Instant \subseteq Nat
  BY <1>1 DEF Instant
<1>3. Configs \subseteq Config
  BY DEF DaemonAssumption
<1>4. \A c \in Config : c.targets \subseteq Target /\ c.retention \in Nat /\ c.limit \in Nat
  BY DEF Config
<1>5. QED
  BY <1>2, <1>3, <1>4

LEMMA InitType == DaemonAssumption /\ Init => TypeOK
<1> SUFFICES ASSUME DaemonAssumption, Init
             PROVE  TypeOK
  OBVIOUS
<1>1. 0 \in 0..MaxKills
  BY DEF DaemonAssumption
<1>2. /\ file \in Configs /\ config \in Configs /\ config.valid
      /\ retention \in Nat /\ limit \in Nat
  BY ConstantTypes DEF Init
<1>3. /\ rows \in [Target -> Instant \cup {None}]
      /\ runs \in [Target -> Instant \cup {None}]
  BY DEF Init
<1>4. /\ clock \in Instant /\ started \in Instant /\ at \in Instant
      /\ attempt \in 1..MaxAttempts /\ cutoff \in Int /\ kills \in 0..MaxKills
  BY <1>1, ConstantTypes DEF Init, None
<1>5. QED
  BY <1>2, <1>3, <1>4 DEF Init, TypeOK, Stages

LEMMA NextType == DaemonAssumption /\ TypeOK /\ [Next]_vars => TypeOK'
<1> SUFFICES ASSUME DaemonAssumption, TypeOK, [Next]_vars
             PROVE  TypeOK'
  OBVIOUS
<1> USE ConstantTypes DEF TypeOK
<1>1. CASE Start
  BY <1>1 DEF Start, ForgetPoll, Stages, store, outside, None
<1>2. CASE BeginPoll
  BY <1>2 DEF BeginPoll, DropListener, Stages, store
<1>3. CASE Answered
  <2>1. First(left) \in Target
    BY <1>3, FirstOfTargets DEF Answered, Probing
  <2>2. QED
    BY <1>3, <2>1 DEF Answered, Probing, Stages, store, outside
<1>4. CASE Retry
  BY <1>4 DEF Retry, Probing, store, outside
<1>5. CASE ProbeFails
  BY <1>5 DEF ProbeFails, Probing, NextTarget, store, outside
<1>6. CASE StoreSkipped
  BY <1>6 DEF StoreSkipped, NextTarget, Stages, store, outside
<1>7. CASE InsertBatch
  BY <1>7 DEF InsertBatch, Later, Stages, process, poll, outside
<1>8. CASE RecordProbe
  BY <1>8 DEF RecordProbe, NextTarget, Later, Stages, outside
<1>9. CASE WriteFails
  BY <1>9 DEF WriteFails, ForgetPoll, Stages, store, outside
<1>10. CASE EndPoll
  BY <1>10 DEF EndPoll, PollSucceeded, ForgetPoll, Stages, store, outside
<1>11. CASE Heartbeat
  BY <1>11 DEF Heartbeat, Coalesce, Stages, process, poll, outside
<1>12. CASE Prune
  BY <1>12 DEF Prune, Later, Stages, process, poll, outside, None
<1>13. CASE Terminate
  BY <1>13 DEF Terminate, Stages, process, poll, store, outside
<1>14. CASE StoreFails \/ Checkpoint \/ Kill
  <2>1. kills' \in 0..MaxKills
    BY <1>14 DEF DaemonAssumption, StoreFails, Checkpoint, Kill
  <2>2. Exit("failed") \/ Exit("stopped")
    BY <1>14 DEF StoreFails, Checkpoint, Kill
  <2>3. QED
    BY <2>1, <2>2 DEF Exit, ForgetPoll, Stages, store
<1>15. CASE Hangup
  BY <1>15 DEF Hangup, Reload, RejectReload, ReloadAccepted, DropListener, process, poll, store
<1>16. CASE Elapse
  <2>1. clock' \in Instant
    BY <1>16 DEF DaemonAssumption, Elapse, Instant
  <2>2. QED
    BY <1>16, <2>1 DEF Elapse, process, poll, store, outside
<1>17. CASE TickDue \/ EditFile \/ Signal
  BY <1>17 DEF TickDue, EditFile, Signal, process, poll, store, outside
<1>18. CASE UNCHANGED vars
  BY <1>18 DEF vars, process, poll, store, outside
<1>19. QED
  BY <1>1, <1>2, <1>3, <1>4, <1>5, <1>6, <1>7, <1>8, <1>9, <1>10, <1>11, <1>12, <1>13,
     <1>14, <1>15, <1>16, <1>17, <1>18 DEF Next, Tick

\* The type invariant of the daemon.
THEOREM TypeCorrect == Spec => []TypeOK
<1> USE DaemonAssumption
<1>1. Init => TypeOK
  BY InitType
<1>2. TypeOK /\ [Next]_vars => TypeOK'
  BY NextType
<1>3. QED
  BY <1>1, <1>2, PTL DEF Spec
-----------------------------------------------------------------------------
\* The inductive invariant

\* What the type invariant says of the instants, as integers.
LEMMA InstantTypes ==
  ASSUME DaemonAssumption, TypeOK
  PROVE  /\ clock \in Nat /\ started \in Nat /\ at \in Nat /\ retention \in Nat
         /\ success \in Int /\ beat \in Int /\ stored \in Int /\ cutoff \in Int
         /\ success >= None /\ beat >= None /\ stored >= None
         /\ \A t \in Target : rows[t] \in Int /\ runs[t] \in Int
BY ConstantTypes DEF TypeOK, None

LEMMA InitInv == DaemonAssumption /\ Init => IInv
<1> SUFFICES ASSUME DaemonAssumption, Init
             PROVE  IInv
  OBVIOUS
<1>1. TypeOK
  BY InitType
<1>2. QED
  BY <1>1 DEF Init, IInv, PollFits, NothingAhead, SuccessNewer, RowsFirst, TableFromConfig,
              SuccessWithinBeat, RunHasRows, Running, None, TableSampled, SuccessWritten

\* Only the end of a poll makes a table that holds anything, only a heartbeat comes between
\* it and the next turn of the loop, and whatever empties the memory empties the table.
LEMMA NextAge ==
  DaemonAssumption /\ TypeOK /\ TableSampled /\ SuccessWritten /\ [Next]_vars
    => TableSampled' /\ SuccessWritten'
<1> SUFFICES ASSUME DaemonAssumption, TypeOK, TableSampled, SuccessWritten, [Next]_vars
             PROVE  TableSampled' /\ SuccessWritten'
  OBVIOUS
<1> USE DEF TableSampled, SuccessWritten
<1>1. CASE EndPoll
  <2>1. clock # None
    BY ConstantTypes DEF TypeOK, None
  <2>2. QED
    BY <1>1, <2>1 DEF EndPoll, store, Running
<1>2. CASE Heartbeat
  BY <1>2 DEF Heartbeat, Coalesce, process, Running
<1>3. CASE Start \/ StoreFails \/ Checkpoint \/ Kill
  BY <1>3 DEF Start, StoreFails, Checkpoint, Kill, Exit
<1>4. CASE Reload
  BY <1>4 DEF Reload, store, Running
<1>5. ASSUME UNCHANGED <<success, table, sampled, stored>>,
             pc' \in Running \ {"heartbeat"} => pc \in Running \ {"heartbeat"},
             pc \in Running => pc' \in Running
      PROVE  TableSampled' /\ SuccessWritten'
  BY <1>5
<1>6. CASE BeginPoll \/ Answered \/ Retry \/ ProbeFails \/ StoreSkipped \/ InsertBatch
            \/ RecordProbe \/ WriteFails \/ Prune
  BY <1>5, <1>6 DEF BeginPoll, Probing, Answered, Retry, ProbeFails, StoreSkipped, InsertBatch,
     RecordProbe, WriteFails, Prune, process, store, Running
<1>7. CASE Terminate \/ RejectReload \/ Elapse \/ TickDue \/ EditFile \/ Signal \/ UNCHANGED vars
  BY <1>5, <1>7 DEF Terminate, RejectReload, Elapse, TickDue, EditFile, Signal, vars, process,
     store, Running
<1>8. QED
  BY <1>1, <1>2, <1>3, <1>4, <1>6, <1>7 DEF Next, Tick, Hangup

LEMMA NextInv == DaemonAssumption /\ IInv /\ [Next]_vars => IInv'
<1> SUFFICES ASSUME DaemonAssumption, IInv, [Next]_vars
             PROVE  IInv'
  OBVIOUS
<1>1. TypeOK /\ TypeOK'
  BY NextType DEF IInv
<1> DEFINE Poll == PollFits /\ TableFromConfig
           Times == NothingAhead /\ SuccessNewer /\ SuccessWithinBeat
           Rows == RowsFirst /\ RunHasRows
           InstantsOK == /\ clock \in Nat /\ started \in Nat /\ at \in Nat /\ retention \in Nat
                         /\ success \in Int /\ beat \in Int /\ stored \in Int /\ cutoff \in Int
                         /\ success >= None /\ beat >= None /\ stored >= None
                         /\ \A t \in Target : rows[t] \in Int /\ runs[t] \in Int
<1>2. InstantsOK
  BY <1>1, InstantTypes
<1>3. Poll /\ Times /\ Rows
  BY DEF IInv
<1>4. left # {} => First(left) \in left /\ First(left) \in Target
  BY <1>1, FirstOfTargets DEF TypeOK
<1>5. ASSUME Poll', Times', Rows' PROVE IInv'
  BY <1>1, <1>5, NextAge DEF IInv
<1> USE DEF PollFits, TableFromConfig, NothingAhead, SuccessNewer, SuccessWithinBeat, RowsFirst,
            RunHasRows, None
<1>6. CASE Start
  <2>1. Poll' /\ Times' /\ Rows'
    BY <1>2, <1>3, <1>6 DEF Start, ForgetPoll, store
  <2>2. QED
    BY <1>5, <2>1
<1>7. CASE BeginPoll
  <2>1. Poll'
    BY <1>2, <1>3, <1>7 DEF BeginPoll, DropListener, Running
  <2>2. Times'
    BY <1>2, <1>3, <1>7 DEF BeginPoll, DropListener, store
  <2>3. Rows'
    BY <1>3, <1>7 DEF BeginPoll, DropListener, store
  <2>4. QED
    BY <1>5, <2>1, <2>2, <2>3
<1>8. CASE Answered
  <2>1. Poll'
    BY <1>3, <1>4, <1>8 DEF Answered, Probing, Running
  <2>2. Times'
    BY <1>3, <1>8 DEF Answered, store
  <2>3. Rows'
    BY <1>3, <1>8 DEF Answered, store
  <2>4. QED
    BY <1>5, <2>1, <2>2, <2>3
<1>9. CASE Retry
  <2>1. Poll' /\ Times' /\ Rows'
    BY <1>2, <1>3, <1>9 DEF Retry, store
  <2>2. QED
    BY <1>5, <2>1
<1>10. CASE ProbeFails
  <2>1. Poll' /\ Times' /\ Rows'
    BY <1>2, <1>3, <1>10 DEF ProbeFails, Probing, NextTarget, store
  <2>2. QED
    BY <1>5, <2>1
<1>11. CASE StoreSkipped
  <2>1. Poll' /\ Times' /\ Rows'
    BY <1>2, <1>3, <1>11 DEF StoreSkipped, NextTarget, Running, store
  <2>2. QED
    BY <1>5, <2>1
<1>12. CASE InsertBatch
  <2>1. Poll'
    BY <1>3, <1>12 DEF InsertBatch, Running, process, poll
  <2>2. Times'
    BY <1>3, <1>12 DEF InsertBatch, process, poll
  <2>3. rows \in [Target -> Instant \cup {None}]
    BY <1>1 DEF TypeOK
  <2>4. left # {} /\ First(left) \in Target /\ started <= at
    BY <1>3, <1>4, <1>12 DEF InsertBatch
  <2>5. \A t \in Target : rows'[t] >= rows[t] /\ rows'[t] \in Int
    BY <1>2, <1>12, <2>3 DEF InsertBatch, Later
  <2>6. PICK t \in Target : t = First(left)
    BY <2>4
  <2>7. t \in reports => rows'[t] = Later(rows[t], at)
    BY <1>12, <2>3, <2>6 DEF InsertBatch
  <2>8. t \in reports => rows'[t] >= started
    BY <1>2, <2>4, <2>5, <2>7 DEF Later
  <2>9. RowsFirst'
    BY <1>12, <2>6, <2>8 DEF InsertBatch, process, poll
  <2>10. RunHasRows'
    BY <1>2, <1>3, <1>12, <2>5 DEF InsertBatch
  <2>11. QED
    BY <1>5, <2>1, <2>2, <2>9, <2>10
<1>13. CASE RecordProbe
  <2>1. Poll'
    BY <1>2, <1>3, <1>13 DEF RecordProbe, NextTarget, Running
  <2>2. Times'
    BY <1>2, <1>3, <1>13 DEF RecordProbe, NextTarget
  <2>3. Rows'
    BY <1>1, <1>3, <1>13 DEF TypeOK, RecordProbe, NextTarget, Later
  <2>4. QED
    BY <1>5, <2>1, <2>2, <2>3
<1>14. CASE WriteFails
  <2>1. Poll' /\ Times' /\ Rows'
    BY <1>2, <1>3, <1>14 DEF WriteFails, ForgetPoll, Running, store
  <2>2. QED
    BY <1>5, <2>1
<1>15. CASE EndPoll
  <2>1. Poll'
    BY <1>3, <1>15 DEF EndPoll, Running
  <2>2. Times'
    BY <1>2, <1>3, <1>15 DEF EndPoll, ForgetPoll, store
  <2>3. Rows'
    BY <1>3, <1>15 DEF EndPoll, store
  <2>4. QED
    BY <1>5, <2>1, <2>2, <2>3
<1>16. CASE Heartbeat
  <2>1. Poll'
    BY <1>3, <1>16 DEF Heartbeat, Coalesce, Running, process
  <2>2. Times'
    BY <1>2, <1>3, <1>16 DEF Heartbeat, Coalesce, process, poll
  <2>3. Rows'
    BY <1>3, <1>16 DEF Heartbeat, Coalesce
  <2>4. QED
    BY <1>5, <2>1, <2>2, <2>3
<1>17. CASE Prune
  <2>1. Poll'
    BY <1>3, <1>17 DEF Prune, Running, process
  <2>2. Times'
    BY <1>3, <1>17 DEF Prune, process, poll
  <2>3. Rows'
    BY <1>2, <1>3, <1>17 DEF Prune, Later
  <2>4. QED
    BY <1>5, <2>1, <2>2, <2>3
<1>18. CASE Terminate
  <2>1. Poll' /\ Times' /\ Rows'
    BY <1>3, <1>18 DEF Terminate, Running, process, poll, store
  <2>2. QED
    BY <1>5, <2>1
<1>19. CASE StoreFails \/ Checkpoint \/ Kill
  <2>1. Poll' /\ Times' /\ Rows'
    BY <1>2, <1>3, <1>19 DEF StoreFails, Checkpoint, Kill, Exit, ForgetPoll, store
  <2>2. QED
    BY <1>5, <2>1
<1>20. CASE Hangup
  <2>1. Poll' /\ Times' /\ Rows'
    BY <1>3, <1>20 DEF Hangup, Reload, RejectReload, process, poll, store
  <2>2. QED
    BY <1>5, <2>1
<1>21. CASE Elapse
  <2>1. Poll'
    BY <1>3, <1>21 DEF Elapse, process, poll
  <2>2. Times'
    BY <1>2, <1>3, <1>21 DEF Elapse, process, poll, store
  <2>3. Rows'
    BY <1>3, <1>21 DEF Elapse, process, poll, store
  <2>4. QED
    BY <1>5, <2>1, <2>2, <2>3
<1>22. CASE TickDue \/ EditFile \/ Signal
  <2>1. Poll' /\ Times' /\ Rows'
    BY <1>3, <1>22 DEF TickDue, EditFile, Signal, process, poll, store
  <2>2. QED
    BY <1>5, <2>1
<1>23. CASE UNCHANGED vars
  <2>1. Poll' /\ Times' /\ Rows'
    BY <1>3, <1>23 DEF vars, process, poll, store
  <2>2. QED
    BY <1>5, <2>1
<1>24. QED
  BY <1>6, <1>7, <1>8, <1>9, <1>10, <1>11, <1>12, <1>13, <1>14, <1>15, <1>16, <1>17, <1>18, <1>19, <1>20, <1>21, <1>22, <1>23 DEF Next, Tick

\* The inductive invariant holds throughout.
THEOREM Invariance == Spec => []IInv
<1> USE DaemonAssumption
<1>1. Init => IInv
  BY InitInv
<1>2. IInv /\ [Next]_vars => IInv'
  BY NextInv
<1>3. QED
  BY <1>1, <1>2, PTL DEF Spec

-----------------------------------------------------------------------------
\* Whatever reloads, failed polls and restarts come between, the admission controller
\* holds reports of configured targets only.
THEOREM TableIsCurrent == Spec => []TableFromConfig
<1>1. IInv => TableFromConfig
  BY DEF IInv
<1>2. QED
  BY <1>1, Invariance, PTL

\* The store never shows a success later than its heartbeat.
THEOREM SuccessIsWithinBeat == Spec => []SuccessWithinBeat
<1>1. IInv => SuccessWithinBeat
  BY DEF IInv
<1>2. QED
  BY <1>1, Invariance, PTL

\* A successful run in the store has its observations there, if they were not pruned,
\* wherever a kill or an error broke off the writes of a poll.
THEOREM RunsHaveRows == Spec => []RunHasRows
<1>1. IInv => RunHasRows
  BY DEF IInv
<1>2. QED
  BY <1>1, Invariance, PTL

\* Outside a tick, what health shows as the last success is the poll whose reports the
\* controller decides on, however many polls failed or processes died since.
THEOREM TableAgeIsShown == Spec => []TableAgeShown
<1>1. IInv => TableAgeShown
  BY DEF IInv, TableSampled, SuccessWritten, TableAgeShown, TypeOK, Stages, Running
<1>2. QED
  BY <1>1, Invariance, PTL

\* Only a heartbeat changes the last success in the store, and it writes either nothing
\* or a success of this process, which is no earlier.
LEMMA SuccessKept == DaemonAssumption /\ IInv /\ [Next]_vars => stored' >= stored
<1> SUFFICES ASSUME DaemonAssumption, IInv, [Next]_vars
             PROVE  stored' >= stored
  OBVIOUS
<1>1. success \in Int /\ stored \in Int
  BY InstantTypes DEF IInv
<1>2. CASE Heartbeat
  BY <1>1, <1>2 DEF Heartbeat, Coalesce, IInv, SuccessNewer
<1>3. CASE UNCHANGED stored
  BY <1>1, <1>3
<1>4. Heartbeat \/ UNCHANGED stored
  BY DEF Next, Tick, Hangup, vars, store, Start, BeginPoll, Answered, Retry, ProbeFails, StoreSkipped,
         InsertBatch, RecordProbe, WriteFails, EndPoll, Prune, StoreFails, Terminate, Checkpoint,
         Exit, Reload, RejectReload, Elapse, TickDue, EditFile, Signal, Kill
<1>5. QED
  BY <1>2, <1>3, <1>4

\* What the store says of the last success never goes back.
THEOREM SuccessIsNeverForgotten == Spec => SuccessNeverForgotten
<1>1. IInv /\ [Next]_vars => [stored' >= stored]_vars
  BY SuccessKept, DaemonAssumption
<1>2. QED
  BY <1>1, Invariance, PTL DEF Spec, SuccessNeverForgotten
=============================================================================
