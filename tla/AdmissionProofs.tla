-------------------------- MODULE AdmissionProofs --------------------------
(***************************************************************************)
(* What holds of the admission controller for every set of providers,      *)
(* models and handlers, every limit, ttl and poll, and every bound.        *)
(***************************************************************************)
EXTENDS Admission, FiniteSetTheorems, WellFoundedInduction, TLAPS

\* A pending handler read its clock in the past, no longer than MaxLag ago.
ClockReads == \A h \in Handler : call[h].now \in -MaxLag..0

\* The bound on the leases of a behaviour covers the admissions under way.
Budget == granted + Cardinality(Admitting) <= MaxGrants

\* The inductive invariant behind the action properties and the refinement.
IInv == TypeOK /\ ClockReads /\ Budget

-----------------------------------------------------------------------------
\* The operators the actions are built from

\* A lease lives between MinTtl and MaxTtl, whatever the estimate.
LEMMA LeaseTtlBounds ==
  ASSUME AdmissionAssumption, NEW tokens \in Nat
  PROVE  LeaseTtl(tokens) \in MinTtl..MaxTtl
BY DEF AdmissionAssumption, LeaseTtl

\* A delay for capacity is positive, and no longer than a reset that is known.
LEMMA RecoveryDelayBounds ==
  ASSUME AdmissionAssumption, NEW s \in Snapshot
  PROVE  /\ RecoveryDelay(s) \in Nat \ {0}
         /\ s.reset > 0 => RecoveryDelay(s) = s.reset
BY DEF AdmissionAssumption, RecoveryDelay, Snapshot

LEMMA OlderType ==
  ASSUME AdmissionAssumption, NEW t \in Int
  PROVE  Older(t) \in Int /\ Older(t) <= t
BY DEF AdmissionAssumption, Older

\* The table is finite, so every count of its leases is a natural number.
LEMMA FiniteTable ==
  ASSUME TypeOK, NEW S \in SUBSET DOMAIN leases
  PROVE  IsFiniteSet(S) /\ Cardinality(S) \in Nat
<1>0. 1 \in Int /\ granted \in Int
  BY DEF TypeOK
<1>1. IsFiniteSet(1..granted)
  BY <1>0, FS_Interval
<1>2. S \in SUBSET (1..granted)
  BY DEF TypeOK
<1>3. QED
  BY <1>1, <1>2, FS_Subset, FS_CardinalityType

-----------------------------------------------------------------------------
\* Type correctness

LEMMA InitType == AdmissionAssumption /\ Init => TypeOK
BY DEF AdmissionAssumption, Init, TypeOK, Snapshot, Absent, Call, NoCall, Reply, NoReply,
       Lease

LEMMA ArriveType ==
  ASSUME AdmissionAssumption, TypeOK,
         NEW h \in Handler, NEW op \in {"admit", "complete"}, NEW request \in Requests,
         Arrive(h, op, request)
  PROVE  TypeOK'
<1>1. request \in Request
  BY DEF AdmissionAssumption
<1>2. [op |-> op, provider |-> request.provider, model |-> request.model,
       tokens |-> request.tokens, now |-> 0] \in Call
  BY <1>1 DEF Request, Call
<1>3. QED
  BY <1>2 DEF TypeOK, Arrive

\* Answering keeps the handlers' records typed.
LEMMA AnswerType ==
  ASSUME AdmissionAssumption, TypeOK,
         NEW h \in Handler, NEW r \in Reply, Answer(h, r)
  PROVE  call' \in [Handler -> Call] /\ reply' \in [Handler -> Reply]
<1>1. NoCall \in Call
  BY DEF AdmissionAssumption, NoCall, Call
<1>2. QED
  BY <1>1 DEF Answer, TypeOK

LEMMA ResponseTypes ==
  ASSUME AdmissionAssumption, TypeOK, NEW h \in Handler,
         NEW delay \in Nat, NEW reason \in Reasons, NEW grant \in Nat
  PROVE  /\ Delayed(call[h].now, delay, reason) \in Reply
         /\ Proceeds(call[h].now, reason, grant) \in Reply
<1>1. call[h].now \in Int
  BY DEF TypeOK, Call
<1>2. QED
  BY <1>1 DEF Delayed, Proceeds, Reply

\* Dropping leases keeps the table typed.
LEMMA KeepType ==
  ASSUME TypeOK, NEW S \in SUBSET DOMAIN leases
  PROVE  /\ Keep(S) \in [S -> Lease]
         /\ DOMAIN Keep(S) = S
         /\ S \subseteq 1..granted
BY DEF Keep, TypeOK

LEMMA KeptSubset ==
  ASSUME NEW h \in Handler
  PROVE  Kept(h) \in SUBSET DOMAIN leases
BY DEF Kept, Unexpired

\* The key of an admission that has valid names is a key of the table.
LEMMA ValidKey ==
  ASSUME TypeOK, NEW h \in Handler, ValidAdmit(h)
  PROVE  KeyOf(call[h]) \in Key /\ call[h].tokens \in Nat /\ call[h].now \in Int
BY DEF TypeOK, ValidAdmit, Call, KeyOf, Key

LEMMA SnapshotForType ==
  ASSUME TypeOK, NEW k \in Key
  PROVE  SnapshotFor(k) \in Snapshot
<1>1. <<k[1], AnyModel>> \in Key
  BY DEF Key
<1>2. QED
  BY <1>1 DEF TypeOK, SnapshotFor

LEMMA RefuseNameType ==
  ASSUME AdmissionAssumption, TypeOK, NEW h \in Handler, RefuseName(h)
  PROVE  TypeOK'
<1>1. Delayed(call[h].now, DefaultDelay, "invalid") \in Reply
  BY ResponseTypes DEF AdmissionAssumption, Reasons
<1>2. QED
  BY <1>1, AnswerType DEF RefuseName, TypeOK

LEMMA DelayAtLimitType ==
  ASSUME AdmissionAssumption, TypeOK, NEW h \in Handler, DelayAtLimit(h)
  PROVE  TypeOK'
<1>1. Delayed(call[h].now, DefaultDelay, "limit") \in Reply
  BY ResponseTypes DEF AdmissionAssumption, Reasons
<1>2. call' \in [Handler -> Call] /\ reply' \in [Handler -> Reply]
  BY <1>1, AnswerType DEF DelayAtLimit
<1>3. QED
  BY <1>2, KeptSubset, KeepType DEF DelayAtLimit, TypeOK

LEMMA DelayForCapacityType ==
  ASSUME AdmissionAssumption, TypeOK, NEW h \in Handler, DelayForCapacity(h)
  PROVE  TypeOK'
<1> DEFINE s == SnapshotFor(KeyOf(call[h]))
<1>1. s \in Snapshot
  BY ValidKey, SnapshotForType DEF DelayForCapacity
<1>2. RecoveryDelay(s) \in Nat
  BY <1>1, RecoveryDelayBounds
<1>3. /\ Delayed(call[h].now, RecoveryDelay(s), "capacity") \in Reply
      /\ Delayed(call[h].now, DefaultDelay, "unknown") \in Reply
  BY <1>2, ResponseTypes DEF AdmissionAssumption, Reasons
<1>4. call' \in [Handler -> Call] /\ reply' \in [Handler -> Reply]
  BY <1>3, AnswerType DEF DelayForCapacity
<1>5. QED
  BY <1>4, KeptSubset, KeepType DEF DelayForCapacity, TypeOK

LEMMA GrantType ==
  ASSUME AdmissionAssumption, TypeOK, NEW h \in Handler, Grant(h)
  PROVE  TypeOK'
<1>1. granted + 1 \in Nat
  BY DEF TypeOK
<1>2. Proceeds(call[h].now, "admitted", granted + 1) \in Reply
  BY <1>1, ResponseTypes, 0 \in Nat DEF Reasons
<1>3. call' \in [Handler -> Call] /\ reply' \in [Handler -> Reply]
  BY <1>2, AnswerType DEF Grant
<1>4. KeyOf(call[h]) \in Key /\ call[h].now + LeaseTtl(call[h].tokens) \in Int
  <2>1. KeyOf(call[h]) \in Key /\ call[h].tokens \in Nat /\ call[h].now \in Int
    BY ValidKey DEF Grant
  <2>2. LeaseTtl(call[h].tokens) \in Int
    BY <2>1, LeaseTtlBounds DEF AdmissionAssumption
  <2>3. QED
    BY <2>1, <2>2
<1>5. Kept(h) \subseteq 1..granted /\ \A g \in Kept(h) : leases[g] \in Lease
  BY KeptSubset DEF TypeOK
<1>6. leases' \in [Kept(h) \cup {granted + 1} -> Lease]
  BY <1>4, <1>5 DEF Grant, Lease
<1>7. Kept(h) \cup {granted + 1} \subseteq 1..(granted + 1)
  BY <1>5 DEF TypeOK
<1>8. QED
  BY <1>1, <1>3, <1>6, <1>7 DEF Grant, TypeOK

LEMMA CompleteNothingType ==
  ASSUME AdmissionAssumption, TypeOK, NEW h \in Handler, CompleteNothing(h)
  PROVE  TypeOK'
<1>1. Proceeds(call[h].now, "nothing", 0) \in Reply
  BY ResponseTypes, 0 \in Nat DEF Reasons
<1>2. QED
  BY <1>1, AnswerType DEF CompleteNothing, TypeOK

LEMMA CompleteType ==
  ASSUME AdmissionAssumption, TypeOK, NEW h \in Handler, Complete(h)
  PROVE  TypeOK'
<1>1. Proceeds(call[h].now, "completed", 0) \in Reply
  BY ResponseTypes, 0 \in Nat DEF Reasons
<1>2. call' \in [Handler -> Call] /\ reply' \in [Handler -> Reply]
  BY <1>1, AnswerType DEF Complete
<1>3. PICK dropped : leases' = Keep(DOMAIN leases \ dropped)
  BY DEF Complete
<1>4. QED
  BY <1>2, <1>3, KeepType DEF Complete, TypeOK

LEMMA TickType ==
  ASSUME AdmissionAssumption, TypeOK, Tick
  PROVE  TypeOK'
<1>1. snapshots' \in [Key -> Snapshot]
  <2>1. \A k \in Key : snapshots[k] \in Snapshot
    BY DEF TypeOK
  <2>2. ASSUME NEW k \in Key
        PROVE  [snapshots[k] EXCEPT !.reset = IF @ > 0 THEN @ - 1 ELSE 0] \in Snapshot
    BY <2>1 DEF Snapshot
  <2>3. QED
    BY <2>2 DEF Tick
<1>2. /\ DOMAIN leases' = DOMAIN leases
      /\ leases' \in [DOMAIN leases -> Lease]
  <2>1. \A g \in DOMAIN leases : leases[g] \in Lease
    BY DEF TypeOK
  <2>2. ASSUME NEW g \in DOMAIN leases
        PROVE  [leases[g] EXCEPT !.expires = Older(@)] \in Lease
    BY <2>1, OlderType DEF Lease
  <2>3. QED
    BY <2>2 DEF Tick
<1>3. call' \in [Handler -> Call]
  <2>1. ASSUME NEW h \in Handler
        PROVE  [call[h] EXCEPT !.now = Older(@)] \in Call
    BY OlderType DEF TypeOK, Call
  <2>2. QED
    BY <2>1 DEF Tick
<1>4. reply' \in [Handler -> Reply]
  <2>1. ASSUME NEW h \in Handler
        PROVE  [reply[h] EXCEPT !.start = Older(@)] \in Reply
    BY OlderType DEF TypeOK, Reply
  <2>2. QED
    BY <2>1 DEF Tick
<1>5. QED
  BY <1>1, <1>2, <1>3, <1>4 DEF Tick, TypeOK

LEMMA NextType == AdmissionAssumption /\ TypeOK /\ [Next]_vars => TypeOK'
<1> SUFFICES ASSUME AdmissionAssumption, TypeOK, [Next]_vars
             PROVE  TypeOK'
  OBVIOUS
<1>1. ASSUME NEW h \in Handler, NEW op \in {"admit", "complete"},
             NEW request \in Requests, Arrive(h, op, request)
      PROVE  TypeOK'
  BY <1>1, ArriveType
<1>2. ASSUME NEW h \in Handler, Serve(h)
      PROVE  TypeOK'
  BY <1>2, RefuseNameType, DelayAtLimitType, DelayForCapacityType, GrantType,
     CompleteNothingType, CompleteType DEF Serve
<1>3. ASSUME NEW h \in Handler, Deliver(h)
      PROVE  TypeOK'
  <2>1. NoReply \in Reply
    BY DEF AdmissionAssumption, NoReply, Reply
  <2>2. QED
    BY <1>3, <2>1 DEF Deliver, TypeOK
<1>4. ASSUME NEW table \in Polls, UpdateSnapshots(table)
      PROVE  TypeOK'
  BY <1>4 DEF UpdateSnapshots, TypeOK, AdmissionAssumption
<1>5. CASE Tick
  BY <1>5, TickType
<1>6. CASE UNCHANGED vars
  BY <1>6 DEF vars, TypeOK
<1>7. QED
  BY <1>1, <1>2, <1>3, <1>4, <1>5, <1>6 DEF Next

\* Every reachable state is well typed, for every value of the constants.
THEOREM TypeCorrect == Spec => []TypeOK
<1>1. AdmissionAssumption
  BY AdmissionAssumption
<1>2. Init => TypeOK
  BY <1>1, InitType
<1>3. TypeOK /\ [Next]_vars => TypeOK'
  BY <1>1, NextType
<1>4. QED
  BY <1>2, <1>3, PTL DEF Spec

-----------------------------------------------------------------------------
\* The concurrency limit

LEMMA LeasesOfSubset == ASSUME NEW k PROVE LeasesOf(k) \in SUBSET DOMAIN leases
BY DEF LeasesOf

\* A step that only drops leases, or ages them, adds none to any key.
LEMMA FewerLeases ==
  ASSUME TypeOK, ConcurrencyLimit,
         DOMAIN leases' \subseteq DOMAIN leases,
         \A g \in DOMAIN leases' : leases'[g].key = leases[g].key
  PROVE  ConcurrencyLimit'
<1> SUFFICES ASSUME NEW k \in Key
             PROVE  Cardinality(LeasesOf(k)') <= MaxConcurrent
  BY DEF ConcurrencyLimit
<1>1. IsFiniteSet(LeasesOf(k)) /\ Cardinality(LeasesOf(k)) \in Nat
  BY FiniteTable, LeasesOfSubset
<1>2. LeasesOf(k)' \in SUBSET LeasesOf(k)
  BY DEF LeasesOf
<1>3. /\ Cardinality(LeasesOf(k)') <= Cardinality(LeasesOf(k))
      /\ Cardinality(LeasesOf(k)') \in Nat
  BY <1>1, <1>2, FS_Subset, FS_CardinalityType
<1>4. Cardinality(LeasesOf(k)) <= MaxConcurrent /\ MaxConcurrent \in Nat
  BY AdmissionAssumption DEF ConcurrencyLimit, AdmissionAssumption
<1>5. QED
  BY <1>1, <1>3, <1>4

LEMMA KeepFewer ==
  ASSUME TypeOK, ConcurrencyLimit, NEW S \in SUBSET DOMAIN leases, leases' = Keep(S)
  PROVE  ConcurrencyLimit'
<1>1. DOMAIN leases' = S /\ \A g \in S : leases'[g] = leases[g]
  BY DEF Keep
<1>2. QED
  BY <1>1, FewerLeases

\* A grant adds one lease to a key that was below the limit after pruning.
LEMMA GrantLimit ==
  ASSUME TypeOK, ConcurrencyLimit, NEW h \in Handler, Grant(h)
  PROVE  ConcurrencyLimit'
<1> SUFFICES ASSUME NEW k \in Key
             PROVE  Cardinality(LeasesOf(k)') <= MaxConcurrent
  BY DEF ConcurrencyLimit
<1> DEFINE K == Kept(h) \cap LeasesOf(k)
<1>1. /\ Kept(h) \in SUBSET DOMAIN leases
      /\ K \in SUBSET LeasesOf(k)
      /\ K \in SUBSET DOMAIN leases
  BY KeptSubset, LeasesOfSubset
<1>2. /\ IsFiniteSet(K) /\ Cardinality(K) \in Nat
      /\ IsFiniteSet(LeasesOf(k)) /\ Cardinality(LeasesOf(k)) \in Nat
  BY <1>1, FiniteTable, LeasesOfSubset
<1>3. Cardinality(K) <= Cardinality(LeasesOf(k))
  BY <1>1, <1>2, FS_Subset
<1>4. Cardinality(LeasesOf(k)) <= MaxConcurrent /\ MaxConcurrent \in Nat
  BY AdmissionAssumption DEF ConcurrencyLimit, AdmissionAssumption
<1>5. granted + 1 \notin Kept(h)
  BY <1>1 DEF TypeOK
<1>6. /\ DOMAIN leases' = Kept(h) \cup {granted + 1}
      /\ leases'[granted + 1].key = KeyOf(call[h])
      /\ \A g \in Kept(h) : leases'[g] = leases[g]
  BY <1>5 DEF Grant
<1>7. CASE k = KeyOf(call[h])
  <2>1. LeasesOf(k)' = K \cup {granted + 1}
    BY <1>1, <1>6, <1>7 DEF LeasesOf
  <2>2. Cardinality(K \cup {granted + 1}) = Cardinality(K) + 1
    <3>1. granted + 1 \notin K
      BY <1>5
    <3>2. HIDE DEF K
    <3>3. QED
      BY <1>2, <3>1, FS_AddElement
  <2>3. ~(Cardinality(K) >= MaxConcurrent)
    BY <1>7 DEF Grant, AtLimit
  <2>4. QED
    BY <1>2, <1>4, <2>1, <2>2, <2>3
<1>8. CASE k # KeyOf(call[h])
  <2>1. LeasesOf(k)' = K
    BY <1>1, <1>6, <1>8 DEF LeasesOf
  <2>2. QED
    BY <1>2, <1>3, <1>4, <2>1
<1>9. QED
  BY <1>7, <1>8

LEMMA NextLimit == TypeOK /\ ConcurrencyLimit /\ [Next]_vars => ConcurrencyLimit'
<1> SUFFICES ASSUME TypeOK, ConcurrencyLimit, [Next]_vars
             PROVE  ConcurrencyLimit'
  OBVIOUS
<1>1. CASE UNCHANGED leases
  BY <1>1, FewerLeases
<1>2. ASSUME NEW h \in Handler, Serve(h)
      PROVE  ConcurrencyLimit'
  <2>1. CASE DelayAtLimit(h)
    BY <2>1, KeptSubset, KeepFewer DEF DelayAtLimit
  <2>2. CASE DelayForCapacity(h)
    BY <2>2, KeptSubset, KeepFewer DEF DelayForCapacity
  <2>3. CASE Grant(h)
    BY <2>3, GrantLimit
  <2>4. CASE Complete(h)
    <3>1. PICK dropped : leases' = Keep(DOMAIN leases \ dropped)
      BY <2>4 DEF Complete
    <3>2. QED
      BY <3>1, KeepFewer
  <2>5. CASE RefuseName(h) \/ CompleteNothing(h)
    BY <1>1, <2>5 DEF RefuseName, CompleteNothing
  <2>6. QED
    BY <1>2, <2>1, <2>2, <2>3, <2>4, <2>5 DEF Serve
<1>3. CASE Tick
  <2>1. /\ DOMAIN leases' = DOMAIN leases
        /\ \A g \in DOMAIN leases : leases'[g].key = leases[g].key
    BY <1>3 DEF Tick, TypeOK, Lease
  <2>2. QED
    BY <2>1, FewerLeases
<1>4. QED
  BY <1>1, <1>2, <1>3 DEF Next, Arrive, Deliver, UpdateSnapshots, vars

\* No key is ever above max_concurrent: ConcurrencyLimit for every value of the
\* constants, every interleaving of the handlers and every clock they read.
THEOREM LimitHolds == Spec => []ConcurrencyLimit
<1>1. Init => ConcurrencyLimit
  <2>1. Init => \A k \in Key : LeasesOf(k) = {}
    BY DEF Init, LeasesOf
  <2>2. Cardinality({}) = 0 /\ MaxConcurrent \in Nat
    BY FS_EmptySet, AdmissionAssumption DEF AdmissionAssumption
  <2>3. QED
    BY <2>1, <2>2 DEF ConcurrencyLimit
<1>2. TypeOK /\ ConcurrencyLimit /\ [Next]_vars => ConcurrencyLimit'
  BY NextLimit
<1>3. QED
  BY <1>1, <1>2, TypeCorrect, PTL DEF Spec

-----------------------------------------------------------------------------
\* Handlers' clocks and the bound on the leases

LEMMA NextClockReads == TypeOK /\ ClockReads /\ [Next]_vars => ClockReads'
<1> SUFFICES ASSUME TypeOK, ClockReads, [Next]_vars
             PROVE  ClockReads'
  OBVIOUS
<1> USE AdmissionAssumption DEF AdmissionAssumption
<1>1. ASSUME NEW h \in Handler, NEW op \in {"admit", "complete"},
             NEW request \in Requests, Arrive(h, op, request)
      PROVE  ClockReads'
  BY <1>1 DEF Arrive, ClockReads, TypeOK
<1>2. ASSUME NEW h \in Handler, Serve(h)
      PROVE  ClockReads'
  <2>1. call' = [call EXCEPT ![h] = NoCall]
    BY <1>2 DEF Serve, RefuseName, DelayAtLimit, DelayForCapacity, Grant,
                CompleteNothing, Complete, Answer
  <2>2. QED
    BY <2>1 DEF ClockReads, TypeOK, NoCall
<1>3. CASE Tick
  <2> SUFFICES ASSUME NEW h \in Handler
               PROVE  call'[h].now \in -MaxLag..0
    BY DEF ClockReads
  <2>1. call'[h].now = Older(call[h].now)
    BY <1>3 DEF Tick, TypeOK, Call
  <2>2. QED
    BY <2>1 DEF Older, ClockReads
<1>4. CASE UNCHANGED call
  BY <1>4 DEF ClockReads
<1>5. QED
  BY <1>1, <1>2, <1>3, <1>4 DEF Next, Deliver, UpdateSnapshots, vars

LEMMA FiniteAdmitting ==
  ASSUME NEW S \in SUBSET Handler
  PROVE  IsFiniteSet(S) /\ Cardinality(S) \in Nat
BY AdmissionAssumption, FS_Subset, FS_CardinalityType DEF AdmissionAssumption

LEMMA NextBudget == TypeOK /\ Budget /\ [Next]_vars => Budget'
<1> SUFFICES ASSUME TypeOK, Budget, [Next]_vars
             PROVE  Budget'
  OBVIOUS
<1>1. /\ granted \in Nat /\ MaxGrants \in Nat
      /\ IsFiniteSet(Admitting) /\ Cardinality(Admitting) \in Nat
  BY AdmissionAssumption, FiniteAdmitting DEF AdmissionAssumption, TypeOK, Admitting
<1>2. ASSUME NEW h \in Handler, NEW op \in {"admit", "complete"},
             NEW request \in Requests, Arrive(h, op, request)
      PROVE  Budget'
  <2>1. CASE op = "admit"
    <3>1. Admitting' = Admitting \cup {h} /\ h \notin Admitting
      BY <1>2, <2>1 DEF Arrive, Admitting, TypeOK, Idle
    <3>2. Cardinality(Admitting') = Cardinality(Admitting) + 1
      BY <1>1, <3>1, FS_AddElement
    <3>3. granted + Cardinality(Admitting) < MaxGrants /\ granted' = granted
      BY <1>2, <2>1 DEF Arrive, CanStillGrant
    <3>4. QED
      BY <1>1, <3>2, <3>3 DEF Budget
  <2>2. CASE op # "admit"
    <3>1. Admitting' = Admitting /\ granted' = granted
      BY <1>2, <2>2 DEF Arrive, Admitting, TypeOK, Idle
    <3>2. QED
      BY <3>1 DEF Budget
  <2>3. QED
    BY <2>1, <2>2
<1>3. ASSUME NEW h \in Handler, Serve(h)
      PROVE  Budget'
  <2>1. call' = [call EXCEPT ![h] = NoCall]
    BY <1>3 DEF Serve, RefuseName, DelayAtLimit, DelayForCapacity, Grant,
                CompleteNothing, Complete, Answer
  <2>2. Admitting' = Admitting \ {h}
    BY <2>1 DEF Admitting, TypeOK, NoCall
  <2>3. /\ Cardinality(Admitting') \in Nat
        /\ Cardinality(Admitting') = IF h \in Admitting THEN Cardinality(Admitting) - 1
                                     ELSE Cardinality(Admitting)
    BY <1>1, <2>2, FS_RemoveElement, FS_CardinalityType
  <2>4. \/ granted' = granted
        \/ granted' = granted + 1 /\ h \in Admitting
    BY <1>3 DEF Serve, RefuseName, DelayAtLimit, DelayForCapacity, Grant, ValidAdmit,
                CompleteNothing, Complete, Admitting
  <2>5. QED
    BY <1>1, <2>3, <2>4 DEF Budget
<1>4. CASE Tick
  <2>1. Admitting' = Admitting /\ granted' = granted
    BY <1>4 DEF Tick, Admitting, TypeOK, Call
  <2>2. QED
    BY <2>1 DEF Budget
<1>5. CASE UNCHANGED <<call, granted>>
  BY <1>5 DEF Budget, Admitting
<1>6. QED
  BY <1>2, <1>3, <1>4, <1>5 DEF Next, Deliver, UpdateSnapshots, vars

LEMMA InitInvariant == Init => IInv
<1>1. Init => ClockReads
  BY AdmissionAssumption DEF AdmissionAssumption, Init, ClockReads, NoCall
<1>2. Init => Budget
  <2>1. Init => Admitting = {} /\ granted = 0
    BY DEF Init, Admitting, NoCall
  <2>2. QED
    BY <2>1, FS_EmptySet, AdmissionAssumption DEF AdmissionAssumption, Budget
<1>3. QED
  BY <1>1, <1>2, InitType, AdmissionAssumption DEF IInv

\* IInv is an invariant of the controller.
LEMMA Inductive == Spec => []IInv
<1>1. IInv /\ [Next]_vars => IInv'
  BY AdmissionAssumption, NextType, NextClockReads, NextBudget DEF IInv
<1>2. QED
  BY InitInvariant, <1>1, PTL DEF Spec

-----------------------------------------------------------------------------
\* Which lease a completion takes

\* The natural numbers are well ordered, so a Vec that is not empty has a first lease.
LEMMA LeastElement ==
  ASSUME NEW S \in SUBSET Nat, S # {}
  PROVE  \E x \in S : \A y \in S : x <= y
<1> DEFINE R == OpToRel(<, Nat)
<1>1. IsWellFoundedOn(R, Nat)
  BY NatLessThanWellFounded
<1>2. \A x, y \in Nat : <<y, x>> \in R <=> y < x
  BY DEF OpToRel
<1> HIDE DEF R
<1>3. PICK x \in S : \A y \in S : <<y, x>> \notin R
  BY <1>1, WFMin
<1>4. \A y \in S : ~ (y < x)
  BY <1>2, <1>3, Zenon
<1>5. QED
  BY <1>4

LEMMA OldestIsLeast ==
  ASSUME NEW S \in SUBSET Nat, S # {}
  PROVE  /\ Oldest(S) \in S
         /\ \A y \in S : Oldest(S) <= y
         /\ \A x \in S : (\A y \in S : x <= y) => x = Oldest(S)
<1>1. \E x \in S : \A y \in S : x <= y
  BY LeastElement
<1>2. Oldest(S) \in S /\ \A y \in S : Oldest(S) <= y
  BY <1>1 DEF Oldest
<1>3. ASSUME NEW x \in S, \A y \in S : x <= y
      PROVE  x = Oldest(S)
  <2>1. x <= Oldest(S) /\ Oldest(S) <= x
    BY <1>2, <1>3
  <2>2. x \in Nat /\ Oldest(S) \in Nat
    BY <1>2
  <2>3. QED
    BY <2>1, <2>2
<1>4. QED
  BY <1>2, <1>3

\* A lease that is live now is unexpired for every handler, however stale its clock.
LEMMA LiveIsUnexpired ==
  ASSUME TypeOK, ClockReads, NEW h \in Handler, NEW k \in Key
  PROVE  Live(k) \subseteq Unexpired(call[h].now) \cap LeasesOf(k)
<1> SUFFICES ASSUME NEW g \in Live(k)
             PROVE  g \in Unexpired(call[h].now) /\ g \in LeasesOf(k)
  OBVIOUS
<1>1. g \in DOMAIN leases /\ g \in LeasesOf(k) /\ leases[g].expires > 0
  BY DEF Live, LeasesOf
<1>2. leases[g].expires \in Int
  BY <1>1 DEF TypeOK, Lease
<1>3. call[h].now \in Int /\ call[h].now <= 0
  BY AdmissionAssumption DEF ClockReads, AdmissionAssumption
<1>4. QED
  BY <1>1, <1>2, <1>3 DEF Unexpired

LEMMA LiveNaturals == ASSUME TypeOK, NEW k PROVE Live(k) \in SUBSET Nat
BY DEF TypeOK, Live, LeasesOf

\* A completion leaves every live lease in the table but the oldest of its own key.
LEMMA CompleteTakesOldest ==
  ASSUME TypeOK, ClockReads, NEW h \in Handler, Complete(h)
  PROVE  /\ DOMAIN leases' \subseteq DOMAIN leases
         /\ \A g \in DOMAIN leases' : leases'[g] = leases[g]
         /\ \A k \in Key : \A g \in Live(k) :
              g \notin DOMAIN leases' => k = CompletionKey(call[h]) /\ g = Oldest(Live(k))
<1> DEFINE own == LeasesOf(CompletionKey(call[h]))
           live == own \cap Unexpired(call[h].now)
           dropped == IF live = {} THEN own ELSE (own \ live) \cup {Oldest(live)}
<1>1. leases' = Keep(DOMAIN leases \ dropped)
  BY DEF Complete
<1>2. /\ DOMAIN leases' = DOMAIN leases \ dropped
      /\ \A g \in DOMAIN leases' : leases'[g] = leases[g]
  BY <1>1 DEF Keep
<1>3. ASSUME NEW k \in Key, NEW g \in Live(k), g \notin DOMAIN leases'
      PROVE  k = CompletionKey(call[h]) /\ g = Oldest(Live(k))
  <2>1. g \in Unexpired(call[h].now) /\ g \in LeasesOf(k)
    BY LiveIsUnexpired
  <2>2. g \in DOMAIN leases /\ leases[g].key = k
    BY <2>1 DEF LeasesOf
  <2>3. g \in dropped
    BY <1>2, <1>3, <2>2
  <2>4. live \subseteq own /\ live \in SUBSET Nat
    BY DEF LeasesOf, TypeOK
  <2>5. live = {} => dropped = own
    OBVIOUS
  <2>6. live # {} => dropped = (own \ live) \cup {Oldest(live)} /\ Oldest(live) \in live
    BY <2>4, OldestIsLeast
  <2>7. g \in own
    <3> HIDE DEF dropped, own, live
    <3>1. QED
      BY <2>3, <2>4, <2>5, <2>6
  <2>8. k = CompletionKey(call[h])
    BY <2>2, <2>7 DEF LeasesOf
  <2>9. g \in live
    BY <2>1, <2>7
  <2>10. g = Oldest(live)
    <3> HIDE DEF dropped, own, live
    <3>1. QED
      BY <2>3, <2>6, <2>9
  <2>11. \A y \in Live(k) : g <= y
    <3>1. Live(k) \subseteq live
      BY <2>8, LiveIsUnexpired
    <3>2. \A y \in live : Oldest(live) <= y
      <4> HIDE DEF live
      <4>1. QED
        BY <2>4, <2>9, OldestIsLeast
    <3>3. QED
      <4> HIDE DEF live
      <4>1. QED
        BY <2>10, <3>1, <3>2
  <2>12. g = Oldest(Live(k))
    BY <2>11, LiveNaturals, OldestIsLeast
  <2>13. QED
    BY <2>8, <2>12
<1>4. QED
  BY <1>2, <1>3

\* Every other step keeps the live leases in the table.
LEMMA OthersKeepLive ==
  ASSUME TypeOK, ClockReads, [Next]_vars, \A h \in Handler : ~Complete(h)
  PROVE  \A k \in Key : Live(k) \subseteq DOMAIN leases'
<1> SUFFICES ASSUME NEW k \in Key
             PROVE  Live(k) \subseteq DOMAIN leases'
  OBVIOUS
<1>1. Live(k) \subseteq DOMAIN leases
  BY DEF Live, LeasesOf
<1>2. ASSUME NEW h \in Handler, Serve(h)
      PROVE  Live(k) \subseteq DOMAIN leases'
  <2>1. Live(k) \subseteq Kept(h)
    BY LiveIsUnexpired DEF Kept
  <2>2. CASE DelayAtLimit(h) \/ DelayForCapacity(h)
    <3>1. leases' = Keep(Kept(h))
      BY <2>2 DEF DelayAtLimit, DelayForCapacity
    <3>2. QED
      BY <2>1, <3>1 DEF Keep
  <2>3. CASE Grant(h)
    <3>1. DOMAIN leases' = Kept(h) \cup {granted + 1}
      BY <2>3 DEF Grant
    <3>2. QED
      BY <2>1, <3>1
  <2>4. CASE RefuseName(h) \/ CompleteNothing(h)
    BY <1>1, <2>4 DEF RefuseName, CompleteNothing
  <2>5. QED
    BY <1>2, <2>2, <2>3, <2>4 DEF Serve
<1>3. CASE Tick
  BY <1>1, <1>3 DEF Tick
<1>4. CASE UNCHANGED leases
  BY <1>1, <1>4
<1>5. QED
  BY <1>2, <1>3, <1>4 DEF Next, Arrive, Deliver, UpdateSnapshots, vars

\* A live lease only ever leaves because a completion for its key took it, the oldest
\* of that key, and nothing else: LiveLeaseLeavesByCompletion for every instance.
THEOREM OnlyCompletionsFree == Spec => LiveLeaseLeavesByCompletion
<1> DEFINE Step == \A k \in Key : \A g \in Live(k) :
                     g \notin DOMAIN leases' => CompletionTook(g, k)
<1>1. ASSUME TypeOK, ClockReads, [Next]_vars
      PROVE  [Step]_vars
  <2>1. CASE \E h \in Handler : Complete(h)
    <3>1. PICK h \in Handler : Complete(h)
      BY <2>1
    <3>2. SUFFICES ASSUME NEW k \in Key, NEW g \in Live(k), g \notin DOMAIN leases'
                   PROVE  CompletionTook(g, k)
      OBVIOUS
    <3>3. k = CompletionKey(call[h]) /\ g = Oldest(Live(k))
      BY <1>1, <3>1, <3>2, CompleteTakesOldest
    <3>4. call[h].op = "complete" /\ call'[h].op = "none"
      BY <1>1, <3>1 DEF Complete, Answer, NoCall, TypeOK
    <3>5. ASSUME NEW j \in Key, NEW other \in Live(j), other # g, other \notin DOMAIN leases'
          PROVE  FALSE
      <4>1. j = CompletionKey(call[h]) /\ other = Oldest(Live(j))
        BY <1>1, <3>1, <3>5, CompleteTakesOldest
      <4>2. QED
        BY <3>3, <3>5, <4>1
    <3>6. QED
      BY <3>3, <3>4, <3>5 DEF CompletionTook
  <2>2. CASE \A h \in Handler : ~Complete(h)
    BY <1>1, <2>2, OthersKeepLive
  <2>3. QED
    BY <2>1, <2>2
<1>2. QED
  BY <1>1, Inductive, PTL DEF Spec, IInv, LiveLeaseLeavesByCompletion

-----------------------------------------------------------------------------
\* The refinement of PermitPool

LEMMA PermitType ==
  ASSUME IInv, NEW k \in Key
  PROVE  Live(k) \subseteq 1..MaxGrants
<1>1. granted \in Nat /\ Cardinality(Admitting) \in Nat /\ MaxGrants \in Nat
  BY AdmissionAssumption, FiniteAdmitting DEF AdmissionAssumption, IInv, TypeOK, Admitting
<1>2. granted <= MaxGrants
  BY <1>1 DEF IInv, Budget
<1>3. Live(k) \subseteq 1..granted
  BY DEF IInv, TypeOK, Live, LeasesOf
<1>4. QED
  BY <1>1, <1>2, <1>3

LEMMA RunningIsLive ==
  ASSUME IInv, NEW k \in Key
  PROVE  /\ Pool!Running(k) = Live(k)
         /\ \A g \in Live(k) : leases[g].expires \in Int /\ leases[g].expires > 0
<1>1. \A g \in Live(k) : leases[g].expires \in Int /\ leases[g].expires > 0
  BY DEF Live, LeasesOf, IInv, TypeOK, Lease
<1>2. \A g \in 1..MaxGrants : TimeLeft[k][g] = IF g \in Live(k) THEN leases[g].expires ELSE 0
  BY DEF TimeLeft
<1>3. Pool!Running(k) = {g \in 1..MaxGrants : TimeLeft[k][g] > 0}
  BY DEF Pool!Running
<1>4. QED
  BY <1>1, <1>2, <1>3, PermitType

\* A step that keeps every live lease as it is, and makes none, is a stutter of the pool.
LEMMA SameLeasesStutter ==
  ASSUME \A k \in Key : Live(k)' = Live(k) /\ \A g \in Live(k) : leases'[g] = leases[g]
  PROVE  TimeLeft' = TimeLeft
BY DEF TimeLeft

LEMMA LiveAfterKeep ==
  ASSUME DOMAIN leases' \subseteq DOMAIN leases,
         \A g \in DOMAIN leases' : leases'[g] = leases[g],
         NEW k \in Key
  PROVE  Live(k)' = Live(k) \cap DOMAIN leases'
BY DEF Live, LeasesOf

\* A completion that takes a live lease releases the oldest permit of its key.
LEMMA CompleteRefines ==
  ASSUME IInv, NEW h \in Handler, Complete(h)
  PROVE  [Pool!Next]_TimeLeft
<1>1. /\ DOMAIN leases' \subseteq DOMAIN leases
      /\ \A g \in DOMAIN leases' : leases'[g] = leases[g]
      /\ \A j \in Key : \A g \in Live(j) :
           g \notin DOMAIN leases' => j = CompletionKey(call[h]) /\ g = Oldest(Live(j))
  BY CompleteTakesOldest DEF IInv
<1>2. \A j \in Key : Live(j)' = Live(j) \cap DOMAIN leases'
  BY <1>1, LiveAfterKeep
<1>3. CASE \A j \in Key : Live(j) \subseteq DOMAIN leases'
  BY <1>1, <1>2, <1>3, SameLeasesStutter
<1>4. CASE \E j \in Key : ~(Live(j) \subseteq DOMAIN leases')
  <2>1. PICK k \in Key, g \in DOMAIN leases : g \in Live(k) /\ g \notin DOMAIN leases'
    BY <1>4 DEF Live, LeasesOf
  <2>2. k = CompletionKey(call[h]) /\ g = Oldest(Live(k))
    BY <1>1, <2>1
  <2>3. \A j \in Key : Live(j)' = IF j = k THEN Live(j) \ {g} ELSE Live(j)
    BY <1>1, <1>2, <2>1, <2>2
  <2>4. \A j \in Key : \A x \in Live(j)' : leases'[x] = leases[x]
    BY <1>1, <1>2
  <2>5. g \in 1..MaxGrants
    BY <2>1, PermitType
  <2>6. \A other \in Live(k) : g <= other
    BY <2>1, <2>2, LiveNaturals, OldestIsLeast DEF IInv
  <2>7. TimeLeft' = [TimeLeft EXCEPT ![k][g] = 0]
    BY <2>3, <2>4, <2>5 DEF TimeLeft
  <2>8. Pool!Release(k, g)
    BY <2>1, <2>6, <2>7, RunningIsLive DEF Pool!Release
  <2>9. QED
    BY <2>5, <2>8 DEF Pool!Next
<1>5. QED
  BY <1>3, <1>4

\* A grant acquires the permit it numbers, unless its clock was read so long before that
\* the lease is dead when it enters the table.
LEMMA GrantRefines ==
  ASSUME IInv, IInv', NEW h \in Handler, Grant(h)
  PROVE  [Pool!Next]_TimeLeft
<1>1. PICK k \in Key, new \in Nat \ {0} : k = KeyOf(call[h]) /\ new = granted + 1
  BY ValidKey DEF Grant, IInv, TypeOK
<1>2. /\ Kept(h) \in SUBSET DOMAIN leases
      /\ DOMAIN leases \subseteq 1..granted /\ granted \in Nat
  BY KeptSubset DEF IInv, TypeOK
<1>3. new \notin Kept(h) /\ new \notin DOMAIN leases
  BY <1>1, <1>2
<1>4. /\ DOMAIN leases' = Kept(h) \cup {new}
      /\ leases'[new] = [key |-> k, expires |-> call[h].now + LeaseTtl(call[h].tokens)]
      /\ \A g \in Kept(h) : leases'[g] = leases[g]
  BY <1>1, <1>3 DEF Grant
<1>5. \A j \in Key : Live(j) \subseteq Kept(h)
  BY LiveIsUnexpired DEF Kept, IInv
<1>6. \A j \in Key : /\ Live(j)' \ {new} = Live(j)
                     /\ new \in Live(j)' => j = k
                     /\ \A g \in Live(j) : g # new /\ leases'[g] = leases[g]
  BY <1>1, <1>2, <1>3, <1>4, <1>5 DEF Live, LeasesOf
<1>7. granted' = granted + 1
  BY DEF Grant
<1>8. CASE new \notin Live(k)'
  <2>1. \A j \in Key : Live(j)' = Live(j)
    BY <1>6, <1>8
  <2>2. QED
    BY <1>6, <2>1, SameLeasesStutter
<1>9. CASE new \in Live(k)'
  <2>1. new \in 1..MaxGrants
    <3>1. Cardinality(Admitting') \in Nat /\ MaxGrants \in Nat
      BY FiniteAdmitting, AdmissionAssumption DEF Admitting, AdmissionAssumption
    <3>2. granted' + Cardinality(Admitting') <= MaxGrants
      BY DEF IInv, Budget
    <3>3. QED
      BY <1>1, <1>7, <3>1, <3>2
  <2>2. PICK life \in 1..MaxTtl : life = leases'[new].expires
    <3>1. leases'[new].expires > 0
      BY <1>9 DEF Live, LeasesOf
    <3>2. call[h].tokens \in Nat /\ call[h].now \in Int
      BY ValidKey DEF IInv, Grant
    <3>3. LeaseTtl(call[h].tokens) \in MinTtl..MaxTtl
      BY <3>2, LeaseTtlBounds, AdmissionAssumption
    <3>4. call[h].now <= 0 /\ MinTtl \in Int /\ MaxTtl \in Int
      BY <3>2, AdmissionAssumption DEF IInv, ClockReads, AdmissionAssumption
    <3>5. QED
      BY <1>4, <3>1, <3>2, <3>3, <3>4
  <2>3. Cardinality(Live(k)) < MaxConcurrent
    <3>1. Live(k) \in SUBSET (Kept(h) \cap LeasesOf(k))
      BY <1>2, <1>5 DEF Live
    <3>2. Kept(h) \cap LeasesOf(k) \in SUBSET DOMAIN leases
      BY <1>2
    <3>3. /\ IsFiniteSet(Kept(h) \cap LeasesOf(k))
          /\ Cardinality(Kept(h) \cap LeasesOf(k)) \in Nat
      BY <3>2, FiniteTable DEF IInv
    <3>4. /\ Cardinality(Live(k)) <= Cardinality(Kept(h) \cap LeasesOf(k))
          /\ Cardinality(Live(k)) \in Nat
      BY <3>1, <3>3, FS_Subset, FS_CardinalityType
    <3>5. ~(Cardinality(Kept(h) \cap LeasesOf(k)) >= MaxConcurrent)
      BY <1>1 DEF Grant, AtLimit
    <3>6. MaxConcurrent \in Nat
      BY AdmissionAssumption DEF AdmissionAssumption
    <3>7. QED
      BY <3>3, <3>4, <3>5, <3>6
  <2>4. \A j \in Key : \A other \in Live(j) : other < new
    BY <1>1, <1>2, <1>5
  <2>5. TimeLeft' = [TimeLeft EXCEPT ![k][new] = life]
    <3>1. \A j \in Key : Live(j)' = IF j = k THEN Live(k) \cup {new} ELSE Live(j)
      BY <1>6, <1>9
    <3>2. \A j \in Key : \A g \in 1..MaxGrants :
            (IF g \in Live(j)' THEN leases'[g].expires ELSE 0) =
            IF j = k /\ g = new THEN life
            ELSE IF g \in Live(j) THEN leases[g].expires ELSE 0
      BY <1>6, <2>2, <3>1
    <3>3. QED
      BY <1>1, <2>1, <3>2 DEF TimeLeft
  <2>6. Pool!Acquire(k, new, life)
    <3>1. \A j \in Key : Pool!Running(j) = Live(j)
      BY RunningIsLive
    <3>2. Pool!Cardinality(Pool!Running(k)) < MaxConcurrent
      <4>1. Cardinality(Pool!Running(k)) < MaxConcurrent
        BY <1>1, <2>3, <3>1
      <4>2. \A S : Pool!Cardinality(S) = Cardinality(S)
        BY Zenon DEF Cardinality, Pool!Cardinality, IsFiniteSet, Pool!IsFiniteSet
      <4>3. QED
        BY <4>1, <4>2
    <3>3. \A j \in Key : \A other \in Pool!Running(j) : other < new
      BY <2>4, <3>1
    <3>4. QED
      BY <2>5, <3>2, <3>3 DEF Pool!Acquire
  <2>7. QED
    BY <1>1, <2>1, <2>2, <2>6 DEF Pool!Next
<1>10. QED
  BY <1>8, <1>9

\* One unit of time elapses for every permit that runs.
LEMMA TickRefines == ASSUME IInv, Tick PROVE Pool!Elapse
<1>1. /\ DOMAIN leases' = DOMAIN leases
      /\ \A g \in DOMAIN leases : /\ leases'[g].key = leases[g].key
                                  /\ leases'[g].expires = Older(leases[g].expires)
                                  /\ leases[g].expires \in Int
  BY DEF Tick, IInv, TypeOK, Lease
<1>2. ASSUME NEW k \in Key, NEW g \in 1..MaxGrants
      PROVE  (IF g \in Live(k)' THEN leases'[g].expires ELSE 0) =
             IF TimeLeft[k][g] > 0 THEN TimeLeft[k][g] - 1 ELSE 0
  <2>1. TimeLeft[k][g] = IF g \in Live(k) THEN leases[g].expires ELSE 0
    BY DEF TimeLeft
  <2>2. CASE g \in DOMAIN leases /\ leases[g].key = k
    <3>1. /\ g \in Live(k) <=> leases[g].expires > 0
          /\ g \in Live(k)' <=> Older(leases[g].expires) > 0
      BY <1>1, <2>2 DEF Live, LeasesOf
    <3>2. leases[g].expires > 0 => Older(leases[g].expires) = leases[g].expires - 1
      BY <1>1, <2>2, AdmissionAssumption DEF Older, AdmissionAssumption
    <3>3. leases[g].expires <= 0 => Older(leases[g].expires) <= 0
      BY <1>1, <2>2, AdmissionAssumption DEF Older, AdmissionAssumption
    <3>4. leases'[g].expires = Older(leases[g].expires) /\ leases[g].expires \in Int
      BY <1>1, <2>2
    <3>5. Older(leases[g].expires) \in Int
      BY <3>4, OlderType, AdmissionAssumption
    <3>6. CASE leases[g].expires > 0
      BY <2>1, <3>1, <3>2, <3>4, <3>6
    <3>7. CASE leases[g].expires <= 0
      BY <2>1, <3>1, <3>3, <3>4, <3>5, <3>7
    <3>8. QED
      BY <3>4, <3>6, <3>7
  <2>3. CASE ~(g \in DOMAIN leases /\ leases[g].key = k)
    <3>1. g \notin Live(k) /\ g \notin Live(k)'
      BY <1>1, <2>3 DEF Live, LeasesOf
    <3>2. QED
      BY <2>1, <3>1
  <2>4. QED
    BY <2>2, <2>3
<1>3. TimeLeft' = [k \in Key |-> [g \in 1..MaxGrants |->
                     IF TimeLeft[k][g] > 0 THEN TimeLeft[k][g] - 1 ELSE 0]]
  BY <1>2 DEF TimeLeft
<1>4. QED
  BY <1>3 DEF Pool!Elapse

\* A handler that delays its caller only prunes, and what it prunes has ended already.
LEMMA PruneStutters ==
  ASSUME IInv, NEW h \in Handler, leases' = Keep(Kept(h))
  PROVE  TimeLeft' = TimeLeft
<1>1. DOMAIN leases' = Kept(h) /\ \A g \in Kept(h) : leases'[g] = leases[g]
  BY DEF Keep
<1>2. \A k \in Key : Live(k) \subseteq Kept(h)
  BY LiveIsUnexpired DEF Kept, IInv
<1>3. \A k \in Key : Live(k)' = Live(k) \cap Kept(h)
  BY <1>1, KeptSubset, LiveAfterKeep
<1>4. QED
  BY <1>1, <1>2, <1>3, SameLeasesStutter

LEMMA NextRefines ==
  ASSUME IInv, IInv', [Next]_vars
  PROVE  [Pool!Next]_TimeLeft
<1>1. ASSUME NEW h \in Handler, Serve(h)
      PROVE  [Pool!Next]_TimeLeft
  <2>1. CASE DelayAtLimit(h) \/ DelayForCapacity(h)
    BY <2>1, PruneStutters DEF DelayAtLimit, DelayForCapacity
  <2>2. CASE Grant(h)
    BY <2>2, GrantRefines
  <2>3. CASE Complete(h)
    BY <2>3, CompleteRefines
  <2>4. CASE RefuseName(h) \/ CompleteNothing(h)
    BY <2>4 DEF RefuseName, CompleteNothing, TimeLeft, Live, LeasesOf
  <2>5. QED
    BY <1>1, <2>1, <2>2, <2>3, <2>4 DEF Serve
<1>2. CASE Tick
  BY <1>2, TickRefines DEF Pool!Next
<1>3. CASE UNCHANGED leases
  BY <1>3 DEF TimeLeft, Live, LeasesOf
<1>4. QED
  BY <1>1, <1>2, <1>3 DEF Next, Arrive, Deliver, UpdateSnapshots, vars

\* The controller implements the permit pool: ImplementsPermitPool for every instance.
THEOREM Implementation == Spec => ImplementsPermitPool
<1>1. Init => Pool!Init
  BY DEF Init, Pool!Init, TimeLeft, Live, LeasesOf
<1>2. IInv /\ IInv' /\ [Next]_vars => [Pool!Next]_TimeLeft
  BY NextRefines
<1>3. QED
  BY <1>1, <1>2, Inductive, PTL DEF Spec, ImplementsPermitPool, Pool!Spec

-----------------------------------------------------------------------------
\* How long a lease can pin its slot

LEMMA NextHorizon == IInv /\ LeaseHorizon /\ [Next]_vars => LeaseHorizon'
<1> SUFFICES ASSUME IInv, LeaseHorizon, [Next]_vars
             PROVE  LeaseHorizon'
  OBVIOUS
<1>1. CASE /\ DOMAIN leases' \subseteq DOMAIN leases
           /\ \A g \in DOMAIN leases' : leases'[g] = leases[g]
  BY <1>1 DEF LeaseHorizon
<1>2. ASSUME NEW h \in Handler, Grant(h)
      PROVE  LeaseHorizon'
  <2>1. call[h].tokens \in Nat /\ call[h].now \in Int
    BY <1>2, ValidKey DEF IInv, Grant
  <2>2. call[h].now + LeaseTtl(call[h].tokens) <= MaxTtl
    <3>1. LeaseTtl(call[h].tokens) \in MinTtl..MaxTtl
      BY <2>1, LeaseTtlBounds, AdmissionAssumption
    <3>2. call[h].now <= 0 /\ MinTtl \in Int /\ MaxTtl \in Int
      BY <2>1, AdmissionAssumption DEF IInv, ClockReads, AdmissionAssumption
    <3>3. QED
      BY <2>1, <3>1, <3>2
  <2>3. QED
    BY <1>2, <2>2, KeptSubset DEF Grant, LeaseHorizon
<1>3. CASE Tick
  <2>1. ASSUME NEW g \in DOMAIN leases
        PROVE  leases[g].expires \in Int /\ Older(leases[g].expires) <= leases[g].expires
    BY OlderType, AdmissionAssumption DEF IInv, TypeOK, Lease
  <2>2. ASSUME NEW g \in DOMAIN leases
        PROVE  leases'[g].expires <= MaxTtl
    <3>1. leases'[g].expires = Older(leases[g].expires)
      BY <1>3 DEF Tick, IInv, TypeOK, Lease
    <3>2. Older(leases[g].expires) \in Int /\ MaxTtl \in Int
      BY <2>1, OlderType, AdmissionAssumption DEF AdmissionAssumption
    <3>3. QED
      BY <2>1, <3>1, <3>2 DEF LeaseHorizon
  <2>3. QED
    BY <1>3, <2>2 DEF Tick, LeaseHorizon
<1>4. ASSUME NEW S \in SUBSET DOMAIN leases, leases' = Keep(S)
      PROVE  LeaseHorizon'
  BY <1>4 DEF Keep, LeaseHorizon
<1>5. ASSUME NEW h \in Handler, Serve(h)
      PROVE  LeaseHorizon'
  <2>1. CASE DelayAtLimit(h) \/ DelayForCapacity(h)
    BY <1>4, <2>1, KeptSubset DEF DelayAtLimit, DelayForCapacity
  <2>2. CASE Complete(h)
    BY <1>1, <2>2, CompleteTakesOldest DEF IInv
  <2>3. CASE RefuseName(h) \/ CompleteNothing(h)
    BY <1>1, <2>3 DEF RefuseName, CompleteNothing
  <2>4. QED
    BY <1>2, <1>5, <2>1, <2>2, <2>3 DEF Serve
<1>6. CASE UNCHANGED leases
  BY <1>1, <1>6
<1>7. QED
  BY <1>3, <1>5, <1>6 DEF Next, Arrive, Deliver, UpdateSnapshots, vars

\* No lease, orphaned or not, has more than MaxTtl ahead of it: LeaseHorizon for every
\* instance.
THEOREM HorizonHolds == Spec => []LeaseHorizon
<1>1. Init => LeaseHorizon
  BY DEF Init, LeaseHorizon
<1>2. QED
  BY <1>1, Inductive, NextHorizon, PTL DEF Spec

-----------------------------------------------------------------------------
\* What a delay says

\* A reason appears in a reply only when the handler of that reply decides.
LEMMA OnlyItsHandlerDecides ==
  ASSUME TypeOK, [Next]_vars, NEW h \in Handler,
         reply[h].reason = "none", reply'[h].reason # "none"
  PROVE  Serve(h)
<1>1. ASSUME NEW other \in Handler, Serve(other)
      PROVE  Serve(h)
  <2>1. PICK r : Answer(other, r)
    BY <1>1 DEF Serve, RefuseName, DelayAtLimit, DelayForCapacity, Grant, CompleteNothing, Complete
  <2>2. other # h => reply'[h] = reply[h]
    BY <2>1 DEF Answer, TypeOK
  <2>3. QED
    BY <1>1, <2>2
<1>2. ASSUME NEW other \in Handler, Deliver(other)
      PROVE  FALSE
  BY <1>2 DEF Deliver, TypeOK, NoReply
<1>3. ASSUME Tick
      PROVE  FALSE
  <2>1. reply'[h].reason = reply[h].reason
    BY <1>3 DEF Tick, TypeOK, Reply
  <2>2. QED
    BY <2>1
<1>4. CASE UNCHANGED reply
  BY <1>4
<1>5. QED
  BY <1>1, <1>2, <1>3, <1>4 DEF Next, Arrive, UpdateSnapshots, vars

\* What a new reply of h is, by its reason.
LEMMA ReasonOfDelay ==
  ASSUME TypeOK, NEW h \in Handler, Serve(h)
  PROVE  /\ reply'[h].reason = "limit" => DelayAtLimit(h)
         /\ reply'[h].reason = "capacity" =>
              LET s == SnapshotFor(KeyOf(call[h])) IN
              DelayForCapacity(h) /\ reply'[h] = Delayed(call[h].now, RecoveryDelay(s), "capacity")
<1>1. CASE RefuseName(h)
  BY <1>1 DEF RefuseName, Answer, Delayed, TypeOK
<1>2. CASE DelayAtLimit(h)
  BY <1>2 DEF DelayAtLimit, Answer, Delayed, TypeOK
<1>3. CASE DelayForCapacity(h)
  <2> DEFINE s == SnapshotFor(KeyOf(call[h]))
             r == IF s.state \in Pressured
                  THEN Delayed(call[h].now, RecoveryDelay(s), "capacity")
                  ELSE Delayed(call[h].now, DefaultDelay, "unknown")
  <2>1. reply'[h] = r
    BY <1>3 DEF DelayForCapacity, Answer, TypeOK
  <2>2. QED
    BY <1>3, <2>1 DEF Delayed
<1>4. CASE Grant(h)
  BY <1>4 DEF Grant, Answer, Proceeds, TypeOK
<1>5. CASE CompleteNothing(h) \/ Complete(h)
  BY <1>5 DEF CompleteNothing, Complete, Answer, Proceeds, TypeOK
<1>6. QED
  BY <1>1, <1>2, <1>3, <1>4, <1>5 DEF Serve

\* A delay for the limit is one that the table answered.
LEMMA LimitDelayCounts ==
  ASSUME TypeOK, [Next]_vars, NEW h \in Handler,
         reply'[h].reason = "limit", reply[h].reason = "none"
  PROVE  Cardinality({g \in LeasesOf(KeyOf(call[h])) : leases[g].expires > call[h].now})
           >= MaxConcurrent
<1> DEFINE Own == {g \in LeasesOf(KeyOf(call[h])) : leases[g].expires > call[h].now}
<1>1. DelayAtLimit(h)
  BY OnlyItsHandlerDecides, ReasonOfDelay
<1>2. Own = Kept(h) \cap LeasesOf(KeyOf(call[h]))
  BY DEF Kept, Unexpired, LeasesOf
<1>3. QED
  BY <1>1, <1>2 DEF DelayAtLimit, AtLimit

\* Whoever is told that the key is full is told so for max_concurrent leases that were
\* unexpired at the clock its handler read.
THEOREM LimitDelaysAreJustified == Spec => LimitDelayIsJustified
<1> DEFINE Step == \A h \in Handler :
                     reply'[h].reason = "limit" /\ reply[h].reason = "none" =>
                       Cardinality({g \in LeasesOf(KeyOf(call[h])) :
                                      leases[g].expires > call[h].now}) >= MaxConcurrent
<1>1. TypeOK /\ [Next]_vars => [Step]_vars
  BY LimitDelayCounts
<1>2. QED
  BY <1>1, TypeCorrect, PTL DEF Spec, LimitDelayIsJustified

\* The instant that a delay for a reset names.
LEMMA ResetDelayStarts ==
  ASSUME TypeOK, ClockReads, [Next]_vars, NEW h \in Handler,
         reply'[h].reason = "capacity", reply[h].reason = "none",
         SnapshotFor(KeyOf(call[h])).reset > 0
  PROVE  LET reset == SnapshotFor(KeyOf(call[h])).reset
         IN  reply'[h].start \in (reset - MaxLag)..reset
<1> DEFINE s == SnapshotFor(KeyOf(call[h]))
<1>1. DelayForCapacity(h) /\ reply'[h] = Delayed(call[h].now, RecoveryDelay(s), "capacity")
  BY OnlyItsHandlerDecides, ReasonOfDelay
<1>2. s \in Snapshot
  BY <1>1, ValidKey, SnapshotForType DEF DelayForCapacity
<1>3. RecoveryDelay(s) = s.reset /\ RecoveryDelay(s) \in Nat
  BY <1>2, RecoveryDelayBounds, AdmissionAssumption
<1>4. reply'[h].start = call[h].now + s.reset
  BY <1>1, <1>3 DEF Delayed
<1>5. call[h].now \in -MaxLag..0
  BY DEF ClockReads
<1>6. QED
  BY <1>3, <1>4, <1>5, AdmissionAssumption DEF AdmissionAssumption

\* A start that waits for a reset lies at the reset or before it, by no more than the
\* handler waited for the mutex.
THEOREM NobodyOversleeps == Spec => NoOversleep
<1> DEFINE Step == \A h \in Handler :
                     LET reset == SnapshotFor(KeyOf(call[h])).reset IN
                     /\ reply'[h].reason = "capacity"
                     /\ reply[h].reason = "none"
                     /\ reset > 0
                     => reply'[h].start \in (reset - MaxLag)..reset
<1>1. TypeOK /\ ClockReads /\ [Next]_vars => [Step]_vars
  BY ResetDelayStarts
<1>2. QED
  BY <1>1, Inductive, PTL DEF Spec, IInv, NoOversleep
=============================================================================
