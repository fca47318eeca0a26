------------------------------ MODULE Admission ------------------------------
(***************************************************************************)
(* The admission controller of the daemon, src/src/admission.rs: the table *)
(* of in-flight leases and the capacity snapshots that HTTP handlers and   *)
(* the poll loop share behind one mutex.                                   *)
(*                                                                         *)
(* A handler reads the clock BEFORE it takes the mutex, so a request is    *)
(* two steps: Arrive (now := Utc::now()) and one critical section, and the *)
(* clock may move between the two.                                         *)
(*                                                                         *)
(* Instants are offsets from the present, which is 0.  Tick moves every    *)
(* stored instant one unit into the past; nothing older than -MaxLag is    *)
(* distinguished, since no pending handler read the clock that long ago.   *)
(* The unit is a second for leases and DefaultDelay for delays.            *)
(*                                                                         *)
(* A definition marked "Mutant" is no part of Spec: it is the definition   *)
(* below it with a bug of the kind a change to the code could bring in,    *)
(* which some property must notice (PROJECT.json, "mutants").              *)
(***************************************************************************)
EXTENDS Integers, FiniteSets

CONSTANTS
  Provider,          \* provider ids that ProviderId::new accepts
  Model,             \* model ids that ModelId::new accepts
  AnyModel,          \* model: None, the provider-wide key
  BadName,           \* any string both constructors reject
  Handler,           \* HTTP handler tasks that may run at once
  MaxConcurrent,     \* admission.max_concurrent
  DefaultDelay,      \* admission.default_delay_ms
  AdmitWhenUnknown,  \* admission.admit_when_unknown
  MinTtl, MaxTtl,    \* the 5 s and 120 s of estimate_lease_ttl
  Requests,          \* requests callers send; a token estimate counts in thousands
  Polls,             \* snapshot tables that the poll loop may install
  MaxLag,            \* bound: how long a handler may wait for the mutex
  MaxGrants          \* bound: leases granted in one behaviour

Key == Provider \X (Model \cup {AnyModel})

Roomy     == {"Healthy", "Recovering", "Moderate"}
Pressured == {"Constrained", "Critical", "Exhausted"}

\* A snapshot's next_reset is 0 when it is None or has passed: the code treats both alike.
Snapshot == [state : Roomy \cup Pressured \cup {"Unknown", "Absent"}, reset : Nat]
Absent   == [state |-> "Absent", reset |-> 0]

Request == [provider : Provider \cup {BadName},
            model : Model \cup {AnyModel, BadName},
            tokens : Nat]

ASSUME AdmissionAssumption ==
  /\ BadName \notin Provider \cup Model /\ AnyModel \notin Model \cup {BadName}
  /\ MaxConcurrent \in Nat \ {0} /\ DefaultDelay \in Nat \ {0}
  /\ AdmitWhenUnknown \in BOOLEAN
  /\ MinTtl \in Nat \ {0} /\ MaxTtl \in Nat /\ MinTtl <= MaxTtl
  /\ Requests \subseteq Request
  /\ Polls \subseteq [Key -> Snapshot]
  /\ IsFiniteSet(Handler)
  /\ MaxLag \in Nat /\ MaxGrants \in Nat

Lease == [key : Key, expires : Int]

Reasons == {"admitted", "completed", "nothing", "invalid", "limit", "capacity", "unknown"}

VARIABLES
  snapshots,  \* InnerState.snapshots, Absent where the map has no entry
  leases,     \* InnerState.leases: grant number -> lease.  The numbers give each Vec's order
  granted,    \* leases granted so far
  call,       \* per handler: the request it serves and the clock it read
  reply       \* per handler: the response it has returned

vars == <<snapshots, leases, granted, call, reply>>

NoCall  == [op |-> "none", provider |-> BadName, model |-> AnyModel, tokens |-> 0, now |-> -MaxLag]
NoReply == [decision |-> "none", reason |-> "none", start |-> -MaxLag, delay |-> 0, grant |-> 0]

Call == [op : {"none", "admit", "complete"}, provider : Provider \cup {BadName},
         model : Model \cup {AnyModel, BadName}, tokens : Nat, now : Int]

\* grant is history: which lease a Proceed stands for.  The response does not carry it.
Reply == [decision : {"none", "proceed", "delay"}, reason : Reasons \cup {"none"},
          start : Int, delay : Nat, grant : Nat]

-----------------------------------------------------------------------------
\* Helpers of the critical sections

KeyOf(c) == <<c.provider, c.model>>

Unexpired(now) == {g \in DOMAIN leases : leases[g].expires > now}

LeasesOf(k) == {g \in DOMAIN leases : leases[g].key = k}

Oldest(S) == CHOOSE g \in S : \A other \in S : g <= other

\* The exact key's snapshot, else the provider-wide one.
SnapshotFor(k) ==
  IF snapshots[k] # Absent THEN snapshots[k] ELSE snapshots[<<k[1], AnyModel>>]

CapacityAllows(s) ==
  \/ s.state \in Roomy
  \/ s.state \in {"Unknown", "Absent"} /\ AdmitWhenUnknown

\* Mutant: a reset rounded up to the next whole unit.
RecoveryDelayRoundedUp(s) == IF s.reset > 0 THEN s.reset + 1 ELSE DefaultDelay

\* It reads the clock again, inside the critical section: a reset counts from the present.
RecoveryDelay(s) ==
  CASE s.reset > 0           -> s.reset
    [] s.reset = 0 /\ s.state = "Exhausted" -> 4 * DefaultDelay
    [] s.reset = 0 /\ s.state = "Critical"  -> 2 * DefaultDelay
    [] OTHER -> DefaultDelay

\* Mutant: the estimate is only clamped from below.
LeaseTtlUnbounded(tokens) == IF tokens < MinTtl THEN MinTtl ELSE tokens

LeaseTtl(tokens) ==
  CASE tokens < MinTtl -> MinTtl
    [] tokens > MaxTtl -> MaxTtl
    [] OTHER -> tokens

Older(t) == IF t > -MaxLag THEN t - 1 ELSE t

Keep(S) == [g \in S |-> leases[g]]

Delayed(now, delay, reason) ==
  [decision |-> "delay", reason |-> reason, start |-> now + delay,
   delay |-> delay, grant |-> 0]

Proceeds(now, reason, grant) ==
  [decision |-> "proceed", reason |-> reason, start |-> now, delay |-> 0, grant |-> grant]

\* Handler h returns r and serves nothing any more.
Answer(h, r) ==
  /\ reply' = [reply EXCEPT ![h] = r]
  /\ call' = [call EXCEPT ![h] = NoCall]

-----------------------------------------------------------------------------
Init ==
  /\ snapshots = [k \in Key |-> Absent]
  /\ leases = [g \in {} |-> g]
  /\ granted = 0
  /\ call = [h \in Handler |-> NoCall]
  /\ reply = [h \in Handler |-> NoReply]

Idle(h) == call[h].op = "none" /\ reply[h].decision = "none"

\* Admissions under way may each grant a lease: the bound counts them.
Admitting == {h \in Handler : call[h].op = "admit"}
CanStillGrant == granted + Cardinality(Admitting) < MaxGrants

\* A request reaches a handler, which reads the clock and has yet to lock.  A completion
\* carries no token estimate.
Arrive(h, op, request) ==
  /\ Idle(h)
  /\ IF op = "admit" THEN CanStillGrant ELSE request.tokens = 0
  /\ call' = [call EXCEPT ![h] = [op |-> op, provider |-> request.provider,
                                  model |-> request.model, tokens |-> request.tokens,
                                  now |-> 0]]
  /\ UNCHANGED <<snapshots, leases, granted, reply>>

\* admit: an id that does not validate is delayed without taking the mutex.
RefuseName(h) ==
  /\ call[h].op = "admit"
  /\ BadName \in {call[h].provider, call[h].model}
  /\ Answer(h, Delayed(call[h].now, DefaultDelay, "invalid"))
  /\ UNCHANGED <<snapshots, leases, granted>>

ValidAdmit(h) ==
  /\ call[h].op = "admit"
  /\ BadName \notin {call[h].provider, call[h].model}

\* Mutant: prune_expired is not called.
KeepExpired(h) == DOMAIN leases

\* What prune_expired leaves for handler h.
Kept(h) == Unexpired(call[h].now)

\* Mutant: > where the code has >=.
AboveLimit(h) == Cardinality(Kept(h) \cap LeasesOf(KeyOf(call[h]))) > MaxConcurrent

\* Whether its key is at the limit after that.
AtLimit(h) == Cardinality(Kept(h) \cap LeasesOf(KeyOf(call[h]))) >= MaxConcurrent

\* admit: the key has max_concurrent leases after the pruning.
DelayAtLimit(h) ==
  /\ ValidAdmit(h)
  /\ AtLimit(h)
  /\ leases' = Keep(Kept(h))
  /\ Answer(h, Delayed(call[h].now, DefaultDelay, "limit"))
  /\ UNCHANGED <<snapshots, granted>>

\* admit: there is a slot but the snapshot does not allow the request.
DelayForCapacity(h) ==
  /\ ValidAdmit(h)
  /\ ~AtLimit(h)
  /\ LET s == SnapshotFor(KeyOf(call[h])) IN
       /\ ~CapacityAllows(s)
       /\ Answer(h, IF s.state \in Pressured
                    THEN Delayed(call[h].now, RecoveryDelay(s), "capacity")
                    ELSE Delayed(call[h].now, DefaultDelay, "unknown"))
  /\ leases' = Keep(Kept(h))
  /\ UNCHANGED <<snapshots, granted>>

\* admit: the request proceeds under a new lease, whose life counts from the clock read.
Grant(h) ==
  /\ ValidAdmit(h)
  /\ ~AtLimit(h)
  /\ CapacityAllows(SnapshotFor(KeyOf(call[h])))
  /\ granted' = granted + 1
  /\ leases' = [g \in Kept(h) \cup {granted + 1} |->
                  IF g = granted + 1
                  THEN [key |-> KeyOf(call[h]),
                        expires |-> call[h].now + LeaseTtl(call[h].tokens)]
                  ELSE leases[g]]
  /\ Answer(h, Proceeds(call[h].now, "admitted", granted + 1))
  /\ UNCHANGED snapshots

\* complete: a provider that does not validate completes nothing.
CompleteNothing(h) ==
  /\ call[h].op = "complete"
  /\ call[h].provider = BadName
  /\ Answer(h, Proceeds(call[h].now, "nothing", 0))
  /\ UNCHANGED <<snapshots, leases, granted>>

\* complete: a model that does not validate stands for the provider-wide key.
CompletionKey(c) == <<c.provider, IF c.model = BadName THEN AnyModel ELSE c.model>>

\* Mutants: nothing is removed but what has expired; the whole Vec is removed; the last
\* lease is popped instead of the first.
CompleteExpired(h) ==
  /\ call[h].op = "complete"
  /\ call[h].provider # BadName
  /\ leases' = Keep(DOMAIN leases \ (LeasesOf(CompletionKey(call[h])) \ Kept(h)))
  /\ Answer(h, Proceeds(call[h].now, "completed", 0))
  /\ UNCHANGED <<snapshots, granted>>

CompleteAll(h) ==
  /\ call[h].op = "complete"
  /\ call[h].provider # BadName
  /\ leases' = Keep(DOMAIN leases \ LeasesOf(CompletionKey(call[h])))
  /\ Answer(h, Proceeds(call[h].now, "completed", 0))
  /\ UNCHANGED <<snapshots, granted>>

CompleteNewest(h) ==
  /\ call[h].op = "complete"
  /\ call[h].provider # BadName
  /\ LET own  == LeasesOf(CompletionKey(call[h]))
         live == own \cap Unexpired(call[h].now)
         last == {g \in live : \A other \in live : g >= other}
     IN leases' = Keep(DOMAIN leases \ ((own \ live) \cup last))
  /\ Answer(h, Proceeds(call[h].now, "completed", 0))
  /\ UNCHANGED <<snapshots, granted>>

\* complete: prune this key alone, then drop the first lease left in its Vec.
Complete(h) ==
  /\ call[h].op = "complete"
  /\ call[h].provider # BadName
  /\ LET own  == LeasesOf(CompletionKey(call[h]))
         live == own \cap Unexpired(call[h].now)
         dropped == IF live = {} THEN own ELSE (own \ live) \cup {Oldest(live)}
     IN leases' = Keep(DOMAIN leases \ dropped)
  /\ Answer(h, Proceeds(call[h].now, "completed", 0))
  /\ UNCHANGED <<snapshots, granted>>

\* The response leaves, or the connection is gone and nobody reads it.
Deliver(h) ==
  /\ reply[h].decision # "none"
  /\ reply' = [reply EXCEPT ![h] = NoReply]
  /\ UNCHANGED <<snapshots, leases, granted, call>>

\* The poll loop replaces the whole table; a reload installs an empty one.
UpdateSnapshots(table) ==
  /\ snapshots' = table
  /\ UNCHANGED <<leases, granted, call, reply>>

\* One unit of time passes.
Tick ==
  /\ \A h \in Handler : call[h].op # "none" => call[h].now > -MaxLag
  /\ snapshots' = [k \in Key |-> [snapshots[k] EXCEPT !.reset = IF @ > 0 THEN @ - 1 ELSE 0]]
  /\ leases' = [g \in DOMAIN leases |-> [leases[g] EXCEPT !.expires = Older(@)]]
  /\ call' = [h \in Handler |-> [call[h] EXCEPT !.now = Older(@)]]
  /\ reply' = [h \in Handler |-> [reply[h] EXCEPT !.start = Older(@)]]
  /\ UNCHANGED granted

Serve(h) ==
  \/ RefuseName(h) \/ DelayAtLimit(h) \/ DelayForCapacity(h) \/ Grant(h)
  \/ CompleteNothing(h) \/ Complete(h)

Next ==
  \/ \E h \in Handler :
       \/ \E op \in {"admit", "complete"}, request \in Requests : Arrive(h, op, request)
       \/ Serve(h)
       \/ Deliver(h)
  \/ \E table \in Polls : UpdateSnapshots(table)
  \/ Tick

Spec == Init /\ [][Next]_vars

-----------------------------------------------------------------------------
\* Every variable has its type, and the table holds only leases that were granted.
TypeOK ==
  /\ snapshots \in [Key -> Snapshot]
  /\ granted \in Nat
  /\ DOMAIN leases \subseteq 1..granted
  /\ leases \in [DOMAIN leases -> Lease]
  /\ call \in [Handler -> Call]
  /\ reply \in [Handler -> Reply]

\* max_concurrent: no key ever has more leases in the table than the limit, whatever
\* order the handlers lock in and however stale the clocks they read are.
ConcurrencyLimit == \A k \in Key : Cardinality(LeasesOf(k)) <= MaxConcurrent

\* A lease is live while its expiry lies in the future.
Live(k) == {g \in LeasesOf(k) : leases[g].expires > 0}

\* Lease g of key k was the oldest live lease of its key, a completion for that key is
\* what this step is, and no other live lease went with it.
CompletionTook(g, k) ==
  /\ g = Oldest(Live(k))
  /\ \E h \in Handler : /\ call[h].op = "complete" /\ call'[h].op = "none"
                        /\ CompletionKey(call[h]) = k
  /\ \A j \in Key : Live(j) \ {g} \subseteq DOMAIN leases'

\* A live lease leaves the table only in a completion for its own key, which takes the
\* oldest live lease of that key and no other: no pruning, by an admission for any key
\* or by the completion itself, takes a lease that still protects its caller.
LiveLeaseLeavesByCompletion ==
  [][\A k \in Key : \A g \in Live(k) : g \notin DOMAIN leases' => CompletionTook(g, k)]_vars

\* A caller is told that its key is full only if max_concurrent leases of the key were
\* unexpired when its handler read the clock: dead leases never keep anyone out.
LimitDelayIsJustified ==
  [][\A h \in Handler :
       reply'[h].reason = "limit" /\ reply[h].reason = "none" =>
         Cardinality({g \in LeasesOf(KeyOf(call[h])) : leases[g].expires > call[h].now})
           >= MaxConcurrent]_vars

\* A caller delayed until a quota reset is never told to start after that reset: the
\* response adds a delay measured at decision time to a clock read before it.
NoOversleep ==
  [][\A h \in Handler :
       LET reset == SnapshotFor(KeyOf(call[h])).reset IN
       /\ reply'[h].reason = "capacity"
       /\ reply[h].reason = "none"
       /\ reset > 0
       => reply'[h].start \in (reset - MaxLag)..reset]_vars

\* No lease outlives the longest ttl, counted from now: an orphaned lease cannot pin a
\* slot for longer than estimate_lease_ttl allows.
LeaseHorizon == \A g \in DOMAIN leases : leases[g].expires <= MaxTtl

\* How long every lease still protects its caller: what the abstract pool can see.
TimeLeft == [k \in Key |-> LET live == Live(k) IN
               [g \in 1..MaxGrants |-> IF g \in live THEN leases[g].expires ELSE 0]]

\* What the controller promises whatever it computes inside: a pool of permits per key.
Pool == INSTANCE PermitPool WITH
          Limit <- MaxConcurrent, Permit <- 1..MaxGrants, MaxLife <- MaxTtl, left <- TimeLeft

\* The controller implements the permit pool: an admission acquires one permit below the
\* limit, a completion releases the oldest one, and nothing but time ends the others.
ImplementsPermitPool == Pool!Spec
=============================================================================
