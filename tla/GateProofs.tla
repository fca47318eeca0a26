----------------------------- MODULE GateProofs -----------------------------
(***************************************************************************)
(* What holds of callers and controller for every set of callers, handlers *)
(* and requests, every limit, and whatever is lost, late or restarted.     *)
(***************************************************************************)
EXTENDS GateClient, AdmissionProofs

\* A response names only leases that were granted, and an idle handler has none to name.
RepliesGranted ==
  \A h \in Handler : /\ reply[h].grant <= granted
                     /\ reply[h].decision = "none" => reply[h].grant = 0

\* Wherever an admission that is still open is remembered, its key is that of the request:
\* with its caller, in the response on the way to it, and in its completion.
KeysAgree ==
  /\ \A c \in Client :
       client[c].grant \in DOMAIN open => open[client[c].grant].key = KeyOf(RequestOf[c])
  /\ \A h \in Handler :
       /\ peer[h] # Nobody /\ call[h].op = "admit" => KeyOf(call[h]) = KeyOf(RequestOf[peer[h]])
       /\ peer[h] # Nobody /\ reply[h].grant \in DOMAIN open
            => open[reply[h].grant].key = KeyOf(RequestOf[peer[h]])
       /\ call[h].op = "complete" /\ paidBy[h] \in DOMAIN open
            => open[paidBy[h]].key = CompletionKey(call[h])

\* NoLeakedSlot, of all leases in the table: those that have expired are dropped with others.
EveryLeaseOpen == \A k \in Key : Cardinality(LeasesOf(k)) <= Cardinality(OpenFor(k))

\* What may still become a lease, or keeps a call from having got one.
Waiting == {c \in Client : client[c].stage = "waiting"}
Delays  == {h \in Handler : reply[h].decision = "delay" /\ peer[h] # Nobody}
Begun   == {c \in Client : client[c].stage # "ready"}

\* Each call that has begun is a lease, an admission under way, a delay on its way to its
\* caller, or a caller that waits, and one of these at most.
OneClaimPerCall ==
  granted + Cardinality(Admitting) + Cardinality(Waiting) + Cardinality(Delays)
    <= Cardinality(Begun)

GateInv == GateTypeOK /\ RepliesGranted /\ KeysAgree /\ EveryLeaseOpen /\ OneClaimPerCall

-----------------------------------------------------------------------------
\* Counting

LEMMA Finite ==
  ASSUME NEW S, IsFiniteSet(S), NEW T \in SUBSET S
  PROVE  IsFiniteSet(T) /\ Cardinality(T) \in Nat /\ Cardinality(T) <= Cardinality(S)
BY FS_Subset, FS_CardinalityType

\* A set that lost an element is smaller by one, or more.
LEMMA Without ==
  ASSUME NEW S, IsFiniteSet(S), NEW x \in S, NEW T \in SUBSET (S \ {x})
  PROVE  Cardinality(T) + 1 <= Cardinality(S)
<1>1. /\ IsFiniteSet(S \ {x}) /\ Cardinality(S \ {x}) = Cardinality(S) - 1
      /\ Cardinality(S) \in Nat
  BY FS_RemoveElement, FS_CardinalityType
<1>2. Cardinality(T) \in Nat /\ Cardinality(T) <= Cardinality(S \ {x})
  BY <1>1, Finite
<1>3. QED
  BY <1>1, <1>2

\* A set that gained an element is larger by one, or less.
LEMMA With ==
  ASSUME NEW S, IsFiniteSet(S), NEW x, NEW T \in SUBSET (S \cup {x})
  PROVE  Cardinality(T) <= Cardinality(S) + 1
<1>1. /\ IsFiniteSet(S \cup {x}) /\ Cardinality(S) \in Nat
      /\ Cardinality(S \cup {x}) <= Cardinality(S) + 1
  <2>1. Cardinality(S) \in Nat
    BY FS_CardinalityType
  <2>2. /\ IsFiniteSet(S \cup {x})
        /\ Cardinality(S \cup {x}) = IF x \in S THEN Cardinality(S) ELSE Cardinality(S) + 1
    BY FS_AddElement
  <2>3. QED
    BY <2>1, <2>2
<1>2. Cardinality(T) \in Nat /\ Cardinality(T) <= Cardinality(S \cup {x})
       /\ Cardinality(S \cup {x}) \in Nat
  BY <1>1, Finite, FS_CardinalityType
<1>3. QED
  BY <1>1, <1>2

-----------------------------------------------------------------------------
\* What the controller's actions do to what the callers see

\* A request that reaches a handler keeps the controller typed, wherever it comes from.
LEMMA ArrivalType ==
  ASSUME AdmissionAssumption, TypeOK,
         NEW h \in Handler, NEW op \in {"admit", "complete"}, NEW request \in Request,
         Arrive(h, op, request)
  PROVE  TypeOK'
<1>1. [op |-> op, provider |-> request.provider, model |-> request.model,
       tokens |-> request.tokens, now |-> 0] \in Call
  BY DEF Request, Call
<1>2. QED
  BY <1>1 DEF TypeOK, Arrive

\* What a caller asks for, and what it reports.
LEMMA RequestTypes ==
  ASSUME AdmissionAssumption, GateAssumption, NEW c \in Client
  PROVE  /\ RequestOf[c] \in Request
         /\ [RequestOf[c] EXCEPT !.tokens = 0] \in Request
         /\ [RequestOf[c] EXCEPT !.tokens = 0].provider = RequestOf[c].provider
         /\ [RequestOf[c] EXCEPT !.tokens = 0].model = RequestOf[c].model
BY DEF AdmissionAssumption, GateAssumption, Request

\* Every way out of a critical section but a grant and a completion.
LEMMA OtherAnswers ==
  ASSUME TypeOK, NEW h \in Handler, ServeOther(h)
  PROVE  /\ \E r : /\ Answer(h, r)
                   /\ r.grant = 0 /\ r.decision \in {"delay", "proceed"}
                   /\ r.decision = "delay" => call[h].op = "admit"
         /\ granted' = granted
         /\ DOMAIN leases' \subseteq DOMAIN leases
         /\ \A g \in DOMAIN leases' : leases'[g] = leases[g]
<1>1. CASE RefuseName(h)
  BY <1>1 DEF RefuseName, Delayed
<1>2. CASE DelayAtLimit(h)
  BY <1>2, KeptSubset DEF DelayAtLimit, ValidAdmit, Delayed, Keep
<1>3. CASE DelayForCapacity(h)
  <2>1. PICK r : /\ Answer(h, r)
                 /\ r.grant = 0 /\ r.decision = "delay"
    BY <1>3 DEF DelayForCapacity, Delayed
  <2>2. QED
    BY <1>3, <2>1, KeptSubset DEF DelayForCapacity, ValidAdmit, Keep
<1>4. CASE CompleteNothing(h)
  BY <1>4 DEF CompleteNothing, Proceeds
<1>5. QED
  BY <1>1, <1>2, <1>3, <1>4 DEF ServeOther

-----------------------------------------------------------------------------
\* Type correctness

LEMMA RestartType ==
  ASSUME AdmissionAssumption, TypeOK, Restart
  PROVE  TypeOK'
BY DEF AdmissionAssumption, Restart, TypeOK, Snapshot, Absent, Call, NoCall, Reply, NoReply,
       Lease

\* Every step of callers and controller keeps the controller typed.
LEMMA ControllerType ==
  ASSUME AdmissionAssumption, GateAssumption, TypeOK, [GateNext]_allVars
  PROVE  TypeOK'
<1>1. CASE UNCHANGED vars
  BY <1>1 DEF vars, TypeOK
<1>2. ASSUME NEW h \in Handler, Deliver(h)
      PROVE  TypeOK'
  BY <1>2, NextType DEF Next
<1>3. ASSUME NEW c \in Client, Ask(c) \/ Unreachable(c) \/ TimeOut(c) \/ Lose(c)
      PROVE  TypeOK'
  <2>1. CASE Ask(c)
    BY <2>1, RequestTypes, ArrivalType DEF Ask, Connect
  <2>2. CASE Unreachable(c) \/ TimeOut(c) \/ Lose(c)
    BY <1>1, <2>2 DEF Unreachable, TimeOut, OnError, Lose
  <2>3. QED
    BY <1>3, <2>1, <2>2
<1>4. ASSUME NEW c \in Client, Hear(c) \/ Report(c) \/ Reported(c)
      PROVE  TypeOK'
  <2>1. CASE Report(c)
    BY <2>1, RequestTypes, ArrivalType DEF Report, Connect
  <2>2. CASE Hear(c)
    BY <1>2, <2>2 DEF Hear
  <2>3. CASE Reported(c)
    BY <1>1, <1>2, <2>3 DEF Reported
  <2>4. QED
    BY <1>4, <2>1, <2>2, <2>3
<1>5. ASSUME NEW h \in Handler, Handle(h)
      PROVE  TypeOK'
  BY <1>5, NextType DEF Handle, ServeGrant, ServeCompletion, ServeOther, Next, Serve
<1>6. ASSUME NEW h \in Handler, Discard(h)
      PROVE  TypeOK'
  BY <1>2, <1>6 DEF Discard
<1>7. ASSUME NEW table \in Polls, Poll(table)
      PROVE  TypeOK'
  BY <1>7, NextType DEF Poll, Next
<1>8. CASE Restart
  BY <1>8, RestartType
<1>9. CASE Elapse
  BY <1>9, TickType DEF Elapse
<1>10. QED
  BY <1>1, <1>3, <1>4, <1>5, <1>6, <1>7, <1>8, <1>9 DEF GateNext, allVars, vars

LEMMA InitGateType == AdmissionAssumption /\ GateAssumption /\ GateInit => GateTypeOK
<1> SUFFICES ASSUME AdmissionAssumption, GateAssumption, GateInit
             PROVE  GateTypeOK
  OBVIOUS
<1>1. TypeOK /\ granted = 0
  BY InitType DEF GateInit, Init
<1>2. QED
  BY <1>1 DEF GateInit, GateTypeOK, GateAssumption, Stage

\* Whoever leaves the request it sent behind leaves no connection either.
LEMMA AbandonType ==
  ASSUME GateTypeOK, NEW c \in Client, Abandon(c), NEW new,
         client' = [client EXCEPT ![c] = new]
  PROVE  /\ peer' \in [Handler -> Client \cup {Nobody}]
         /\ \A h \in Handler : /\ peer'[h] # Nobody => peer'[h] = peer[h] /\ peer[h] # c
                              /\ peer[h] = Nobody => peer'[h] = Nobody
         /\ \A h \in Handler :
              peer'[h] # Nobody => client'[peer'[h]].stage \in {"asking", "reporting"}
BY DEF GateTypeOK, Abandon

LEMMA ErrorType ==
  ASSUME GateAssumption, GateTypeOK, TypeOK', NEW c \in Client, OnError(c)
  PROVE  GateTypeOK'
<1> DEFINE stage == IF c \in Fallback THEN "working" ELSE "failed"
<1>1. client' = [client EXCEPT ![c] = [client[c] EXCEPT !.stage = stage]]
  BY DEF OnError, MoveTo, GateTypeOK
<1>2. client' \in [Client -> [stage : Stage, sleep : Nat, grant : 0..granted]]
  BY <1>1 DEF GateTypeOK, Stage
<1>3. Abandon(c) /\ UNCHANGED <<vars, paidBy, open, stray, restarts>>
  BY DEF OnError
<1>4. QED
  BY <1>1, <1>2, <1>3, AbandonType DEF GateTypeOK, vars

\* Asking and reporting: the connection is new, and the caller's only one.
LEMMA ConnectType ==
  ASSUME GateTypeOK, NEW c \in Client, NEW h \in Handler, NEW op, NEW request,
         NEW stage \in {"asking", "reporting"},
         Connect(c, h, op, request), MoveTo(c, stage)
  PROVE  /\ client' \in [Client -> [stage : Stage, sleep : Nat, grant : 0..granted]]
         /\ peer' \in [Handler -> Client \cup {Nobody}]
         /\ \A g \in Handler :
              peer'[g] # Nobody => client'[peer'[g]].stage \in {"asking", "reporting"}
<1>1. client' = [client EXCEPT ![c] = [client[c] EXCEPT !.stage = stage]]
  BY DEF MoveTo, GateTypeOK
<1>2. client' \in [Client -> [stage : Stage, sleep : Nat, grant : 0..granted]]
  BY <1>1 DEF GateTypeOK, Stage
<1>3. QED
  BY <1>1, <1>2 DEF Connect, GateTypeOK

LEMMA CallerType ==
  ASSUME GateAssumption, GateTypeOK, RepliesGranted, TypeOK', NEW c \in Client,
         Ask(c) \/ Unreachable(c) \/ TimeOut(c) \/ Hear(c) \/ Report(c) \/ Lose(c) \/ Reported(c)
  PROVE  GateTypeOK'
<1>1. CASE Ask(c)
  <2>1. PICK h \in Handler : Connect(c, h, "admit", RequestOf[c])
    BY <1>1 DEF Ask
  <2>2. granted' = granted
    BY <2>1 DEF Connect, Arrive
  <2>3. QED
    BY <1>1, <2>1, <2>2, ConnectType DEF Ask, GateTypeOK
<1>2. CASE Unreachable(c) \/ TimeOut(c)
  BY <1>2, ErrorType DEF Unreachable, TimeOut
<1>3. CASE Hear(c)
  <2>1. PICK h \in Handler : /\ peer[h] = c
                            /\ Deliver(h)
                            /\ client' = [client EXCEPT ![c] =
                                 IF reply[h].decision = "proceed"
                                 THEN [stage |-> "working", sleep |-> 0, grant |-> reply[h].grant]
                                 ELSE [stage |-> "waiting", sleep |-> SleepFor(reply[h]), grant |-> 0]]
    BY <1>3 DEF Hear
  <2>2. reply[h] \in Reply /\ reply[h].grant \in 0..granted
    BY DEF GateTypeOK, TypeOK, Reply, RepliesGranted
  <2>3. SleepFor(reply[h]) \in Nat
    BY <2>2 DEF SleepFor, Reply
  <2>4. client' \in [Client -> [stage : Stage, sleep : Nat, grant : 0..granted]]
    <3>1. 0 \in 0..granted
      BY DEF GateTypeOK, TypeOK
    <3>2. QED
      BY <2>1, <2>2, <2>3, <3>1 DEF GateTypeOK, Stage
  <2>5. Abandon(c) /\ granted' = granted /\ UNCHANGED <<paidBy, open, stray, restarts>>
    BY <1>3, <2>1 DEF Hear, Deliver
  <2>6. QED
    BY <2>1, <2>4, <2>5, AbandonType DEF GateTypeOK
<1>4. CASE Report(c)
  <2>1. PICK h \in Handler : /\ Connect(c, h, "complete", [RequestOf[c] EXCEPT !.tokens = 0])
                            /\ paidBy' = [paidBy EXCEPT ![h] = client[c].grant]
    BY <1>4 DEF Report
  <2>2. granted' = granted
    BY <2>1 DEF Connect, Arrive
  <2>3. paidBy' \in [Handler -> 0..granted]
    BY <2>1 DEF GateTypeOK
  <2>4. QED
    BY <1>4, <2>1, <2>2, <2>3, ConnectType DEF Report, GateTypeOK
<1>5. CASE Lose(c)
  <2>1. client' = [client EXCEPT ![c] = [client[c] EXCEPT !.stage = "done"]]
    BY <1>5 DEF Lose, MoveTo, GateTypeOK
  <2>2. client' \in [Client -> [stage : Stage, sleep : Nat, grant : 0..granted]]
    BY <2>1 DEF GateTypeOK, Stage
  <2>3. QED
    BY <1>5, <2>1, <2>2 DEF Lose, GateTypeOK, vars
<1>6. CASE Reported(c)
  <2>1. client' = [client EXCEPT ![c] = [client[c] EXCEPT !.stage = "done"]]
    BY <1>6 DEF Reported, MoveTo, GateTypeOK
  <2>2. client' \in [Client -> [stage : Stage, sleep : Nat, grant : 0..granted]]
    BY <2>1 DEF GateTypeOK, Stage
  <2>3. Abandon(c) /\ granted' = granted /\ UNCHANGED <<paidBy, open, stray, restarts>>
    BY <1>6 DEF Reported, Deliver, vars
  <2>4. QED
    BY <2>1, <2>2, <2>3, AbandonType DEF GateTypeOK
<1>7. QED
  BY <1>1, <1>2, <1>3, <1>4, <1>5, <1>6

LEMMA GateTypeStep ==
  ASSUME AdmissionAssumption, GateAssumption, GateTypeOK, RepliesGranted, [GateNext]_allVars
  PROVE  GateTypeOK'
<1>1. TypeOK'
  BY ControllerType DEF GateTypeOK
<1>2. ASSUME NEW c \in Client,
             Ask(c) \/ Unreachable(c) \/ TimeOut(c) \/ Hear(c) \/ Report(c) \/ Lose(c) \/ Reported(c)
      PROVE  GateTypeOK'
  BY <1>1, <1>2, CallerType
<1>3. ASSUME NEW h \in Handler, ServeGrant(h)
      PROVE  GateTypeOK'
  <2>1. /\ granted \in Nat /\ granted' = granted + 1
        /\ KeyOf(call[h]) \in Key
        /\ granted' \in DOMAIN leases'
    BY <1>3, ValidKey DEF ServeGrant, Grant, GateTypeOK, TypeOK
  <2>2. leases'[granted'] \in Lease
    BY <1>1, <2>1 DEF TypeOK
  <2>3. Positive(leases'[granted'].expires) \in Nat
    BY <2>2 DEF Lease, Positive
  <2>4. /\ DOMAIN open' \subseteq 1..granted'
        /\ open' \in [DOMAIN open' -> [key : Key, left : Nat]]
    <3> DEFINE new == [key |-> KeyOf(call[h]), left |-> Positive(leases'[granted'].expires)]
    <3>1. open' = [g \in DOMAIN open \cup {granted'} |-> IF g = granted' THEN new ELSE open[g]]
      BY <1>3 DEF ServeGrant
    <3>2. new \in [key : Key, left : Nat]
      BY <2>1, <2>3
    <3>3. DOMAIN open \subseteq 1..granted /\ \A g \in DOMAIN open : open[g] \in [key : Key, left : Nat]
      BY DEF GateTypeOK
    <3> HIDE DEF new
    <3>4. QED
      BY <2>1, <3>1, <3>2, <3>3
  <2>5. /\ client' \in [Client -> [stage : Stage, sleep : Nat, grant : 0..granted']]
        /\ paidBy' \in [Handler -> 0..granted']
    <3>1. 0..granted \subseteq 0..granted'
      BY <2>1
    <3>2. QED
      BY <1>3, <3>1 DEF ServeGrant, GateTypeOK
  <2>6. QED
    BY <1>1, <1>3, <2>4, <2>5 DEF ServeGrant, GateTypeOK
<1>4. ASSUME NEW h \in Handler, ServeCompletion(h)
      PROVE  GateTypeOK'
  <2>1. /\ DOMAIN open' \subseteq DOMAIN open
        /\ open' \in [DOMAIN open' -> [key : Key, left : Nat]]
    BY <1>4 DEF ServeCompletion, GateTypeOK
  <2>2. stray' \in [Key -> Nat]
    <3>1. \/ stray' = stray
          \/ stray' = [stray EXCEPT ![CompletionKey(call[h])] = @ + 1]
      BY <1>4 DEF ServeCompletion
    <3>2. stray \in [Key -> Nat] /\ \A n \in Nat : n + 1 \in Nat
      BY DEF GateTypeOK
    <3>3. QED
      BY <3>1, <3>2
  <2>3. QED
    BY <1>1, <1>4, <2>1, <2>2 DEF ServeCompletion, Complete, GateTypeOK
<1>5. ASSUME NEW h \in Handler, ServeOther(h) \/ Discard(h)
      PROVE  GateTypeOK'
  <2>1. granted' = granted
    BY <1>5, OtherAnswers DEF GateTypeOK, Discard, Deliver
  <2>2. QED
    BY <1>1, <1>5, <2>1 DEF ServeOther, Discard, gateVars, GateTypeOK
<1>6. ASSUME NEW table \in Polls, Poll(table)
      PROVE  GateTypeOK'
  BY <1>1, <1>6 DEF Poll, UpdateSnapshots, gateVars, GateTypeOK
<1>7. CASE Restart
  BY <1>1, <1>7, GateAssumption DEF Restart, GateTypeOK, GateAssumption, TypeOK
<1>8. CASE Elapse
  <2>1. client' \in [Client -> [stage : Stage, sleep : Nat, grant : 0..granted]]
    <3>1. ASSUME NEW c \in Client
          PROVE  [client[c] EXCEPT !.sleep = Positive(@ - 1)]
                   \in [stage : Stage, sleep : Nat, grant : 0..granted]
      <4>1. client[c] \in [stage : Stage, sleep : Nat, grant : 0..granted]
        BY DEF GateTypeOK
      <4>2. Positive(client[c].sleep - 1) \in Nat
        BY <4>1 DEF Positive
      <4>3. QED
        BY <4>1, <4>2
    <3>2. QED
      BY <1>8, <3>1 DEF Elapse
  <2>2. /\ DOMAIN open' = DOMAIN open
        /\ open' \in [DOMAIN open' -> [key : Key, left : Nat]]
    BY <1>8 DEF Elapse, GateTypeOK, Positive
  <2>3. \A c \in Client : client'[c].stage = client[c].stage
    BY <1>8 DEF Elapse, GateTypeOK
  <2>4. QED
    BY <1>1, <1>8, <2>1, <2>2, <2>3 DEF Elapse, Tick, GateTypeOK
<1>9. CASE UNCHANGED allVars
  BY <1>1, <1>9 DEF allVars, vars, gateVars, GateTypeOK
<1>10. QED
  BY <1>2, <1>3, <1>4, <1>5, <1>6, <1>7, <1>8, <1>9 DEF GateNext, Handle

-----------------------------------------------------------------------------
\* Responses

\* A handler that answers has answered: the others keep their responses.
LEMMA AnswerGranted ==
  ASSUME GateTypeOK, RepliesGranted, NEW h \in Handler, NEW r, Answer(h, r),
         granted' \in Nat, granted <= granted',
         r.grant <= granted', r.decision # "none"
  PROVE  RepliesGranted'
<1> SUFFICES ASSUME NEW g \in Handler
             PROVE  /\ reply'[g].grant <= granted'
                    /\ reply'[g].decision = "none" => reply'[g].grant = 0
  BY DEF RepliesGranted
<1>1. reply[g].grant \in Nat /\ granted \in Nat /\ reply[g].grant <= granted
  BY DEF GateTypeOK, TypeOK, Reply, RepliesGranted
<1>2. reply'[g] = IF g = h THEN r ELSE reply[g]
  BY DEF Answer, GateTypeOK, TypeOK
<1>3. QED
  BY <1>1, <1>2 DEF RepliesGranted

LEMMA RepliesStep ==
  ASSUME AdmissionAssumption, GateAssumption, GateTypeOK, RepliesGranted, [GateNext]_allVars
  PROVE  RepliesGranted'
<1>0. granted \in Nat
  BY DEF GateTypeOK, TypeOK
<1>1. CASE UNCHANGED <<granted, reply>>
  BY <1>1 DEF RepliesGranted
<1>2. ASSUME NEW h \in Handler, Deliver(h)
      PROVE  RepliesGranted'
  BY <1>0, <1>2 DEF Deliver, RepliesGranted, NoReply, GateTypeOK, TypeOK
<1>3. ASSUME NEW c \in Client,
             Ask(c) \/ Unreachable(c) \/ TimeOut(c) \/ Hear(c) \/ Report(c) \/ Lose(c) \/ Reported(c)
      PROVE  RepliesGranted'
  <2>1. CASE Ask(c) \/ Report(c)
    BY <1>1, <2>1 DEF Ask, Report, Connect, Arrive
  <2>2. CASE Unreachable(c) \/ TimeOut(c) \/ Lose(c)
    BY <1>1, <2>2 DEF Unreachable, TimeOut, Lose, OnError, vars
  <2>3. CASE Hear(c)
    BY <1>2, <2>3 DEF Hear
  <2>4. CASE Reported(c)
    BY <1>1, <1>2, <2>4 DEF Reported, vars
  <2>5. QED
    BY <1>3, <2>1, <2>2, <2>3, <2>4
<1>4. ASSUME NEW h \in Handler, ServeGrant(h)
      PROVE  RepliesGranted'
  <2>1. /\ granted' = granted + 1
        /\ Answer(h, Proceeds(call[h].now, "admitted", granted + 1))
    BY <1>4 DEF ServeGrant, Grant
  <2>2. QED
    BY <1>0, <2>1, AnswerGranted DEF Proceeds
<1>5. ASSUME NEW h \in Handler, ServeCompletion(h)
      PROVE  RepliesGranted'
  <2>1. granted' = granted /\ Answer(h, Proceeds(call[h].now, "completed", 0))
    BY <1>5 DEF ServeCompletion, Complete
  <2>2. QED
    BY <1>0, <2>1, AnswerGranted DEF Proceeds
<1>6. ASSUME NEW h \in Handler, ServeOther(h)
      PROVE  RepliesGranted'
  BY <1>0, <1>6, OtherAnswers, AnswerGranted DEF GateTypeOK
<1>7. CASE Restart
  BY <1>0, <1>7 DEF Restart, RepliesGranted, NoReply
<1>8. CASE Elapse
  <2>1. granted' = granted /\ reply' = [h \in Handler |-> [reply[h] EXCEPT !.start = Older(@)]]
    BY <1>8 DEF Elapse, Tick
  <2>2. \A h \in Handler : reply[h] \in Reply
    BY DEF GateTypeOK, TypeOK
  <2>3. \A h \in Handler : /\ reply'[h].grant = reply[h].grant
                          /\ reply'[h].decision = reply[h].decision
    BY <2>1, <2>2 DEF Reply
  <2>4. QED
    BY <2>1, <2>3 DEF RepliesGranted
<1>9. QED
  BY <1>1, <1>2, <1>3, <1>4, <1>5, <1>6, <1>7, <1>8
     DEF GateNext, Handle, Discard, Poll, UpdateSnapshots, allVars, vars

-----------------------------------------------------------------------------
\* Keys

\* A connection that stays has the reader it had: what agreed still does, if nothing else
\* changed but admissions that are no longer open.
LEMMA KeysKept ==
  ASSUME GateTypeOK, KeysAgree,
         \A c \in Client : client'[c].grant = client[c].grant \/ client'[c].grant \notin DOMAIN open',
         \A h \in Handler : peer'[h] # Nobody => peer'[h] = peer[h],
         \A h \in Handler : call'[h].op # "none" =>
           /\ call'[h].op = call[h].op
           /\ KeyOf(call'[h]) = KeyOf(call[h]) /\ CompletionKey(call'[h]) = CompletionKey(call[h]),
         \A h \in Handler : reply'[h].grant = reply[h].grant \/ reply'[h].grant \notin DOMAIN open',
         \A h \in Handler : paidBy'[h] = paidBy[h] \/ paidBy'[h] \notin DOMAIN open',
         DOMAIN open' \subseteq DOMAIN open,
         \A g \in DOMAIN open' : open'[g].key = open[g].key
  PROVE  KeysAgree'
<1>1. \A c \in Client :
        client'[c].grant \in DOMAIN open' => open'[client'[c].grant].key = KeyOf(RequestOf[c])
  BY DEF KeysAgree
<1>2. ASSUME NEW h \in Handler, peer'[h] # Nobody, call'[h].op = "admit"
      PROVE  KeyOf(call'[h]) = KeyOf(RequestOf[peer'[h]])
  BY <1>2 DEF KeysAgree
<1>3. ASSUME NEW h \in Handler, peer'[h] # Nobody, reply'[h].grant \in DOMAIN open'
      PROVE  open'[reply'[h].grant].key = KeyOf(RequestOf[peer'[h]])
  BY <1>3 DEF KeysAgree
<1>4. ASSUME NEW h \in Handler, call'[h].op = "complete", paidBy'[h] \in DOMAIN open'
      PROVE  open'[paidBy'[h]].key = CompletionKey(call'[h])
  BY <1>4 DEF KeysAgree
<1>5. QED
  BY <1>1, <1>2, <1>3, <1>4 DEF KeysAgree


\* A caller that moves on keeps what it knows of its grant.
LEMMA MoveKeepsGrant ==
  ASSUME GateTypeOK, NEW c \in Client, NEW stage, MoveTo(c, stage)
  PROVE  \A d \in Client : client'[d].grant = client[d].grant
<1>1. \A d \in Client : client[d] \in [stage : Stage, sleep : Nat, grant : 0..granted]
  BY DEF GateTypeOK
<1>2. QED
  BY <1>1 DEF MoveTo, GateTypeOK

\* No admission has the number 0, which stands for none.
LEMMA NoneIsNotOpen ==
  ASSUME GateTypeOK
  PROVE  0 \notin DOMAIN open
BY DEF GateTypeOK, TypeOK

\* A caller that connects to a handler: the handler had no response to leave behind.
LEMMA ConnectKeys ==
  ASSUME AdmissionAssumption, GateAssumption, GateTypeOK, RepliesGranted, KeysAgree,
         NEW c \in Client, Ask(c) \/ Report(c)
  PROVE  KeysAgree'
<1>1. \A d \in Client : client'[d].grant = client[d].grant
  BY MoveKeepsGrant DEF Ask, Report
<1>2. PICK h \in Handler :
        /\ peer' = [peer EXCEPT ![h] = c] /\ Idle(h)
        /\ UNCHANGED <<reply, open>>
        /\ \/ /\ call' = [call EXCEPT ![h] =
                   [op |-> "admit", provider |-> RequestOf[c].provider,
                    model |-> RequestOf[c].model, tokens |-> RequestOf[c].tokens, now |-> 0]]
              /\ UNCHANGED paidBy
           \/ /\ call' = [call EXCEPT ![h] =
                   [op |-> "complete", provider |-> RequestOf[c].provider,
                    model |-> RequestOf[c].model, tokens |-> 0, now |-> 0]]
              /\ paidBy' = [paidBy EXCEPT ![h] = client[c].grant]
  <2>1. CASE Ask(c)
    BY <2>1 DEF Ask, Connect, Arrive
  <2>2. CASE Report(c)
    <3>1. PICK h \in Handler : /\ Connect(c, h, "complete", [RequestOf[c] EXCEPT !.tokens = 0])
                              /\ paidBy' = [paidBy EXCEPT ![h] = client[c].grant]
      BY <2>2 DEF Report
    <3>2. [RequestOf[c] EXCEPT !.tokens = 0].tokens = 0
      BY DEF AdmissionAssumption, GateAssumption, Request
    <3>3. QED
      BY <2>2, <3>1, <3>2, RequestTypes DEF Report, Connect, Arrive
  <2>3. QED
    BY <2>1, <2>2
<1>3. reply[h].grant = 0 /\ 0 \notin DOMAIN open
  BY <1>2, NoneIsNotOpen DEF Idle, RepliesGranted
<1>4. KeyOf(RequestOf[c]) = <<RequestOf[c].provider, RequestOf[c].model>>
  BY DEF KeyOf
<1>5. ASSUME NEW g \in Handler, g # h
      PROVE  call'[g] = call[g] /\ peer'[g] = peer[g] /\ paidBy'[g] = paidBy[g]
  BY <1>2, <1>5 DEF GateTypeOK, TypeOK
<1>6. ASSUME NEW g \in Handler, peer'[g] # Nobody, call'[g].op = "admit"
      PROVE  KeyOf(call'[g]) = KeyOf(RequestOf[peer'[g]])
  <2>1. CASE g = h
    BY <1>2, <1>4, <1>6, <2>1 DEF GateTypeOK, TypeOK, KeyOf
  <2>2. CASE g # h
    BY <1>5, <1>6, <2>2 DEF KeysAgree
  <2>3. QED
    BY <2>1, <2>2
<1>7. ASSUME NEW g \in Handler, peer'[g] # Nobody, reply'[g].grant \in DOMAIN open'
      PROVE  open'[reply'[g].grant].key = KeyOf(RequestOf[peer'[g]])
  BY <1>2, <1>3, <1>5, <1>7 DEF KeysAgree
<1>8. ASSUME NEW g \in Handler, call'[g].op = "complete", paidBy'[g] \in DOMAIN open'
      PROVE  open'[paidBy'[g]].key = CompletionKey(call'[g])
  <2>1. CASE g = h
    <3>1. /\ call'[h].op = "complete" /\ paidBy'[h] = client[c].grant
          /\ call'[h].provider = RequestOf[c].provider /\ call'[h].model = RequestOf[c].model
      BY <1>2, <1>8, <2>1 DEF GateTypeOK, TypeOK
    <3>2. open[client[c].grant].key = KeyOf(RequestOf[c]) /\ client[c].grant \in DOMAIN open
      BY <1>2, <1>8, <2>1, <3>1 DEF KeysAgree
    <3>3. open[client[c].grant].key \in Key
      BY <3>2 DEF GateTypeOK
    <3>4. RequestOf[c].model # BadName
      BY <1>4, <3>2, <3>3 DEF Key, AdmissionAssumption
    <3>5. QED
      BY <1>2, <1>4, <2>1, <3>1, <3>2, <3>4 DEF CompletionKey
  <2>2. CASE g # h
    BY <1>2, <1>5, <1>8, <2>2 DEF KeysAgree
  <2>3. QED
    BY <2>1, <2>2
<1>9. QED
  BY <1>1, <1>2, <1>6, <1>7, <1>8 DEF KeysAgree

\* A response takes the grant to the caller whose request it answers.
LEMMA HearKeys ==
  ASSUME GateAssumption, GateTypeOK, KeysAgree, NEW c \in Client, Hear(c)
  PROVE  KeysAgree'
<1>1. PICK h \in Handler :
        /\ peer[h] = c
        /\ Deliver(h)
        /\ client' = [client EXCEPT ![c] =
             IF reply[h].decision = "proceed"
             THEN [stage |-> "working", sleep |-> 0, grant |-> reply[h].grant]
             ELSE [stage |-> "waiting", sleep |-> SleepFor(reply[h]), grant |-> 0]]
  BY DEF Hear
<1>2. UNCHANGED <<call, paidBy, open>> /\ reply' = [reply EXCEPT ![h] = NoReply]
  BY <1>1 DEF Hear, Deliver
<1>3. 0 \notin DOMAIN open /\ NoReply.grant = 0 /\ c # Nobody
  BY NoneIsNotOpen DEF NoReply, GateAssumption
<1>4. \A g \in Handler : peer'[g] # Nobody => peer'[g] = peer[g]
  BY DEF Hear, Abandon, GateTypeOK
<1>5. \A g \in Handler : reply'[g].grant \in DOMAIN open => reply'[g] = reply[g]
  BY <1>2, <1>3 DEF GateTypeOK, TypeOK
<1>6. ASSUME NEW d \in Client, client'[d].grant \in DOMAIN open
      PROVE  open[client'[d].grant].key = KeyOf(RequestOf[d])
  <2>1. CASE d = c
    <3>1. client'[c].grant = reply[h].grant
      BY <1>1, <1>3, <1>6, <2>1 DEF GateTypeOK
    <3>2. QED
      BY <1>1, <1>3, <1>6, <2>1, <3>1 DEF KeysAgree
  <2>2. CASE d # c
    BY <1>1, <1>6, <2>2 DEF GateTypeOK, KeysAgree
  <2>3. QED
    BY <2>1, <2>2
<1>7. ASSUME NEW g \in Handler, peer'[g] # Nobody, reply'[g].grant \in DOMAIN open'
      PROVE  open'[reply'[g].grant].key = KeyOf(RequestOf[peer'[g]])
  BY <1>2, <1>4, <1>5, <1>7 DEF KeysAgree
<1>8. QED
  BY <1>2, <1>4, <1>6, <1>7 DEF KeysAgree

\* A new admission has a number nobody has seen before, and is in one response.
LEMMA GrantKeys ==
  ASSUME GateTypeOK, RepliesGranted, KeysAgree, NEW h \in Handler, ServeGrant(h)
  PROVE  KeysAgree'
<1>1. /\ call[h].op = "admit" /\ granted \in Nat /\ granted' = granted + 1
      /\ call' = [call EXCEPT ![h] = NoCall]
      /\ reply' = [reply EXCEPT ![h] = Proceeds(call[h].now, "admitted", granted + 1)]
      /\ UNCHANGED <<client, peer, paidBy>>
  BY DEF ServeGrant, Grant, ValidAdmit, Answer, GateTypeOK, TypeOK
<1>2. /\ DOMAIN open' = DOMAIN open \cup {granted + 1}
      /\ open'[granted + 1].key = KeyOf(call[h])
      /\ \A g \in DOMAIN open : g # granted + 1 => open'[g] = open[g]
  BY <1>1 DEF ServeGrant
<1>3. \A n \in 0..granted : n # granted + 1 /\ (n \in DOMAIN open' => n \in DOMAIN open /\ open'[n] = open[n])
  BY <1>1, <1>2
<1>4. ASSUME NEW c \in Client, client'[c].grant \in DOMAIN open'
      PROVE  open'[client'[c].grant].key = KeyOf(RequestOf[c])
  BY <1>1, <1>3, <1>4 DEF GateTypeOK, KeysAgree
<1>5. ASSUME NEW g \in Handler
      PROVE  /\ call'[g].op # "none" => call'[g] = call[g]
             /\ g # h => reply'[g] = reply[g]
             /\ reply'[h].grant = granted + 1
             /\ reply[g].grant \in 0..granted /\ paidBy[g] \in 0..granted
  BY <1>1 DEF GateTypeOK, TypeOK, NoCall, Proceeds, Reply, RepliesGranted
<1>6. ASSUME NEW g \in Handler, peer'[g] # Nobody, reply'[g].grant \in DOMAIN open'
      PROVE  open'[reply'[g].grant].key = KeyOf(RequestOf[peer'[g]])
  <2>1. CASE g = h
    BY <1>1, <1>2, <1>5, <1>6, <2>1 DEF KeysAgree
  <2>2. CASE g # h
    BY <1>1, <1>3, <1>5, <1>6, <2>2 DEF KeysAgree
  <2>3. QED
    BY <2>1, <2>2
<1>7. ASSUME NEW g \in Handler, call'[g].op = "complete", paidBy'[g] \in DOMAIN open'
      PROVE  open'[paidBy'[g]].key = CompletionKey(call'[g])
  BY <1>1, <1>3, <1>5, <1>7 DEF KeysAgree
<1>8. ASSUME NEW g \in Handler, peer'[g] # Nobody, call'[g].op = "admit"
      PROVE  KeyOf(call'[g]) = KeyOf(RequestOf[peer'[g]])
  BY <1>1, <1>5, <1>8 DEF KeysAgree
<1>9. QED
  BY <1>4, <1>6, <1>7, <1>8 DEF KeysAgree

\* A handler that answers with no grant.
LEMMA AnswerKeys ==
  ASSUME GateTypeOK, KeysAgree, NEW h \in Handler, NEW r, Answer(h, r), r.grant = 0,
         UNCHANGED <<client, peer, paidBy>>,
         DOMAIN open' \subseteq DOMAIN open,
         \A g \in DOMAIN open' : open'[g].key = open[g].key
  PROVE  KeysAgree'
<1>1. 0 \notin DOMAIN open'
  BY NoneIsNotOpen
<1>2. ASSUME NEW g \in Handler
      PROVE  /\ call'[g].op # "none" => call'[g] = call[g]
             /\ reply'[g].grant = reply[g].grant \/ reply'[g].grant = 0
  BY DEF Answer, GateTypeOK, TypeOK, NoCall
<1>3. QED
  BY <1>1, <1>2, KeysKept

LEMMA KeysStep ==
  ASSUME AdmissionAssumption, GateAssumption, GateTypeOK, RepliesGranted, KeysAgree,
         [GateNext]_allVars
  PROVE  KeysAgree'
<1>1. ASSUME NEW c \in Client, Abandon(c),
             \A d \in Client : client'[d].grant = client[d].grant,
             UNCHANGED <<call, paidBy, open>>,
             \A h \in Handler : reply'[h].grant = reply[h].grant \/ reply'[h].grant = 0
      PROVE  KeysAgree'
  <2>1. \A h \in Handler : peer'[h] # Nobody => peer'[h] = peer[h]
    BY <1>1 DEF Abandon, GateTypeOK
  <2>2. QED
    BY <1>1, <2>1, KeysKept, NoneIsNotOpen
<1>2. ASSUME NEW h \in Handler, Deliver(h)
      PROVE  call' = call /\ \A g \in Handler : reply'[g].grant = reply[g].grant \/ reply'[g].grant = 0
  BY <1>2 DEF Deliver, NoReply, GateTypeOK, TypeOK
<1>3. ASSUME NEW c \in Client,
             Ask(c) \/ Unreachable(c) \/ TimeOut(c) \/ Hear(c) \/ Report(c) \/ Lose(c) \/ Reported(c)
      PROVE  KeysAgree'
  <2>1. CASE Ask(c) \/ Report(c)
    BY <2>1, ConnectKeys
  <2>2. CASE Unreachable(c) \/ TimeOut(c)
    BY <1>1, <2>2, MoveKeepsGrant DEF Unreachable, TimeOut, OnError, vars
  <2>3. CASE Hear(c)
    BY <2>3, HearKeys
  <2>4. CASE Lose(c)
    BY <2>4, MoveKeepsGrant, KeysKept DEF Lose, vars
  <2>5. CASE Reported(c)
    <3>1. UNCHANGED vars \/ \E h \in Handler : Deliver(h)
      BY <2>5 DEF Reported
    <3>2. call' = call /\ \A g \in Handler : reply'[g].grant = reply[g].grant \/ reply'[g].grant = 0
      BY <1>2, <3>1 DEF vars
    <3>3. QED
      BY <1>1, <2>5, <3>2, MoveKeepsGrant DEF Reported
  <2>6. QED
    BY <1>3, <2>1, <2>2, <2>3, <2>4, <2>5
<1>4. ASSUME NEW h \in Handler, ServeCompletion(h)
      PROVE  KeysAgree'
  <2>1. Answer(h, Proceeds(call[h].now, "completed", 0)) /\ UNCHANGED <<client, peer, paidBy>>
    BY <1>4 DEF ServeCompletion, Complete
  <2>2. DOMAIN open' \subseteq DOMAIN open /\ \A g \in DOMAIN open' : open'[g].key = open[g].key
    BY <1>4 DEF ServeCompletion
  <2>3. QED
    BY <2>1, <2>2, AnswerKeys DEF Proceeds
<1>5. ASSUME NEW h \in Handler, ServeOther(h)
      PROVE  KeysAgree'
  <2>1. PICK r : Answer(h, r) /\ r.grant = 0
    BY <1>5, OtherAnswers DEF GateTypeOK
  <2>2. QED
    BY <1>5, <2>1, AnswerKeys DEF ServeOther, gateVars
<1>6. ASSUME NEW h \in Handler, Discard(h)
      PROVE  KeysAgree'
  BY <1>2, <1>6, KeysKept, NoneIsNotOpen DEF Discard, gateVars
<1>7. ASSUME NEW table \in Polls, Poll(table)
      PROVE  KeysAgree'
  BY <1>7, KeysKept DEF Poll, UpdateSnapshots, gateVars
<1>8. CASE Restart
  BY <1>8 DEF Restart, KeysAgree, NoCall
<1>9. CASE Elapse
  <2>1. \A c \in Client : client'[c].grant = client[c].grant
    BY <1>9 DEF Elapse, GateTypeOK
  <2>2. ASSUME NEW h \in Handler
        PROVE  /\ call'[h].op = call[h].op
               /\ KeyOf(call'[h]) = KeyOf(call[h]) /\ CompletionKey(call'[h]) = CompletionKey(call[h])
               /\ reply'[h].grant = reply[h].grant
    <3>1. call'[h] = [call[h] EXCEPT !.now = Older(@)] /\ reply'[h] = [reply[h] EXCEPT !.start = Older(@)]
      BY <1>9 DEF Elapse, Tick
    <3>2. call[h] \in Call /\ reply[h] \in Reply
      BY DEF GateTypeOK, TypeOK
    <3>3. /\ call'[h].op = call[h].op /\ call'[h].provider = call[h].provider
          /\ call'[h].model = call[h].model /\ reply'[h].grant = reply[h].grant
      BY <3>1, <3>2 DEF Call, Reply
    <3>4. QED
      BY <3>3 DEF KeyOf, CompletionKey
  <2>3. DOMAIN open' = DOMAIN open /\ \A g \in DOMAIN open' : open'[g].key = open[g].key
    BY <1>9 DEF Elapse, GateTypeOK
  <2>4. UNCHANGED <<peer, paidBy>>
    BY <1>9 DEF Elapse
  <2>5. QED
    BY <2>1, <2>2, <2>3, <2>4, KeysKept
<1>10. CASE UNCHANGED allVars
  BY <1>10, KeysKept DEF allVars, vars, gateVars
<1>11. ASSUME NEW h \in Handler, ServeGrant(h)
       PROVE  KeysAgree'
  BY <1>11, GrantKeys
<1>12. QED
  BY <1>3, <1>4, <1>5, <1>6, <1>7, <1>8, <1>9, <1>10, <1>11 DEF GateNext, Handle

-----------------------------------------------------------------------------
\* Slots

LEMMA FiniteOpen ==
  ASSUME GateTypeOK, NEW S \in SUBSET DOMAIN open
  PROVE  IsFiniteSet(S) /\ Cardinality(S) \in Nat
<1>1. 1 \in Int /\ granted \in Int
  BY DEF GateTypeOK, TypeOK
<1>2. IsFiniteSet(1..granted)
  BY <1>1, FS_Interval
<1>3. S \in SUBSET (1..granted)
  BY DEF GateTypeOK
<1>4. QED
  BY <1>2, <1>3, Finite

LEMMA SlotCounts ==
  ASSUME GateTypeOK, NEW k
  PROVE  /\ IsFiniteSet(LeasesOf(k)) /\ Cardinality(LeasesOf(k)) \in Nat
         /\ IsFiniteSet(OpenFor(k)) /\ Cardinality(OpenFor(k)) \in Nat
<1>1. LeasesOf(k) \in SUBSET DOMAIN leases /\ OpenFor(k) \in SUBSET DOMAIN open
  BY DEF LeasesOf, OpenFor
<1>2. QED
  BY <1>1, FiniteTable, FiniteOpen DEF GateTypeOK

\* A step that only drops leases of a key, and none of its open admissions.
LEMMA FewerSlots ==
  ASSUME GateTypeOK, EveryLeaseOpen, NEW k \in Key,
         LeasesOf(k)' \subseteq LeasesOf(k), OpenFor(k)' = OpenFor(k)
  PROVE  Cardinality(LeasesOf(k)') <= Cardinality(OpenFor(k)')
<1>1. /\ Cardinality(LeasesOf(k)') \in Nat
      /\ Cardinality(LeasesOf(k)') <= Cardinality(LeasesOf(k))
  BY SlotCounts, Finite
<1>2. QED
  BY <1>1, SlotCounts DEF EveryLeaseOpen

LEMMA SlotsKept ==
  ASSUME GateTypeOK, EveryLeaseOpen,
         DOMAIN leases' \subseteq DOMAIN leases,
         \A g \in DOMAIN leases' : leases'[g].key = leases[g].key,
         DOMAIN open' = DOMAIN open,
         \A g \in DOMAIN open : open'[g].key = open[g].key
  PROVE  EveryLeaseOpen'
<1> SUFFICES ASSUME NEW k \in Key
             PROVE  Cardinality(LeasesOf(k)') <= Cardinality(OpenFor(k)')
  BY DEF EveryLeaseOpen
<1>1. LeasesOf(k)' \subseteq LeasesOf(k) /\ OpenFor(k)' = OpenFor(k)
  BY DEF LeasesOf, OpenFor
<1>2. QED
  BY <1>1, FewerSlots

\* A grant is one lease more, and one open admission more, of the same key.
LEMMA GrantSlots ==
  ASSUME GateTypeOK, EveryLeaseOpen, NEW h \in Handler, ServeGrant(h)
  PROVE  EveryLeaseOpen'
<1> SUFFICES ASSUME NEW k \in Key
             PROVE  Cardinality(LeasesOf(k)') <= Cardinality(OpenFor(k)')
  BY DEF EveryLeaseOpen
<1>1. /\ granted \in Nat /\ granted + 1 \notin DOMAIN open
      /\ Kept(h) \subseteq DOMAIN leases
  BY KeptSubset DEF GateTypeOK, TypeOK
<1>2. /\ DOMAIN leases' = Kept(h) \cup {granted + 1}
      /\ leases'[granted + 1].key = KeyOf(call[h])
      /\ \A g \in DOMAIN leases' : g # granted + 1 => leases'[g] = leases[g]
  BY DEF ServeGrant, Grant
<1>3. /\ DOMAIN open' = DOMAIN open \cup {granted + 1}
      /\ open'[granted + 1].key = KeyOf(call[h])
      /\ \A g \in DOMAIN open : open'[g] = open[g]
  BY <1>1 DEF ServeGrant, Grant
<1>4. CASE k # KeyOf(call[h])
  <2>1. LeasesOf(k)' \subseteq LeasesOf(k)
    BY <1>1, <1>2, <1>4 DEF LeasesOf
  <2>2. OpenFor(k)' = OpenFor(k)
    BY <1>3, <1>4 DEF OpenFor
  <2>3. QED
    BY <2>1, <2>2, FewerSlots
<1>5. CASE k = KeyOf(call[h])
  <2>1. LeasesOf(k)' \in SUBSET (LeasesOf(k) \cup {granted + 1})
    BY <1>1, <1>2, <1>5 DEF LeasesOf
  <2>2. OpenFor(k)' = OpenFor(k) \cup {granted + 1} /\ granted + 1 \notin OpenFor(k)
    BY <1>1, <1>3, <1>5 DEF OpenFor
  <2>3. Cardinality(LeasesOf(k)') <= Cardinality(LeasesOf(k)) + 1
    BY <2>1, SlotCounts, With
  <2>4. Cardinality(OpenFor(k)') = Cardinality(OpenFor(k)) + 1
    BY <2>2, SlotCounts, FS_AddElement
  <2>5. Cardinality(LeasesOf(k)') \in Nat
    <3>1. IsFiniteSet(LeasesOf(k) \cup {granted + 1})
      BY SlotCounts, FS_AddElement
    <3>2. QED
      BY <2>1, <3>1, Finite
  <2>6. QED
    BY <2>3, <2>4, <2>5, SlotCounts DEF EveryLeaseOpen
<1>6. QED
  BY <1>4, <1>5

\* A completion closes one admission of its key at most, and drops a lease of that key if
\* there is any.
LEMMA CompletionSlots ==
  ASSUME GateTypeOK, KeysAgree, EveryLeaseOpen, NEW h \in Handler, ServeCompletion(h)
  PROVE  EveryLeaseOpen'
<1> SUFFICES ASSUME NEW k \in Key
             PROVE  Cardinality(LeasesOf(k)') <= Cardinality(OpenFor(k)')
  BY DEF EveryLeaseOpen
<1> DEFINE own  == LeasesOf(CompletionKey(call[h]))
           live == own \cap Unexpired(call[h].now)
           dropped == IF live = {} THEN own ELSE (own \ live) \cup {Oldest(live)}
<1>1. /\ call[h].op = "complete"
      /\ DOMAIN leases' = DOMAIN leases \ dropped
      /\ \A g \in DOMAIN leases' : leases'[g] = leases[g]
  BY DEF ServeCompletion, Complete, Keep
<1>2. /\ DOMAIN open' = DOMAIN open \ {paidBy[h]}
      /\ \A g \in DOMAIN open' : open'[g] = open[g]
  BY DEF ServeCompletion
<1>3. paidBy[h] \in DOMAIN open => open[paidBy[h]].key = CompletionKey(call[h])
  BY <1>1 DEF KeysAgree
<1>4. LeasesOf(k)' = LeasesOf(k) \ dropped
  BY <1>1 DEF LeasesOf
<1>5. OpenFor(k)' = OpenFor(k) \ {paidBy[h]}
  BY <1>2 DEF OpenFor
<1>6. CASE k # CompletionKey(call[h])
  <2>1. OpenFor(k)' = OpenFor(k)
    BY <1>3, <1>5, <1>6 DEF OpenFor
  <2>2. LeasesOf(k)' \subseteq LeasesOf(k)
    BY <1>4
  <2>3. QED
    BY <2>1, <2>2, FewerSlots
<1>7. CASE k = CompletionKey(call[h])
  <2>1. IsFiniteSet(OpenFor(k)') /\ Cardinality(OpenFor(k)') \in Nat
    BY <1>5, SlotCounts, Finite
  <2>2. CASE live = {}
    <3>1. LeasesOf(k)' = {}
      BY <1>4, <1>7, <2>2
    <3>2. QED
      BY <2>1, <3>1, FS_EmptySet
  <2>3. CASE live # {}
    <3>1. live \in SUBSET Nat
      BY DEF GateTypeOK, TypeOK, LeasesOf
    <3>2. Oldest(live) \in live
      BY <2>3, <3>1, OldestIsLeast
    <3>3. Oldest(live) \in LeasesOf(k) /\ LeasesOf(k)' \in SUBSET (LeasesOf(k) \ {Oldest(live)})
      BY <1>4, <1>7, <2>3, <3>2
    <3>4. Cardinality(LeasesOf(k)') + 1 <= Cardinality(LeasesOf(k))
      BY <3>3, SlotCounts, Without
    <3>5. OpenFor(k) \in SUBSET (OpenFor(k)' \cup {paidBy[h]})
      BY <1>5
    <3>6. Cardinality(OpenFor(k)) <= Cardinality(OpenFor(k)') + 1
      BY <2>1, <3>5, With
    <3>7. Cardinality(LeasesOf(k)') \in Nat
      BY <3>3, SlotCounts, Finite
    <3>8. QED
      BY <2>1, <3>4, <3>6, <3>7, SlotCounts DEF EveryLeaseOpen
  <2>4. QED
    BY <2>2, <2>3
<1>8. QED
  BY <1>6, <1>7

\* A step of a caller, or one that nobody serves, leaves leases and open admissions alone.
LEMMA TableKept ==
  ASSUME \/ \E c \in Client : \/ Ask(c) \/ Unreachable(c) \/ TimeOut(c) \/ Hear(c)
                              \/ Report(c) \/ Lose(c) \/ Reported(c)
         \/ \E h \in Handler : Discard(h)
         \/ \E table \in Polls : Poll(table)
         \/ UNCHANGED allVars
  PROVE  UNCHANGED <<leases, open, stray>>
<1>1. ASSUME NEW c \in Client,
             Ask(c) \/ Unreachable(c) \/ TimeOut(c) \/ Hear(c) \/ Report(c) \/ Lose(c) \/ Reported(c)
      PROVE  UNCHANGED <<leases, open, stray>>
  <2>1. CASE Ask(c) \/ Report(c)
    BY <2>1 DEF Ask, Report, Connect, Arrive
  <2>2. CASE Unreachable(c) \/ TimeOut(c) \/ Lose(c)
    BY <2>2 DEF Unreachable, TimeOut, Lose, OnError, vars
  <2>3. CASE Hear(c) \/ Reported(c)
    BY <2>3 DEF Hear, Reported, Deliver, vars
  <2>4. QED
    BY <1>1, <2>1, <2>2, <2>3
<1>2. ASSUME \/ \E h \in Handler : Discard(h)
             \/ \E table \in Polls : Poll(table)
             \/ UNCHANGED allVars
      PROVE  UNCHANGED <<leases, open, stray>>
  BY <1>2 DEF Discard, Deliver, Poll, UpdateSnapshots, gateVars, allVars, vars
<1>3. QED
  BY <1>1, <1>2

LEMMA SlotsStep ==
  ASSUME AdmissionAssumption, GateAssumption, GateTypeOK, KeysAgree, EveryLeaseOpen,
         [GateNext]_allVars
  PROVE  EveryLeaseOpen'
<1>1. CASE UNCHANGED <<leases, open>>
  BY <1>1, SlotsKept
<1>2. CASE \/ \E c \in Client : \/ Ask(c) \/ Unreachable(c) \/ TimeOut(c) \/ Hear(c)
                                \/ Report(c) \/ Lose(c) \/ Reported(c)
           \/ \E h \in Handler : Discard(h)
           \/ \E table \in Polls : Poll(table)
           \/ UNCHANGED allVars
  <2>1. UNCHANGED <<leases, open>>
    BY <1>2, TableKept
  <2>2. QED
    BY <1>1, <2>1
<1>3. ASSUME NEW h \in Handler, ServeOther(h)
      PROVE  EveryLeaseOpen'
  BY <1>3, OtherAnswers, SlotsKept DEF ServeOther, gateVars, GateTypeOK
<1>4. CASE Restart
  <2> SUFFICES ASSUME NEW k \in Key
               PROVE  Cardinality(LeasesOf(k)') <= Cardinality(OpenFor(k)')
    BY DEF EveryLeaseOpen
  <2>1. LeasesOf(k)' = {} /\ OpenFor(k)' = {}
    BY <1>4 DEF Restart, LeasesOf, OpenFor
  <2>2. Cardinality({}) <= Cardinality({})
    BY FS_EmptySet
  <2>3. QED
    BY <2>1, <2>2
<1>5. CASE Elapse
  <2>1. /\ DOMAIN leases' = DOMAIN leases
        /\ \A g \in DOMAIN leases' : leases'[g].key = leases[g].key
    BY <1>5 DEF Elapse, Tick, GateTypeOK, TypeOK, Lease
  <2>2. DOMAIN open' = DOMAIN open /\ \A g \in DOMAIN open : open'[g].key = open[g].key
    BY <1>5 DEF Elapse, GateTypeOK
  <2>3. QED
    BY <2>1, <2>2, SlotsKept
<1>6. ASSUME NEW h \in Handler, Handle(h)
      PROVE  EveryLeaseOpen'
  BY <1>3, <1>6, GrantSlots, CompletionSlots DEF Handle
<1>7. QED
  BY <1>2, <1>4, <1>5, <1>6 DEF GateNext

-----------------------------------------------------------------------------
\* Claims

LEMMA ClaimCounts ==
  ASSUME AdmissionAssumption, GateAssumption,
         NEW S \in SUBSET Handler, NEW T \in SUBSET Client
  PROVE  /\ IsFiniteSet(S) /\ Cardinality(S) \in Nat
         /\ IsFiniteSet(T) /\ Cardinality(T) \in Nat
BY Finite DEF AdmissionAssumption, GateAssumption

LEMMA ClaimSets ==
  ASSUME AdmissionAssumption, GateAssumption
  PROVE  /\ IsFiniteSet(Admitting) /\ Cardinality(Admitting) \in Nat
         /\ IsFiniteSet(Waiting) /\ Cardinality(Waiting) \in Nat
         /\ IsFiniteSet(Delays) /\ Cardinality(Delays) \in Nat
         /\ IsFiniteSet(Begun) /\ Cardinality(Begun) \in Nat
<1>1. Admitting \in SUBSET Handler /\ Delays \in SUBSET Handler
  BY DEF Admitting, Delays
<1>2. Waiting \in SUBSET Client /\ Begun \in SUBSET Client
  BY DEF Waiting, Begun
<1>3. QED
  BY <1>1, <1>2, ClaimCounts

LEMMA ClaimSetsNext ==
  ASSUME AdmissionAssumption, GateAssumption
  PROVE  /\ IsFiniteSet(Admitting') /\ Cardinality(Admitting') \in Nat
         /\ IsFiniteSet(Waiting') /\ Cardinality(Waiting') \in Nat
         /\ IsFiniteSet(Delays') /\ Cardinality(Delays') \in Nat
         /\ IsFiniteSet(Begun') /\ Cardinality(Begun') \in Nat
<1>1. Admitting' \in SUBSET Handler /\ Delays' \in SUBSET Handler
  BY DEF Admitting, Delays
<1>2. Waiting' \in SUBSET Client /\ Begun' \in SUBSET Client
  BY DEF Waiting, Begun
<1>3. QED
  BY <1>1, <1>2, ClaimCounts

\* What one of the sets gains, another loses, or a call begins.
LEMMA ClaimsMove ==
  ASSUME AdmissionAssumption, GateAssumption, GateTypeOK, OneClaimPerCall,
         granted' \in Nat,
         \/ /\ granted' = granted /\ Admitting' \subseteq Admitting
            /\ Waiting' \subseteq Waiting /\ Delays' \subseteq Delays
         \/ /\ granted' = granted + 1 /\ \E h \in Admitting : Admitting' \subseteq Admitting \ {h}
            /\ Waiting' \subseteq Waiting /\ Delays' \subseteq Delays
         \/ /\ granted' = granted /\ \E h \in Handler : Admitting' \subseteq Admitting \cup {h}
            /\ \E c \in Waiting : Waiting' \subseteq Waiting \ {c}
            /\ Delays' \subseteq Delays
         \/ /\ granted' = granted
            /\ \E h \in Admitting : Admitting' \subseteq Admitting \ {h} /\ Delays' \subseteq Delays \cup {h}
            /\ Waiting' \subseteq Waiting
         \/ /\ granted' = granted /\ Admitting' \subseteq Admitting
            /\ \E h \in Delays : Delays' \subseteq Delays \ {h}
            /\ \E c \in Client : Waiting' \subseteq Waiting \cup {c},
         Begun \subseteq Begun'
  PROVE  OneClaimPerCall'
<1> DEFINE A == Cardinality(Admitting)
           W == Cardinality(Waiting)
           D == Cardinality(Delays)
           B == Cardinality(Begun)
           A1 == Cardinality(Admitting')
           W1 == Cardinality(Waiting')
           D1 == Cardinality(Delays')
           B1 == Cardinality(Begun')
<1>1. /\ granted \in Nat /\ A \in Nat /\ W \in Nat /\ D \in Nat /\ B \in Nat
      /\ A1 \in Nat /\ W1 \in Nat /\ D1 \in Nat /\ B1 \in Nat
      /\ granted + A + W + D <= B
  BY ClaimSets, ClaimSetsNext DEF GateTypeOK, TypeOK, OneClaimPerCall
<1>2. B <= B1
  BY ClaimSetsNext, Finite
<1>3. \A h : Admitting' \subseteq Admitting \cup {h} => A1 <= A + 1
  BY ClaimSets, With
<1>4. \A h \in Admitting : Admitting' \subseteq Admitting \ {h} => A1 + 1 <= A
  BY ClaimSets, Without
<1>5. Admitting' \subseteq Admitting => A1 <= A
  BY ClaimSets, Finite
<1>6. \A c : Waiting' \subseteq Waiting \cup {c} => W1 <= W + 1
  BY ClaimSets, With
<1>7. \A c \in Waiting : Waiting' \subseteq Waiting \ {c} => W1 + 1 <= W
  BY ClaimSets, Without
<1>8. Waiting' \subseteq Waiting => W1 <= W
  BY ClaimSets, Finite
<1>9. \A h : Delays' \subseteq Delays \cup {h} => D1 <= D + 1
  BY ClaimSets, With
<1>10. \A h \in Delays : Delays' \subseteq Delays \ {h} => D1 + 1 <= D
  BY ClaimSets, Without
<1>11. Delays' \subseteq Delays => D1 <= D
  BY ClaimSets, Finite
<1>12. granted' + A1 + W1 + D1 <= granted + A + W + D
  <2>1. CASE /\ granted' = granted /\ Admitting' \subseteq Admitting
             /\ Waiting' \subseteq Waiting /\ Delays' \subseteq Delays
    <3>1. A1 <= A /\ W1 <= W /\ D1 <= D
      BY <1>5, <1>8, <1>11, <2>1
    <3> HIDE DEF A, W, D, A1, W1, D1
    <3>2. QED
      BY <1>1, <2>1, <3>1
  <2>2. CASE /\ granted' = granted + 1 /\ \E h \in Admitting : Admitting' \subseteq Admitting \ {h}
             /\ Waiting' \subseteq Waiting /\ Delays' \subseteq Delays
    <3>1. A1 + 1 <= A /\ W1 <= W /\ D1 <= D
      BY <1>4, <1>8, <1>11, <2>2
    <3> HIDE DEF A, W, D, A1, W1, D1
    <3>2. QED
      BY <1>1, <2>2, <3>1
  <2>3. CASE /\ granted' = granted /\ \E h \in Handler : Admitting' \subseteq Admitting \cup {h}
             /\ \E c \in Waiting : Waiting' \subseteq Waiting \ {c}
             /\ Delays' \subseteq Delays
    <3>1. A1 <= A + 1 /\ W1 + 1 <= W /\ D1 <= D
      BY <1>3, <1>7, <1>11, <2>3
    <3> HIDE DEF A, W, D, A1, W1, D1
    <3>2. QED
      BY <1>1, <2>3, <3>1
  <2>4. CASE /\ granted' = granted
             /\ \E h \in Admitting : Admitting' \subseteq Admitting \ {h} /\ Delays' \subseteq Delays \cup {h}
             /\ Waiting' \subseteq Waiting
    <3>1. A1 + 1 <= A /\ D1 <= D + 1 /\ W1 <= W
      BY <1>4, <1>8, <1>9, <2>4
    <3> HIDE DEF A, W, D, A1, W1, D1
    <3>2. QED
      BY <1>1, <2>4, <3>1
  <2>5. CASE /\ granted' = granted /\ Admitting' \subseteq Admitting
             /\ \E h \in Delays : Delays' \subseteq Delays \ {h}
             /\ \E c \in Client : Waiting' \subseteq Waiting \cup {c}
    <3>1. A1 <= A /\ D1 + 1 <= D /\ W1 <= W + 1
      BY <1>5, <1>6, <1>10, <2>5
    <3> HIDE DEF A, W, D, A1, W1, D1
    <3>2. QED
      BY <1>1, <2>5, <3>1
  <2>6. QED
    BY <2>1, <2>2, <2>3, <2>4, <2>5
<1>13. granted' + A1 + W1 + D1 <= B1
  <2> DEFINE G1 == granted'
  <2>1. G1 \in Nat /\ G1 + A1 + W1 + D1 <= granted + A + W + D
    BY <1>12
  <2> HIDE DEF A, W, D, B, A1, W1, D1, B1, G1
  <2>2. G1 + A1 + W1 + D1 <= B1
    BY <1>1, <1>2, <2>1
  <2>3. QED
    BY <2>2 DEF G1
<1>14. QED
  BY <1>13 DEF OneClaimPerCall

\* A call that begins may add an admission under way.
LEMMA ClaimBegins ==
  ASSUME AdmissionAssumption, GateAssumption, GateTypeOK, OneClaimPerCall,
         granted' = granted,
         NEW h \in Handler, Admitting' \subseteq Admitting \cup {h},
         Waiting' \subseteq Waiting, Delays' \subseteq Delays,
         NEW c \in Client, c \notin Begun, Begun \cup {c} \subseteq Begun'
  PROVE  OneClaimPerCall'
<1> DEFINE A == Cardinality(Admitting)
           W == Cardinality(Waiting)
           D == Cardinality(Delays)
           B == Cardinality(Begun)
           A1 == Cardinality(Admitting')
           W1 == Cardinality(Waiting')
           D1 == Cardinality(Delays')
           B1 == Cardinality(Begun')
<1>1. /\ granted \in Nat /\ A \in Nat /\ W \in Nat /\ D \in Nat /\ B \in Nat
      /\ A1 \in Nat /\ W1 \in Nat /\ D1 \in Nat /\ B1 \in Nat
      /\ granted + A + W + D <= B
  BY ClaimSets, ClaimSetsNext DEF GateTypeOK, TypeOK, OneClaimPerCall
<1>2. B + 1 <= B1
  <2>1. Begun \in SUBSET (Begun' \ {c}) /\ c \in Begun'
    OBVIOUS
  <2>2. QED
    BY <2>1, ClaimSetsNext, Without
<1>3. A1 <= A + 1
  BY ClaimSets, With
<1>4. W1 <= W /\ D1 <= D
  BY ClaimSets, Finite
<1>5. granted + A1 + W1 + D1 <= B1
  <2> HIDE DEF A, W, D, B, A1, W1, D1, B1
  <2>1. QED
    BY <1>1, <1>2, <1>3, <1>4
<1>6. QED
  BY <1>5 DEF OneClaimPerCall

\* A caller that moves on to a stage where it does not wait.
LEMMA MoveClaims ==
  ASSUME GateTypeOK, NEW c \in Client, NEW stage \in Stage \ {"ready", "waiting"}, MoveTo(c, stage)
  PROVE  Waiting' \subseteq Waiting \ {c} /\ Begun' = Begun \cup {c}
<1>1. \A d \in Client : client[d] \in [stage : Stage, sleep : Nat, grant : 0..granted]
  BY DEF GateTypeOK
<1>2. /\ client'[c].stage = stage
      /\ \A d \in Client : d # c => client'[d].stage = client[d].stage
  BY <1>1 DEF MoveTo, GateTypeOK
<1>3. QED
  BY <1>2 DEF Waiting, Begun

\* Asking is an admission under way, of a call that begins or of a caller that waited.
LEMMA AskClaims ==
  ASSUME AdmissionAssumption, GateAssumption, GateTypeOK, OneClaimPerCall,
         NEW c \in Client, Ask(c)
  PROVE  OneClaimPerCall'
<1>1. Waiting' \subseteq Waiting \ {c} /\ Begun' = Begun \cup {c}
  BY MoveClaims DEF Ask, Stage
<1>2. PICK h \in Handler : Connect(c, h, "admit", RequestOf[c])
  BY DEF Ask
<1>3. UNCHANGED <<granted, reply>> /\ granted \in Nat /\ reply[h].decision = "none"
  BY <1>2 DEF Connect, Arrive, Idle, GateTypeOK, TypeOK
<1>4. \A g \in Handler : g # h => peer'[g] = peer[g] /\ call'[g] = call[g]
  BY <1>2 DEF Connect, Arrive, GateTypeOK, TypeOK
<1>5. Admitting' \subseteq Admitting \cup {h} /\ Delays' \subseteq Delays
  BY <1>3, <1>4 DEF Admitting, Delays
<1>6. CASE client[c].stage = "ready"
  <2>1. c \notin Begun
    BY <1>6 DEF Begun
  <2>2. QED
    BY <1>1, <1>3, <1>5, <2>1, ClaimBegins
<1>7. CASE client[c].stage = "waiting"
  <2>1. c \in Waiting
    BY <1>7 DEF Waiting
  <2>2. QED
    BY <1>1, <1>3, <1>5, <2>1, ClaimsMove
<1>8. QED
  BY <1>6, <1>7 DEF Ask, ReadyToAsk

\* A caller that gives up on whatever answer it might get.
LEMMA AbandonClaims ==
  ASSUME AdmissionAssumption, GateAssumption, GateTypeOK, OneClaimPerCall,
         NEW c \in Client, NEW stage \in Stage \ {"ready", "waiting"}, MoveTo(c, stage),
         \A h \in Handler : peer'[h] # Nobody => peer[h] # Nobody,
         UNCHANGED <<granted, call>>,
         \A h \in Handler : reply'[h].decision = reply[h].decision \/ reply'[h].decision = "none"
  PROVE  OneClaimPerCall'
<1>1. Waiting' \subseteq Waiting /\ Begun \subseteq Begun'
  BY MoveClaims
<1>2. Admitting' \subseteq Admitting /\ Delays' \subseteq Delays
  BY DEF Admitting, Delays
<1>3. QED
  BY <1>1, <1>2, ClaimsMove DEF GateTypeOK, TypeOK

\* A delay that is heard is a caller that waits.
LEMMA HearClaims ==
  ASSUME AdmissionAssumption, GateAssumption, GateTypeOK, OneClaimPerCall,
         NEW c \in Client, Hear(c)
  PROVE  OneClaimPerCall'
<1>1. PICK h \in Handler :
        /\ peer[h] = c
        /\ Deliver(h)
        /\ client' = [client EXCEPT ![c] =
             IF reply[h].decision = "proceed"
             THEN [stage |-> "working", sleep |-> 0, grant |-> reply[h].grant]
             ELSE [stage |-> "waiting", sleep |-> SleepFor(reply[h]), grant |-> 0]]
  BY DEF Hear
<1>2. /\ UNCHANGED <<granted, call>> /\ granted \in Nat
      /\ \A g \in Handler : reply'[g].decision = reply[g].decision \/ reply'[g].decision = "none"
      /\ reply[h].decision \in {"proceed", "delay"}
  BY <1>1 DEF Deliver, NoReply, GateTypeOK, TypeOK, Reply
<1>3. \A g \in Handler : peer'[g] # Nobody => peer'[g] = peer[g] /\ peer[g] # c
  BY DEF Hear, Abandon, GateTypeOK
<1>4. Admitting' \subseteq Admitting /\ Delays' \subseteq Delays \ {h}
  BY <1>1, <1>2, <1>3 DEF Admitting, Delays
<1>5. /\ client'[c].stage # "ready"
      /\ \A d \in Client : d # c => client'[d] = client[d]
      /\ reply[h].decision = "proceed" => client'[c].stage = "working"
  BY <1>1 DEF GateTypeOK
<1>6. Begun \subseteq Begun' /\ Waiting' \subseteq Waiting \cup {c}
  BY <1>5 DEF Begun, Waiting
<1>7. CASE reply[h].decision = "proceed"
  <2>1. Waiting' \subseteq Waiting
    BY <1>5, <1>7 DEF Waiting
  <2>2. QED
    BY <1>2, <1>4, <1>6, <2>1, ClaimsMove
<1>8. CASE reply[h].decision = "delay"
  <2>1. h \in Delays
    BY <1>1, <1>8 DEF Delays, GateAssumption
  <2>2. QED
    BY <1>2, <1>4, <1>6, <2>1, ClaimsMove
<1>9. QED
  BY <1>2, <1>7, <1>8

\* Reporting connects, but asks for no admission.
LEMMA ReportClaims ==
  ASSUME AdmissionAssumption, GateAssumption, GateTypeOK, OneClaimPerCall,
         NEW c \in Client, Report(c)
  PROVE  OneClaimPerCall'
<1>1. Waiting' \subseteq Waiting \ {c} /\ Begun' = Begun \cup {c}
  BY MoveClaims DEF Report, Stage
<1>2. PICK h \in Handler : Connect(c, h, "complete", [RequestOf[c] EXCEPT !.tokens = 0])
  BY DEF Report
<1>3. UNCHANGED <<granted, reply>> /\ granted \in Nat /\ reply[h].decision = "none"
  BY <1>2 DEF Connect, Arrive, Idle, GateTypeOK, TypeOK
<1>4. /\ call'[h].op = "complete"
      /\ \A g \in Handler : g # h => peer'[g] = peer[g] /\ call'[g] = call[g]
  BY <1>2 DEF Connect, Arrive, GateTypeOK, TypeOK
<1>5. Admitting' \subseteq Admitting /\ Delays' \subseteq Delays
  BY <1>3, <1>4 DEF Admitting, Delays
<1>6. QED
  BY <1>1, <1>3, <1>5, ClaimsMove

\* What a handler serves is an admission no more: it is a lease, a delay, or nothing.
LEMMA ServeClaims ==
  ASSUME AdmissionAssumption, GateAssumption, GateTypeOK, OneClaimPerCall,
         NEW h \in Handler, Handle(h)
  PROVE  OneClaimPerCall'
<1>1. granted \in Nat /\ granted + 1 \in Nat
  BY DEF GateTypeOK, TypeOK
<1>2. ASSUME NEW r, Answer(h, r), UNCHANGED peer
      PROVE  /\ h \notin Admitting' /\ Admitting' \subseteq Admitting
             /\ Delays' \subseteq Delays \cup {h}
             /\ r.decision # "delay" => Delays' \subseteq Delays
  <2>1. /\ \A g \in Handler : g # h => call'[g] = call[g] /\ reply'[g] = reply[g]
        /\ call'[h].op = "none" /\ reply'[h] = r
    BY <1>2 DEF Answer, GateTypeOK, TypeOK, NoCall
  <2>2. h \notin Admitting' /\ Admitting' \subseteq Admitting
    BY <2>1 DEF Admitting
  <2>3. Delays' \subseteq Delays \cup {h}
    BY <1>2, <2>1 DEF Delays
  <2>4. ASSUME r.decision # "delay"
        PROVE  Delays' \subseteq Delays
    BY <1>2, <2>1, <2>4 DEF Delays
  <2>5. QED
    BY <2>2, <2>3, <2>4
<1>3. UNCHANGED <<client, peer>>
  BY DEF Handle, ServeGrant, ServeCompletion, ServeOther, gateVars
<1>4. Waiting' = Waiting /\ Begun' = Begun
  BY <1>3 DEF Waiting, Begun
<1>5. CASE ServeGrant(h)
  <2>1. /\ granted' = granted + 1 /\ call[h].op = "admit"
        /\ Answer(h, Proceeds(call[h].now, "admitted", granted + 1))
    BY <1>5 DEF ServeGrant, Grant, ValidAdmit
  <2>2. h \in Admitting
    BY <2>1 DEF Admitting
  <2>3. Admitting' \subseteq Admitting \ {h} /\ Delays' \subseteq Delays
    BY <1>2, <1>3, <2>1 DEF Proceeds
  <2>4. QED
    BY <1>1, <1>4, <2>1, <2>2, <2>3, ClaimsMove
<1>6. CASE ServeCompletion(h)
  <2>1. granted' = granted /\ Answer(h, Proceeds(call[h].now, "completed", 0))
    BY <1>6 DEF ServeCompletion, Complete
  <2>2. Admitting' \subseteq Admitting /\ Delays' \subseteq Delays
    BY <1>2, <1>3, <2>1 DEF Proceeds
  <2>3. QED
    BY <1>1, <1>4, <2>1, <2>2, ClaimsMove
<1>7. CASE ServeOther(h)
  <2>1. PICK r : /\ Answer(h, r) /\ granted' = granted
                 /\ r.decision \in {"delay", "proceed"}
                 /\ r.decision = "delay" => call[h].op = "admit"
    BY <1>7, OtherAnswers DEF GateTypeOK
  <2>2. CASE r.decision = "delay"
    <3>1. h \in Admitting
      BY <2>1, <2>2 DEF Admitting
    <3>2. Admitting' \subseteq Admitting \ {h} /\ Delays' \subseteq Delays \cup {h}
      BY <1>2, <1>3, <2>1, <2>2
    <3>3. QED
      BY <1>1, <1>4, <2>1, <3>1, <3>2, ClaimsMove
  <2>3. CASE r.decision = "proceed"
    <3>1. Admitting' \subseteq Admitting /\ Delays' \subseteq Delays
      BY <1>2, <1>3, <2>1, <2>3
    <3>2. QED
      BY <1>1, <1>4, <2>1, <3>1, ClaimsMove
  <2>4. QED
    BY <2>1, <2>2, <2>3
<1>8. QED
  BY <1>5, <1>6, <1>7 DEF Handle

LEMMA ClaimsStep ==
  ASSUME AdmissionAssumption, GateAssumption, GateTypeOK, OneClaimPerCall, [GateNext]_allVars
  PROVE  OneClaimPerCall'
<1>1. ASSUME NEW c \in Client,
             Ask(c) \/ Unreachable(c) \/ TimeOut(c) \/ Hear(c) \/ Report(c) \/ Lose(c) \/ Reported(c)
      PROVE  OneClaimPerCall'
  <2>1. CASE Unreachable(c) \/ TimeOut(c)
    <3>1. OnError(c)
      BY <2>1 DEF Unreachable, TimeOut
    <3>2. \A h \in Handler : peer'[h] # Nobody => peer[h] # Nobody
      BY <3>1 DEF OnError, Abandon, GateTypeOK
    <3>3. \E stage \in Stage \ {"ready", "waiting"} : MoveTo(c, stage)
      BY <3>1 DEF OnError, Stage
    <3>4. UNCHANGED <<granted, call, reply>>
      BY <3>1 DEF OnError, vars
    <3>5. QED
      BY <3>2, <3>3, <3>4, AbandonClaims
  <2>2. CASE Lose(c)
    BY <2>2, AbandonClaims DEF Lose, vars, Stage
  <2>3. CASE Reported(c)
    <3>1. \A h \in Handler : peer'[h] # Nobody => peer[h] # Nobody
      BY <2>3 DEF Reported, Abandon, GateTypeOK
    <3>2. /\ UNCHANGED <<granted, call>>
          /\ \A h \in Handler : reply'[h].decision = reply[h].decision \/ reply'[h].decision = "none"
      BY <2>3 DEF Reported, Deliver, NoReply, vars, GateTypeOK, TypeOK
    <3>3. QED
      BY <2>3, <3>1, <3>2, AbandonClaims DEF Reported, Stage
  <2>4. QED
    BY <1>1, <2>1, <2>2, <2>3, AskClaims, HearClaims, ReportClaims
<1>2. CASE /\ UNCHANGED <<granted, call, client, peer>>
           /\ \A h \in Handler : reply'[h].decision = reply[h].decision \/ reply'[h].decision = "none"
  <2>1. Admitting' = Admitting /\ Waiting' = Waiting /\ Begun' = Begun /\ Delays' \subseteq Delays
    BY <1>2 DEF Admitting, Waiting, Begun, Delays
  <2>2. QED
    BY <1>2, <2>1, ClaimsMove DEF GateTypeOK, TypeOK
<1>3. ASSUME NEW h \in Handler, Discard(h)
      PROVE  OneClaimPerCall'
  <2>1. \A g \in Handler : reply'[g].decision = reply[g].decision \/ reply'[g].decision = "none"
    BY <1>3 DEF Discard, Deliver, NoReply, GateTypeOK, TypeOK
  <2>2. QED
    BY <1>2, <1>3, <2>1 DEF Discard, Deliver, gateVars
<1>4. ASSUME NEW table \in Polls, Poll(table)
      PROVE  OneClaimPerCall'
  BY <1>2, <1>4 DEF Poll, UpdateSnapshots, gateVars
<1>5. CASE Restart
  <2>1. Admitting' = {} /\ Delays' = {} /\ UNCHANGED <<granted, client>>
    BY <1>5 DEF Restart, Admitting, Delays, NoCall, NoReply
  <2>2. Waiting' = Waiting /\ Begun' = Begun
    BY <2>1 DEF Waiting, Begun
  <2>3. QED
    BY <2>1, <2>2, ClaimsMove DEF GateTypeOK, TypeOK
<1>6. CASE Elapse
  <2>1. /\ \A c \in Client : client'[c].stage = client[c].stage
        /\ UNCHANGED <<peer, granted>>
    BY <1>6 DEF Elapse, Tick, GateTypeOK
  <2>2. \A h \in Handler : call'[h].op = call[h].op /\ reply'[h].decision = reply[h].decision
    <3>1. ASSUME NEW h \in Handler
          PROVE  /\ call'[h] = [call[h] EXCEPT !.now = Older(@)]
                 /\ reply'[h] = [reply[h] EXCEPT !.start = Older(@)]
                 /\ call[h] \in Call /\ reply[h] \in Reply
      BY <1>6 DEF Elapse, Tick, GateTypeOK, TypeOK
    <3>2. \A r \in Reply : [r EXCEPT !.start = Older(@)].decision = r.decision
      BY DEF Reply
    <3>3. \A r \in Call : [r EXCEPT !.now = Older(@)].op = r.op
      BY DEF Call
    <3>4. QED
      BY <3>1, <3>2, <3>3
  <2>3. Admitting' = Admitting /\ Waiting' = Waiting /\ Begun' = Begun /\ Delays' = Delays
    BY <2>1, <2>2 DEF Admitting, Waiting, Begun, Delays
  <2>4. QED
    BY <2>1, <2>3, ClaimsMove DEF GateTypeOK, TypeOK
<1>7. CASE UNCHANGED allVars
  BY <1>2, <1>7 DEF allVars, vars, gateVars
<1>8. QED
  BY <1>1, <1>3, <1>4, <1>5, <1>6, <1>7, ServeClaims DEF GateNext

-----------------------------------------------------------------------------
\* Cover

\* Whoever calls under the same key is estimated to take the same time.
EstimatesAlike ==
  \A c \in Client : \A d \in Client :
    KeyOf(RequestOf[c]) = KeyOf(RequestOf[d])
      => LeaseTtl(RequestOf[c].tokens) = LeaseTtl(RequestOf[d].tokens)

Life(k) == LeaseTtl(RequestOf[CHOOSE c \in Client : KeyOf(RequestOf[c]) = k].tokens)

\* An admission under way is for as long as any of its key, and read the clock no longer
\* ago than MaxLag.
CallsAlike ==
  \A h \in Handler : /\ call[h].now \in -MaxLag..0
                     /\ call[h].op = "admit" => LeaseTtl(call[h].tokens) = Life(KeyOf(call[h]))

LeftWithin ==
  \A g \in DOMAIN open : Life(open[g].key) \in Nat /\ open[g].left <= Life(open[g].key)

\* Up to the lag of the clocks, what was granted later under the same key lasts longer.
LaterLastLonger ==
  \A g \in DOMAIN open : \A q \in DOMAIN leases :
    g <= q /\ open[g].key = leases[q].key /\ open[g].left > MaxLag
      => open[g].left <= leases[q].expires + MaxLag

\* The callers of a key that are entitled to a slot, and its live leases, from the n-th grant.
Entitled(k, n) == {g \in OpenFor(k) : g >= n /\ open[g].left > MaxLag}
LiveFrom(k, n) == {q \in Live(k) : q >= n}

\* A completion takes the oldest live lease, so that the younger ones cover the younger callers.
Covered ==
  \A k \in Key : \A n \in Nat :
    Cardinality(Entitled(k, n)) <= Cardinality(LiveFrom(k, n)) + stray[k]

CoverInv == GateInv /\ CallsAlike /\ LeftWithin /\ LaterLastLonger /\ Covered

LEMMA AsksAlike ==
  ASSUME AdmissionAssumption, GateAssumption, EstimatesAlike, NEW c \in Client
  PROVE  LeaseTtl(RequestOf[c].tokens) = Life(KeyOf(RequestOf[c]))
<1> DEFINE d == CHOOSE d \in Client : KeyOf(RequestOf[d]) = KeyOf(RequestOf[c])
<1>1. d \in Client /\ KeyOf(RequestOf[d]) = KeyOf(RequestOf[c])
  OBVIOUS
<1>2. Life(KeyOf(RequestOf[c])) = LeaseTtl(RequestOf[d].tokens)
  BY DEF Life
<1> HIDE DEF d
<1>3. QED
  BY <1>1, <1>2 DEF EstimatesAlike

\* A request has just read the clock, and is estimated like its caller's other requests.
LEMMA ConnectAlike ==
  ASSUME AdmissionAssumption, GateAssumption, GateTypeOK, EstimatesAlike, CallsAlike,
         NEW c \in Client, Ask(c) \/ Report(c)
  PROVE  CallsAlike'
<1>1. 0 \in -MaxLag..0
  BY DEF AdmissionAssumption
<1>2. ASSUME NEW h \in Handler, NEW new, call' = [call EXCEPT ![h] = new],
             new.now = 0, new.op = "admit" => LeaseTtl(new.tokens) = Life(KeyOf(new))
      PROVE  CallsAlike'
  BY <1>1, <1>2 DEF CallsAlike, GateTypeOK, TypeOK
<1>3. CASE Ask(c)
  <2> DEFINE new == [op |-> "admit", provider |-> RequestOf[c].provider,
                     model |-> RequestOf[c].model, tokens |-> RequestOf[c].tokens, now |-> 0]
  <2>1. PICK h \in Handler : call' = [call EXCEPT ![h] = new]
    BY <1>3 DEF Ask, Connect, Arrive
  <2>2. LeaseTtl(new.tokens) = Life(KeyOf(new)) /\ new.now = 0
    BY AsksAlike DEF KeyOf
  <2> HIDE DEF new
  <2>3. QED
    BY <1>2, <2>1, <2>2
<1>4. CASE Report(c)
  <2> DEFINE r   == [RequestOf[c] EXCEPT !.tokens = 0]
             new == [op |-> "complete", provider |-> r.provider, model |-> r.model,
                     tokens |-> r.tokens, now |-> 0]
  <2>1. PICK h \in Handler : call' = [call EXCEPT ![h] = new]
    <3> HIDE DEF r
    <3>1. QED
      BY <1>4 DEF Report, Connect, Arrive, r
  <2>2. new.op = "complete" /\ new.now = 0
    OBVIOUS
  <2> HIDE DEF new
  <2>3. QED
    BY <1>2, <2>1, <2>2
<1>5. QED
  BY <1>3, <1>4

LEMMA CallsAlikeStep ==
  ASSUME AdmissionAssumption, GateAssumption, GateTypeOK, EstimatesAlike, CallsAlike,
         [GateNext]_allVars
  PROVE  CallsAlike'
<1>1. MaxLag \in Nat /\ 0 \in -MaxLag..0 /\ -MaxLag \in -MaxLag..0
  BY DEF AdmissionAssumption
<1>2. CASE \A h \in Handler : call'[h] = call[h] \/ call'[h] = NoCall
  BY <1>1, <1>2 DEF CallsAlike, NoCall
<1>3. ASSUME NEW h \in Handler, NEW r, Answer(h, r)
      PROVE  CallsAlike'
  BY <1>2, <1>3 DEF Answer, GateTypeOK, TypeOK
<1>4. ASSUME NEW c \in Client, Unreachable(c) \/ TimeOut(c) \/ Hear(c) \/ Lose(c) \/ Reported(c)
      PROVE  call' = call
  BY <1>4 DEF Unreachable, TimeOut, OnError, Hear, Lose, Reported, Deliver, vars
<1>5. ASSUME NEW h \in Handler, Handle(h)
      PROVE  CallsAlike'
  <2>1. \E r : Answer(h, r)
    BY <1>5, OtherAnswers DEF Handle, ServeGrant, ServeCompletion, Grant, Complete, GateTypeOK
  <2>2. QED
    BY <1>3, <2>1
<1>6. CASE Restart
  BY <1>2, <1>6 DEF Restart
<1>7. CASE Elapse
  <2> SUFFICES ASSUME NEW h \in Handler
               PROVE  /\ call'[h].now \in -MaxLag..0
                      /\ call'[h].op = "admit" =>
                           LeaseTtl(call'[h].tokens) = Life(KeyOf(call'[h]))
    BY DEF CallsAlike
  <2>1. call'[h] = [call[h] EXCEPT !.now = Older(@)] /\ call[h] \in Call
    BY <1>7 DEF Elapse, Tick, GateTypeOK, TypeOK
  <2>2. /\ call'[h].now = Older(call[h].now) /\ call'[h].op = call[h].op
        /\ call'[h].tokens = call[h].tokens /\ KeyOf(call'[h]) = KeyOf(call[h])
    BY <2>1 DEF Call, KeyOf
  <2>3. Older(call[h].now) \in -MaxLag..0
    BY <1>1 DEF CallsAlike, Older
  <2>4. QED
    BY <2>2, <2>3 DEF CallsAlike
<1>8. ASSUME \/ \E h \in Handler : Discard(h)
             \/ \E table \in Polls : Poll(table)
             \/ UNCHANGED allVars
      PROVE  call' = call
  BY <1>8 DEF Discard, Deliver, Poll, UpdateSnapshots, allVars, vars
<1>9. QED
  BY <1>2, <1>4, <1>5, <1>6, <1>7, <1>8, ConnectAlike DEF GateNext

\* What a caller may still count on, and how long a lease lasts.
LEMMA Lives ==
  ASSUME AdmissionAssumption, GateTypeOK
  PROVE  /\ MaxLag \in Nat /\ granted \in Nat
         /\ \A g \in DOMAIN open : g \in 1..granted /\ open[g].left \in Nat /\ open[g].key \in Key
         /\ \A q \in DOMAIN leases : q \in 1..granted /\ leases[q].expires \in Int
BY DEF AdmissionAssumption, GateTypeOK, TypeOK, Lease

LEMMA LivesKept ==
  ASSUME LeftWithin, LaterLastLonger,
         DOMAIN open' \subseteq DOMAIN open, \A g \in DOMAIN open' : open'[g] = open[g],
         DOMAIN leases' \subseteq DOMAIN leases, \A q \in DOMAIN leases' : leases'[q] = leases[q]
  PROVE  LeftWithin' /\ LaterLastLonger'
BY DEF LeftWithin, LaterLastLonger

\* A new lease lasts as long as any of its key, up to the lag.
LEMMA GrantLives ==
  ASSUME AdmissionAssumption, GateTypeOK, CallsAlike, LeftWithin, LaterLastLonger,
         NEW h \in Handler, ServeGrant(h)
  PROVE  LeftWithin' /\ LaterLastLonger'
<1> DEFINE new == granted + 1
           k   == KeyOf(call[h])
           t   == Life(k)
           ends == call[h].now + t
<1>1. /\ MaxLag \in Nat /\ granted \in Nat /\ call[h].now \in -MaxLag..0
      /\ LeaseTtl(call[h].tokens) = t /\ t \in Nat
  BY Lives, ValidKey, LeaseTtlBounds DEF CallsAlike, ServeGrant, Grant, ValidAdmit, GateTypeOK,
     AdmissionAssumption
<1>2. ends \in Int /\ ends <= t /\ t <= ends + MaxLag
  <2> HIDE DEF t
  <2>1. QED
    BY <1>1
<1>3. /\ DOMAIN leases' = Kept(h) \cup {new}
      /\ leases'[new].expires = ends /\ leases'[new].key = k
      /\ Kept(h) \subseteq DOMAIN leases
      /\ \A q \in Kept(h) : q # new => leases'[q] = leases[q]
  BY <1>1, KeptSubset DEF ServeGrant, Grant
<1>4. /\ DOMAIN open' = DOMAIN open \cup {new}
      /\ open'[new].left = Positive(ends) /\ open'[new].key = k
      /\ \A g \in DOMAIN open : g # new => open'[g] = open[g]
  BY <1>1, <1>3 DEF ServeGrant, Grant
<1>5. Positive(ends) <= t /\ Positive(ends) \in Nat /\ (Positive(ends) > 0 => Positive(ends) = ends)
  <2> HIDE DEF ends
  <2>1. QED
    BY <1>1, <1>2 DEF Positive
<1> HIDE DEF ends
<1>6. \A g \in DOMAIN open : /\ g \in 1..granted /\ g # new /\ open[g].left \in Nat
                             /\ open[g].key = k => open[g].left <= t
  BY <1>1, Lives DEF LeftWithin
<1>7. \A q \in Kept(h) : q \in 1..granted /\ q # new /\ leases'[q] = leases[q] /\ q \in DOMAIN leases
  BY <1>1, <1>3, Lives
<1>8. LeftWithin'
  BY <1>1, <1>4, <1>5, <1>6 DEF LeftWithin
<1> HIDE DEF t, k
<1>9. ASSUME NEW g \in DOMAIN open', NEW q \in DOMAIN leases', g <= q,
             open'[g].key = leases'[q].key, open'[g].left > MaxLag
      PROVE  open'[g].left <= leases'[q].expires + MaxLag
  <2>1. CASE g \in DOMAIN open /\ q \in Kept(h)
    BY <1>4, <1>6, <1>7, <1>9, <2>1 DEF LaterLastLonger
  <2>2. CASE g \in DOMAIN open /\ q = new
    BY <1>1, <1>2, <1>3, <1>4, <1>6, <1>9, <2>2
  <2>3. CASE g = new /\ q \in Kept(h)
    BY <1>1, <1>7, <1>9, <2>3
  <2>4. CASE g = new /\ q = new
    BY <1>1, <1>2, <1>3, <1>4, <1>5, <1>9, <2>4
  <2>5. QED
    BY <1>3, <1>4, <2>1, <2>2, <2>3, <2>4
<1>10. QED
  BY <1>8, <1>9 DEF LaterLastLonger

LEMMA ElapseLives ==
  ASSUME AdmissionAssumption, GateTypeOK, LeftWithin, LaterLastLonger, Elapse
  PROVE  LeftWithin' /\ LaterLastLonger'
<1>1. /\ DOMAIN open' = DOMAIN open /\ DOMAIN leases' = DOMAIN leases
      /\ \A g \in DOMAIN open : /\ open'[g].left = Positive(open[g].left - 1)
                                /\ open'[g].key = open[g].key
      /\ \A q \in DOMAIN leases : /\ leases'[q].expires = Older(leases[q].expires)
                                  /\ leases'[q].key = leases[q].key
  BY DEF Elapse, Tick, GateTypeOK, TypeOK, Lease
<1>2. MaxLag \in Nat
  BY Lives
<1>3. LeftWithin'
  BY <1>1, Lives DEF LeftWithin, Positive
<1>4. ASSUME NEW g \in DOMAIN open, NEW q \in DOMAIN leases, g <= q,
             open'[g].key = leases'[q].key, open'[g].left > MaxLag
      PROVE  open'[g].left <= leases'[q].expires + MaxLag
  <2> DEFINE l == open[g].left
             e == leases[q].expires
  <2>1. l \in Nat /\ e \in Int
    BY Lives
  <2>2. open'[g].left = Positive(l - 1) /\ leases'[q].expires = Older(e)
    BY <1>1
  <2>3. l > MaxLag => l <= e + MaxLag
    BY <1>1, <1>4 DEF LaterLastLonger
  <2> HIDE DEF l, e
  <2>4. l - 1 > MaxLag /\ Positive(l - 1) = l - 1
    BY <1>2, <1>4, <2>1, <2>2 DEF Positive
  <2>5. Older(e) = e - 1
    BY <1>2, <2>1, <2>3, <2>4 DEF Older
  <2>6. QED
    BY <1>2, <2>1, <2>2, <2>3, <2>4, <2>5
<1>5. QED
  BY <1>1, <1>3, <1>4 DEF LaterLastLonger

LEMMA LivesStep ==
  ASSUME AdmissionAssumption, GateAssumption, GateTypeOK, CallsAlike, LeftWithin,
         LaterLastLonger, [GateNext]_allVars
  PROVE  LeftWithin' /\ LaterLastLonger'
<1>1. CASE UNCHANGED <<leases, open>>
  BY <1>1, LivesKept
<1>2. ASSUME NEW h \in Handler, ServeOther(h)
      PROVE  LeftWithin' /\ LaterLastLonger'
  BY <1>2, OtherAnswers, LivesKept DEF ServeOther, gateVars, GateTypeOK
<1>3. ASSUME NEW h \in Handler, ServeCompletion(h)
      PROVE  LeftWithin' /\ LaterLastLonger'
  <2>1. DOMAIN leases' \subseteq DOMAIN leases /\ \A q \in DOMAIN leases' : leases'[q] = leases[q]
    BY <1>3 DEF ServeCompletion, Complete, Keep
  <2>2. DOMAIN open' \subseteq DOMAIN open /\ \A g \in DOMAIN open' : open'[g] = open[g]
    BY <1>3 DEF ServeCompletion
  <2>3. QED
    BY <2>1, <2>2, LivesKept
<1>4. CASE Restart
  BY <1>4, LivesKept DEF Restart
<1>5. CASE \/ \E c \in Client : \/ Ask(c) \/ Unreachable(c) \/ TimeOut(c) \/ Hear(c)
                                \/ Report(c) \/ Lose(c) \/ Reported(c)
           \/ \E h \in Handler : Discard(h)
           \/ \E table \in Polls : Poll(table)
           \/ UNCHANGED allVars
  <2>1. UNCHANGED <<leases, open>>
    BY <1>5, TableKept
  <2>2. QED
    BY <1>1, <2>1
<1>6. QED
  BY <1>2, <1>3, <1>4, <1>5, GrantLives, ElapseLives DEF GateNext, Handle

LEMMA UpTo ==
  ASSUME NEW m \in Nat, NEW S \in SUBSET (1..m)
  PROVE  IsFiniteSet(S) /\ Cardinality(S) \in Nat /\ S \subseteq Nat
<1>1. IsFiniteSet(1..m)
  BY FS_Interval
<1>2. IsFiniteSet(S) /\ Cardinality(S) \in Nat
  BY <1>1, Finite, Zenon
<1>3. QED
  BY <1>2

LEMMA CoverCounts ==
  ASSUME GateTypeOK, NEW k, NEW n
  PROVE  /\ IsFiniteSet(Entitled(k, n)) /\ Cardinality(Entitled(k, n)) \in Nat
         /\ IsFiniteSet(LiveFrom(k, n)) /\ Cardinality(LiveFrom(k, n)) \in Nat
<1>1. /\ Entitled(k, n) \in SUBSET (1..granted) /\ LiveFrom(k, n) \in SUBSET (1..granted)
      /\ granted \in Nat
  BY DEF GateTypeOK, TypeOK, Entitled, OpenFor, LiveFrom, Live, LeasesOf
<1>2. QED
  BY <1>1, UpTo

LEMMA CoverCountsNext ==
  ASSUME GateTypeOK', NEW k, NEW n
  PROVE  /\ IsFiniteSet(Entitled(k, n)') /\ Cardinality(Entitled(k, n)') \in Nat
         /\ IsFiniteSet(LiveFrom(k, n)') /\ Cardinality(LiveFrom(k, n)') \in Nat
         /\ Entitled(k, n)' \in SUBSET Nat
<1>1. /\ Entitled(k, n)' \in SUBSET (1..granted') /\ LiveFrom(k, n)' \in SUBSET (1..granted')
      /\ granted' \in Nat
  BY DEF GateTypeOK, TypeOK, Entitled, OpenFor, LiveFrom, Live, LeasesOf
<1>2. QED
  BY <1>1, UpTo

\* What covers the callers of key k from the n-th grant after a step: no more callers than
\* before, no fewer live leases.
LEMMA CoverKept ==
  ASSUME GateTypeOK, GateTypeOK', Covered, NEW k \in Key, NEW n \in Nat,
         Entitled(k, n)' \subseteq Entitled(k, n), LiveFrom(k, n) \subseteq LiveFrom(k, n)',
         stray'[k] = stray[k] \/ stray'[k] = stray[k] + 1
  PROVE  Cardinality(Entitled(k, n)') <= Cardinality(LiveFrom(k, n)') + stray'[k]
<1>1. Cardinality(Entitled(k, n)') <= Cardinality(Entitled(k, n))
  BY CoverCounts, Finite
<1>2. Cardinality(LiveFrom(k, n)) <= Cardinality(LiveFrom(k, n)')
  BY CoverCountsNext, Finite
<1>3. stray[k] \in Nat
  BY DEF GateTypeOK
<1>4. QED
  BY <1>1, <1>2, <1>3, CoverCounts, CoverCountsNext DEF Covered

\* A table that loses no live lease, and no admission opened.
LEMMA TableCovers ==
  ASSUME GateTypeOK, GateTypeOK', Covered, UNCHANGED <<open, stray>>,
         \A q \in DOMAIN leases :
           leases[q].expires > 0 => q \in DOMAIN leases' /\ leases'[q] = leases[q]
  PROVE  Covered'
<1> SUFFICES ASSUME NEW k \in Key, NEW n \in Nat
             PROVE  Cardinality(Entitled(k, n)') <= Cardinality(LiveFrom(k, n)') + stray'[k]
  BY DEF Covered
<1>1. Entitled(k, n)' \subseteq Entitled(k, n)
  BY DEF Entitled, OpenFor
<1>2. LiveFrom(k, n) \subseteq LiveFrom(k, n)'
  BY DEF LiveFrom, Live, LeasesOf
<1>3. QED
  BY <1>1, <1>2, CoverKept

\* No clock that a handler has read is ahead: what is live now, an admission keeps.
LEMMA KeptLives ==
  ASSUME AdmissionAssumption, GateTypeOK, CallsAlike, NEW h \in Handler,
         NEW q \in DOMAIN leases, leases[q].expires > 0
  PROVE  q \in Unexpired(call[h].now)
<1>1. call[h].now \in Int /\ call[h].now <= 0 /\ leases[q].expires \in Int
  BY Lives DEF CallsAlike, AdmissionAssumption
<1>2. QED
  BY <1>1 DEF Unexpired

\* A grant entitles one caller more, to the lease that it adds, unless that is dead already.
LEMMA GrantCovers ==
  ASSUME AdmissionAssumption, GateTypeOK, GateTypeOK', CallsAlike, Covered,
         NEW h \in Handler, ServeGrant(h)
  PROVE  Covered'
<1> SUFFICES ASSUME NEW k \in Key, NEW n \in Nat
             PROVE  Cardinality(Entitled(k, n)') <= Cardinality(LiveFrom(k, n)') + stray'[k]
  BY DEF Covered
<1> DEFINE new == granted + 1
<1>1. /\ MaxLag \in Nat /\ granted \in Nat /\ new \notin DOMAIN open /\ new \notin DOMAIN leases
  BY Lives
<1>2. /\ DOMAIN leases' = Kept(h) \cup {new} /\ leases'[new].key = KeyOf(call[h])
      /\ \A q \in Kept(h) : q # new => leases'[q] = leases[q]
  BY <1>1 DEF ServeGrant, Grant
<1>3. /\ DOMAIN open' = DOMAIN open \cup {new} /\ open'[new].key = KeyOf(call[h])
      /\ open'[new].left = Positive(leases'[new].expires)
      /\ \A g \in DOMAIN open : g # new => open'[g] = open[g]
      /\ stray' = stray
  BY <1>1 DEF ServeGrant, Grant
<1>4. LiveFrom(k, n) \subseteq LiveFrom(k, n)' /\ new \notin LiveFrom(k, n)
  <2> SUFFICES ASSUME NEW q \in LiveFrom(k, n)
               PROVE  q \in LiveFrom(k, n)' /\ q # new
    OBVIOUS
  <2>1. q \in DOMAIN leases /\ leases[q].expires > 0 /\ leases[q].key = k /\ q >= n
    BY DEF LiveFrom, Live, LeasesOf
  <2>2. q \in Kept(h) /\ q # new
    BY <1>1, <2>1, KeptLives DEF Kept
  <2>3. QED
    BY <1>2, <2>1, <2>2 DEF LiveFrom, Live, LeasesOf
<1>5. Entitled(k, n)' \subseteq Entitled(k, n) \cup {new}
  BY <1>1, <1>3 DEF Entitled, OpenFor
<1>6. CASE new \notin Entitled(k, n)'
  BY <1>3, <1>4, <1>5, <1>6, CoverKept
<1>7. CASE new \in Entitled(k, n)'
  <2>1. leases'[new].expires \in Int
    BY <1>2 DEF GateTypeOK, TypeOK, Lease
  <2>2. leases'[new].expires > 0 /\ leases'[new].key = k /\ new >= n
    BY <1>1, <1>2, <1>3, <1>7, <2>1 DEF Entitled, OpenFor, Positive
  <2>3. new \in LiveFrom(k, n)'
    BY <1>2, <2>2 DEF LiveFrom, Live, LeasesOf
  <2>4. Cardinality(LiveFrom(k, n)) + 1 <= Cardinality(LiveFrom(k, n)')
    <3>1. LiveFrom(k, n) \in SUBSET (LiveFrom(k, n)' \ {new})
      BY <1>4
    <3>2. QED
      BY <2>3, <3>1, CoverCountsNext, Without
  <2>5. Cardinality(Entitled(k, n)') <= Cardinality(Entitled(k, n)) + 1
    BY <1>5, CoverCounts, With
  <2>6. stray[k] \in Nat
    BY DEF GateTypeOK
  <2>7. QED
    BY <1>3, <2>4, <2>5, <2>6, CoverCounts, CoverCountsNext DEF Covered
<1>8. QED
  BY <1>6, <1>7

\* A completion drops one live lease of its key at most, the oldest.
LEMMA CompletionDrops ==
  ASSUME AdmissionAssumption, GateTypeOK, CallsAlike,
         NEW h \in Handler, ServeCompletion(h), NEW k
  PROVE  \E o : /\ Live(k) \subseteq Live(k)' \cup {o}
                /\ o \in Live(k) => k = CompletionKey(call[h]) /\ \A q \in Live(k) : o <= q
<1> DEFINE own  == LeasesOf(CompletionKey(call[h]))
           live == own \cap Unexpired(call[h].now)
           dropped == IF live = {} THEN own ELSE (own \ live) \cup {Oldest(live)}
           o == IF live = {} THEN 0 ELSE Oldest(live)
<1>1. /\ DOMAIN leases' = DOMAIN leases \ dropped
      /\ \A q \in DOMAIN leases' : leases'[q] = leases[q]
  BY DEF ServeCompletion, Complete, Keep
<1>2. Live(k) \cap own \subseteq live
  BY KeptLives DEF Live, LeasesOf
<1>3. live \subseteq own /\ live \in SUBSET Nat /\ own \subseteq DOMAIN leases
  BY Lives DEF LeasesOf
<1>4. live # {} => o \in live /\ \A q \in live : o <= q
  <2> HIDE DEF live
  <2>1. QED
    BY <1>3, OldestIsLeast
<1>5. Live(k) \cap dropped \subseteq {o}
  <2> HIDE DEF own, live
  <2>1. QED
    BY <1>2, <1>3
<1>6. Live(k) \subseteq Live(k)' \cup {o}
  <2> HIDE DEF dropped, o
  <2>1. QED
    BY <1>1, <1>5 DEF Live, LeasesOf
<1>7. ASSUME o \in Live(k)
      PROVE  k = CompletionKey(call[h]) /\ \A q \in Live(k) : o <= q
  <2>1. o \in DOMAIN leases /\ leases[o].key = k
    BY <1>7 DEF Live, LeasesOf
  <2>2. o \in live
    <3>1. o # 0
      BY <2>1, Lives
    <3>2. QED
      BY <1>4, <3>1
  <2>3. k = CompletionKey(call[h])
    BY <1>3, <2>1, <2>2 DEF LeasesOf
  <2>4. Live(k) \subseteq own
    BY <2>3 DEF Live
  <2>5. QED
    <3> HIDE DEF own, live, o
    <3>1. QED
      BY <1>2, <1>4, <2>2, <2>3, <2>4
<1>8. QED
  BY <1>6, <1>7

\* A completion that is paid for ends one caller's entitlement with one lease; if that lease
\* was granted after the caller's own, no older one was left, and it covered one entitled
\* caller too many.
LEMMA CompletionCovers ==
  ASSUME AdmissionAssumption, GateTypeOK, GateTypeOK', KeysAgree, CallsAlike, Covered,
         NEW h \in Handler, ServeCompletion(h)
  PROVE  Covered'
<1> SUFFICES ASSUME NEW k \in Key, NEW n \in Nat
             PROVE  Cardinality(Entitled(k, n)') <= Cardinality(LiveFrom(k, n)') + stray'[k]
  BY DEF Covered
<1> DEFINE p == paidBy[h]
<1>1. PICK o : /\ Live(k) \subseteq Live(k)' \cup {o}
               /\ o \in Live(k) => k = CompletionKey(call[h]) /\ \A q \in Live(k) : o <= q
  BY CompletionDrops
<1>2. /\ DOMAIN open' = DOMAIN open \ {p}
      /\ \A g \in DOMAIN open' : open'[g] = open[g]
      /\ call[h].op = "complete"
  BY DEF ServeCompletion, Complete
<1>3. \A i \in Nat : Entitled(k, i)' = Entitled(k, i) \ {p}
  BY <1>2 DEF Entitled, OpenFor
<1>4. LiveFrom(k, n) \subseteq LiveFrom(k, n)' \cup {o}
  BY <1>1 DEF LiveFrom
<1>5. stray[k] \in Nat /\ p \in Nat
  BY DEF GateTypeOK, TypeOK
<1>6. Cardinality(LiveFrom(k, n)) <= Cardinality(LiveFrom(k, n)') + 1
  BY <1>4, CoverCountsNext, With
<1>7. CASE o \notin LiveFrom(k, n)
  <2>1. stray'[k] = stray[k] \/ stray'[k] = stray[k] + 1
    BY DEF ServeCompletion, GateTypeOK
  <2>2. QED
    BY <1>3, <1>4, <1>7, <2>1, CoverKept
<1>8. CASE o \in LiveFrom(k, n)
  <2>1. /\ k = CompletionKey(call[h]) /\ \A q \in Live(k) : o <= q
        /\ o \in Nat /\ o >= n
    BY <1>1, <1>8, Lives DEF LiveFrom, Live, LeasesOf
  <2>2. CASE p \in DOMAIN open /\ open[p].left > MaxLag
    <3>1. stray' = stray
      BY <2>2 DEF ServeCompletion
    <3>2. open[p].key = k
      BY <1>2, <2>1, <2>2 DEF KeysAgree
    <3>3. PICK i \in Nat : /\ p \in Entitled(k, i) /\ Entitled(k, n) \subseteq Entitled(k, i) \cup {p}
                           /\ LiveFrom(k, i) \subseteq LiveFrom(k, n)
      <4>1. CASE p >= n
        BY <2>2, <3>2, <4>1 DEF Entitled, OpenFor
      <4>2. CASE p < n
        <5>1. LiveFrom(k, p) \subseteq LiveFrom(k, n)
          BY <2>1, LiveNaturals DEF LiveFrom, GateTypeOK
        <5>2. p \in Entitled(k, p)
          BY <1>5, <2>2, <3>2 DEF Entitled, OpenFor
        <5>3. Entitled(k, n) \subseteq Entitled(k, p)
          BY <1>5, <4>2, Lives DEF Entitled, OpenFor
        <5>4. QED
          BY <1>5, <5>1, <5>2, <5>3
      <4>3. QED
        BY <1>5, <4>1, <4>2
    <3>4. Cardinality(Entitled(k, n)') + 1 <= Cardinality(Entitled(k, i))
      <4>1. Entitled(k, n)' \in SUBSET (Entitled(k, i) \ {p})
        BY <1>3, <3>3
      <4>2. QED
        BY <3>3, <4>1, CoverCounts, Without
    <3>5. Cardinality(LiveFrom(k, i)) <= Cardinality(LiveFrom(k, n))
      BY <3>3, CoverCounts, Finite
    <3>6. Cardinality(Entitled(k, i)) <= Cardinality(LiveFrom(k, i)) + stray[k]
      BY DEF Covered
    <3>7. QED
      BY <1>5, <1>6, <3>1, <3>4, <3>5, <3>6, CoverCounts, CoverCountsNext
  <2>3. CASE ~(p \in DOMAIN open /\ open[p].left > MaxLag)
    <3>1. stray'[k] = stray[k] + 1
      BY <2>1, <2>3 DEF ServeCompletion, GateTypeOK
    <3>2. Cardinality(Entitled(k, n)') <= Cardinality(Entitled(k, n))
      BY <1>3, CoverCounts, Finite
    <3>3. Cardinality(Entitled(k, n)) <= Cardinality(LiveFrom(k, n)) + stray[k]
      BY DEF Covered
    <3>4. QED
      BY <1>5, <1>6, <3>1, <3>2, <3>3, CoverCounts, CoverCountsNext
  <2>4. QED
    BY <2>2, <2>3
<1>9. QED
  BY <1>7, <1>8

\* Time ends entitlements and leases; the oldest caller that stays entitled sees to it that
\* no lease granted after its own has ended.
LEMMA ElapseCovers ==
  ASSUME AdmissionAssumption, GateTypeOK, GateTypeOK', LaterLastLonger', Covered, Elapse
  PROVE  Covered'
<1> SUFFICES ASSUME NEW k \in Key, NEW n \in Nat
             PROVE  Cardinality(Entitled(k, n)') <= Cardinality(LiveFrom(k, n)') + stray'[k]
  BY DEF Covered
<1>1. /\ DOMAIN open' = DOMAIN open /\ DOMAIN leases' = DOMAIN leases /\ stray' = stray
      /\ \A g \in DOMAIN open : /\ open'[g].left = Positive(open[g].left - 1)
                                /\ open'[g].key = open[g].key
      /\ \A q \in DOMAIN leases : leases'[q].key = leases[q].key /\ leases'[q].expires \in Int
  BY DEF Elapse, Tick, GateTypeOK, TypeOK, Lease
<1>2. MaxLag \in Nat /\ stray[k] \in Nat
  BY Lives DEF GateTypeOK
<1>3. CASE Entitled(k, n)' = {}
  BY <1>1, <1>2, <1>3, FS_EmptySet, CoverCountsNext
<1>4. CASE Entitled(k, n)' # {}
  <2> DEFINE E == Entitled(k, n)'
  <2>1. E \in SUBSET Nat /\ E # {}
    BY <1>4, CoverCountsNext
  <2>2. PICK m \in Nat : m \in E /\ \A g \in E : m <= g
    <3> HIDE DEF E
    <3>1. QED
      BY <2>1, OldestIsLeast
  <2>3. /\ m \in Nat /\ m >= n /\ m \in DOMAIN open' /\ open'[m].key = k
        /\ open'[m].left > MaxLag /\ open'[m].left \in Nat
    BY <2>1, <2>2 DEF Entitled, OpenFor, GateTypeOK
  <2>4. E \subseteq Entitled(k, m)'
    BY <2>2 DEF Entitled
  <2>5. Entitled(k, m)' \subseteq Entitled(k, m)
    <3>1. \A g \in DOMAIN open : open'[g].left > MaxLag => open[g].left > MaxLag
      BY <1>1, <1>2, Lives DEF Positive
    <3>2. QED
      BY <1>1, <3>1 DEF Entitled, OpenFor
  <2>6. LiveFrom(k, m) \subseteq LiveFrom(k, m)'
    <3> SUFFICES ASSUME NEW q \in LiveFrom(k, m)
                 PROVE  q \in LiveFrom(k, m)'
      OBVIOUS
    <3>1. q \in DOMAIN leases' /\ q >= m /\ leases'[q].key = k /\ leases'[q].expires \in Int
      BY <1>1 DEF LiveFrom, Live, LeasesOf
    <3>2. open'[m].left <= leases'[q].expires + MaxLag
      BY <2>3, <3>1 DEF LaterLastLonger
    <3>3. leases'[q].expires > 0
      BY <1>2, <2>3, <3>1, <3>2
    <3>4. QED
      BY <3>1, <3>3 DEF LiveFrom, Live, LeasesOf
  <2>7. Cardinality(Entitled(k, m)') <= Cardinality(LiveFrom(k, m)') + stray'[k]
    BY <1>1, <2>3, <2>5, <2>6, CoverKept
  <2>8. Cardinality(E) <= Cardinality(Entitled(k, m)')
    BY <2>4, CoverCountsNext, Finite
  <2>9. Cardinality(LiveFrom(k, m)') <= Cardinality(LiveFrom(k, n)')
    <3>1. LiveFrom(k, m)' \subseteq LiveFrom(k, n)'
      BY <2>3, Lives DEF LiveFrom, Live, LeasesOf, GateTypeOK, TypeOK
    <3>2. QED
      BY <3>1, CoverCountsNext, Finite
  <2>10. QED
    BY <1>1, <1>2, <2>7, <2>8, <2>9, CoverCountsNext
<1>5. QED
  BY <1>3, <1>4

LEMMA CoverStep ==
  ASSUME AdmissionAssumption, GateAssumption, GateTypeOK, GateTypeOK', KeysAgree, CallsAlike,
         LaterLastLonger', Covered, [GateNext]_allVars
  PROVE  Covered'
<1>1. CASE \/ \E c \in Client : \/ Ask(c) \/ Unreachable(c) \/ TimeOut(c) \/ Hear(c)
                                \/ Report(c) \/ Lose(c) \/ Reported(c)
           \/ \E h \in Handler : Discard(h)
           \/ \E table \in Polls : Poll(table)
           \/ UNCHANGED allVars
  <2>1. UNCHANGED <<leases, open, stray>>
    BY <1>1, TableKept
  <2>2. QED
    BY <2>1, TableCovers
<1>2. ASSUME NEW h \in Handler, ServeOther(h)
      PROVE  Covered'
  <2>1. \A q \in DOMAIN leases :
          leases[q].expires > 0 => q \in DOMAIN leases' /\ leases'[q] = leases[q]
    <3>1. leases' = leases \/ leases' = Keep(Kept(h))
      BY <1>2 DEF ServeOther, RefuseName, DelayAtLimit, DelayForCapacity, CompleteNothing
    <3>2. QED
      BY <3>1, KeptLives DEF Keep, Kept
  <2>2. UNCHANGED <<open, stray>>
    BY <1>2 DEF ServeOther, gateVars
  <2>3. QED
    BY <2>1, <2>2, TableCovers
<1>3. CASE Restart
  <2> SUFFICES ASSUME NEW k \in Key, NEW n \in Nat
               PROVE  Cardinality(Entitled(k, n)') <= Cardinality(LiveFrom(k, n)') + stray'[k]
    BY DEF Covered
  <2>1. Entitled(k, n)' = {} /\ stray' = stray
    BY <1>3 DEF Restart, Entitled, OpenFor
  <2>2. stray[k] \in Nat
    BY DEF GateTypeOK
  <2>3. QED
    BY <2>1, <2>2, FS_EmptySet, CoverCountsNext
<1>4. QED
  BY <1>1, <1>2, <1>3, GrantCovers, CompletionCovers, ElapseCovers DEF GateNext, Handle

-----------------------------------------------------------------------------
\* The theorems

LEMMA InitGateInv == GateInit => GateInv
<1> SUFFICES ASSUME GateInit
             PROVE  GateInv
  OBVIOUS
<1>1. GateTypeOK
  BY InitGateType, AdmissionAssumption, GateAssumption
<1>2. RepliesGranted /\ KeysAgree
  BY DEF GateInit, Init, RepliesGranted, KeysAgree, NoReply, NoCall
<1>3. EveryLeaseOpen
  <2> SUFFICES ASSUME NEW k \in Key
               PROVE  Cardinality(LeasesOf(k)) <= Cardinality(OpenFor(k))
    BY DEF EveryLeaseOpen
  <2>1. LeasesOf(k) = {} /\ OpenFor(k) = {}
    BY DEF GateInit, Init, LeasesOf, OpenFor
  <2>2. Cardinality({}) <= Cardinality({})
    BY FS_EmptySet
  <2>3. QED
    BY <2>1, <2>2
<1>4. OneClaimPerCall
  <2>1. Admitting = {} /\ Waiting = {} /\ Delays = {} /\ Begun = {} /\ granted = 0
    BY DEF GateInit, Init, Admitting, Waiting, Delays, Begun, NoCall, NoReply
  <2>2. Cardinality({}) = 0
    BY FS_EmptySet
  <2>3. QED
    BY <2>1, <2>2 DEF OneClaimPerCall
<1>5. QED
  BY <1>1, <1>2, <1>3, <1>4 DEF GateInv

LEMMA GateInductive == GateSpec => []GateInv
<1>1. GateInv /\ [GateNext]_allVars => GateInv'
  BY AdmissionAssumption, GateAssumption, GateTypeStep, RepliesStep, KeysStep, SlotsStep,
     ClaimsStep DEF GateInv
<1>2. QED
  BY InitGateInv, <1>1, PTL DEF GateSpec

\* Callers, connections and controller keep their types for any number of them, and a
\* connection that somebody reads has a request in flight.
THEOREM GateTypeCorrect == GateSpec => []GateTypeOK
<1>1. GateInv => GateTypeOK
  BY DEF GateInv
<1>2. QED
  BY <1>1, GateInductive, PTL

\* complete gives slots back: however responses are lost, callers time out and completions
\* take each other's leases, a key has no more live leases than open admissions.
THEOREM NoSlotLeaks == GateSpec => []NoLeakedSlot
<1>1. GateInv => NoLeakedSlot
  <2> SUFFICES ASSUME GateInv, NEW k \in Key
               PROVE  Cardinality(Live(k)) <= Cardinality(OpenFor(k))
    BY DEF NoLeakedSlot
  <2>1. Live(k) \in SUBSET LeasesOf(k)
    BY DEF Live
  <2>2. /\ Cardinality(LeasesOf(k)) <= Cardinality(OpenFor(k))
        /\ IsFiniteSet(LeasesOf(k)) /\ Cardinality(LeasesOf(k)) \in Nat
        /\ Cardinality(OpenFor(k)) \in Nat
    BY SlotCounts DEF GateInv, EveryLeaseOpen
  <2>3. Cardinality(Live(k)) \in Nat /\ Cardinality(Live(k)) <= Cardinality(LeasesOf(k))
    BY <2>1, <2>2, Finite
  <2>4. QED
    BY <2>2, <2>3
<1>2. QED
  BY <1>1, GateInductive, PTL

\* wait_and_admit never asks again while an answer may still grant a lease that reaches it,
\* nor after one did: the controller grants no more leases than calls have begun.
THEOREM OneLease == GateSpec => []OneLeasePerCall
<1>1. GateInv => OneLeasePerCall
  <2> SUFFICES ASSUME GateInv
               PROVE  granted <= Cardinality(Begun)
    BY DEF OneLeasePerCall, Begun
  <2>1. granted \in Nat
    BY DEF GateInv, GateTypeOK, TypeOK
  <2>2. QED
    BY <2>1, ClaimSets, AdmissionAssumption, GateAssumption DEF GateInv, OneClaimPerCall
<1>2. QED
  BY <1>1, GateInductive, PTL

LEMMA InitCover == GateInit => CoverInv
<1> SUFFICES ASSUME GateInit
             PROVE  CoverInv
  OBVIOUS
<1>1. GateInv
  BY InitGateInv
<1>2. CallsAlike
  BY AdmissionAssumption DEF GateInit, Init, NoCall, CallsAlike, AdmissionAssumption
<1>3. LeftWithin /\ LaterLastLonger
  BY DEF GateInit, LeftWithin, LaterLastLonger
<1>4. Covered
  <2> SUFFICES ASSUME NEW k \in Key, NEW n \in Nat
               PROVE  Cardinality(Entitled(k, n)) <= Cardinality(LiveFrom(k, n)) + stray[k]
    BY DEF Covered
  <2>1. Entitled(k, n) = {} /\ stray[k] = 0
    BY DEF GateInit, Entitled, OpenFor
  <2>2. QED
    BY <1>1, <2>1, FS_EmptySet, CoverCounts DEF GateInv
<1>5. QED
  BY <1>1, <1>2, <1>3, <1>4 DEF CoverInv

\* Completions carry no lease id, and take each other's leases without harm: as long as
\* those who call under one key are estimated alike, whatever is lost, late or restarted,
\* the callers still entitled to a slot are no more than the live leases of their key, save
\* one per completion that a caller without a live lease sent.
THEOREM SlotsCovered ==
  ASSUME EstimatesAlike
  PROVE  GateSpec => []SlotsCoverCallers
<1>1. CoverInv /\ [GateNext]_allVars => CoverInv'
  <2> SUFFICES ASSUME CoverInv, [GateNext]_allVars
               PROVE  CoverInv'
    OBVIOUS
  <2>1. GateInv'
    BY AdmissionAssumption, GateAssumption, GateTypeStep, RepliesStep, KeysStep, SlotsStep,
       ClaimsStep DEF GateInv, CoverInv
  <2>2. CallsAlike'
    BY AdmissionAssumption, GateAssumption, CallsAlikeStep DEF GateInv, CoverInv
  <2>3. LeftWithin' /\ LaterLastLonger'
    BY AdmissionAssumption, GateAssumption, LivesStep DEF GateInv, CoverInv
  <2>4. Covered'
    BY AdmissionAssumption, GateAssumption, <2>1, <2>3, CoverStep DEF GateInv, CoverInv
  <2>5. QED
    BY <2>1, <2>2, <2>3, <2>4 DEF CoverInv
<1>2. CoverInv => SlotsCoverCallers
  <2> SUFFICES ASSUME CoverInv, NEW k \in Key
               PROVE  Cardinality({g \in OpenFor(k) : open[g].left > MaxLag})
                        <= Cardinality(Live(k)) + stray[k]
    BY DEF SlotsCoverCallers
  <2>1. GateTypeOK
    BY DEF CoverInv, GateInv
  <2>2. Entitled(k, 0) = {g \in OpenFor(k) : open[g].left > MaxLag}
    BY <2>1, Lives, AdmissionAssumption DEF Entitled, OpenFor
  <2>3. LiveFrom(k, 0) = Live(k)
    BY <2>1, LiveNaturals DEF LiveFrom, GateTypeOK
  <2>4. Cardinality(Entitled(k, 0)) <= Cardinality(LiveFrom(k, 0)) + stray[k]
    BY DEF CoverInv, Covered
  <2>5. QED
    BY <2>2, <2>3, <2>4
<1>3. QED
  BY InitCover, <1>1, <1>2, PTL DEF GateSpec

-----------------------------------------------------------------------------
\* The controller, beside its callers

\* Callers do to the controller only what its own specification allows; a restart is the
\* one step of theirs that it does not know.
LEMMA CallersFollow ==
  ASSUME [GateNext]_allVars, ~Restart
  PROVE  [Next]_vars
<1>1. ASSUME NEW c \in Client, NEW h \in Handler, NEW op, NEW request,
             Connect(c, h, op, request), op \in {"admit", "complete"}, request \in Requests
      PROVE  Next
  BY <1>1 DEF Connect, Next
<1>2. ASSUME NEW c \in Client, Ask(c) \/ Report(c)
      PROVE  Next
  <2>1. /\ RequestOf[c] \in Requests
        /\ [RequestOf[c] EXCEPT !.tokens = 0] \in Requests
    BY GateAssumption DEF GateAssumption
  <2>2. CASE Ask(c)
    BY <1>1, <2>1, <2>2 DEF Ask
  <2>3. CASE Report(c)
    BY <1>1, <2>1, <2>3 DEF Report
  <2>4. QED
    BY <1>2, <2>2, <2>3
<1>3. ASSUME NEW c \in Client, Unreachable(c) \/ TimeOut(c) \/ Lose(c)
      PROVE  UNCHANGED vars
  BY <1>3 DEF Unreachable, TimeOut, OnError, Lose
<1>4. ASSUME NEW c \in Client, Hear(c) \/ Reported(c)
      PROVE  [Next]_vars
  BY <1>4 DEF Hear, Reported, Next
<1>5. ASSUME NEW h \in Handler, Handle(h) \/ Discard(h)
      PROVE  Next
  BY <1>5 DEF Handle, ServeGrant, ServeCompletion, ServeOther, Discard, Next, Serve
<1>6. CASE (\E table \in Polls : Poll(table)) \/ Elapse
  BY <1>6 DEF Poll, Elapse, Next
<1>7. CASE UNCHANGED allVars
  BY <1>7 DEF allVars
<1>8. QED
  BY <1>2, <1>3, <1>4, <1>5, <1>6, <1>7 DEF GateNext

\* A restart leaves an empty controller.
LEMMA RestartKeeps ==
  ASSUME IInv, Restart
  PROVE  IInv' /\ Pool!Crash /\ LeaseHorizon' /\ ConcurrencyLimit'
<1>1. TypeOK'
  BY AdmissionAssumption, RestartType DEF IInv
<1>2. ClockReads'
  BY AdmissionAssumption DEF AdmissionAssumption, Restart, ClockReads, NoCall
<1>3. Budget'
  <2>1. Admitting' = {} /\ granted' = granted
    BY DEF Restart, Admitting, NoCall
  <2>2. granted \in Nat /\ Cardinality(Admitting) \in Nat /\ MaxGrants \in Nat
    BY FiniteAdmitting, AdmissionAssumption DEF IInv, TypeOK, Admitting, AdmissionAssumption
  <2>3. Cardinality({}) = 0
    BY FS_EmptySet
  <2>4. QED
    BY <2>1, <2>2, <2>3 DEF IInv, Budget
<1>4. DOMAIN leases' = {}
  BY DEF Restart
<1>5. Pool!Crash
  BY <1>4 DEF Pool!Crash, TimeLeft, Live, LeasesOf
<1>6. ConcurrencyLimit'
  <2>1. \A k \in Key : LeasesOf(k)' = {}
    BY <1>4 DEF LeasesOf
  <2>2. QED
    BY <2>1, FS_EmptySet, AdmissionAssumption DEF ConcurrencyLimit, AdmissionAssumption
<1>7. QED
  BY <1>1, <1>2, <1>3, <1>4, <1>5, <1>6 DEF IInv, LeaseHorizon

\* The invariant of the controller, and what it promises of its table, beside callers.
LEMMA BesideCallers == GateSpec => [](IInv /\ ConcurrencyLimit /\ LeaseHorizon)
<1>1. Init => IInv /\ ConcurrencyLimit /\ LeaseHorizon
  <2>1. Init => IInv
    BY InitInvariant
  <2>2. Init => DOMAIN leases = {}
    BY DEF Init
  <2>3. QED
    BY <2>1, <2>2, FS_EmptySet, AdmissionAssumption
    DEF ConcurrencyLimit, LeasesOf, LeaseHorizon, AdmissionAssumption
<1>2. IInv /\ ConcurrencyLimit /\ LeaseHorizon /\ [Next]_vars
        => (IInv /\ ConcurrencyLimit /\ LeaseHorizon)'
  BY AdmissionAssumption, NextType, NextClockReads, NextBudget, NextLimit, NextHorizon DEF IInv
<1>3. IInv /\ ConcurrencyLimit /\ LeaseHorizon /\ [GateNext]_allVars
        => (IInv /\ ConcurrencyLimit /\ LeaseHorizon)'
  BY <1>2, CallersFollow, RestartKeeps
<1>4. QED
  BY <1>1, <1>3, PTL DEF GateSpec, GateInit

\* Whatever callers send, lose or retry, and however often the daemon restarts: no key has
\* more leases than the limit, and none lasts longer than the longest ttl.
THEOREM LimitBesideCallers == GateSpec => []ConcurrencyLimit /\ []LeaseHorizon
BY BesideCallers, PTL

\* Beside callers and restarts the controller implements the volatile pool.
THEOREM PoolBesideCallers == GateSpec => ImplementsVolatilePool
<1>1. GateInit => Pool!Init
  BY DEF GateInit, Init, Pool!Init, TimeLeft, Live, LeasesOf
<1>2. IInv /\ IInv' /\ [GateNext]_allVars => [Pool!Next \/ Pool!Crash]_TimeLeft
  <2> SUFFICES ASSUME IInv, IInv', [GateNext]_allVars
               PROVE  [Pool!Next \/ Pool!Crash]_TimeLeft
    OBVIOUS
  <2>1. CASE Restart
    BY <2>1, RestartKeeps
  <2>2. CASE ~Restart
    BY <2>2, CallersFollow, NextRefines
  <2>3. QED
    BY <2>1, <2>2
<1>3. GateSpec => []IInv
  BY BesideCallers, PTL
<1>4. QED
  BY <1>1, <1>2, <1>3, PTL DEF GateSpec, ImplementsVolatilePool, Pool!VolatileSpec

\* What a delay says stays true beside callers: it blames the limit only when the key was
\* full, and names a start at the reset it waits for, or before it.
THEOREM DelaysBesideCallers == GateSpec => LimitDelayIsJustified /\ NoOversleep
<1> DEFINE Justified == \A h \in Handler :
                          reply'[h].reason = "limit" /\ reply[h].reason = "none" =>
                            Cardinality({g \in LeasesOf(KeyOf(call[h])) :
                                           leases[g].expires > call[h].now}) >= MaxConcurrent
           InTime == \A h \in Handler :
                       LET reset == SnapshotFor(KeyOf(call[h])).reset IN
                       /\ reply'[h].reason = "capacity"
                       /\ reply[h].reason = "none"
                       /\ reset > 0
                       => reply'[h].start \in (reset - MaxLag)..reset
<1>1. ASSUME IInv, [GateNext]_allVars
      PROVE  [Justified]_vars /\ [InTime]_vars
  <2>1. CASE Restart
    <3>1. \A h \in Handler : reply'[h].reason = "none"
      BY <2>1 DEF Restart, NoReply
    <3>2. QED
      BY <3>1
  <2>2. CASE ~Restart
    <3>1. TypeOK /\ ClockReads /\ [Next]_vars
      BY <1>1, <2>2, CallersFollow DEF IInv
    <3>2. Justified
      BY <3>1, LimitDelayCounts
    <3>3. InTime
      BY <3>1, ResetDelayStarts
    <3>4. QED
      BY <3>2, <3>3
  <2>3. QED
    BY <2>1, <2>2
<1>2. GateSpec => []IInv
  BY BesideCallers, PTL
<1>3. QED
  BY <1>1, <1>2, PTL DEF GateSpec, LimitDelayIsJustified, NoOversleep

-----------------------------------------------------------------------------
\* Whose lease it is

\* Each lease is in one place at most: with the caller it went to, or in one response.
OwnGrants ==
  /\ \A c \in Client, h \in Handler : reply[h].grant # 0 => client[c].grant # reply[h].grant
  /\ \A h, other \in Handler :
       h # other /\ reply[h].grant # 0 => reply[h].grant # reply[other].grant
  /\ \A c, other \in Client :
       c # other /\ client[c].grant # 0 => client[c].grant # client[other].grant

\* A caller that does not work yet has no lease, and nobody serves or answers a caller that
\* asks as one that completes.
GrantsFit ==
  /\ \A c \in Client :
       client[c].stage \in {"ready", "asking", "waiting", "failed"} => client[c].grant = 0
  /\ \A h \in Handler :
       peer[h] # Nobody /\ client[peer[h]].stage = "asking" =>
         /\ call[h].op # "complete"
         /\ reply[h].decision = "proceed" => reply[h].grant # 0

\* A step that hands out no lease.
LEMMA OwnKept ==
  ASSUME OwnGrants,
         \A c \in Client : client'[c].grant = client[c].grant,
         \A h \in Handler : reply'[h].grant = reply[h].grant \/ reply'[h].grant = 0
  PROVE  OwnGrants'
BY DEF OwnGrants

\* A caller hears: what was in the response is with the caller now.
LEMMA HearOwn ==
  ASSUME GateTypeOK, OwnGrants, GrantsFit, NEW c \in Client, Hear(c)
  PROVE  OwnGrants' /\ GrantsFit'
<1>1. PICK h \in Handler : /\ peer[h] = c
                          /\ Deliver(h)
                          /\ client' = [client EXCEPT ![c] =
                               IF reply[h].decision = "proceed"
                               THEN [stage |-> "working", sleep |-> 0, grant |-> reply[h].grant]
                               ELSE [stage |-> "waiting", sleep |-> SleepFor(reply[h]), grant |-> 0]]
  BY DEF Hear
<1>2. client[c].stage = "asking" /\ Abandon(c)
  BY DEF Hear
<1>3. client[c].grant = 0
  BY <1>2 DEF GrantsFit
<1>4. /\ reply'[h].grant = 0
      /\ \A other \in Handler : other # h => reply'[other] = reply[other]
      /\ call' = call
  BY <1>1 DEF Deliver, NoReply, GateTypeOK, TypeOK
<1>5. /\ client'[c].grant \in {0, reply[h].grant}
      /\ client'[c].stage \in {"waiting", "working"}
      /\ client'[c].stage = "waiting" => client'[c].grant = 0
      /\ \A other \in Client : other # c => client'[other] = client[other]
  BY <1>1 DEF GateTypeOK
<1>6. OwnGrants'
  <2>1. ASSUME NEW d \in Client, NEW g \in Handler, reply'[g].grant # 0
        PROVE  client'[d].grant # reply'[g].grant
    BY <1>3, <1>4, <1>5, <2>1 DEF OwnGrants
  <2>2. ASSUME NEW g \in Handler, NEW other \in Handler, g # other, reply'[g].grant # 0
        PROVE  reply'[g].grant # reply'[other].grant
    BY <1>4, <2>2 DEF OwnGrants
  <2>3. ASSUME NEW d \in Client, NEW other \in Client, d # other, client'[d].grant # 0
        PROVE  client'[d].grant # client'[other].grant
    BY <1>4, <1>5, <2>3 DEF OwnGrants
  <2>4. QED
    BY <2>1, <2>2, <2>3 DEF OwnGrants
<1>7. \A g \in Handler : peer'[g] # Nobody => peer'[g] = peer[g] /\ peer[g] # c
  BY <1>2 DEF Abandon, GateTypeOK
<1>8. ASSUME NEW g \in Handler, peer'[g] # Nobody, client'[peer'[g]].stage = "asking"
      PROVE  /\ call'[g].op # "complete"
             /\ reply'[g].decision = "proceed" => reply'[g].grant # 0
  <2>1. g # h /\ peer[g] \in Client \ {c} /\ peer'[g] = peer[g]
    BY <1>1, <1>7, <1>8 DEF GateTypeOK
  <2>2. client[peer[g]].stage = "asking"
    BY <1>5, <1>8, <2>1
  <2>3. QED
    BY <1>4, <1>8, <2>1, <2>2 DEF GrantsFit
<1>9. \A d \in Client :
        client'[d].stage \in {"ready", "asking", "waiting", "failed"} => client'[d].grant = 0
  BY <1>5 DEF GrantsFit
<1>10. QED
  BY <1>6, <1>8, <1>9 DEF GrantsFit

\* A caller that moves: how its stage and its lease change, and nobody else's.
LEMMA MoveShape ==
  ASSUME GateTypeOK, NEW c \in Client, NEW stage, MoveTo(c, stage)
  PROVE  /\ \A d \in Client : client'[d].grant = client[d].grant
         /\ client'[c].stage = stage
         /\ \A d \in Client : d # c => client'[d] = client[d]
<1>1. \A d \in Client : client[d] \in [stage : Stage, sleep : Nat, grant : 0..granted]
  BY DEF GateTypeOK
<1>2. QED
  BY <1>1, MoveKeepsGrant DEF MoveTo, GateTypeOK

\* The other steps of a caller.
LEMMA CallerOwn ==
  ASSUME GateAssumption, GateTypeOK, OwnGrants, GrantsFit, NEW c \in Client,
         Ask(c) \/ Unreachable(c) \/ TimeOut(c) \/ Report(c) \/ Lose(c) \/ Reported(c)
  PROVE  OwnGrants' /\ GrantsFit'
<1>1. PICK stage \in {"asking", "working", "failed", "reporting", "done"} :
        /\ MoveTo(c, stage)
        /\ stage \in {"asking", "failed"} => client[c].stage \in {"ready", "waiting", "asking"}
        /\ stage = "asking" <=> Ask(c)
  <2>1. CASE Ask(c)
    BY <2>1 DEF Ask, ReadyToAsk
  <2>2. CASE (Unreachable(c) \/ TimeOut(c)) /\ ~Ask(c)
    BY <2>2 DEF Unreachable, TimeOut, OnError, ReadyToAsk
  <2>3. CASE (Report(c) \/ Lose(c) \/ Reported(c)) /\ ~Ask(c)
    BY <2>3 DEF Report, Lose, Reported
  <2>4. QED
    BY <2>1, <2>2, <2>3
<1>2. /\ \A d \in Client : client'[d].grant = client[d].grant
      /\ client'[c].stage = stage
      /\ \A d \in Client : d # c => client'[d] = client[d]
  BY <1>1, MoveShape
<1>3. \A h \in Handler : /\ (reply'[h] = reply[h] \/ reply'[h] = NoReply)
                        /\ (call'[h] = call[h] \/ peer'[h] = c)
  <2>1. ASSUME NEW h \in Handler, NEW op, NEW request, Connect(c, h, op, request)
        PROVE  \A g \in Handler : /\ reply'[g] = reply[g]
                                  /\ (call'[g] = call[g] \/ peer'[g] = c)
    BY <2>1 DEF Connect, Arrive, GateTypeOK, TypeOK
  <2>2. CASE Ask(c) \/ Report(c)
    BY <2>1, <2>2 DEF Ask, Report
  <2>3. CASE Unreachable(c) \/ TimeOut(c) \/ Lose(c)
    BY <2>3 DEF Unreachable, TimeOut, OnError, Lose, vars
  <2>4. CASE Reported(c)
    BY <2>4 DEF Reported, Deliver, vars, GateTypeOK, TypeOK
  <2>5. QED
    BY <2>2, <2>3, <2>4
<1>4. OwnGrants'
  <2>1. \A h \in Handler : reply'[h].grant = reply[h].grant \/ reply'[h].grant = 0
    BY <1>3 DEF NoReply
  <2>2. \A d \in Client : client'[d].grant = client[d].grant
    BY <1>2
  <2>3. QED
    BY <2>1, <2>2, OwnKept
<1>5. \A d \in Client :
        client'[d].stage \in {"ready", "asking", "waiting", "failed"} => client'[d].grant = 0
  BY <1>1, <1>2 DEF GrantsFit
<1>6. ASSUME NEW h \in Handler, peer'[h] # Nobody, client'[peer'[h]].stage = "asking"
      PROVE  /\ call'[h].op # "complete"
             /\ reply'[h].decision = "proceed" => reply'[h].grant # 0
  <2>1. CASE Ask(c) /\ peer'[h] = c
    <3>1. PICK g \in Handler : Connect(c, g, "admit", RequestOf[c])
      BY <2>1 DEF Ask
    <3>2. client[c].stage \notin {"asking", "reporting"}
      BY <2>1 DEF Ask, ReadyToAsk
    <3>3. h = g
      BY <2>1, <3>1, <3>2, <1>6 DEF Connect, GateTypeOK
    <3>4. call'[h].op = "admit" /\ reply'[h] = reply[h] /\ reply[h].decision = "none"
      BY <3>1, <3>3 DEF Connect, Arrive, Idle, GateTypeOK, TypeOK
    <3>5. QED
      BY <3>4
  <2>2. CASE peer'[h] # c
    <3>1. peer'[h] = peer[h]
      BY <1>6, <2>2 DEF Ask, Unreachable, TimeOut, OnError, Report, Lose, Reported, Connect,
         Abandon, GateTypeOK
    <3>2. peer[h] \in Client /\ client[peer[h]].stage = "asking"
      BY <1>2, <1>6, <2>2, <3>1 DEF GateTypeOK
    <3>3. QED
      BY <1>3, <1>6, <2>2, <3>1, <3>2 DEF GrantsFit, NoReply
  <2>3. CASE ~Ask(c) /\ peer'[h] = c
    BY <1>1, <1>2, <1>6, <2>3
  <2>4. QED
    BY <2>1, <2>2, <2>3
<1>7. QED
  BY <1>4, <1>5, <1>6 DEF GrantsFit

\* A handler answers: with a new lease to the one that asked for it, or with none.
LEMMA AnswerOwn ==
  ASSUME GateTypeOK, RepliesGranted, OwnGrants, GrantsFit, UNCHANGED <<client, peer>>,
         NEW h \in Handler, NEW r, Answer(h, r), r.grant \in {0, granted + 1},
         call[h].op # "complete" /\ r.decision = "proceed" => r.grant # 0
  PROVE  OwnGrants' /\ GrantsFit'
<1>1. /\ reply'[h] = r
      /\ \A g \in Handler : g # h => reply'[g] = reply[g] /\ call'[g] = call[g]
      /\ call'[h].op = "none"
  BY DEF Answer, NoCall, GateTypeOK, TypeOK
<1>2. granted \in Nat
  BY DEF GateTypeOK, TypeOK
<1>3. \A c \in Client : client[c].grant \in 0..granted
  BY DEF GateTypeOK
<1>4. \A g \in Handler : reply[g].grant \in 0..granted
  BY DEF GateTypeOK, TypeOK, Reply, RepliesGranted
<1>5. OwnGrants'
  <2>1. CASE r.grant = 0
    BY <1>1, <2>1, OwnKept
  <2>2. CASE r.grant = granted + 1
    <3>1. \A c \in Client : client'[c].grant = client[c].grant /\ client[c].grant # r.grant
      BY <1>2, <1>3, <2>2
    <3>2. \A g \in Handler : reply[g].grant # r.grant
      BY <1>2, <1>4, <2>2
    <3>3. QED
      BY <1>1, <3>1, <3>2 DEF OwnGrants
  <2>3. QED
    BY <2>1, <2>2
<1>6. ASSUME NEW g \in Handler, peer'[g] # Nobody, client'[peer'[g]].stage = "asking"
      PROVE  /\ call'[g].op # "complete"
             /\ reply'[g].decision = "proceed" => reply'[g].grant # 0
  BY <1>1, <1>6 DEF GrantsFit
<1>7. QED
  BY <1>5, <1>6 DEF GrantsFit

LEMMA OwnStep ==
  ASSUME AdmissionAssumption, GateAssumption, GateTypeOK, RepliesGranted, OwnGrants, GrantsFit,
         [GateNext]_allVars
  PROVE  OwnGrants' /\ GrantsFit'
<1>1. CASE UNCHANGED <<client, peer, call, reply>>
  BY <1>1 DEF OwnGrants, GrantsFit
<1>2. ASSUME NEW c \in Client,
             Ask(c) \/ Unreachable(c) \/ TimeOut(c) \/ Hear(c) \/ Report(c) \/ Lose(c) \/ Reported(c)
      PROVE  OwnGrants' /\ GrantsFit'
  BY <1>2, HearOwn, CallerOwn
<1>3. ASSUME NEW h \in Handler, Handle(h)
      PROVE  OwnGrants' /\ GrantsFit'
  <2>1. UNCHANGED <<client, peer>>
    BY <1>3 DEF Handle, ServeGrant, ServeCompletion, ServeOther, gateVars
  <2>2. CASE ServeGrant(h)
    <3>1. Answer(h, Proceeds(call[h].now, "admitted", granted + 1)) /\ granted \in Nat
      BY <2>2 DEF ServeGrant, Grant, GateTypeOK, TypeOK
    <3>2. QED
      BY <2>1, <3>1, AnswerOwn DEF Proceeds
  <2>3. CASE ServeCompletion(h)
    BY <2>1, <2>3, AnswerOwn DEF ServeCompletion, Complete, Proceeds
  <2>4. CASE ServeOther(h)
    <3>1. PICK r : Answer(h, r) /\ r.grant = 0 /\ (r.decision = "proceed" => call[h].op = "complete")
      <4>1. CASE CompleteNothing(h)
        BY <4>1 DEF CompleteNothing, Proceeds
      <4>2. CASE RefuseName(h)
        BY <4>2 DEF RefuseName, Delayed
      <4>3. CASE DelayAtLimit(h)
        BY <4>3 DEF DelayAtLimit, Delayed
      <4>4. CASE DelayForCapacity(h)
        BY <4>4 DEF DelayForCapacity, Delayed
      <4>5. QED
        BY <2>4, <4>1, <4>2, <4>3, <4>4 DEF ServeOther
    <3>2. QED
      BY <2>1, <3>1, AnswerOwn
  <2>5. QED
    BY <1>3, <2>2, <2>3, <2>4 DEF Handle
<1>4. ASSUME NEW h \in Handler, Discard(h)
      PROVE  OwnGrants' /\ GrantsFit'
  <2>1. /\ UNCHANGED <<client, peer, call>>
        /\ \A g \in Handler : reply'[g] = reply[g] \/ reply'[g] = NoReply
    BY <1>4 DEF Discard, Deliver, gateVars, GateTypeOK, TypeOK
  <2>2. OwnGrants'
    BY <2>1, OwnKept DEF NoReply
  <2>3. GrantsFit'
    BY <2>1 DEF GrantsFit, NoReply
  <2>4. QED
    BY <2>2, <2>3
<1>5. CASE Restart
  <2>1. /\ UNCHANGED client
        /\ \A h \in Handler : reply'[h].grant = 0 /\ peer'[h] = Nobody
    BY <1>5 DEF Restart, NoReply
  <2>2. OwnGrants'
    BY <2>1, OwnKept
  <2>3. GrantsFit'
    BY <2>1 DEF GrantsFit
  <2>4. QED
    BY <2>2, <2>3
<1>6. CASE Elapse
  <2>1. /\ \A c \in Client : client[c] \in [stage : Stage, sleep : Nat, grant : 0..granted]
        /\ \A h \in Handler : reply[h] \in Reply /\ call[h] \in Call
    BY DEF GateTypeOK, TypeOK
  <2>2. \A c \in Client : /\ client'[c].grant = client[c].grant
                         /\ client'[c].stage = client[c].stage
    BY <1>6, <2>1 DEF Elapse
  <2>3. \A h \in Handler : /\ reply'[h].grant = reply[h].grant
                          /\ reply'[h].decision = reply[h].decision
                          /\ call'[h].op = call[h].op
    BY <1>6, <2>1 DEF Elapse, Tick, Reply, Call
  <2>4. UNCHANGED peer
    BY <1>6 DEF Elapse
  <2>5. OwnGrants'
    BY <2>2, <2>3, OwnKept
  <2>6. GrantsFit'
    BY <2>2, <2>3, <2>4 DEF GrantsFit, GateTypeOK
  <2>7. QED
    BY <2>5, <2>6
<1>7. CASE \E table \in Polls : Poll(table)
  BY <1>1, <1>7 DEF Poll, UpdateSnapshots, gateVars
<1>8. CASE UNCHANGED allVars
  BY <1>1, <1>8 DEF allVars, vars, gateVars
<1>9. QED
  BY <1>2, <1>3, <1>4, <1>5, <1>6, <1>7, <1>8 DEF GateNext

\* A step of one caller, as the abstract calls see it.
LEMMA PhaseMoves ==
  ASSUME NEW c \in Client, NEW from, NEW to, Phase(c) \in from, Phase(c)' = to,
         \A d \in Client : d # c => Phase(d)' = Phase(d)
  PROVE  Gated!Move(c, from, to)
BY DEF Gated!Move, Phases

LEMMA SamePhases ==
  ASSUME \A d \in Client : client'[d].stage = client[d].stage
  PROVE  \A d \in Client : Phase(d)' = Phase(d)
BY DEF Phase

LEMMA HeldKept ==
  ASSUME \A d \in Client : client'[d].grant = client[d].grant
  PROVE  Held' = Held
BY DEF Held

LEMMA CallStutters ==
  ASSUME \A d \in Client : Phase(d)' = Phase(d) /\ client'[d].grant = client[d].grant
  PROVE  [Gated!Next]_<<Phases, Held>>
BY DEF Phases, Held

\* A caller hears: it is admitted under the lease of the response, or waits on.
LEMMA HearRefines ==
  ASSUME IInv, GateTypeOK, RepliesGranted, OwnGrants, GrantsFit, NEW c \in Client, Hear(c)
  PROVE  [Gated!Next]_<<Phases, Held>>
<1>1. PICK h \in Handler : /\ peer[h] = c
                          /\ Deliver(h)
                          /\ client' = [client EXCEPT ![c] =
                               IF reply[h].decision = "proceed"
                               THEN [stage |-> "working", sleep |-> 0, grant |-> reply[h].grant]
                               ELSE [stage |-> "waiting", sleep |-> SleepFor(reply[h]), grant |-> 0]]
  BY DEF Hear
<1>2. client[c].stage = "asking" /\ client[c].grant = 0
  BY DEF Hear, GrantsFit
<1>3. \A d \in Client : d # c => client'[d] = client[d]
  BY <1>1 DEF GateTypeOK
<1>4. \A d \in Client : d # c => Phase(d)' = Phase(d)
  BY <1>3 DEF Phase
<1>5. Phase(c) = "asking"
  BY <1>2 DEF Phase
<1>6. CASE reply[h].decision = "proceed"
  <2>1. client'[c].stage = "working" /\ client'[c].grant = reply[h].grant
    BY <1>1, <1>6 DEF GateTypeOK
  <2>2. Gated!Move(c, {"asking"}, "running")
    <3>1. Phase(c)' = "running"
      BY <2>1 DEF Phase
    <3>2. Phase(c) \in {"asking"}
      BY <1>5
    <3>3. QED
      BY <3>1, <3>2, <1>4, PhaseMoves
  <2>3. reply[h].grant # 0
    BY <1>1, <1>2, <1>6, GateAssumption DEF GrantsFit, GateAssumption
  <2>4. reply[h].grant \in 1..MaxGrants
    <3>1. reply[h].grant \in Nat /\ granted \in Nat /\ reply[h].grant <= granted
      BY DEF GateTypeOK, TypeOK, Reply, RepliesGranted
    <3>2. Cardinality(Admitting) \in Nat /\ MaxGrants \in Nat
      BY FiniteAdmitting, AdmissionAssumption DEF Admitting, AdmissionAssumption
    <3>3. QED
      BY <2>3, <3>1, <3>2 DEF IInv, Budget
  <2>5. PICK lease \in 1..MaxGrants : lease = reply[h].grant
    BY <2>4
  <2>6. \A other \in Client : Held[other] # lease
    BY <2>3, <2>5 DEF OwnGrants, Held
  <2>7. Held' = [Held EXCEPT ![c] = lease]
    BY <1>3, <2>1, <2>5 DEF Held
  <2>8. Gated!Admit(c, lease)
    BY <2>2, <2>6, <2>7 DEF Gated!Admit
  <2>9. QED
    BY <2>8 DEF Gated!Next
<1>7. CASE reply[h].decision # "proceed"
  <2>1. client'[c].stage = "waiting" /\ client'[c].grant = 0
    BY <1>1, <1>7 DEF GateTypeOK
  <2>2. Phase(c)' = Phase(c)
    BY <1>5, <2>1 DEF Phase
  <2>3. QED
    BY <1>2, <1>3, <1>4, <2>1, <2>2, CallStutters
<1>8. QED
  BY <1>6, <1>7

\* The other steps of a caller, which move it on under the lease it has.
LEMMA CallerRefines ==
  ASSUME GateTypeOK, NEW c \in Client,
         Ask(c) \/ Unreachable(c) \/ TimeOut(c) \/ Report(c) \/ Lose(c) \/ Reported(c)
  PROVE  [Gated!Next]_<<Phases, Held>>
<1>1. ASSUME NEW stage, MoveTo(c, stage)
      PROVE  /\ Held' = Held
             /\ \A d \in Client : client'[d].grant = client[d].grant
             /\ client'[c].stage = stage
             /\ \A d \in Client : d # c => Phase(d)' = Phase(d)
  BY <1>1, MoveShape, HeldKept DEF Phase
<1>2. CASE Ask(c)
  <2>1. CASE client[c].stage = "ready"
    <3>1. Phase(c) \in {"before"} /\ Phase(c)' = "asking"
      BY <1>1, <1>2, <2>1 DEF Ask, Phase
    <3>2. Gated!Ask(c)
      BY <1>1, <1>2, <3>1, PhaseMoves DEF Ask, Gated!Ask
    <3>3. QED
      BY <3>2 DEF Gated!Next
  <2>2. CASE client[c].stage = "waiting"
    <3>1. Phase(c)' = Phase(c)
      BY <1>1, <1>2, <2>2 DEF Ask, Phase
    <3>2. QED
      BY <1>1, <1>2, <3>1, CallStutters DEF Ask
  <2>3. QED
    BY <1>2, <2>1, <2>2 DEF Ask, ReadyToAsk
<1>3. CASE Unreachable(c) \/ TimeOut(c)
  <2>1. Phase(c) \in {"before", "asking"}
    BY <1>3 DEF Unreachable, TimeOut, ReadyToAsk, Phase
  <2>2. CASE c \in Fallback
    <3>1. MoveTo(c, "working")
      BY <1>3, <2>2 DEF Unreachable, TimeOut, OnError
    <3>2. Phase(c)' = "running"
      BY <1>1, <3>1 DEF Phase
    <3>3. Gated!RunUngated(c)
      BY <1>1, <2>1, <2>2, <3>1, <3>2, PhaseMoves DEF Gated!RunUngated
    <3>4. QED
      BY <3>3 DEF Gated!Next
  <2>3. CASE c \notin Fallback
    <3>1. MoveTo(c, "failed")
      BY <1>3, <2>3 DEF Unreachable, TimeOut, OnError
    <3>2. Phase(c)' = "failed"
      BY <1>1, <3>1 DEF Phase
    <3>3. Gated!GiveUp(c)
      BY <1>1, <2>1, <2>3, <3>1, <3>2, PhaseMoves DEF Gated!GiveUp
    <3>4. QED
      BY <3>3 DEF Gated!Next
  <2>4. QED
    BY <2>2, <2>3
<1>4. CASE Report(c) \/ Lose(c)
  <2>1. PICK stage \in {"reporting", "done"} : client[c].stage = "working" /\ MoveTo(c, stage)
    BY <1>4 DEF Report, Lose
  <2>2. Phase(c) \in {"running"} /\ Phase(c)' = "over"
    BY <1>1, <2>1 DEF Phase
  <2>3. Gated!End(c)
    BY <1>1, <2>1, <2>2, PhaseMoves DEF Gated!End
  <2>4. QED
    BY <2>3 DEF Gated!Next
<1>5. CASE Reported(c)
  <2>1. client[c].stage = "reporting" /\ MoveTo(c, "done")
    BY <1>5 DEF Reported
  <2>2. Phase(c)' = Phase(c)
    BY <1>1, <2>1 DEF Phase
  <2>3. QED
    BY <1>1, <2>1, <2>2, CallStutters
<1>6. QED
  BY <1>2, <1>3, <1>4, <1>5

\* Every step of callers, network and controller is a step of the calls, or none.
LEMMA GateRefines ==
  ASSUME IInv, GateTypeOK, RepliesGranted, OwnGrants, GrantsFit, [GateNext]_allVars
  PROVE  [Gated!Next]_<<Phases, Held>>
<1>1. CASE UNCHANGED client
  BY <1>1, CallStutters DEF Phase
<1>2. CASE Elapse
  <2>1. \A d \in Client : client[d] \in [stage : Stage, sleep : Nat, grant : 0..granted]
    BY DEF GateTypeOK
  <2>2. \A d \in Client : /\ client'[d].grant = client[d].grant
                         /\ client'[d].stage = client[d].stage
    BY <1>2, <2>1 DEF Elapse
  <2>3. QED
    BY <2>2, SamePhases, CallStutters
<1>3. QED
  BY <1>1, <1>2, HearRefines, CallerRefines
     DEF GateNext, Handle, ServeGrant, ServeCompletion, ServeOther, Discard, Poll, Restart,
         gateVars, allVars

LEMMA GrantsInductive == GateSpec => [](GateInv /\ IInv /\ OwnGrants /\ GrantsFit)
<1>1. GateInit => OwnGrants /\ GrantsFit
  BY DEF GateInit, Init, OwnGrants, GrantsFit, NoReply, NoCall
<1>2. GateInv /\ OwnGrants /\ GrantsFit /\ [GateNext]_allVars => OwnGrants' /\ GrantsFit'
  BY AdmissionAssumption, GateAssumption, OwnStep DEF GateInv
<1>3. GateSpec => []IInv
  BY BesideCallers, PTL
<1>4. QED
  BY <1>1, <1>2, <1>3, GateInductive, PTL DEF GateSpec

\* Whatever the network, the clocks and the daemon do, each call keeps the promise of the
\* crate: it runs at most once, under a lease no other call ever has, or ungated where its
\* owner allows that, and it is given up only where its owner does not.
THEOREM CallsAreGated == GateSpec => ImplementsGatedCalls
<1>1. GateInit => Gated!Init
  BY DEF GateInit, Gated!Init, Phase, Phases, Held
<1>2. GateInv /\ IInv /\ OwnGrants /\ GrantsFit /\ [GateNext]_allVars =>
        [Gated!Next]_<<Phases, Held>>
  BY GateRefines DEF GateInv
<1>3. QED
  BY <1>1, <1>2, GrantsInductive, PTL DEF GateSpec, ImplementsGatedCalls, Gated!Spec

\* Callers at work are at work on different open admissions.
LEMMA WorkersHaveLeases ==
  ASSUME GateTypeOK, OwnGrants, NEW k \in Key
  PROVE  LET entitled == {g \in OpenFor(k) : open[g].left > MaxLag}
         IN  /\ Cardinality(AtWork(k)) \in Nat /\ Cardinality(entitled) \in Nat
             /\ Cardinality(AtWork(k)) <= Cardinality(entitled)
<1> DEFINE entitled == {g \in OpenFor(k) : open[g].left > MaxLag}
           lease == [c \in AtWork(k) |-> client[c].grant]
<1>1. entitled \in SUBSET DOMAIN open
  BY DEF OpenFor
<1>2. IsFiniteSet(entitled) /\ Cardinality(entitled) \in Nat
  BY <1>1, FiniteOpen
<1>3. lease \in [AtWork(k) -> entitled]
  BY DEF AtWork
<1>4. ASSUME NEW c \in AtWork(k), NEW d \in AtWork(k), lease[c] = lease[d]
      PROVE  c = d
  <2>1. c \in Client /\ d \in Client /\ client[c].grant \in DOMAIN open
    BY DEF AtWork, OpenFor
  <2>2. client[c].grant # 0
    BY <2>1, NoneIsNotOpen
  <2>3. QED
    BY <1>4, <2>1, <2>2 DEF OwnGrants
<1>5. lease \in Injection(AtWork(k), entitled)
  BY <1>3, <1>4 DEF Injection, IsInjective
<1>6. IsFiniteSet(AtWork(k)) /\ Cardinality(AtWork(k)) <= Cardinality(entitled)
  BY <1>2, <1>5, FS_Injection
<1>7. QED
  BY <1>2, <1>6, FS_CardinalityType

\* max_concurrent as the provider sees it: when those who call under one key are estimated
\* alike, the callers at work inside their leases stay within the limit whatever is lost,
\* late or restarted, save one per completion that a caller without a live lease sent.
THEOREM WorkersBounded ==
  ASSUME EstimatesAlike
  PROVE  GateSpec => []WorkersWithinLimit
<1>1. ASSUME GateTypeOK, OwnGrants, ConcurrencyLimit, SlotsCoverCallers
      PROVE  WorkersWithinLimit
  <2> SUFFICES ASSUME NEW k \in Key
               PROVE  Cardinality(AtWork(k)) <= MaxConcurrent + stray[k]
    BY DEF WorkersWithinLimit
  <2> DEFINE entitled == {g \in OpenFor(k) : open[g].left > MaxLag}
  <2>1. /\ Cardinality(AtWork(k)) \in Nat /\ Cardinality(entitled) \in Nat
        /\ Cardinality(AtWork(k)) <= Cardinality(entitled)
    BY <1>1, WorkersHaveLeases
  <2>2. Cardinality(entitled) <= Cardinality(Live(k)) + stray[k]
    BY <1>1 DEF SlotsCoverCallers
  <2>3. IsFiniteSet(LeasesOf(k)) /\ Cardinality(LeasesOf(k)) \in Nat
    BY <1>1, SlotCounts
  <2>4. Live(k) \in SUBSET LeasesOf(k)
    BY DEF Live
  <2>5. Cardinality(Live(k)) \in Nat /\ Cardinality(Live(k)) <= Cardinality(LeasesOf(k))
    BY <2>3, <2>4, Finite
  <2>6. Cardinality(LeasesOf(k)) <= MaxConcurrent
    BY <1>1 DEF ConcurrencyLimit
  <2>7. stray[k] \in Nat /\ MaxConcurrent \in Nat
    BY <1>1, AdmissionAssumption DEF GateTypeOK, AdmissionAssumption
  <2>8. QED
    BY <2>1, <2>2, <2>3, <2>5, <2>6, <2>7
<1>2. GateInv => GateTypeOK
  BY DEF GateInv
<1>3. GateSpec => []SlotsCoverCallers
  BY SlotsCovered
<1>4. QED
  BY <1>1, <1>2, <1>3, BesideCallers, GrantsInductive, PTL
=============================================================================
