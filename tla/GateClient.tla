----------------------------- MODULE GateClient -----------------------------
(***************************************************************************)
(* Callers of the ingauge-gate crate (src/crates/ingauge-gate/src/lib.rs)  *)
(* against one admission controller, over HTTP:                            *)
(*                                                                         *)
(*    wait_and_admit (ask, sleep, ask again ...);  the call;  complete     *)
(*                                                                         *)
(* A request or a response may be lost, and a caller may give up on an     *)
(* answer that is still coming: the handler then serves a connection that  *)
(* nobody reads, and a lease it grants is an orphan.  The daemon keeps its *)
(* leases in memory, so Restart forgets them while their callers work on.  *)
(* A caller that is killed is one that times out without fallback, or one  *)
(* that loses its completion.                                              *)
(***************************************************************************)
EXTENDS Admission

CONSTANTS
  Client,       \* callers; each makes one call
  Nobody,       \* the far end of a connection that nobody reads
  RequestOf,    \* what each caller asks for
  Fallback,     \* callers whose Admitter has fallback_on_error
  MaxRestarts   \* bound: restarts of the daemon

ASSUME GateAssumption ==
  /\ Nobody \notin Client /\ IsFiniteSet(Client)
  /\ RequestOf \in [Client -> Requests]
  /\ \A c \in Client : [RequestOf[c] EXCEPT !.tokens = 0] \in Requests
  /\ Fallback \subseteq Client
  /\ MaxRestarts \in Nat

VARIABLES
  client,    \* per caller: where it is, how long it still sleeps, the lease it was granted
  peer,      \* per handler: who reads its response
  paidBy,    \* history, per handler: the lease the sender of a completion was granted
  open,      \* history: grant -> key and remaining ttl, until its completion is served
  stray,     \* history, per key: completions served for callers without a live lease
  restarts   \* restarts so far

gateVars == <<client, peer, paidBy, open, stray, restarts>>
allVars == <<vars, gateVars>>

Stage == {"ready", "asking", "waiting", "working", "reporting", "done", "failed"}

Positive(t) == IF t > 0 THEN t ELSE 0

GateInit ==
  /\ Init
  /\ client = [c \in Client |-> [stage |-> "ready", sleep |-> 0, grant |-> 0]]
  /\ peer = [h \in Handler |-> Nobody]
  /\ paidBy = [h \in Handler |-> 0]
  /\ open = [g \in {} |-> g]
  /\ stray = [k \in Key |-> 0]
  /\ restarts = 0

\* Every connection of c is dropped; what its handlers are doing goes on.
Abandon(c) == peer' = [h \in Handler |-> IF peer[h] = c THEN Nobody ELSE peer[h]]

MoveTo(c, stage) == client' = [client EXCEPT ![c].stage = stage]

\* wait_and_admit reaches the head of its loop: at first, or after a sleep.
ReadyToAsk(c) ==
  \/ client[c].stage = "ready"
  \/ client[c].stage = "waiting" /\ client[c].sleep = 0

Connect(c, h, op, request) ==
  /\ peer[h] = Nobody
  /\ Arrive(h, op, request)
  /\ peer' = [peer EXCEPT ![h] = c]

Ask(c) ==
  /\ ReadyToAsk(c)
  /\ \E h \in Handler : Connect(c, h, "admit", RequestOf[c])
  /\ MoveTo(c, "asking")
  /\ UNCHANGED <<paidBy, open, stray, restarts>>

\* Mutant: an error is retried, like a delay.
RetryOnError(c) ==
  /\ client' = [client EXCEPT ![c].stage = "waiting", ![c].sleep = 0]
  /\ Abandon(c)
  /\ UNCHANGED <<vars, paidBy, open, stray, restarts>>

\* Mutant: the call goes ahead whatever fallback_on_error says.
RunOnError(c) ==
  /\ MoveTo(c, "working")
  /\ Abandon(c)
  /\ UNCHANGED <<vars, paidBy, open, stray, restarts>>

\* admit() is an error: the call goes ahead ungated, or wait_and_admit returns the error.
OnError(c) ==
  /\ MoveTo(c, IF c \in Fallback THEN "working" ELSE "failed")
  /\ Abandon(c)
  /\ UNCHANGED <<vars, paidBy, open, stray, restarts>>

\* The request never reaches a handler.
Unreachable(c) == ReadyToAsk(c) /\ OnError(c)

\* The client's timeout fires, however far the handler has come.
TimeOut(c) == client[c].stage = "asking" /\ OnError(c)

\* wait_once: until the estimated start, or for delay_ms if that has passed already.
SleepFor(r) == IF r.start > 0 THEN r.start ELSE r.delay

Hear(c) ==
  /\ client[c].stage = "asking"
  /\ \E h \in Handler :
       /\ peer[h] = c
       /\ Deliver(h)
       /\ client' = [client EXCEPT ![c] =
            IF reply[h].decision = "proceed"
            THEN [stage |-> "working", sleep |-> 0, grant |-> reply[h].grant]
            ELSE [stage |-> "waiting", sleep |-> SleepFor(reply[h]), grant |-> 0]]
  /\ Abandon(c)
  /\ UNCHANGED <<paidBy, open, stray, restarts>>

\* The call is over, however long it took, and the caller reports it without an estimate.
Report(c) ==
  /\ client[c].stage = "working"
  /\ \E h \in Handler :
       /\ Connect(c, h, "complete", [RequestOf[c] EXCEPT !.tokens = 0])
       /\ paidBy' = [paidBy EXCEPT ![h] = client[c].grant]
  /\ MoveTo(c, "reporting")
  /\ UNCHANGED <<open, stray, restarts>>

\* The caller dies at work, or its completion is lost: complete ignores the error.
Lose(c) ==
  /\ client[c].stage = "working"
  /\ MoveTo(c, "done")
  /\ UNCHANGED <<vars, peer, paidBy, open, stray, restarts>>

\* complete returns: it has the response, or its timeout fires first.
Reported(c) ==
  /\ client[c].stage = "reporting"
  /\ \/ \E h \in Handler : peer[h] = c /\ Deliver(h)
     \/ UNCHANGED vars
  /\ MoveTo(c, "done")
  /\ Abandon(c)
  /\ UNCHANGED <<paidBy, open, stray, restarts>>

\* A response that nobody reads.
Discard(h) ==
  /\ peer[h] = Nobody
  /\ Deliver(h)
  /\ UNCHANGED gateVars

\* Handler h grants a lease; the caller's own count of its life starts.
ServeGrant(h) ==
  /\ Grant(h)
  /\ open' = [g \in DOMAIN open \cup {granted'} |->
                IF g = granted'
                THEN [key |-> KeyOf(call[h]), left |-> Positive(leases'[g].expires)]
                ELSE open[g]]
  /\ UNCHANGED <<client, peer, paidBy, stray, restarts>>

\* Handler h serves a completion, paid for by a live lease or a stray one.  A lease within
\* MaxLag of its end counts as spent.
ServeCompletion(h) ==
  /\ Complete(h)
  /\ LET g == paidBy[h] IN
       /\ open' = [other \in DOMAIN open \ {g} |-> open[other]]
       /\ stray' = IF g \in DOMAIN open /\ open[g].left > MaxLag
                   THEN stray
                   ELSE [stray EXCEPT ![CompletionKey(call[h])] = @ + 1]
  /\ UNCHANGED <<client, peer, paidBy, restarts>>

ServeOther(h) ==
  /\ RefuseName(h) \/ DelayAtLimit(h) \/ DelayForCapacity(h) \/ CompleteNothing(h)
  /\ UNCHANGED gateVars

Handle(h) == ServeGrant(h) \/ ServeCompletion(h) \/ ServeOther(h)

Poll(table) == UpdateSnapshots(table) /\ UNCHANGED gateVars

\* The daemon stops and starts: an empty controller, and every connection is reset.
Restart ==
  /\ restarts < MaxRestarts
  /\ restarts' = restarts + 1
  /\ snapshots' = [k \in Key |-> Absent]
  /\ leases' = [g \in {} |-> g]
  /\ call' = [h \in Handler |-> NoCall]
  /\ reply' = [h \in Handler |-> NoReply]
  /\ peer' = [h \in Handler |-> Nobody]
  /\ paidBy' = [h \in Handler |-> 0]
  /\ open' = [g \in {} |-> g]
  /\ UNCHANGED <<granted, client, stray>>

Elapse ==
  /\ Tick
  /\ client' = [c \in Client |-> [client[c] EXCEPT !.sleep = Positive(@ - 1)]]
  /\ open' = [g \in DOMAIN open |-> [open[g] EXCEPT !.left = Positive(@ - 1)]]
  /\ UNCHANGED <<peer, paidBy, stray, restarts>>

GateNext ==
  \/ \E c \in Client : \/ Ask(c) \/ Unreachable(c) \/ TimeOut(c) \/ Hear(c)
                       \/ Report(c) \/ Lose(c) \/ Reported(c)
  \/ \E h \in Handler : Handle(h) \/ Discard(h)
  \/ \E table \in Polls : Poll(table)
  \/ Restart
  \/ Elapse

GateSpec == GateInit /\ [][GateNext]_allVars

\* Handlers are tasks of a runtime that runs what is ready, a client's HTTP timeout fires,
\* a sleep ends and is followed by another request, and time passes.  Nothing obliges a
\* call to end, the poll loop to find capacity, or the daemon to restart.
GateFairness ==
  /\ \A c \in Client : WF_allVars(Ask(c)) /\ WF_allVars(TimeOut(c)) /\ WF_allVars(Reported(c))
  /\ \A h \in Handler : WF_allVars(Handle(h)) /\ WF_allVars(Discard(h))
  /\ WF_allVars(Elapse)

FairGateSpec == GateSpec /\ GateFairness

-----------------------------------------------------------------------------
\* Every variable has its type; a connection that somebody reads has a request in flight.
GateTypeOK ==
  /\ TypeOK
  /\ client \in [Client -> [stage : Stage, sleep : Nat, grant : 0..granted]]
  /\ peer \in [Handler -> Client \cup {Nobody}]
  /\ \A h \in Handler : peer[h] # Nobody => client[peer[h]].stage \in {"asking", "reporting"}
  /\ paidBy \in [Handler -> 0..granted]
  /\ DOMAIN open \subseteq 1..granted
  /\ open \in [DOMAIN open -> [key : Key, left : Nat]]
  /\ stray \in [Key -> Nat]
  /\ restarts \in 0..MaxRestarts

OpenFor(k) == {g \in DOMAIN open : open[g].key = k}

\* A completion gives its slot back: a key never has more live leases than admissions that
\* were granted and whose completion has not been served, whichever lease each one takes.
NoLeakedSlot == \A k \in Key : Cardinality(Live(k)) <= Cardinality(OpenFor(k))

\* When all callers of a key estimate alike, one taking another's lease does no harm: the
\* callers still entitled to a slot (but for the clock's lag) are no more than the live
\* leases, save one per completion that a caller without a live lease sent.
SlotsCoverCallers ==
  \A k \in Key :
    Cardinality({g \in OpenFor(k) : open[g].left > MaxLag}) <= Cardinality(Live(k)) + stray[k]

\* One call gets at most one lease, whatever is lost and however late: an error ends the
\* asking, and a delay grants nothing.
OneLeasePerCall == granted <= Cardinality({c \in Client : client[c].stage # "ready"})

\* Every caller whose names the daemon accepts gets an end to its asking, however many leases
\* others leave behind.  (One with another name is told to wait again for ever.)
EveryCallStarts ==
  \A c \in {c \in Client : BadName \notin {RequestOf[c].provider, RequestOf[c].model}} :
    client[c].stage \in {"asking", "waiting"}
                      ~> client[c].stage \notin {"asking", "waiting"}

\* Beside callers and restarts the controller implements the permit pool all the same, but
\* for the crashes: whatever callers do, a permit ends early only by a completion or a crash.
ImplementsVolatilePool == Pool!VolatileSpec

\* How far the call of c has come, for the program that makes it.
Phase(c) ==
  LET stage == client[c].stage IN
  CASE stage = "ready" -> "before"
    [] stage \in {"asking", "waiting"} -> "asking"
    [] stage = "working" -> "running"
    [] stage \in {"reporting", "done"} -> "over"
    [] stage = "failed" -> "failed"

Phases == [c \in Client |-> Phase(c)]
Held   == [c \in Client |-> client[c].grant]

\* What the crate promises to that program, whatever happens on the way.
Gated == INSTANCE GatedCalls WITH
           Call <- Client, MayRunUngated <- Fallback, Lease <- 1..MaxGrants, NoLease <- 0,
           phase <- Phases, held <- Held

\* Callers, network and controller together implement the gated calls: each call runs once
\* at most, under a lease of its own or ungated where fallback_on_error allows it.
ImplementsGatedCalls == Gated!Spec

\* The callers of key k that are at work on a lease of which more than MaxLag is left.
AtWork(k) ==
  {c \in Client : /\ client[c].stage = "working"
                  /\ client[c].grant \in OpenFor(k)
                  /\ open[client[c].grant].left > MaxLag}

\* max_concurrent, as the provider sees it: when callers of a key estimate alike, those at
\* work inside their leases are never more than the limit, save one per completion that a
\* caller without a live lease sent.
WorkersWithinLimit == \A k \in Key : Cardinality(AtWork(k)) <= MaxConcurrent + stray[k]

\* wait_and_admit "sleeps until the estimated start time".
SleepsUntilStart ==
  [][\A c \in Client : \A h \in Handler :
       /\ client[c].stage = "asking" /\ client'[c].stage = "waiting" /\ peer[h] = c
       => client'[c].sleep = Positive(reply[h].start)]_allVars
=============================================================================
