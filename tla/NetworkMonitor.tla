--------------------------- MODULE NetworkMonitor ---------------------------
(***************************************************************************)
(* The collector of encrypted traffic, src/src/network.rs: from what `ss`  *)
(* lists of the established sockets it estimates requests and tokens per   *)
(* minute of each provider.                                                *)
(*                                                                         *)
(* The kernel's side (conn) is the environment: connections open, carry    *)
(* bytes, change the processes that hold them, and close.  A listing may   *)
(* miss a connection (rows that do not parse, a dump raced by changes),    *)
(* name its process only later.  One that fails as a whole changes nothing,*)
(* so the last activity stays: such samples are the stuttering steps.      *)
(*                                                                         *)
(* Instants are ages, which Tick increments; an age beyond the longest     *)
(* window is not told apart.  Bytes count in a unit of their own.          *)
(***************************************************************************)
EXTENDS Integers, FiniteSets, Sequences, SequencesExt

CONSTANTS
  Socket,         \* local address and port
  Peer,           \* remote addresses
  ProvidersOf,    \* providers_by_ip: the providers whose endpoint resolves to a peer
  Provider,       \* numbered in the order of the BTreeSet
  Owner,          \* what ss may say of the processes that hold a socket
  Own,            \* the owner that contains ("ingauge"
  CallMinimum,    \* CALL_MINIMUM_BYTES
  TlsOverhead,    \* TLS_CONNECTION_OVERHEAD_BYTES
  Cooldown,       \* CALL_COOLDOWN
  TokenWindow,    \* TOKEN_RATE_WINDOW
  RequestWindow,  \* REQUEST_RATE_WINDOW
  MaxBytes,       \* bound: bytes a connection carries in each direction
  MaxConnects,    \* bound: connections opened
  MaxMisses       \* bound: listings that miss a connection, and changes of owner

ASSUME MonitorAssumption ==
  /\ IsFiniteSet(Socket)
  /\ Provider \subseteq Nat /\ IsFiniteSet(Provider)
  /\ ProvidersOf \in [Peer -> SUBSET Provider]
  /\ Own \in Owner
  /\ CallMinimum \in Nat \ {0} /\ TlsOverhead \in Nat
  /\ Cooldown \in Nat \ {0} /\ TokenWindow \in Nat /\ RequestWindow \in Nat
  /\ Cooldown <= RequestWindow /\ TokenWindow <= RequestWindow
  /\ MaxBytes \in Nat /\ MaxConnects \in Nat /\ MaxMisses \in Nat

Connection == [peer : Peer, owner : Owner, sent : 0..MaxBytes, received : 0..MaxBytes]
Closed == [peer |-> "none", owner |-> "none", sent |-> 0, received |-> 0]

VARIABLES
  conn,      \* the kernel's table of established sockets
  previous,  \* counters of the sockets in the last listing, by their key
  lastCall,  \* age of the last call charged to a key
  calls,     \* per provider: ages of its calls, oldest first
  tokens,    \* per provider: ages and bytes of what it received, oldest first
  detected,  \* per provider: calls detected so far
  started,   \* previous_sample is Some
  activity,  \* the last activity handed over: what the cockpit reads
  opened, misses,  \* what the bounds count
  old,       \* history: bytes a connection had received when the last sample was taken
  since,     \* history: age of the last call charged to a connection, up to Cooldown
  balance    \* history: per provider and connection, the bytes it received for the
             \* provider, and received again, less those counted in tokens

monitorVars == <<previous, lastCall, calls, tokens, detected, started>>
kernelVars  == <<conn, opened, misses>>
netVars == <<conn, opened, misses, previous, lastCall, calls, tokens, detected, started,
             activity, old, since, balance>>

Estimate == [rpm : Nat, bytes : Nat, connections : Nat, detected : Nat]
NoActivity == [rpm |-> 0, bytes |-> 0, connections |-> -1, detected |-> 0]  \* not in the map

Counters == [sent : 0..MaxBytes, received : 0..MaxBytes]
Key == Socket \X Peer \X Owner

-----------------------------------------------------------------------------
NetInit ==
  /\ conn = [s \in Socket |-> Closed]
  /\ previous = [k \in {} |-> k] /\ lastCall = [k \in {} |-> k]
  /\ calls = [p \in Provider |-> <<>>]
  /\ tokens = [p \in Provider |-> <<>>]
  /\ detected = [p \in Provider |-> 0]
  /\ started = FALSE
  /\ activity = [p \in Provider |-> NoActivity]
  /\ opened = 0 /\ misses = 0
  /\ old = [s \in Socket |-> 0]
  /\ since = [s \in Socket |-> Cooldown]
  /\ balance = [p \in Provider |-> [s \in Socket |-> 0]]

-----------------------------------------------------------------------------
\* The kernel

Open == {s \in Socket : conn[s] # Closed}

KeyOf(s) == <<s, conn[s].peer, conn[s].owner>>

\* The counters that ss prints.  It leaves out one that is zero still, and what is left out
\* is read as zero.
CountersOf(s) == [sent |-> conn[s].sent, received |-> conn[s].received]

Connect(s, peer, owner) ==
  /\ s \notin Open
  /\ opened < MaxConnects
  /\ opened' = opened + 1
  /\ conn' = [conn EXCEPT ![s] = [peer |-> peer, owner |-> owner, sent |-> 0, received |-> 0]]
  /\ old' = [old EXCEPT ![s] = 0]
  /\ since' = [since EXCEPT ![s] = Cooldown]
  /\ balance' = [p \in Provider |-> [balance[p] EXCEPT ![s] = 0]]
  /\ UNCHANGED <<misses, monitorVars, activity>>

Send(s, bytes) ==
  /\ s \in Open
  /\ conn[s].sent + bytes <= MaxBytes
  /\ conn' = [conn EXCEPT ![s].sent = @ + bytes]
  /\ UNCHANGED <<opened, misses, monitorVars, activity, old, since, balance>>

Receive(s, bytes) ==
  /\ s \in Open
  /\ conn[s].received + bytes <= MaxBytes
  /\ conn' = [conn EXCEPT ![s].received = @ + bytes]
  /\ balance' = [p \in Provider |-> [balance[p] EXCEPT ![s] =
                    IF started /\ p \in ProvidersOf[conn[s].peer] THEN @ + bytes ELSE @]]
  /\ UNCHANGED <<opened, misses, monitorVars, activity, old, since>>

\* A socket is inherited or closed by a process, or ss finds its process only now.
ChangeOwner(s, owner) ==
  /\ s \in Open
  /\ misses < MaxMisses
  /\ misses' = misses + 1
  /\ conn' = [conn EXCEPT ![s].owner = owner]
  /\ UNCHANGED <<opened, monitorVars, activity, old, since, balance>>

Close(s) ==
  /\ s \in Open
  /\ conn' = [conn EXCEPT ![s] = Closed]
  /\ UNCHANGED <<opened, misses, monitorVars, activity, old, since, balance>>

-----------------------------------------------------------------------------
\* observe

\* The rows that are looked at: not held by ingauge, of an address of a provider.
Watched(listed) == {s \in listed : conn[s].owner # Own /\ ProvidersOf[conn[s].peer] # {}}

SaturatingSub(a, b) == IF a > b THEN a - b ELSE 0

Known(s) == KeyOf(s) \in DOMAIN previous

\* Mutant: the first listing is no baseline.
PreviousOrZero(s) == IF Known(s) THEN previous[KeyOf(s)] ELSE [sent |-> 0, received |-> 0]

\* What the deltas count from.
Previous(s) ==
  CASE Known(s)              -> previous[KeyOf(s)]
    [] ~Known(s) /\ ~started -> CountersOf(s)
    [] OTHER                 -> [sent |-> 0, received |-> 0]

SentBy(s)     == SaturatingSub(conn[s].sent, Previous(s).sent)
ReceivedBy(s) == SaturatingSub(conn[s].received, Previous(s).received)

\* The bytes of a response: a new socket's handshake is taken off.
Attributable(s) ==
  IF Known(s) THEN ReceivedBy(s) ELSE SaturatingSub(ReceivedBy(s), TlsOverhead)

\* Mutant: the cooldown is not looked at.
CallAlways(s) == SentBy(s) >= CallMinimum

\* The socket sent enough for a call, and none was charged to it a moment ago.
IsCall(s) ==
  /\ SentBy(s) >= CallMinimum
  /\ KeyOf(s) \in DOMAIN lastCall => lastCall[KeyOf(s)] >= Cooldown

\* The calls of provider p: charging the first provider of an address starts the
\* cooldown, which keeps the others from being charged for the same burst.
Charged(p, watched) ==
  {s \in watched : /\ IsCall(s)
                   /\ p \in ProvidersOf[conn[s].peer]
                   /\ \A q \in ProvidersOf[conn[s].peer] : p <= q}

\* Mutant: nothing leaves the windows.
KeepAll(queue, ages, window) == queue

\* Pops from the front what is older than the window; ages are those of the queue.
PopOlder(queue, ages, window) ==
  LET first == {i \in DOMAIN queue : ages[i] <= window /\ \A j \in 1..(i - 1) : ages[j] > window}
  IN IF first = {} THEN <<>> ELSE SubSeq(queue, CHOOSE i \in first : TRUE, Len(queue))

CallsAfter(p, watched) ==
  LET queue == calls[p] \o [i \in 1..Cardinality(Charged(p, watched)) |-> 0]
  IN PopOlder(queue, queue, RequestWindow)

Served(p, watched) == {s \in watched : p \in ProvidersOf[conn[s].peer]}

\* What a sample adds to the tokens of provider p.  The bytes of an address that stands for
\* several providers are added to those of each.
Arrivals(p, watched) ==
  LET paying == SetToSeq({s \in Served(p, watched) : Attributable(s) > 0})
  IN [i \in DOMAIN paying |-> [from |-> paying[i], bytes |-> Attributable(paying[i])]]

TokensAfter(p, watched) ==
  LET arrivals == Arrivals(p, watched)
      queue == tokens[p] \o [i \in DOMAIN arrivals |-> [age |-> 0, bytes |-> arrivals[i].bytes]]
  IN PopOlder(queue, [i \in DOMAIN queue |-> queue[i].age], TokenWindow)

BytesIn(queue) == SumFunction([i \in DOMAIN queue |-> queue[i].bytes])

Resolved == UNION {ProvidersOf[peer] : peer \in Peer}

ActivityOf(p, watched) ==
  IF p \notin Resolved THEN NoActivity ELSE
  [rpm |-> Len(calls'[p]), bytes |-> BytesIn(tokens'[p]),
   connections |-> Cardinality(Served(p, watched)),
   detected |-> detected'[p]]

\* The keys that keep their cooldown: those that were listed.
Retained(keys) == DOMAIN lastCall \cap keys

\* The bytes of a connection among those that a sample adds.
BytesFrom(s, arrivals) ==
  SumFunctionOnSet([i \in DOMAIN arrivals |-> arrivals[i].bytes],
                   {i \in DOMAIN arrivals : arrivals[i].from = s})

\* The bytes that are counted again, as their connection comes back under a key that the
\* monitor does not know.
Again(p, s, watched) == IF s \in Served(p, watched) /\ started /\ ~Known(s) THEN old[s] ELSE 0

\* What the history keeps of a sample: all bytes of a connection are old now, and what goes
\* into the tokens of a provider is taken off its balance.
Account(watched) ==
  /\ old' = [s \in Socket |-> conn[s].received]
  /\ since' = [s \in Socket |-> IF s \in watched /\ IsCall(s) THEN 0 ELSE since[s]]
  /\ balance' = [p \in Provider |-> [s \in Socket |->
       balance[p][s] - BytesFrom(s, Arrivals(p, watched)) + Again(p, s, watched)]]

\* One listing: the open sockets it shows, and the estimates that come of it.
Sample(listed) ==
  /\ listed \subseteq Open
  /\ misses + Cardinality(Open \ listed) <= MaxMisses
  /\ misses' = misses + Cardinality(Open \ listed)
  /\ LET watched == Watched(listed)
         keys    == {KeyOf(s) : s \in watched}
         charged == {KeyOf(s) : s \in {r \in watched : IsCall(r)}}
     IN /\ previous' = [k \in keys |-> CountersOf(k[1])]
        /\ lastCall' = [k \in charged \cup Retained(keys) |->
                          IF k \in charged THEN 0 ELSE lastCall[k]]
        /\ calls' = [p \in Provider |-> CallsAfter(p, watched)]
        /\ tokens' = [p \in Provider |-> TokensAfter(p, watched)]
        /\ detected' = [p \in Provider |-> detected[p] + Cardinality(Charged(p, watched))]
        /\ activity' = [p \in Provider |-> ActivityOf(p, watched)]
        /\ Account(watched)
  /\ started' = TRUE
  /\ UNCHANGED <<conn, opened>>

Grown(age, most) == IF age < most THEN age + 1 ELSE most

Tick ==
  /\ lastCall' = [k \in DOMAIN lastCall |-> Grown(lastCall[k], Cooldown)]
  /\ calls' = [p \in Provider |-> [i \in DOMAIN calls[p] |-> Grown(calls[p][i], RequestWindow + 1)]]
  /\ tokens' = [p \in Provider |-> [i \in DOMAIN tokens[p] |->
                  [tokens[p][i] EXCEPT !.age = Grown(@, TokenWindow + 1)]]]
  /\ since' = [s \in Socket |-> Grown(since[s], Cooldown)]
  /\ UNCHANGED <<kernelVars, previous, detected, started, activity, old, balance>>

NetStep ==
  \/ \E s \in Socket :
       \/ \E peer \in Peer, owner \in Owner : Connect(s, peer, owner)
       \/ \E bytes \in 1..MaxBytes : Send(s, bytes) \/ Receive(s, bytes)
       \/ \E owner \in Owner : ChangeOwner(s, owner)
       \/ Close(s)
  \/ \E listed \in SUBSET Socket : Sample(listed)
  \/ Tick

NetSpec == NetInit /\ [][NetStep]_netVars

-----------------------------------------------------------------------------
\* Every variable has its type, and only sockets of the last listing are remembered.
NetTypeOK ==
  /\ conn \in [Socket -> Connection \cup {Closed}]
  /\ DOMAIN previous \subseteq Key /\ previous \in [DOMAIN previous -> Counters]
  /\ DOMAIN lastCall \subseteq DOMAIN previous /\ lastCall \in [DOMAIN lastCall -> 0..Cooldown]
  /\ calls \in [Provider -> Seq(0..(RequestWindow + 1))]
  /\ tokens \in [Provider -> Seq([age : 0..(TokenWindow + 1), bytes : 1..MaxBytes])]
  /\ detected \in [Provider -> Nat]
  /\ started \in BOOLEAN
  /\ activity \in [Provider -> Estimate \cup {NoActivity}]
  /\ opened \in 0..MaxConnects /\ misses \in 0..MaxMisses
  /\ old \in [Socket -> 0..MaxBytes] /\ since \in [Socket -> 0..Cooldown]
  /\ balance \in [Provider -> [Socket -> Int]]

\* "tracks byte deltas across both short-lived and persistent TLS connections": whatever
\* samples are missed, and however sockets are closed, reused and handed on, what goes into
\* the tokens of a provider (token_bytes) has no byte of a connection twice, none from before
\* the first sample and none of an address that is not the provider's, but for connections
\* that return under a key the monitor has forgotten or never saw.  Of an address that
\* providers share each of them gets every byte: their sum counts it once for each.
CountedOnce == \A p \in Provider, s \in Socket : balance[p][s] >= 0

Charges == SumFunction(detected)

\* One burst is one call: a sample charges at most one call to a connection, although its
\* address may stand for several providers, and none within the cooldown after the last
\* one, unless the connection comes back under a key unknown to the monitor.
CallsSpaced ==
  [][Charges' - Charges <=
       Cardinality({s \in Open : since[s] >= Cooldown \/ ~Known(s)})]_netVars
=============================================================================
