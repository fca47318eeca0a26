--------------------------- MODULE NetworkProofs ---------------------------
(***************************************************************************)
(* What holds of the traffic monitor and of the dashboard it feeds, for    *)
(* every set of sockets, addresses, providers and processes, any listing   *)
(* that `ss` may give, any status that a probe may answer, and any bound.  *)
(***************************************************************************)
EXTENDS Cockpit, ListsProofs

\* The part of the types that counting depends on.
CountTypes ==
  /\ conn \in [Socket -> Connection \cup {Closed}]
  /\ DOMAIN previous \subseteq Key
  /\ \A k \in DOMAIN previous : previous[k].received \in 0..MaxBytes
  /\ started \in BOOLEAN
  /\ old \in [Socket -> 0..MaxBytes]
  /\ balance \in [Provider -> [Socket -> Int]]

\* What was old at the last sample has been received since.
OldIsReceived == \A s \in Open : old[s] <= conn[s].received

\* What the monitor remembers of a socket is no less than what was old at the last sample:
\* a key is remembered from the last listing, or from a connection that is gone.
PreviousCoversOld == \A k \in DOMAIN previous : previous[k].received >= old[k[1]]

\* Before the first sample there is nothing to count from.
NothingBefore == ~started => DOMAIN previous = {}

\* After it, everything that came since the last one is still to be counted.
NewIsInBalance ==
  started => \A p \in Provider : \A s \in Served(p, Open) : balance[p][s] >= conn[s].received - old[s]

NetInv == /\ CountTypes /\ OldIsReceived /\ PreviousCoversOld /\ NothingBefore
          /\ NewIsInBalance /\ CountedOnce

-----------------------------------------------------------------------------
\* The counters of a connection are numbers, also when it is closed.
LEMMA ReceivedIsCount ==
  ASSUME MonitorAssumption, CountTypes, NEW s \in Socket
  PROVE  conn[s].received \in 0..MaxBytes
<1>1. conn[s] \in Connection \cup {Closed}
  BY DEF CountTypes
<1>2. \A c \in Connection : c.received \in 0..MaxBytes
  BY DEF Connection
<1>3. Closed.received \in 0..MaxBytes
  BY DEF Closed, MonitorAssumption
<1>4. QED
  BY <1>1, <1>2, <1>3

\* A subtraction that saturates is a number, no more than the difference where that is
\* one, and nothing where it is none.
LEMMA Saturation ==
  ASSUME NEW a \in Int, NEW b \in Int
  PROVE  /\ SaturatingSub(a, b) \in Nat
         /\ \A c \in Int : c <= b /\ c <= a => SaturatingSub(a, b) <= a - c
         /\ SaturatingSub(a, a) = 0
BY DEF SaturatingSub

\* What a sample attributes to a connection: nothing before the first sample, no more than
\* what is new of a connection that is known, and no more than all of one that is not.
LEMMA AttributableBound ==
  ASSUME MonitorAssumption, NetInv, NEW s \in Open
  PROVE  /\ Attributable(s) \in Nat
         /\ ~started => Attributable(s) = 0
         /\ Known(s) => Attributable(s) <= conn[s].received - old[s]
         /\ ~Known(s) => Attributable(s) <= conn[s].received
<1>0. s \in Socket
  BY DEF Open
<1>1. conn[s].received \in Int /\ old[s] \in Int /\ 0 <= old[s] /\ 0 <= conn[s].received
  BY <1>0, ReceivedIsCount DEF NetInv, CountTypes, MonitorAssumption
<1>2. CASE Known(s)
  <2>1. previous[KeyOf(s)].received \in Int /\ old[s] <= previous[KeyOf(s)].received
    <3>1. KeyOf(s) \in DOMAIN previous /\ KeyOf(s)[1] = s
      BY <1>2 DEF Known, KeyOf
    <3>2. QED
      BY <3>1 DEF NetInv, CountTypes, PreviousCoversOld
  <2>2. old[s] <= conn[s].received
    BY DEF NetInv, OldIsReceived
  <2>3. Attributable(s) = SaturatingSub(conn[s].received, previous[KeyOf(s)].received)
    BY <1>2 DEF Attributable, ReceivedBy, Previous
  <2>4. started
    BY <1>2 DEF NetInv, NothingBefore, CountTypes, Known
  <2>5. QED
    BY <1>1, <1>2, <2>1, <2>2, <2>3, <2>4, Saturation
<1>3. CASE ~Known(s) /\ started
  <2>1. Attributable(s) = SaturatingSub(SaturatingSub(conn[s].received, 0), TlsOverhead)
    BY <1>3 DEF Attributable, ReceivedBy, Previous
  <2>2. SaturatingSub(conn[s].received, 0) = conn[s].received
    BY <1>1 DEF SaturatingSub
  <2>3. TlsOverhead \in Int /\ 0 <= TlsOverhead
    BY DEF MonitorAssumption
  <2>4. Attributable(s) \in Nat /\ Attributable(s) <= conn[s].received
    BY <1>1, <2>1, <2>2, <2>3 DEF SaturatingSub
  <2>5. QED
    BY <1>3, <2>4
<1>4. CASE ~Known(s) /\ ~started
  <2>1. Attributable(s) = SaturatingSub(SaturatingSub(conn[s].received, conn[s].received), TlsOverhead)
    BY <1>4 DEF Attributable, ReceivedBy, Previous, CountersOf
  <2>2. SaturatingSub(0, TlsOverhead) = 0
    BY DEF SaturatingSub, MonitorAssumption
  <2>3. QED
    BY <1>1, <1>4, <2>1, <2>2, Saturation
<1>5. QED
  BY <1>2, <1>3, <1>4

-----------------------------------------------------------------------------
LEMMA InitCounts == MonitorAssumption /\ NetInit => NetInv
<1> SUFFICES ASSUME MonitorAssumption, NetInit
             PROVE  NetInv
  OBVIOUS
<1>1. MaxBytes \in Nat
  BY DEF MonitorAssumption
<1>2. Open = {}
  BY DEF NetInit, Open
<1>3. /\ previous = [k \in {} |-> k] /\ started = FALSE
      /\ balance = [p \in Provider |-> [s \in Socket |-> 0]]
  BY DEF NetInit
<1>4. CountTypes
  <2>1. 0 \in 0..MaxBytes
    BY <1>1
  <2>2. DOMAIN previous = {}
    BY <1>3
  <2>3. /\ conn \in [Socket -> Connection \cup {Closed}]
        /\ old \in [Socket -> 0..MaxBytes]
    BY <2>1 DEF NetInit
  <2>4. balance \in [Provider -> [Socket -> Int]]
    BY <1>3
  <2>5. QED
    BY <1>3, <2>2, <2>3, <2>4 DEF CountTypes
<1>5. QED
  BY <1>2, <1>3, <1>4
     DEF NetInv, OldIsReceived, PreviousCoversOld, NothingBefore, NewIsInBalance, CountedOnce

\* The steps of the kernel
LEMMA ConnectCounts ==
  ASSUME MonitorAssumption, NetInv,
         NEW s \in Socket, NEW peer \in Peer, NEW owner \in Owner, Connect(s, peer, owner)
  PROVE  NetInv'
<1> DEFINE new == [peer |-> peer, owner |-> owner, sent |-> 0, received |-> 0]
<1>1. 0 \in 0..MaxBytes
  BY DEF MonitorAssumption
<1>2. new \in Connection
  BY <1>1 DEF Connection
<1>3. /\ conn' = [conn EXCEPT ![s] = new] /\ old' = [old EXCEPT ![s] = 0]
      /\ balance' = [p \in Provider |-> [balance[p] EXCEPT ![s] = 0]]
      /\ previous' = previous /\ started' = started
  BY DEF Connect, monitorVars
<1>4. CountTypes'
  <2>1. balance' \in [Provider -> [Socket -> Int]]
    BY <1>3 DEF NetInv, CountTypes
  <2>2. QED
    BY <1>1, <1>2, <1>3, <2>1 DEF NetInv, CountTypes
<1>5. /\ \A r \in Socket : r # s => conn'[r] = conn[r] /\ old'[r] = old[r]
      /\ conn'[s].received = 0 /\ old'[s] = 0
      /\ \A p \in Provider : /\ \A r \in Socket : r # s => balance'[p][r] = balance[p][r]
                             /\ balance'[p][s] = 0
  BY <1>3 DEF NetInv, CountTypes
<1>6. \A r \in Open' : r \in Socket /\ (r # s => r \in Open /\ conn'[r] = conn[r])
  BY <1>5 DEF Open
<1>7. OldIsReceived' /\ NewIsInBalance' /\ CountedOnce'
  <2>1. OldIsReceived'
    BY <1>5, <1>6 DEF NetInv, OldIsReceived
  <2>2. NewIsInBalance'
    BY <1>3, <1>5, <1>6 DEF NetInv, NewIsInBalance, Served
  <2>3. CountedOnce'
    BY <1>5 DEF NetInv, CountedOnce
  <2>4. QED
    BY <2>1, <2>2, <2>3
<1>8. PreviousCoversOld'
  <2> SUFFICES ASSUME NEW k \in DOMAIN previous
               PROVE  previous[k].received >= old'[k[1]]
    BY <1>3 DEF PreviousCoversOld
  <2>1. k[1] \in Socket /\ previous[k].received \in Nat /\ previous[k].received >= old[k[1]]
    BY DEF NetInv, CountTypes, PreviousCoversOld, Key, MonitorAssumption
  <2>2. QED
    BY <1>5, <2>1
<1>9. NothingBefore'
  BY <1>3 DEF NetInv, NothingBefore
<1>10. QED
  BY <1>4, <1>7, <1>8, <1>9 DEF NetInv

LEMMA SendCounts ==
  ASSUME MonitorAssumption, NetInv, NEW s \in Socket, NEW bytes \in 1..MaxBytes, Send(s, bytes)
  PROVE  NetInv'
<1>1. /\ conn' = [conn EXCEPT ![s].sent = @ + bytes]
      /\ previous' = previous /\ started' = started /\ old' = old /\ balance' = balance
      /\ conn[s] # Closed /\ conn[s].sent + bytes <= MaxBytes
  BY DEF Send, monitorVars, Open
<1>2. conn[s] \in Connection
  BY <1>1 DEF NetInv, CountTypes
<1>3. [conn[s] EXCEPT !.sent = @ + bytes] \in Connection
  BY <1>1, <1>2 DEF Connection, MonitorAssumption
<1>4. conn' \in [Socket -> Connection \cup {Closed}]
  BY <1>1, <1>3 DEF NetInv, CountTypes
<1>5. \A r \in Socket : conn'[r].received = conn[r].received /\ conn'[r].peer = conn[r].peer
  BY <1>1, <1>2 DEF NetInv, CountTypes, Connection
<1>6. Open' \subseteq Open
  BY <1>1 DEF Open, NetInv, CountTypes
<1>7. \A r \in Open : r \in Socket
  BY DEF Open
<1>8. CountTypes' /\ OldIsReceived' /\ NewIsInBalance'
  BY <1>1, <1>4, <1>5, <1>6, <1>7 DEF NetInv, CountTypes, OldIsReceived, NewIsInBalance, Served
<1>9. QED
  BY <1>1, <1>8 DEF NetInv, PreviousCoversOld, NothingBefore, CountedOnce

LEMMA ReceiveCounts ==
  ASSUME MonitorAssumption, NetInv, NEW s \in Socket, NEW bytes \in 1..MaxBytes, Receive(s, bytes)
  PROVE  NetInv'
<1>1. /\ conn' = [conn EXCEPT ![s].received = @ + bytes]
      /\ previous' = previous /\ started' = started /\ old' = old
      /\ balance' = [p \in Provider |-> [balance[p] EXCEPT ![s] =
                        IF started /\ p \in ProvidersOf[conn[s].peer] THEN @ + bytes ELSE @]]
      /\ conn[s] # Closed /\ conn[s].received + bytes <= MaxBytes
  BY DEF Receive, monitorVars, Open
<1>2. conn[s] \in Connection /\ s \in Open
  BY <1>1 DEF NetInv, CountTypes, Open
<1>3. [conn[s] EXCEPT !.received = @ + bytes] \in Connection
  BY <1>1, <1>2 DEF Connection, MonitorAssumption
<1>4. conn' \in [Socket -> Connection \cup {Closed}]
  BY <1>1, <1>3 DEF NetInv, CountTypes
<1>5. balance' \in [Provider -> [Socket -> Int]]
  BY <1>1 DEF NetInv, CountTypes
<1>6. \A r \in Socket : r # s => /\ conn'[r] = conn[r]
                                 /\ \A p \in Provider : balance'[p][r] = balance[p][r]
  BY <1>1 DEF NetInv, CountTypes
<1>7. /\ conn'[s].received = conn[s].received + bytes /\ conn'[s].peer = conn[s].peer
      /\ \A p \in Provider :
           balance'[p][s] = IF started /\ p \in ProvidersOf[conn[s].peer]
                            THEN balance[p][s] + bytes ELSE balance[p][s]
  <2>1. conn'[s].received = conn[s].received + bytes /\ conn'[s].peer = conn[s].peer
    BY <1>1, <1>2 DEF NetInv, CountTypes, Connection
  <2>2. ASSUME NEW p \in Provider
        PROVE  balance'[p][s] = IF started /\ p \in ProvidersOf[conn[s].peer]
                                THEN balance[p][s] + bytes ELSE balance[p][s]
    BY <1>1 DEF NetInv, CountTypes
  <2>3. QED
    BY <2>1, <2>2
<1>8. Open' \subseteq Open /\ Open \subseteq Socket
  BY <1>1, <1>2, <1>6 DEF Open
<1>9. \A r \in Socket : /\ conn[r].received \in Int /\ old[r] \in Int
                        /\ \A p \in Provider : balance[p][r] \in Int
  BY ReceivedIsCount DEF NetInv, CountTypes, MonitorAssumption
<1>10. CountTypes'
  BY <1>1, <1>4, <1>5 DEF NetInv, CountTypes
<1>11. OldIsReceived'
  BY <1>1, <1>2, <1>6, <1>7, <1>8, <1>9 DEF NetInv, OldIsReceived
<1>12. NewIsInBalance'
  <2> SUFFICES ASSUME started, NEW p \in Provider, NEW r \in Open', p \in ProvidersOf[conn'[r].peer]
               PROVE  balance'[p][r] >= conn'[r].received - old[r]
    BY <1>1 DEF NewIsInBalance, Served
  <2>1. r \in Socket /\ r \in Open /\ conn'[r].peer = conn[r].peer
    BY <1>6, <1>7, <1>8
  <2>2. balance[p][r] >= conn[r].received - old[r]
    BY <2>1 DEF NetInv, NewIsInBalance, Served
  <2>3. CASE r = s
    <3>1. balance'[p][s] = balance[p][s] + bytes /\ conn'[s].received = conn[s].received + bytes
      BY <1>7, <2>1, <2>3
    <3>2. /\ balance[p][s] \in Int /\ conn[s].received \in Int /\ old[s] \in Int
          /\ balance[p][s] >= conn[s].received - old[s]
      BY <1>9, <2>2, <2>3
    <3>3. QED
      BY <2>3, <3>1, <3>2
  <2>4. CASE r # s
    BY <1>6, <2>1, <2>2, <2>4
  <2>5. QED
    BY <2>3, <2>4
<1>13. CountedOnce'
  BY <1>1, <1>6, <1>7, <1>9 DEF NetInv, CountedOnce
<1>14. QED
  BY <1>1, <1>10, <1>11, <1>12, <1>13 DEF NetInv, PreviousCoversOld, NothingBefore

LEMMA ChangeOwnerCounts ==
  ASSUME MonitorAssumption, NetInv, NEW s \in Socket, NEW owner \in Owner, ChangeOwner(s, owner)
  PROVE  NetInv'
<1>1. /\ conn' = [conn EXCEPT ![s].owner = owner]
      /\ previous' = previous /\ started' = started /\ old' = old /\ balance' = balance
      /\ conn[s] # Closed
  BY DEF ChangeOwner, monitorVars, Open
<1>2. conn[s] \in Connection
  BY <1>1 DEF NetInv, CountTypes
<1>3. [conn[s] EXCEPT !.owner = owner] \in Connection
  BY <1>2 DEF Connection
<1>4. conn' \in [Socket -> Connection \cup {Closed}]
  BY <1>1, <1>3 DEF NetInv, CountTypes
<1>5. \A r \in Socket : conn'[r].received = conn[r].received /\ conn'[r].peer = conn[r].peer
  BY <1>1, <1>2 DEF NetInv, CountTypes, Connection
<1>6. Open' \subseteq Open /\ Open \subseteq Socket
  BY <1>1 DEF Open, NetInv, CountTypes
<1>7. CountTypes' /\ OldIsReceived' /\ NewIsInBalance'
  BY <1>1, <1>4, <1>5, <1>6 DEF NetInv, CountTypes, OldIsReceived, NewIsInBalance, Served
<1>8. QED
  BY <1>1, <1>7 DEF NetInv, PreviousCoversOld, NothingBefore, CountedOnce

LEMMA CloseCounts ==
  ASSUME MonitorAssumption, NetInv, NEW s \in Socket, Close(s)
  PROVE  NetInv'
<1>1. /\ conn' = [conn EXCEPT ![s] = Closed]
      /\ previous' = previous /\ started' = started /\ old' = old /\ balance' = balance
  BY DEF Close, monitorVars
<1>2. \A r \in Open' : r \in Open /\ conn'[r] = conn[r]
  BY <1>1 DEF Open, NetInv, CountTypes
<1>3. CountTypes' /\ OldIsReceived' /\ NewIsInBalance'
  BY <1>1, <1>2 DEF NetInv, CountTypes, OldIsReceived, NewIsInBalance, Served
<1>4. QED
  BY <1>1, <1>3 DEF NetInv, PreviousCoversOld, NothingBefore, CountedOnce

-----------------------------------------------------------------------------
\* The elements of a finite set as a list, each once.
LEMMA ListOfSet ==
  ASSUME NEW S, IsFiniteSet(S)
  PROVE  /\ SetToSeq(S) \in Seq(S)
         /\ Cardinality(S) \in Nat /\ DOMAIN SetToSeq(S) = 1..Cardinality(S)
         /\ \A i, j \in DOMAIN SetToSeq(S) : SetToSeq(S)[i] = SetToSeq(S)[j] => i = j
<1>1. Cardinality(S) \in Nat /\ ExistsBijection(1..Cardinality(S), S)
  BY FS_CardinalityType
<1>2. \E f \in [1..Cardinality(S) -> S] : IsInjective(f)
  BY <1>1 DEF ExistsBijection, Bijection, Injection, IsInjective
<1>3. SetToSeq(S) \in [1..Cardinality(S) -> S] /\ IsInjective(SetToSeq(S))
  BY <1>2 DEF SetToSeq
<1>4. QED
  BY <1>1, <1>3, FunctionIsList DEF IsInjective

\* The sets of sockets that a sample counts are finite.
LEMMA FewSockets ==
  ASSUME MonitorAssumption, NEW S, S \subseteq Socket
  PROVE  IsFiniteSet(S) /\ Cardinality(S) \in Nat
BY FS_Subset, FS_CardinalityType DEF MonitorAssumption

\* A sample adds one row for each connection that received bytes for the provider.
LEMMA ArrivalsListed ==
  ASSUME MonitorAssumption, NEW watched, watched \subseteq Socket, NEW p
  PROVE  LET arrivals == Arrivals(p, watched)
         IN /\ \E n \in Nat : DOMAIN arrivals = 1..n
            /\ \A i \in DOMAIN arrivals : /\ arrivals[i].from \in Served(p, watched)
                                          /\ Attributable(arrivals[i].from) > 0
                                          /\ arrivals[i].bytes = Attributable(arrivals[i].from)
            /\ \A i, j \in DOMAIN arrivals : arrivals[i].from = arrivals[j].from => i = j
<1> DEFINE S == {s \in Served(p, watched) : Attributable(s) > 0}
           paying == SetToSeq(S)
<1>1. S \subseteq Socket
  BY DEF Served
<1>2. Arrivals(p, watched) = [i \in DOMAIN paying |-> [from |-> paying[i], bytes |-> Attributable(paying[i])]]
  BY DEF Arrivals
<1>3. \A s \in S : s \in Served(p, watched) /\ Attributable(s) > 0
  OBVIOUS
<1> HIDE DEF S
<1>4. /\ paying \in Seq(S) /\ Cardinality(S) \in Nat /\ DOMAIN paying = 1..Cardinality(S)
      /\ \A i, j \in DOMAIN paying : paying[i] = paying[j] => i = j
  BY <1>1, FewSockets, ListOfSet
<1> HIDE DEF paying
<1>5. \A i \in DOMAIN paying : paying[i] \in S
  BY <1>4
<1>6. /\ DOMAIN Arrivals(p, watched) = DOMAIN paying
      /\ \A i \in DOMAIN paying : /\ Arrivals(p, watched)[i].from = paying[i]
                                  /\ Arrivals(p, watched)[i].bytes = Attributable(paying[i])
  BY <1>2
<1>7. QED
  BY <1>3, <1>4, <1>5, <1>6

\* Of the bytes that a sample adds for a provider, those of a connection are what it
\* attributes to it, if the address is the provider's, and none if it is not.
LEMMA BytesFromBound ==
  ASSUME MonitorAssumption, NEW watched, watched \subseteq Socket, NEW p, NEW s,
         \A r \in watched : Attributable(r) \in Int
  PROVE  LET bytes == BytesFrom(s, Arrivals(p, watched))
         IN /\ bytes \in Int
            /\ s \notin Served(p, watched) => bytes = 0
            /\ s \in Served(p, watched) => bytes = Attributable(s) \/ bytes = 0
<1> DEFINE arrivals == Arrivals(p, watched)
           g == [i \in DOMAIN arrivals |-> arrivals[i].bytes]
           D == {i \in DOMAIN arrivals : arrivals[i].from = s}
<1>1. /\ \A i \in DOMAIN arrivals : /\ arrivals[i].from \in Served(p, watched)
                                    /\ arrivals[i].bytes = Attributable(arrivals[i].from)
      /\ \A i, j \in DOMAIN arrivals : arrivals[i].from = arrivals[j].from => i = j
  BY ArrivalsListed
<1>2. BytesFrom(s, arrivals) = SumFunctionOnSet(g, D)
  BY DEF BytesFrom
<1> HIDE DEF arrivals
<1>3. CASE D = {}
  <2> HIDE DEF g, D
  <2> QED
    BY <1>2, <1>3, EmptySum DEF arrivals
<1>4. CASE D # {}
  <2>1. PICK i \in D : TRUE
    BY <1>4
  <2>2. D = {i} /\ s \in Served(p, watched) /\ g[i] = Attributable(s)
    BY <1>1, <2>1
  <2>3. g[i] \in Int
    BY <2>2 DEF Served
  <2> HIDE DEF g, D
  <2>4. SumFunctionOnSet(g, D) = g[i] + SumFunctionOnSet(g, D \ {i})
    <3>1. IsFiniteSet(D)
      BY <2>2, FS_Singleton
    <3>2. \A y \in D : g[y] \in Int
      BY <2>2, <2>3
    <3>3. QED
      BY <2>1, <3>1, <3>2, SumWithout
  <2>5. SumFunctionOnSet(g, D \ {i}) = 0
    <3>1. D \ {i} = {}
      BY <2>2
    <3>2. QED
      BY <3>1, EmptySum
  <2>6. QED
    BY <1>2, <2>2, <2>3, <2>4, <2>5 DEF arrivals
<1>5. QED
  BY <1>3, <1>4

\* A sample takes from the balance of a connection what it adds to the tokens of a provider,
\* after giving it what it is bound to count again: the balance stays above zero.
LEMMA SampleBalance ==
  ASSUME MonitorAssumption, NetInv, NEW listed \in SUBSET Socket, Sample(listed),
         NEW p \in Provider, NEW s \in Socket
  PROVE  balance'[p][s] \in Int /\ balance'[p][s] >= 0
<1> DEFINE watched == Watched(listed)
           bytes == BytesFrom(s, Arrivals(p, watched))
<1>1. watched \subseteq Open /\ watched \subseteq Socket
  BY DEF Sample, Watched, Open
<1>2. balance'[p][s] = balance[p][s] - bytes + Again(p, s, watched)
  BY DEF Sample, Account
<1>3. /\ balance[p][s] \in Int /\ balance[p][s] >= 0 /\ old[s] \in Int /\ conn[s].received \in Int
      /\ old[s] >= 0
  BY ReceivedIsCount DEF NetInv, CountTypes, CountedOnce, MonitorAssumption
<1> HIDE DEF watched
<1>4. /\ bytes \in Int
      /\ s \notin Served(p, watched) => bytes = 0
      /\ s \in Served(p, watched) => bytes = Attributable(s) \/ bytes = 0
  <2>1. \A r \in watched : Attributable(r) \in Int
    BY <1>1, AttributableBound
  <2>2. QED
    BY <1>1, <2>1, BytesFromBound
<1> HIDE DEF bytes
<1>5. CASE s \notin Served(p, watched)
  BY <1>2, <1>3, <1>4, <1>5 DEF Again
<1>6. CASE s \in Served(p, watched)
  <2>1. s \in Open /\ s \in Served(p, Open)
    BY <1>1, <1>6 DEF Served
  <2>2. Attributable(s) \in Int /\ Attributable(s) >= 0
    BY <2>1, AttributableBound
  <2>3. bytes <= Attributable(s)
    BY <1>4, <1>6, <2>2
  <2>4. CASE ~started
    BY <1>2, <1>3, <1>4, <2>1, <2>3, <2>4, AttributableBound DEF Again
  <2>5. CASE started
    <3>1. balance[p][s] >= conn[s].received - old[s]
      BY <2>1, <2>5 DEF NetInv, NewIsInBalance
    <3>2. CASE Known(s)
      BY <1>2, <1>3, <1>4, <2>1, <2>2, <2>3, <3>1, <3>2, AttributableBound DEF Again
    <3>3. CASE ~Known(s)
      BY <1>2, <1>3, <1>4, <1>6, <2>1, <2>2, <2>3, <2>5, <3>1, <3>3, AttributableBound DEF Again
    <3>4. QED
      BY <3>2, <3>3
  <2>6. QED
    BY <2>4, <2>5 DEF NetInv, CountTypes
<1>7. QED
  BY <1>5, <1>6

LEMMA SampleCounts ==
  ASSUME MonitorAssumption, NetInv, NEW listed \in SUBSET Socket, Sample(listed)
  PROVE  NetInv'
<1> DEFINE keys == {KeyOf(s) : s \in Watched(listed)}
<1>1. /\ previous' = [k \in keys |-> CountersOf(k[1])]
      /\ started' = TRUE /\ conn' = conn
      /\ old' = [s \in Socket |-> conn[s].received]
  BY DEF Sample, Account
<1>2. Watched(listed) \subseteq Open /\ Open \subseteq Socket
  BY DEF Sample, Watched, Open
<1>3. \A s \in Open : conn[s].peer \in Peer /\ conn[s].owner \in Owner
  BY DEF Open, NetInv, CountTypes, Connection
<1>4. keys \subseteq Key /\ \A k \in keys : k[1] \in Socket
  BY <1>2, <1>3 DEF KeyOf, Key
<1>5. \A s \in Socket : conn[s].received \in 0..MaxBytes /\ old'[s] = conn[s].received
  BY <1>1, ReceivedIsCount DEF NetInv
<1>6. DOMAIN previous' = keys /\ \A k \in keys : previous'[k].received = conn[k[1]].received
  BY <1>1 DEF CountersOf
<1>7. balance' \in [Provider -> [Socket -> Int]] /\ CountedOnce'
  <2>1. balance' = [p \in Provider |-> [s \in Socket |-> balance'[p][s]]]
    BY DEF Sample, Account
  <2>2. QED
    BY <2>1, SampleBalance DEF CountedOnce
<1>8. CountTypes'
  BY <1>1, <1>4, <1>5, <1>6, <1>7 DEF NetInv, CountTypes
<1>9. OldIsReceived' /\ NewIsInBalance'
  <2>1. Open' = Open
    BY <1>1 DEF Open
  <2>2. \A s \in Open : conn'[s].received - old'[s] = 0 /\ old'[s] <= conn'[s].received
    BY <1>1, <1>2, <1>5 DEF MonitorAssumption
  <2>3. QED
    BY <1>2, <1>7, <2>1, <2>2 DEF OldIsReceived, NewIsInBalance, CountedOnce, Served
<1>10. PreviousCoversOld'
  BY <1>4, <1>5, <1>6 DEF PreviousCoversOld, MonitorAssumption
<1>11. NothingBefore'
  BY <1>1 DEF NothingBefore
<1>12. QED
  BY <1>7, <1>8, <1>9, <1>10, <1>11 DEF NetInv

-----------------------------------------------------------------------------
\* Neither time nor a listing that fails changes what counts.
LEMMA OthersCount ==
  ASSUME NetInv, UNCHANGED <<conn, previous, started, old, balance>>
  PROVE  NetInv'
BY DEF NetInv, CountTypes, OldIsReceived, PreviousCoversOld, NothingBefore, NewIsInBalance,
       CountedOnce, Open, Served

LEMMA StepCounts == MonitorAssumption /\ NetInv /\ [NetStep]_netVars => NetInv'
<1> SUFFICES ASSUME MonitorAssumption, NetInv, [NetStep]_netVars
             PROVE  NetInv'
  OBVIOUS
<1>1. ASSUME NEW s \in Socket, NEW peer \in Peer, NEW owner \in Owner, Connect(s, peer, owner)
      PROVE  NetInv'
  BY <1>1, ConnectCounts
<1>2. ASSUME NEW s \in Socket, NEW bytes \in 1..MaxBytes, Send(s, bytes)
      PROVE  NetInv'
  BY <1>2, SendCounts
<1>3. ASSUME NEW s \in Socket, NEW bytes \in 1..MaxBytes, Receive(s, bytes)
      PROVE  NetInv'
  BY <1>3, ReceiveCounts
<1>4. ASSUME NEW s \in Socket, NEW owner \in Owner, ChangeOwner(s, owner)
      PROVE  NetInv'
  BY <1>4, ChangeOwnerCounts
<1>5. ASSUME NEW s \in Socket, Close(s)
      PROVE  NetInv'
  BY <1>5, CloseCounts
<1>6. ASSUME NEW listed \in SUBSET Socket, Sample(listed)
      PROVE  NetInv'
  BY <1>6, SampleCounts
<1>7. CASE Tick
  BY <1>7, OthersCount DEF Tick, kernelVars
<1>8. CASE UNCHANGED netVars
  BY <1>8, OthersCount DEF netVars
<1>9. QED
  BY <1>1, <1>2, <1>3, <1>4, <1>5, <1>6, <1>7, <1>8 DEF NetStep

THEOREM Accounting == NetSpec => []NetInv
<1> USE MonitorAssumption
<1>1. NetInit => NetInv
  BY InitCounts
<1>2. NetInv /\ [NetStep]_netVars => NetInv'
  BY StepCounts
<1>3. QED
  BY <1>1, <1>2, PTL DEF NetSpec

\* Whatever `ss` leaves out, and however sockets are closed, reused and handed on, no provider
\* counts a byte of a connection twice, but those of one that returns under a forgotten key.
THEOREM OnceForEachProvider == NetSpec => []CountedOnce
<1>1. NetInv => CountedOnce
  BY DEF NetInv
<1>2. QED
  BY <1>1, Accounting, PTL

-----------------------------------------------------------------------------
(* Types *)

\* What is older than the window leaves a list, which stays one.
LEMMA PopOlderList ==
  ASSUME NEW X, NEW queue \in Seq(X), NEW ages, NEW window
  PROVE  PopOlder(queue, ages, window) \in Seq(X)
<1> DEFINE first == {i \in DOMAIN queue : ages[i] <= window /\ \A j \in 1..(i - 1) : ages[j] > window}
           i == CHOOSE i \in first : TRUE
<1>1. CASE first = {}
  BY <1>1 DEF PopOlder
<1>2. CASE first # {}
  <2>1. i \in 1..Len(queue)
    BY <1>2
  <2>2. PopOlder(queue, ages, window) = SubSeq(queue, i, Len(queue))
    BY <1>2 DEF PopOlder
  <2> HIDE DEF i
  <2>3. \A j \in i..Len(queue) : queue[j] \in X
    BY <2>1
  <2>4. SubSeq(queue, i, Len(queue)) \in Seq(X)
    BY <2>1, <2>3, SubSeqProperties
  <2>5. QED
    BY <2>2, <2>4
<1>3. QED
  BY <1>1, <1>2

-----------------------------------------------------------------------------
Age == 0..(RequestWindow + 1)
Token == [age : 0..(TokenWindow + 1), bytes : 1..MaxBytes]

\* The types, in the initial states and in every step.
LEMMA InitTypes == MonitorAssumption /\ NetInit => NetTypeOK
<1> SUFFICES ASSUME MonitorAssumption, NetInit
             PROVE  NetTypeOK
  OBVIOUS
<1>1. MaxBytes \in Nat /\ Cooldown \in Nat /\ MaxConnects \in Nat /\ MaxMisses \in Nat
  BY DEF MonitorAssumption
<1>2. previous = [k \in {} |-> k] /\ lastCall = [k \in {} |-> k]
  BY DEF NetInit
<1>3. /\ DOMAIN previous \subseteq Key /\ previous \in [DOMAIN previous -> Counters]
      /\ DOMAIN lastCall \subseteq DOMAIN previous /\ lastCall \in [DOMAIN lastCall -> 0..Cooldown]
  <2>1. DOMAIN previous = {} /\ DOMAIN lastCall = {}
    BY <1>2
  <2>2. QED
    BY <1>2, <2>1
<1>4. 0 \in 0..MaxBytes /\ 0 \in 0..Cooldown /\ Cooldown \in 0..Cooldown
      /\ 0 \in 0..MaxConnects /\ 0 \in 0..MaxMisses
  BY <1>1
<1>5. /\ conn \in [Socket -> Connection \cup {Closed}]
      /\ calls \in [Provider -> Seq(0..(RequestWindow + 1))]
      /\ tokens \in [Provider -> Seq([age : 0..(TokenWindow + 1), bytes : 1..MaxBytes])]
      /\ detected \in [Provider -> Nat]
      /\ started \in BOOLEAN
      /\ activity \in [Provider -> Estimate \cup {NoActivity}]
  <2>1. \A X : <<>> \in Seq(X)
    OBVIOUS
  <2>2. calls \in [Provider -> Seq(0..(RequestWindow + 1))]
    BY <2>1 DEF NetInit
  <2>3. tokens \in [Provider -> Seq([age : 0..(TokenWindow + 1), bytes : 1..MaxBytes])]
    BY <2>1 DEF NetInit
  <2>4. QED
    BY <2>2, <2>3 DEF NetInit
<1>6. /\ opened \in 0..MaxConnects /\ misses \in 0..MaxMisses
      /\ old \in [Socket -> 0..MaxBytes] /\ since \in [Socket -> 0..Cooldown]
      /\ balance \in [Provider -> [Socket -> Int]]
  BY <1>4 DEF NetInit
<1>7. QED
  BY <1>3, <1>5, <1>6 DEF NetTypeOK

\* The kernel
LEMMA ConnectTypes ==
  ASSUME MonitorAssumption, NetTypeOK,
         NEW s \in Socket, NEW peer \in Peer, NEW owner \in Owner, Connect(s, peer, owner)
  PROVE  NetTypeOK'
<1> DEFINE new == [peer |-> peer, owner |-> owner, sent |-> 0, received |-> 0]
<1>1. 0 \in 0..MaxBytes /\ Cooldown \in 0..Cooldown
  BY DEF MonitorAssumption
<1>2. new \in Connection
  BY <1>1 DEF Connection
<1>3. /\ conn' = [conn EXCEPT ![s] = new] /\ old' = [old EXCEPT ![s] = 0]
      /\ since' = [since EXCEPT ![s] = Cooldown]
      /\ balance' = [p \in Provider |-> [balance[p] EXCEPT ![s] = 0]]
      /\ opened < MaxConnects /\ opened' = opened + 1
      /\ UNCHANGED <<misses, monitorVars, activity>>
  BY DEF Connect
<1>4. opened' \in 0..MaxConnects
  BY <1>3 DEF NetTypeOK, MonitorAssumption
<1>5. /\ conn' \in [Socket -> Connection \cup {Closed}]
      /\ old' \in [Socket -> 0..MaxBytes] /\ since' \in [Socket -> 0..Cooldown]
      /\ balance' \in [Provider -> [Socket -> Int]]
  <2> HIDE DEF new
  <2> QED
    BY <1>1, <1>2, <1>3 DEF NetTypeOK
<1>6. QED
  BY <1>3, <1>4, <1>5 DEF NetTypeOK, monitorVars

LEMMA SendTypes ==
  ASSUME MonitorAssumption, NetTypeOK, NEW s \in Socket, NEW bytes \in 1..MaxBytes, Send(s, bytes)
  PROVE  NetTypeOK'
<1>1. /\ conn' = [conn EXCEPT ![s].sent = @ + bytes]
      /\ UNCHANGED <<opened, misses, monitorVars, activity, old, since, balance>>
      /\ conn[s] # Closed /\ conn[s].sent + bytes <= MaxBytes
  BY DEF Send, Open
<1>2. conn[s] \in Connection
  BY <1>1 DEF NetTypeOK
<1>3. [conn[s] EXCEPT !.sent = @ + bytes] \in Connection
  BY <1>1, <1>2 DEF Connection, MonitorAssumption
<1>4. conn' \in [Socket -> Connection \cup {Closed}]
  BY <1>1, <1>3 DEF NetTypeOK
<1>5. QED
  BY <1>1, <1>4 DEF NetTypeOK, monitorVars

LEMMA ReceiveTypes ==
  ASSUME MonitorAssumption, NetTypeOK, NEW s \in Socket, NEW bytes \in 1..MaxBytes, Receive(s, bytes)
  PROVE  NetTypeOK'
<1>1. /\ conn' = [conn EXCEPT ![s].received = @ + bytes]
      /\ balance' = [p \in Provider |-> [balance[p] EXCEPT ![s] =
                        IF started /\ p \in ProvidersOf[conn[s].peer] THEN @ + bytes ELSE @]]
      /\ UNCHANGED <<opened, misses, monitorVars, activity, old, since>>
      /\ conn[s] # Closed /\ conn[s].received + bytes <= MaxBytes
  BY DEF Receive, Open
<1>2. conn[s] \in Connection
  BY <1>1 DEF NetTypeOK
<1>3. [conn[s] EXCEPT !.received = @ + bytes] \in Connection
  BY <1>1, <1>2 DEF Connection, MonitorAssumption
<1>4. conn' \in [Socket -> Connection \cup {Closed}]
  BY <1>1, <1>3 DEF NetTypeOK
<1>5. balance' \in [Provider -> [Socket -> Int]]
  <2>1. balance \in [Provider -> [Socket -> Int]]
    BY DEF NetTypeOK
  <2>2. QED
    BY <1>1, <2>1
<1>6. QED
  BY <1>1, <1>4, <1>5 DEF NetTypeOK, monitorVars

LEMMA ChangeOwnerTypes ==
  ASSUME MonitorAssumption, NetTypeOK, NEW s \in Socket, NEW owner \in Owner, ChangeOwner(s, owner)
  PROVE  NetTypeOK'
<1>1. /\ conn' = [conn EXCEPT ![s].owner = owner]
      /\ misses < MaxMisses /\ misses' = misses + 1
      /\ UNCHANGED <<opened, monitorVars, activity, old, since, balance>>
      /\ conn[s] # Closed
  BY DEF ChangeOwner, Open
<1>2. conn[s] \in Connection
  BY <1>1 DEF NetTypeOK
<1>3. [conn[s] EXCEPT !.owner = owner] \in Connection
  BY <1>2 DEF Connection
<1>4. conn' \in [Socket -> Connection \cup {Closed}] /\ misses' \in 0..MaxMisses
  BY <1>1, <1>3 DEF NetTypeOK, MonitorAssumption
<1>5. QED
  BY <1>1, <1>4 DEF NetTypeOK, monitorVars

LEMMA CloseTypes ==
  ASSUME NetTypeOK, NEW s \in Socket, Close(s)
  PROVE  NetTypeOK'
<1>1. /\ conn' = [conn EXCEPT ![s] = Closed]
      /\ UNCHANGED <<opened, misses, monitorVars, activity, old, since, balance>>
  BY DEF Close
<1>2. QED
  BY <1>1 DEF NetTypeOK, monitorVars

-----------------------------------------------------------------------------
\* A sample

\* What an open socket is credited with is not more than it received.
LEMMA AttributableType ==
  ASSUME MonitorAssumption, NetTypeOK, NEW s \in Open
  PROVE  Attributable(s) \in 0..MaxBytes
<1>1. s \in Socket /\ conn[s] \in Connection
  BY DEF Open, NetTypeOK
<1>2. conn[s].received \in 0..MaxBytes
  BY <1>1 DEF Connection
<1>3. Previous(s).received \in Nat
  <2>1. CASE Known(s)
    <3>1. Previous(s) = previous[KeyOf(s)] /\ previous[KeyOf(s)] \in Counters
      BY <2>1 DEF Previous, Known, NetTypeOK
    <3>2. QED
      BY <3>1 DEF Counters, MonitorAssumption
  <2>2. CASE ~Known(s) /\ ~started
    <3>1. Previous(s) = CountersOf(s)
      BY <2>2 DEF Previous
    <3>2. QED
      BY <1>2, <3>1 DEF CountersOf
  <2>3. CASE ~Known(s) /\ started
    <3>1. Previous(s) = [sent |-> 0, received |-> 0]
      BY <2>3 DEF Previous
    <3>2. QED
      BY <3>1
  <2>4. QED
    BY <2>1, <2>2, <2>3 DEF NetTypeOK
<1>4. ReceivedBy(s) \in 0..MaxBytes
  BY <1>2, <1>3 DEF ReceivedBy, SaturatingSub, MonitorAssumption
<1>5. QED
  BY <1>4 DEF Attributable, SaturatingSub, MonitorAssumption

\* The windows of calls and of tokens stay lists of ages.
LEMMA CallsAfterType ==
  ASSUME MonitorAssumption, NetTypeOK, NEW watched, watched \subseteq Socket, NEW p \in Provider
  PROVE  CallsAfter(p, watched) \in Seq(Age)
<1> DEFINE charged == Cardinality(Charged(p, watched))
           new == [i \in 1..charged |-> 0]
<1>1. charged \in Nat
  BY FewSockets DEF Charged
<1>2. 0 \in Age
  BY DEF Age, MonitorAssumption
<1>3. new \in Seq(Age)
  <2>1. new \in [1..charged -> Age]
    BY <1>2
  <2> HIDE DEF new, charged
  <2>2. QED
    BY <1>1, <2>1, FunctionIsList
<1>4. calls[p] \in Seq(Age)
  BY DEF NetTypeOK, Age
<1> DEFINE queue == calls[p] \o new
<1>5. queue \in Seq(Age)
  <2> HIDE DEF new
  <2> QED
    BY <1>3, <1>4
<1>6. CallsAfter(p, watched) = PopOlder(queue, queue, RequestWindow)
  BY DEF CallsAfter
<1> HIDE DEF queue
<1>7. QED
  BY <1>5, <1>6, PopOlderList

LEMMA TokensAfterType ==
  ASSUME MonitorAssumption, NetTypeOK, NEW watched, watched \subseteq Open, NEW p \in Provider
  PROVE  TokensAfter(p, watched) \in Seq(Token)
<1> DEFINE arrivals == Arrivals(p, watched)
           new   == [i \in DOMAIN arrivals |-> [age |-> 0, bytes |-> arrivals[i].bytes]]
           queue == tokens[p] \o new
           ages  == [i \in DOMAIN queue |-> queue[i].age]
<1>1. PICK n \in Nat : DOMAIN arrivals = 1..n
  BY ArrivalsListed DEF Open
<1>2. \A i \in DOMAIN arrivals : arrivals[i].bytes \in 1..MaxBytes
  <2> SUFFICES ASSUME NEW i \in DOMAIN arrivals
               PROVE  arrivals[i].bytes \in 1..MaxBytes
    OBVIOUS
  <2>1. /\ arrivals[i].from \in Served(p, watched) /\ Attributable(arrivals[i].from) > 0
        /\ arrivals[i].bytes = Attributable(arrivals[i].from)
    BY ArrivalsListed DEF Open
  <2> HIDE DEF arrivals
  <2>2. arrivals[i].from \in Open
    BY <2>1 DEF Served
  <2>3. arrivals[i].bytes \in 0..MaxBytes /\ arrivals[i].bytes > 0
    BY <2>1, <2>2, AttributableType
  <2>4. QED
    BY <2>3 DEF MonitorAssumption
<1> HIDE DEF arrivals
<1>3. new \in [1..n -> Token]
  <2>1. 0 \in 0..(TokenWindow + 1)
    BY DEF MonitorAssumption
  <2>2. QED
    BY <1>1, <1>2, <2>1 DEF Token
<1>4. new \in Seq(Token)
  <2> HIDE DEF new
  <2> QED
    BY <1>3, FunctionIsList
<1>5. tokens[p] \in Seq(Token)
  BY DEF NetTypeOK, Token
<1>6. queue \in Seq(Token)
  <2> HIDE DEF new
  <2> QED
    BY <1>4, <1>5
<1>7. TokensAfter(p, watched) = PopOlder(queue, ages, TokenWindow)
  BY DEF TokensAfter, arrivals
<1> HIDE DEF queue, ages
<1>8. QED
  BY <1>6, <1>7, PopOlderList

\* The bytes in a window are a number.
LEMMA BytesType ==
  ASSUME MonitorAssumption, NEW queue \in Seq(Token)
  PROVE  BytesIn(queue) \in Nat
<1> DEFINE D == DOMAIN queue
           g == [i \in D |-> queue[i].bytes]
<1>1. D = 1..Len(queue) /\ Len(queue) \in Nat
  OBVIOUS
<1>2. IsFiniteSet(D)
  <2> HIDE DEF D
  <2> QED
    BY <1>1, FS_Interval
<1>3. \A i \in D : queue[i] \in Token
  OBVIOUS
<1>4. \A i \in D : g[i] \in Nat
  BY <1>3 DEF Token, MonitorAssumption
<1>5. BytesIn(queue) = SumFunctionOnSet(g, D)
  BY DEF BytesIn, SumFunction
<1> HIDE DEF g, D
<1>6. QED
  BY <1>2, <1>4, <1>5, SumOfNaturals

LEMMA SampleTypes ==
  ASSUME MonitorAssumption, NetTypeOK, NEW listed \in SUBSET Socket, Sample(listed)
  PROVE  NetTypeOK'
<1> DEFINE watched == Watched(listed)
           keys    == {KeyOf(s) : s \in watched}
           charged == {KeyOf(s) : s \in {r \in watched : IsCall(r)}}
<1>1. /\ listed \subseteq Open
      /\ misses + Cardinality(Open \ listed) <= MaxMisses
      /\ misses' = misses + Cardinality(Open \ listed)
      /\ previous' = [k \in keys |-> CountersOf(k[1])]
      /\ lastCall' = [k \in charged \cup Retained(keys) |-> IF k \in charged THEN 0 ELSE lastCall[k]]
      /\ calls' = [p \in Provider |-> CallsAfter(p, watched)]
      /\ tokens' = [p \in Provider |-> TokensAfter(p, watched)]
      /\ detected' = [p \in Provider |-> detected[p] + Cardinality(Charged(p, watched))]
      /\ activity' = [p \in Provider |-> ActivityOf(p, watched)]
      /\ Account(watched)
      /\ started' = TRUE /\ UNCHANGED <<conn, opened>>
  BY DEF Sample
<1>2. watched \subseteq Open /\ Open \subseteq Socket
  BY <1>1 DEF Watched, Open
<1>3. \A s \in Open : conn[s] \in Connection
  BY DEF Open, NetTypeOK
<1>4. misses' \in 0..MaxMisses
  <2>1. Cardinality(Open \ listed) \in Nat
    BY <1>2, FewSockets
  <2>2. QED
    BY <1>1, <2>1 DEF NetTypeOK, MonitorAssumption
<1>5. \A k \in keys : k \in Key /\ k[1] \in watched
  BY <1>2, <1>3 DEF KeyOf, Key, Connection
<1>6. /\ DOMAIN previous' = keys /\ keys \subseteq Key
      /\ previous' \in [DOMAIN previous' -> Counters]
  <2>1. \A k \in keys : CountersOf(k[1]) \in Counters
    BY <1>2, <1>3, <1>5 DEF CountersOf, Counters, Connection
  <2> HIDE DEF keys
  <2>2. QED
    BY <1>1, <1>5, <2>1
<1>7. DOMAIN lastCall' \subseteq DOMAIN previous' /\ lastCall' \in [DOMAIN lastCall' -> 0..Cooldown]
  <2>1. charged \cup Retained(keys) \subseteq keys /\ Retained(keys) \subseteq DOMAIN lastCall
    BY DEF Retained
  <2>2. 0 \in 0..Cooldown /\ \A k \in DOMAIN lastCall : lastCall[k] \in 0..Cooldown
    BY DEF NetTypeOK, MonitorAssumption
  <2> HIDE DEF keys, charged
  <2>3. QED
    BY <1>1, <1>6, <2>1, <2>2
<1>8. \A p \in Provider : CallsAfter(p, watched) \in Seq(Age) /\ TokensAfter(p, watched) \in Seq(Token)
  <2> HIDE DEF watched
  <2> QED
    BY <1>2, CallsAfterType, TokensAfterType
<1>9. calls' \in [Provider -> Seq(Age)] /\ tokens' \in [Provider -> Seq(Token)]
  BY <1>1, <1>8
<1>10. detected' \in [Provider -> Nat]
  <2>1. \A p \in Provider : Charged(p, watched) \subseteq Socket
    BY <1>2 DEF Charged
  <2>2. \A p \in Provider : Cardinality(Charged(p, watched)) \in Nat
    <3> HIDE DEF watched
    <3> QED
      BY <2>1, FewSockets
  <2>3. QED
    BY <1>1, <2>2 DEF NetTypeOK
<1>11. activity' \in [Provider -> Estimate \cup {NoActivity}]
  <2> SUFFICES ASSUME NEW p \in Provider
               PROVE  ActivityOf(p, watched) \in Estimate \cup {NoActivity}
    BY <1>1
  <2> DEFINE n == Cardinality(Served(p, watched))
  <2>1. calls'[p] \in Seq(Age) /\ tokens'[p] \in Seq(Token) /\ detected'[p] \in Nat
    BY <1>9, <1>10
  <2>2. Len(calls'[p]) \in Nat /\ BytesIn(tokens'[p]) \in Nat
    BY <2>1, BytesType
  <2>3. n \in Nat
    BY <1>2, FewSockets DEF Served
  <2>4. ActivityOf(p, watched) \in
          {NoActivity, [rpm |-> Len(calls'[p]), bytes |-> BytesIn(tokens'[p]),
                        connections |-> n, detected |-> detected'[p]]}
    BY DEF ActivityOf
  <2> HIDE DEF n, watched
  <2>5. QED
    BY <2>1, <2>2, <2>3, <2>4 DEF Estimate
<1>12. /\ old' \in [Socket -> 0..MaxBytes] /\ since' \in [Socket -> 0..Cooldown]
       /\ balance' \in [Provider -> [Socket -> Int]]
  <2>1. /\ old' = [s \in Socket |-> conn[s].received]
        /\ since' = [s \in Socket |-> IF s \in watched /\ IsCall(s) THEN 0 ELSE since[s]]
        /\ balance' = [p \in Provider |-> [s \in Socket |->
             balance[p][s] - BytesFrom(s, Arrivals(p, watched)) + Again(p, s, watched)]]
    BY <1>1 DEF Account
  <2>2. \A s \in Socket : conn[s].received \in 0..MaxBytes
    BY DEF NetTypeOK, Connection, Closed, MonitorAssumption
  <2>3. 0 \in 0..Cooldown
    BY DEF MonitorAssumption
  <2>4. \A p \in Provider, s \in Socket :
          BytesFrom(s, Arrivals(p, watched)) \in Int /\ Again(p, s, watched) \in Int
    <3>1. \A s \in watched : Attributable(s) \in Int
      BY <1>2, AttributableType
    <3>2. \A s \in Socket : old[s] \in Int
      BY DEF NetTypeOK
    <3> HIDE DEF watched
    <3>3. \A p \in Provider, s \in Socket : BytesFrom(s, Arrivals(p, watched)) \in Int
      BY <1>2, <3>1, BytesFromBound
    <3>4. QED
      BY <3>2, <3>3 DEF Again
  <2>5. /\ \A s \in Socket : since[s] \in 0..Cooldown
        /\ \A p \in Provider, s \in Socket : balance[p][s] \in Int
    BY DEF NetTypeOK
  <2> HIDE DEF watched
  <2>6. old' \in [Socket -> 0..MaxBytes]
    BY <2>1, <2>2
  <2>7. since' \in [Socket -> 0..Cooldown]
    BY <2>1, <2>3, <2>5
  <2>8. balance' \in [Provider -> [Socket -> Int]]
    BY <2>1, <2>4, <2>5
  <2>9. QED
    BY <2>6, <2>7, <2>8
<1>13. QED
  <2>1. conn' \in [Socket -> Connection \cup {Closed}] /\ opened' \in 0..MaxConnects
    BY <1>1 DEF NetTypeOK
  <2>2. started' \in BOOLEAN
    BY <1>1
  <2> HIDE DEF keys
  <2>3. QED
    BY <1>4, <1>6, <1>7, <1>9, <1>10, <1>11, <1>12, <2>1, <2>2 DEF NetTypeOK, Age, Token

-----------------------------------------------------------------------------
\* An age grows up to its limit.
LEMMA GrownType == ASSUME NEW m \in Nat, NEW n \in 0..m PROVE Grown(n, m) \in 0..m
BY DEF Grown

LEMMA TickTypes ==
  ASSUME MonitorAssumption, NetTypeOK, Tick
  PROVE  NetTypeOK'
<1>1. Cooldown \in Nat /\ RequestWindow + 1 \in Nat /\ TokenWindow + 1 \in Nat
  BY DEF MonitorAssumption
<1>2. lastCall' \in [DOMAIN lastCall' -> 0..Cooldown] /\ DOMAIN lastCall' = DOMAIN lastCall
  <2>1. \A k \in DOMAIN lastCall : Grown(lastCall[k], Cooldown) \in 0..Cooldown
    BY <1>1, GrownType DEF NetTypeOK
  <2>2. QED
    BY <2>1 DEF Tick
<1>3. since' \in [Socket -> 0..Cooldown]
  <2>1. \A s \in Socket : Grown(since[s], Cooldown) \in 0..Cooldown
    BY <1>1, GrownType DEF NetTypeOK
  <2>2. QED
    BY <2>1 DEF Tick
<1>4. calls' \in [Provider -> Seq(0..(RequestWindow + 1))]
  <2> SUFFICES ASSUME NEW p \in Provider
               PROVE  [i \in DOMAIN calls[p] |-> Grown(calls[p][i], RequestWindow + 1)] \in Seq(Age)
    BY DEF Tick, Age
  <2> DEFINE q == calls[p]
             f == [i \in 1..Len(q) |-> Grown(q[i], RequestWindow + 1)]
  <2>1. q \in Seq(Age)
    BY DEF NetTypeOK, Age
  <2> HIDE DEF q
  <2>2. Len(q) \in Nat /\ DOMAIN q = 1..Len(q) /\ \A i \in 1..Len(q) : q[i] \in Age
    BY <2>1
  <2>3. f \in [1..Len(q) -> Age]
    BY <1>1, <2>2, GrownType DEF Age
  <2> HIDE DEF f
  <2>4. f \in Seq(Age)
    BY <2>2, <2>3, FunctionIsList
  <2>5. QED
    BY <2>2, <2>4 DEF q, f
<1>5. tokens' \in [Provider -> Seq([age : 0..(TokenWindow + 1), bytes : 1..MaxBytes])]
  <2> SUFFICES ASSUME NEW p \in Provider
               PROVE  [i \in DOMAIN tokens[p] |->
                         [tokens[p][i] EXCEPT !.age = Grown(@, TokenWindow + 1)]] \in Seq(Token)
    BY DEF Tick, Token
  <2> DEFINE q == tokens[p]
             f == [i \in 1..Len(q) |-> [q[i] EXCEPT !.age = Grown(@, TokenWindow + 1)]]
  <2>1. q \in Seq(Token)
    BY DEF NetTypeOK, Token
  <2> HIDE DEF q
  <2>2. Len(q) \in Nat /\ DOMAIN q = 1..Len(q) /\ \A i \in 1..Len(q) : q[i] \in Token
    BY <2>1
  <2>3. \A t \in Token : [t EXCEPT !.age = Grown(@, TokenWindow + 1)] \in Token
    BY <1>1, GrownType DEF Token
  <2>4. f \in [1..Len(q) -> Token]
    BY <2>2, <2>3
  <2> HIDE DEF f
  <2>5. f \in Seq(Token)
    BY <2>2, <2>4, FunctionIsList
  <2>6. QED
    BY <2>2, <2>5 DEF q, f
<1>6. UNCHANGED <<conn, opened, misses, previous, detected, started, activity, old, balance>>
  BY DEF Tick, kernelVars
<1>7. QED
  BY <1>2, <1>3, <1>4, <1>5, <1>6 DEF NetTypeOK

LEMMA StepTypes == MonitorAssumption /\ NetTypeOK /\ [NetStep]_netVars => NetTypeOK'
<1> SUFFICES ASSUME MonitorAssumption, NetTypeOK, [NetStep]_netVars
             PROVE  NetTypeOK'
  OBVIOUS
<1>1. ASSUME NEW s \in Socket, NEW peer \in Peer, NEW owner \in Owner, Connect(s, peer, owner)
      PROVE  NetTypeOK'
  BY <1>1, ConnectTypes
<1>2. ASSUME NEW s \in Socket, NEW bytes \in 1..MaxBytes, Send(s, bytes)
      PROVE  NetTypeOK'
  BY <1>2, SendTypes
<1>3. ASSUME NEW s \in Socket, NEW bytes \in 1..MaxBytes, Receive(s, bytes)
      PROVE  NetTypeOK'
  BY <1>3, ReceiveTypes
<1>4. ASSUME NEW s \in Socket, NEW owner \in Owner, ChangeOwner(s, owner)
      PROVE  NetTypeOK'
  BY <1>4, ChangeOwnerTypes
<1>5. ASSUME NEW s \in Socket, Close(s)
      PROVE  NetTypeOK'
  BY <1>5, CloseTypes
<1>6. ASSUME NEW listed \in SUBSET Socket, Sample(listed)
      PROVE  NetTypeOK'
  BY <1>6, SampleTypes
<1>7. CASE Tick
  BY <1>7, TickTypes
<1>8. CASE UNCHANGED netVars
  BY <1>8 DEF netVars, NetTypeOK
<1>9. QED
  BY <1>1, <1>2, <1>3, <1>4, <1>5, <1>6, <1>7, <1>8 DEF NetStep

\* Whatever a listing shows, and whenever: the monitor remembers counters and cooldowns of
\* sockets of the last listing only, and its estimates are never negative.
THEOREM MonitorTypes == NetSpec => []NetTypeOK
<1> USE MonitorAssumption
<1>1. NetInit => NetTypeOK
  BY InitTypes
<1>2. NetTypeOK /\ [NetStep]_netVars => NetTypeOK'
  BY StepTypes
<1>3. QED
  BY <1>1, <1>2, PTL DEF NetSpec

-----------------------------------------------------------------------------
(* One burst is one call *)

\* A connection that was charged a moment ago sent enough for a call: under a key that is
\* unknown to the monitor it is charged again.
ChargedHasSent ==
  \A s \in Socket : since[s] < Cooldown => started /\ (s \in Open => conn[s].sent >= CallMinimum)

\* Under a key that the monitor knows it still is in its cooldown.
ChargedCoolsDown ==
  \A k \in DOMAIN previous :
    since[k[1]] < Cooldown => k \in DOMAIN lastCall /\ lastCall[k] <= since[k[1]]

CooldownInv == NetTypeOK /\ ChargedHasSent /\ ChargedCoolsDown

\* Nothing is charged at first.
LEMMA InitCools == MonitorAssumption /\ NetInit => CooldownInv
<1> SUFFICES ASSUME MonitorAssumption, NetInit
             PROVE  CooldownInv
  OBVIOUS
<1>1. NetTypeOK
  BY InitTypes
<1>2. \A s \in Socket : ~(since[s] < Cooldown)
  BY DEF NetInit, MonitorAssumption
<1>3. DOMAIN previous = {}
  BY DEF NetInit
<1>4. QED
  BY <1>1, <1>2, <1>3 DEF CooldownInv, ChargedHasSent, ChargedCoolsDown

\* A step of the kernel leaves the monitor alone; a connection sends no less than before,
\* unless it is a new one.
LEMMA KernelCools ==
  ASSUME MonitorAssumption, CooldownInv, NetTypeOK', UNCHANGED monitorVars,
         \A s \in Socket :
           \/ ~(since'[s] < Cooldown)
           \/ /\ since'[s] = since[s]
              /\ s \in Open' => s \in Open /\ conn'[s].sent >= conn[s].sent
  PROVE  CooldownInv'
<1>1. previous' = previous /\ lastCall' = lastCall /\ started' = started
  BY DEF monitorVars
<1>2. ChargedHasSent'
  <2> SUFFICES ASSUME NEW s \in Socket, since'[s] < Cooldown
               PROVE  started' /\ (s \in Open' => conn'[s].sent >= CallMinimum)
    BY DEF ChargedHasSent
  <2>1. since'[s] = since[s] /\ (s \in Open' => s \in Open /\ conn'[s].sent >= conn[s].sent)
    OBVIOUS
  <2>2. started /\ (s \in Open => conn[s].sent >= CallMinimum)
    BY <2>1 DEF CooldownInv, ChargedHasSent
  <2>3. s \in Open' => conn'[s].sent \in Int /\ conn[s].sent \in Int
    BY <2>1 DEF CooldownInv, NetTypeOK, Connection, Open
  <2>4. CallMinimum \in Int
    BY DEF MonitorAssumption
  <2>5. QED
    BY <1>1, <2>1, <2>2, <2>3, <2>4
<1>3. ChargedCoolsDown'
  <2> SUFFICES ASSUME NEW k \in DOMAIN previous, since'[k[1]] < Cooldown
               PROVE  k \in DOMAIN lastCall /\ lastCall[k] <= since'[k[1]]
    BY <1>1 DEF ChargedCoolsDown
  <2>1. k[1] \in Socket
    BY DEF CooldownInv, NetTypeOK, Key
  <2>2. since'[k[1]] = since[k[1]]
    BY <2>1
  <2>3. QED
    BY <2>2 DEF CooldownInv, ChargedCoolsDown
<1>4. QED
  BY <1>2, <1>3 DEF CooldownInv

\* A charge within the cooldown is one of a connection under an unknown key.
LEMMA ChargeAfterCooldown ==
  ASSUME MonitorAssumption, CooldownInv, NEW s \in Open, IsCall(s)
  PROVE  since[s] >= Cooldown \/ ~Known(s)
<1>1. s \in Socket /\ KeyOf(s)[1] = s
  BY DEF Open, KeyOf
<1>2. since[s] \in Int /\ Cooldown \in Int
  BY <1>1 DEF CooldownInv, NetTypeOK, MonitorAssumption
<1>3. ASSUME since[s] < Cooldown, Known(s)
      PROVE  FALSE
  <2>1. KeyOf(s) \in DOMAIN lastCall /\ lastCall[KeyOf(s)] <= since[s]
    BY <1>1, <1>3 DEF CooldownInv, ChargedCoolsDown, Known
  <2>2. lastCall[KeyOf(s)] >= Cooldown
    BY <2>1 DEF IsCall
  <2>3. lastCall[KeyOf(s)] \in Int
    BY <2>1 DEF CooldownInv, NetTypeOK
  <2>4. QED
    BY <1>2, <1>3, <2>1, <2>2, <2>3
<1>4. QED
  BY <1>2, <1>3

\* A connection that was charged a moment ago and is listed again, but not charged, was
\* known.
LEMMA UnchargedIsKnown ==
  ASSUME MonitorAssumption, CooldownInv, NEW s \in Open, since[s] < Cooldown, ~IsCall(s)
  PROVE  Known(s)
<1> SUFFICES ASSUME ~Known(s)
             PROVE  FALSE
  OBVIOUS
<1>1. s \in Socket /\ conn[s] \in Connection
  BY DEF Open, CooldownInv, NetTypeOK
<1>2. started /\ conn[s].sent >= CallMinimum
  BY <1>1 DEF CooldownInv, ChargedHasSent
<1>3. Previous(s) = [sent |-> 0, received |-> 0]
  BY <1>2 DEF Previous
<1>4. conn[s].sent \in Nat /\ CallMinimum \in Int
  BY <1>1 DEF Connection, MonitorAssumption
<1>5. SentBy(s) = SaturatingSub(conn[s].sent, 0)
  BY <1>3 DEF SentBy
<1>6. SentBy(s) >= CallMinimum
  BY <1>2, <1>4, <1>5 DEF SaturatingSub
<1>7. KeyOf(s) \notin DOMAIN lastCall
  BY DEF Known, CooldownInv, NetTypeOK
<1>8. QED
  BY <1>6, <1>7 DEF IsCall

\* A sample starts the cooldown of what it charges, and keeps that of what it lists.
LEMMA SampleCools ==
  ASSUME MonitorAssumption, CooldownInv, NEW listed \in SUBSET Socket, Sample(listed)
  PROVE  CooldownInv'
<1> DEFINE watched == Watched(listed)
           keys    == {KeyOf(s) : s \in watched}
           charged == {KeyOf(s) : s \in {r \in watched : IsCall(r)}}
<1>1. /\ listed \subseteq Open
      /\ previous' = [k \in keys |-> CountersOf(k[1])]
      /\ lastCall' = [k \in charged \cup Retained(keys) |-> IF k \in charged THEN 0 ELSE lastCall[k]]
      /\ since' = [s \in Socket |-> IF s \in watched /\ IsCall(s) THEN 0 ELSE since[s]]
      /\ started' = TRUE /\ conn' = conn
  BY DEF Sample, Account
<1>2. watched \subseteq Open /\ Open \subseteq Socket /\ Open' = Open
  BY <1>1 DEF Watched, Open
<1>3. NetTypeOK'
  BY SampleTypes DEF CooldownInv
<1>4. CallMinimum \in Nat /\ Cooldown \in Nat
  BY DEF MonitorAssumption
<1>5. \A s \in Open : IsCall(s) => conn[s].sent >= CallMinimum
  <2> SUFFICES ASSUME NEW s \in Open, IsCall(s)
               PROVE  conn[s].sent >= CallMinimum
    OBVIOUS
  <2>1. conn[s].sent \in Nat
    BY DEF Open, CooldownInv, NetTypeOK, Connection
  <2>2. Previous(s).sent \in Nat
    <3>1. CASE Known(s)
      BY <3>1 DEF Previous, Known, CooldownInv, NetTypeOK, Counters
    <3>2. CASE ~Known(s)
      BY <2>1, <3>2 DEF Previous, CountersOf
    <3>3. QED
      BY <3>1, <3>2
  <2>3. SentBy(s) >= CallMinimum
    BY DEF IsCall
  <2>4. QED
    BY <1>4, <2>1, <2>2, <2>3 DEF SentBy, SaturatingSub
<1>6. ChargedHasSent'
  <2> SUFFICES ASSUME NEW s \in Socket, since'[s] < Cooldown
               PROVE  s \in Open => conn[s].sent >= CallMinimum
    BY <1>1, <1>2 DEF ChargedHasSent
  <2> HIDE DEF watched
  <2>1. CASE s \in watched /\ IsCall(s)
    BY <1>5, <2>1
  <2>2. CASE ~(s \in watched /\ IsCall(s))
    <3>1. since[s] < Cooldown
      BY <1>1, <2>2
    <3>2. QED
      BY <3>1 DEF CooldownInv, ChargedHasSent
  <2>3. QED
    BY <2>1, <2>2
<1>7. ChargedCoolsDown'
  <2> SUFFICES ASSUME NEW k \in keys, since'[k[1]] < Cooldown
               PROVE  k \in DOMAIN lastCall' /\ lastCall'[k] <= since'[k[1]]
    BY <1>1 DEF ChargedCoolsDown
  <2>1. PICK s \in watched : k = KeyOf(s)
    OBVIOUS
  <2>2. k[1] = s /\ s \in Open /\ s \in Socket
    BY <1>2, <2>1 DEF KeyOf
  <2>3. \A r \in watched : KeyOf(r) = KeyOf(s) => r = s
    BY DEF KeyOf
  <2>4. k \in charged <=> IsCall(s)
    BY <2>1, <2>3
  <2>5. CASE IsCall(s)
    <3>1. since'[s] = 0 /\ lastCall'[k] = 0 /\ k \in DOMAIN lastCall'
      <4> HIDE DEF watched, keys, charged
      <4> QED
        BY <1>1, <2>1, <2>2, <2>4, <2>5
    <3>2. QED
      BY <2>2, <3>1
  <2>6. CASE ~IsCall(s)
    <3>1. since'[s] = since[s]
      BY <1>1, <2>2, <2>6
    <3>2. since[s] < Cooldown
      BY <2>2, <3>1
    <3>3. Known(s)
      BY <2>2, <2>6, <3>2, UnchargedIsKnown
    <3>4. k \in DOMAIN lastCall /\ lastCall[k] <= since[s]
      BY <2>1, <2>2, <3>2, <3>3 DEF CooldownInv, ChargedCoolsDown, Known
    <3>5. k \in Retained(keys)
      BY <3>4 DEF Retained
    <3>6. k \in DOMAIN lastCall' /\ lastCall'[k] = lastCall[k]
      <4> HIDE DEF keys, charged
      <4> QED
        BY <1>1, <2>4, <2>6, <3>5
    <3>7. QED
      BY <2>2, <3>1, <3>4, <3>6
  <2>7. QED
    BY <2>5, <2>6
<1>8. QED
  BY <1>3, <1>6, <1>7 DEF CooldownInv

\* Time lets both ages grow alike.
LEMMA TickCools ==
  ASSUME MonitorAssumption, CooldownInv, Tick
  PROVE  CooldownInv'
<1>1. /\ lastCall' = [k \in DOMAIN lastCall |-> Grown(lastCall[k], Cooldown)]
      /\ since' = [s \in Socket |-> Grown(since[s], Cooldown)]
      /\ previous' = previous /\ started' = started /\ conn' = conn
  BY DEF Tick, kernelVars
<1>2. Open' = Open /\ Cooldown \in Nat
  BY <1>1 DEF Open, MonitorAssumption
<1>3. \A s \in Socket : since'[s] < Cooldown => since[s] < Cooldown /\ since'[s] = since[s] + 1
  <2> SUFFICES ASSUME NEW s \in Socket, since'[s] < Cooldown
               PROVE  since[s] < Cooldown /\ since'[s] = since[s] + 1
    OBVIOUS
  <2>1. since'[s] = Grown(since[s], Cooldown)
    BY <1>1
  <2>2. since[s] \in 0..Cooldown
    BY DEF CooldownInv, NetTypeOK
  <2>3. QED
    BY <1>2, <2>1, <2>2 DEF Grown
<1>4. NetTypeOK'
  BY TickTypes DEF CooldownInv
<1>5. ChargedHasSent'
  BY <1>1, <1>2, <1>3 DEF CooldownInv, ChargedHasSent
<1>6. ChargedCoolsDown'
  <2> SUFFICES ASSUME NEW k \in DOMAIN previous, since'[k[1]] < Cooldown
               PROVE  k \in DOMAIN lastCall' /\ lastCall'[k] <= since'[k[1]]
    BY <1>1 DEF ChargedCoolsDown
  <2>1. k[1] \in Socket
    BY DEF CooldownInv, NetTypeOK, Key
  <2>2. since[k[1]] < Cooldown /\ since'[k[1]] = since[k[1]] + 1
    BY <1>3, <2>1
  <2>3. k \in DOMAIN lastCall /\ lastCall[k] <= since[k[1]]
    BY <2>2 DEF CooldownInv, ChargedCoolsDown
  <2>4. lastCall[k] \in 0..Cooldown /\ since[k[1]] \in Int
    BY <2>1, <2>3 DEF CooldownInv, NetTypeOK
  <2>5. lastCall'[k] = Grown(lastCall[k], Cooldown) /\ k \in DOMAIN lastCall'
    BY <1>1, <2>3
  <2>6. Grown(lastCall[k], Cooldown) <= lastCall[k] + 1
    BY <1>2, <2>4 DEF Grown
  <2>7. Grown(lastCall[k], Cooldown) \in Int
    BY <1>2, <2>4 DEF Grown
  <2>8. QED
    BY <2>2, <2>3, <2>4, <2>5, <2>6, <2>7
<1>7. QED
  BY <1>4, <1>5, <1>6 DEF CooldownInv

\* Every step keeps the invariant.
LEMMA StepCools == MonitorAssumption /\ CooldownInv /\ [NetStep]_netVars => CooldownInv'
<1> SUFFICES ASSUME MonitorAssumption, CooldownInv, [NetStep]_netVars
             PROVE  CooldownInv'
  OBVIOUS
<1>0. NetTypeOK' /\ NetTypeOK /\ Cooldown \in Nat
  BY StepTypes DEF CooldownInv, MonitorAssumption
<1>1. ASSUME NEW s \in Socket, NEW peer \in Peer, NEW owner \in Owner, Connect(s, peer, owner)
      PROVE  CooldownInv'
  <2>1. /\ UNCHANGED monitorVars
        /\ since' = [since EXCEPT ![s] = Cooldown]
        /\ \A r \in Socket : r # s => conn'[r] = conn[r]
    BY <1>0, <1>1 DEF Connect, NetTypeOK
  <2>2. \A r \in Socket :
          \/ ~(since'[r] < Cooldown)
          \/ since'[r] = since[r] /\ conn'[r] = conn[r]
    <3> SUFFICES ASSUME NEW r \in Socket
                 PROVE  \/ ~(since'[r] < Cooldown)
                        \/ since'[r] = since[r] /\ conn'[r] = conn[r]
      OBVIOUS
    <3>1. DOMAIN since = Socket
      BY <1>0 DEF NetTypeOK
    <3>2. CASE r = s
      <4>1. since'[r] = Cooldown
        BY <2>1, <3>1, <3>2
      <4>2. QED
        BY <1>0, <4>1
    <3>3. CASE r # s
      BY <2>1, <3>1, <3>3
    <3>4. QED
      BY <3>2, <3>3
  <2>3. \A r \in Open : conn[r].sent \in Int
    BY <1>0 DEF Open, NetTypeOK, Connection
  <2>4. \A r \in Socket : conn'[r] = conn[r] => (r \in Open' => r \in Open /\ conn'[r].sent >= conn[r].sent)
    BY <2>3 DEF Open
  <2>5. QED
    BY <1>0, <2>1, <2>2, <2>4, KernelCools
<1>2. ASSUME UNCHANGED <<monitorVars, since>>,
             \A r \in Open' : r \in Open /\ conn'[r].sent >= conn[r].sent
      PROVE  CooldownInv'
  BY <1>0, <1>2, KernelCools
<1>3. \A r \in Open : r \in Socket /\ conn[r].sent \in Int
  BY <1>0 DEF Open, NetTypeOK, Connection
<1>4. ASSUME NEW s \in Socket, NEW bytes \in 1..MaxBytes, Send(s, bytes)
      PROVE  CooldownInv'
  <2>1. /\ conn' = [conn EXCEPT ![s].sent = @ + bytes] /\ s \in Open
        /\ UNCHANGED <<monitorVars, since>>
    BY <1>4 DEF Send
  <2>2. \A r \in Socket : r # s => conn'[r] = conn[r]
    BY <1>0, <2>1 DEF NetTypeOK
  <2>3. conn'[s].sent = conn[s].sent + bytes
    BY <1>0, <2>1 DEF NetTypeOK, Connection, Open
  <2>4. QED
    BY <1>2, <1>3, <2>1, <2>2, <2>3 DEF Open
<1>5. ASSUME NEW s \in Socket, NEW bytes \in 1..MaxBytes, Receive(s, bytes)
      PROVE  CooldownInv'
  <2>1. /\ conn' = [conn EXCEPT ![s].received = @ + bytes] /\ s \in Open
        /\ UNCHANGED <<monitorVars, since>>
    BY <1>5 DEF Receive
  <2>2. \A r \in Socket : r # s => conn'[r] = conn[r]
    BY <1>0, <2>1 DEF NetTypeOK
  <2>3. conn'[s].sent = conn[s].sent
    BY <1>0, <2>1 DEF NetTypeOK, Connection, Open
  <2>4. QED
    BY <1>2, <1>3, <2>1, <2>2, <2>3 DEF Open
<1>6. ASSUME NEW s \in Socket, NEW owner \in Owner, ChangeOwner(s, owner)
      PROVE  CooldownInv'
  <2>1. /\ conn' = [conn EXCEPT ![s].owner = owner] /\ s \in Open
        /\ UNCHANGED <<monitorVars, since>>
    BY <1>6 DEF ChangeOwner
  <2>2. \A r \in Socket : r # s => conn'[r] = conn[r]
    BY <1>0, <2>1 DEF NetTypeOK
  <2>3. conn'[s].sent = conn[s].sent
    BY <1>0, <2>1 DEF NetTypeOK, Connection, Open
  <2>4. QED
    BY <1>2, <1>3, <2>1, <2>2, <2>3 DEF Open
<1>7. ASSUME NEW s \in Socket, Close(s)
      PROVE  CooldownInv'
  <2>1. conn' = [conn EXCEPT ![s] = Closed] /\ UNCHANGED <<monitorVars, since>>
    BY <1>7 DEF Close
  <2>2. \A r \in Open' : r \in Open /\ conn'[r] = conn[r]
    BY <1>0, <2>1 DEF NetTypeOK, Open
  <2>3. QED
    BY <1>2, <1>3, <2>1, <2>2
<1>8. ASSUME NEW listed \in SUBSET Socket, Sample(listed)
      PROVE  CooldownInv'
  BY <1>8, SampleCools
<1>9. CASE Tick
  BY <1>9, TickCools
<1>10. CASE UNCHANGED netVars
  BY <1>2, <1>3, <1>10 DEF netVars, monitorVars, Open
<1>11. QED
  BY <1>1, <1>4, <1>5, <1>6, <1>7, <1>8, <1>9, <1>10 DEF NetStep

\* A connection in its cooldown is remembered as such, or sent enough to be charged again.
THEOREM CooldownHolds == NetSpec => []CooldownInv
<1> USE MonitorAssumption
<1>1. NetInit => CooldownInv
  BY InitCools
<1>2. CooldownInv /\ [NetStep]_netVars => CooldownInv'
  BY StepCools
<1>3. QED
  BY <1>1, <1>2, PTL DEF NetSpec

-----------------------------------------------------------------------------
Free == {s \in Open : since[s] >= Cooldown \/ ~Known(s)}

\* A sample charges each connection at most once, and none that is in its cooldown.
LEMMA SampleSpaced ==
  ASSUME MonitorAssumption, CooldownInv, NEW listed \in SUBSET Socket, Sample(listed)
  PROVE  Charges' - Charges <= Cardinality(Free)
<1> DEFINE watched == Watched(listed)
           C == [p \in Provider |-> Charged(p, watched)]
           all == Members(C, Provider)
<1>1. /\ listed \subseteq Open
      /\ detected' = [p \in Provider |-> detected[p] + Cardinality(Charged(p, watched))]
  BY DEF Sample
<1>2. watched \subseteq Open /\ Open \subseteq Socket
  BY <1>1 DEF Watched, Open
<1>3. IsFiniteSet(Provider)
  BY DEF MonitorAssumption
<1>4. \A p \in Provider : C[p] \subseteq watched /\ \A s \in C[p] : IsCall(s)
  BY DEF Charged
<1>5. \A p \in Provider : IsFiniteSet(C[p])
  <2> HIDE DEF watched, C
  <2> QED
    BY <1>2, <1>4, FewSockets
<1>6. \A p, q \in Provider : p # q => C[p] \cap C[q] = {}
  <2> SUFFICES ASSUME NEW p \in Provider, NEW q \in Provider, NEW s \in C[p], s \in C[q]
               PROVE  p = q
    OBVIOUS
  <2>1. p <= q /\ q <= p
    BY DEF Charged
  <2>2. p \in Nat /\ q \in Nat
    BY DEF MonitorAssumption
  <2>3. QED
    BY <2>1, <2>2
<1>7. \A p \in Provider : detected[p] \in Int /\ detected'[p] = detected[p] + Cardinality(C[p])
  BY <1>1 DEF CooldownInv, NetTypeOK
<1>8. Charges = SumFunctionOnSet(detected, Provider) /\ Charges' = SumFunctionOnSet(detected', Provider)
  <2>1. DOMAIN detected = Provider /\ DOMAIN detected' = Provider
    BY <1>1 DEF CooldownInv, NetTypeOK
  <2>2. QED
    BY <2>1 DEF Charges, SumFunction
<1>9. IsFiniteSet(all) /\ Charges' - Charges = Cardinality(all)
  <2> DEFINE h == detected'
  <2>1. \A p \in Provider : detected[p] \in Int /\ h[p] = detected[p] + Cardinality(C[p])
    BY <1>7
  <2> HIDE DEF C, h
  <2>2. /\ IsFiniteSet(Members(C, Provider))
        /\ SumFunctionOnSet(h, Provider) - SumFunctionOnSet(detected, Provider)
             = Cardinality(Members(C, Provider))
    BY <1>3, <1>5, <1>6, <2>1, SumGrowsByUnion
  <2>3. QED
    BY <1>8, <2>2 DEF h
<1>10. all \in SUBSET Free
  <2> SUFFICES ASSUME NEW p \in Provider, NEW s \in C[p]
               PROVE  s \in Free
    BY DEF Members
  <2>1. s \in Open /\ IsCall(s)
    <3> HIDE DEF C, watched
    <3> QED
      BY <1>2, <1>4
  <2>2. QED
    BY <2>1, ChargeAfterCooldown DEF Free
<1>11. IsFiniteSet(Free)
  BY FewSockets DEF Free, Open
<1> HIDE DEF all
<1>12. QED
  BY <1>9, <1>10, <1>11, FS_Subset

\* At most one call is charged to a connection in a sample, whatever providers share its
\* address, and none within the cooldown of the last one, unless the connection comes back
\* under a key that the monitor does not know.
THEOREM BurstIsOneCall == NetSpec => CallsSpaced
<1> USE MonitorAssumption
<1>1. CooldownInv /\ [NetStep]_netVars
        => [Charges' - Charges <=
             Cardinality({s \in Open : since[s] >= Cooldown \/ ~Known(s)})]_netVars
  <2> SUFFICES ASSUME CooldownInv, NetStep
               PROVE  Charges' - Charges <= Cardinality(Free)
    BY DEF Free
  <2>1. CASE \E listed \in SUBSET Socket : Sample(listed)
    BY <2>1, SampleSpaced
  <2>2. CASE ~(\E listed \in SUBSET Socket : Sample(listed))
    <3>1. detected' = detected
      BY <2>2 DEF NetStep, Connect, Send, Receive, ChangeOwner, Close, Tick, monitorVars
    <3>2. Charges \in Int
      <4>1. DOMAIN detected = Provider /\ \A p \in Provider : detected[p] \in Int
        BY DEF CooldownInv, NetTypeOK
      <4>2. IsFiniteSet(Provider)
        BY DEF MonitorAssumption
      <4>3. SumFunctionOnSet(detected, Provider) \in Int
        BY <4>1, <4>2, SumIsInteger
      <4>4. QED
        BY <4>1, <4>3 DEF Charges, SumFunction
    <3>3. Charges' - Charges = 0
      BY <3>1, <3>2 DEF Charges
    <3>4. Cardinality(Free) \in Nat
      BY FewSockets DEF Free, Open
    <3>5. QED
      BY <3>3, <3>4
  <2>3. QED
    BY <2>1, <2>2
<1>2. QED
  BY <1>1, CooldownHolds, PTL DEF NetSpec, CallsSpaced

-----------------------------------------------------------------------------
(* The dashboard *)

\* Readings of the monitor, one for each provider.
ReadingSet == [Provider -> Estimate \cup {NoActivity}]

\* A frame shows the status that the render loop holds, with what the monitor said then.
FrameOfHeld ==
  pc = "sleep" => \E readings \in ReadingSet, t \in 0..(Round - 1) : frame = Frame(held, readings, t)

CockpitInv ==
  /\ NetTypeOK
  /\ latest \in Statuses /\ held \in Statuses
  /\ turn \in 0..(Round - 1)
  /\ FrameOfHeld

\* The position of a provider among those that take turns: there is one for every turn.
LEMMA TurnIsTaken ==
  ASSUME MonitorAssumption, NEW names, names \subseteq Provider, names # {}, NEW t \in Nat
  PROVE  AtTurn(names, t) \in names
<1> DEFINE R == Forward(names)
           n == Cardinality(names)
<1>1. IsFiniteSet(names) /\ n \in Nat /\ n # 0
  BY FS_Subset, FS_CardinalityType, FS_EmptySet DEF MonitorAssumption
<1>2. StrictOrder(names, R)
  <2>1. names \subseteq Int
    BY DEF MonitorAssumption
  <2>2. QED
    BY <2>1, ForwardIsStrict
<1>3. \A p \in names : Earlier(names, R, p) = {q \in names : q < p}
  BY DEF Earlier, Forward
<1>4. t % n \in 0..(n - 1)
  BY <1>1
<1>5. \E p \in names : Cardinality(Earlier(names, R, p)) = t % n
  <2> HIDE DEF R
  <2> DEFINE m == (t % n) + 1
  <2>1. m \in 1..n /\ m - 1 = t % n
    BY <1>1, <1>4
  <2> HIDE DEF m
  <2>2. \E p \in names : Cardinality(Earlier(names, R, p)) = m - 1
    BY <1>1, <1>2, <2>1, EveryRank
  <2>3. QED
    BY <2>1, <2>2
<1>6. \E p \in names : Cardinality({q \in names : q < p}) = t % Cardinality(names)
  BY <1>3, <1>5
<1>7. QED
  BY <1>6 DEF AtTurn

\* What a provider's dial shows, of what it reports and of what the monitor read.
Honest(own, dial) ==
  /\ own.rpm > 0 => dial.rpm = Clamp(own.rpm, 0, RpmMax)
  /\ own.tpm > 0 => dial.tpm = Clamp(own.tpm, 0, TpmMax)
  /\ (dial.rpm > 0 /\ own.rpm <= 0) \/ (dial.tpm > 0 /\ own.tpm <= 0) => dial.estimated

\* A dial is honest, whatever the provider reports and the monitor reads.
LEMMA DialIsHonest ==
  ASSUME MonitorAssumption, InstrumentAssumption,
         NEW own \in Snapshot, NEW reading \in Estimate \cup {NoActivity}
  PROVE  Honest(own, OnDials(Visible(WithNetwork(own, reading))))
<1> DEFINE w == WithNetwork(own, reading)
           dial == OnDials(Visible(w))
<1>1. /\ own.rpm \in Int /\ own.tpm \in Int /\ own.rpd \in Nat
      /\ own # NoSnapshot => own.freshness # "none"
      /\ NoSnapshot.freshness = "none" /\ NoSnapshot.rpm = -1 /\ NoSnapshot.tpm = -1
  BY DEF Snapshot, NoSnapshot
<1>2. RpmMax \in Nat /\ TpmMax \in Nat /\ RpdLimit \in Nat
  BY DEF InstrumentAssumption
<1>3. reading.rpm \in Nat /\ reading.bytes \in Nat
  BY DEF Estimate, NoActivity
<1>4. /\ w.rpm \in Int /\ w.tpm \in Int
      /\ own # NoSnapshot => w.freshness = own.freshness
      /\ own.rpm > 0 => w.rpm = own.rpm
      /\ own.tpm > 0 => w.tpm = own.tpm
      /\ w.estimated \/ (w.rpm = own.rpm /\ w.tpm = own.tpm)
      /\ w = [freshness |-> w.freshness, rpm |-> w.rpm, tpm |-> w.tpm, rpd |-> w.rpd,
              estimated |-> w.estimated]
  <2> DEFINE traffic == reading.connections > 0 \/ reading.detected > 0 \/ reading.bytes > 0
             fills == IF own = NoSnapshot THEN traffic ELSE reading # NoActivity
  <2>1. w = [freshness |-> IF fills /\ own = NoSnapshot THEN "live" ELSE own.freshness,
             rpm |-> IF fills /\ own.rpm <= 0 THEN reading.rpm ELSE own.rpm,
             tpm |-> IF fills /\ own.tpm <= 0 THEN reading.bytes ELSE own.tpm,
             rpd |-> own.rpd,
             estimated |-> (fills /\ own.rpm <= 0) \/ (fills /\ own.tpm <= 0)]
    BY DEF WithNetwork, Lacks
  <2> HIDE DEF w, fills
  <2>2. /\ w.freshness = IF fills /\ own = NoSnapshot THEN "live" ELSE own.freshness
        /\ w.rpm = IF fills /\ own.rpm <= 0 THEN reading.rpm ELSE own.rpm
        /\ w.tpm = IF fills /\ own.tpm <= 0 THEN reading.bytes ELSE own.tpm
        /\ w.estimated = ((fills /\ own.rpm <= 0) \/ (fills /\ own.tpm <= 0))
    BY <2>1
  <2>3. w = [freshness |-> w.freshness, rpm |-> w.rpm, tpm |-> w.tpm, rpd |-> w.rpd,
             estimated |-> w.estimated]
    BY <2>1
  <2>4. w.rpm \in Int /\ w.tpm \in Int /\ (own # NoSnapshot => w.freshness = own.freshness)
    BY <1>1, <1>3, <2>2
  <2>5. (own.rpm > 0 => w.rpm = own.rpm) /\ (own.tpm > 0 => w.tpm = own.tpm)
    BY <1>1, <2>2
  <2>6. w.estimated \/ (w.rpm = own.rpm /\ w.tpm = own.tpm)
    BY <2>2
  <2>7. QED
    BY <2>3, <2>4, <2>5, <2>6
<1>5. /\ dial.rpm = Clamp(IF w.freshness = "none" THEN 0 ELSE w.rpm, 0, RpmMax)
      /\ dial.tpm = Clamp(IF w.freshness = "none" THEN 0 ELSE w.tpm, 0, TpmMax)
      /\ dial.estimated = w.estimated
  <2> DEFINE v == Visible(w)
  <2>1. /\ v.rpm = IF w.freshness = "none" THEN 0 ELSE w.rpm
        /\ v.tpm = IF w.freshness = "none" THEN 0 ELSE w.tpm
        /\ v.estimated = w.estimated
        /\ v = [freshness |-> v.freshness, rpm |-> v.rpm, tpm |-> v.tpm, rpd |-> v.rpd,
                estimated |-> v.estimated]
    <3> HIDE DEF w
    <3> QED
      BY <1>4 DEF Visible
  <2> HIDE DEF v
  <2>2. /\ OnDials(v).rpm = Clamp(v.rpm, 0, RpmMax) /\ OnDials(v).tpm = Clamp(v.tpm, 0, TpmMax)
        /\ OnDials(v).estimated = v.estimated
    BY <2>1 DEF OnDials
  <2>3. QED
    BY <2>1, <2>2 DEF v
<1>6. (own.rpm > 0 \/ own.tpm > 0) => w.freshness # "none"
  BY <1>1, <1>4
<1> HIDE DEF w, dial
<1>7. /\ own.rpm > 0 => dial.rpm = Clamp(own.rpm, 0, RpmMax)
      /\ own.tpm > 0 => dial.tpm = Clamp(own.tpm, 0, TpmMax)
  BY <1>4, <1>5, <1>6
<1>8. ASSUME dial.rpm > 0 /\ own.rpm <= 0
      PROVE  w.estimated
  <2>1. w.rpm > 0
    BY <1>2, <1>4, <1>5, <1>8 DEF Clamp
  <2>2. w.rpm # own.rpm
    BY <1>1, <1>8, <2>1
  <2>3. QED
    BY <1>4, <2>2
<1>9. ASSUME dial.tpm > 0 /\ own.tpm <= 0
      PROVE  w.estimated
  <2>1. w.tpm > 0
    BY <1>2, <1>4, <1>5, <1>9 DEF Clamp
  <2>2. w.tpm # own.tpm
    BY <1>1, <1>9, <2>1
  <2>3. QED
    BY <1>4, <2>2
<1>10. Honest(own, dial)
  BY <1>5, <1>7, <1>8, <1>9 DEF Honest
<1>11. QED
  BY <1>10 DEF dial, w

\* So is the dial of the provider whose turn it is.
LEMMA FrameIsHonest ==
  ASSUME MonitorAssumption, InstrumentAssumption, CockpitAssumption,
         NEW status \in Statuses, NEW readings \in ReadingSet, NEW t \in 0..(Round - 1)
  PROVE  LET f == Frame(status, readings, t)
         IN Honest(IF f.provider = 0 THEN NoSnapshot ELSE status.of[f.provider], f.dial)
<1> DEFINE dials == [p \in Provider |-> WithNetwork(status.of[p], readings[p])]
           names == Names(dials)
           p == AtTurn(names, t)
           f == Frame(status, readings, t)
<1>1. status.of \in [Provider -> Snapshot] /\ t \in Nat /\ Configured \subseteq Provider
  BY DEF CockpitAssumption
<1>2. names \subseteq Provider
  BY <1>1 DEF Names
<1>3. p = 0 \/ p \in Provider
  <2> HIDE DEF names
  <2>1. CASE names = {}
    BY <2>1 DEF AtTurn
  <2>2. CASE names # {}
    BY <1>1, <1>2, <2>2, TurnIsTaken
  <2>3. QED
    BY <2>1, <2>2
<1>4. /\ f.provider = p
      /\ f.dial = OnDials(Visible(IF p = 0 THEN WithNetwork(NoSnapshot, NoActivity) ELSE dials[p]))
  BY DEF Frame
<1>5. 0 \notin Provider
  BY DEF CockpitAssumption
<1> HIDE DEF p, f
<1>6. CASE p = 0
  <2>1. NoSnapshot \in Snapshot /\ NoActivity \in Estimate \cup {NoActivity}
    BY DEF Snapshot
  <2>2. Honest(NoSnapshot, OnDials(Visible(WithNetwork(NoSnapshot, NoActivity))))
    BY <2>1, DialIsHonest
  <2>3. QED
    BY <1>4, <1>6, <2>2 DEF f
<1>7. CASE p # 0
  <2>1. p \in Provider /\ dials[p] = WithNetwork(status.of[p], readings[p])
    BY <1>3, <1>7
  <2>2. status.of[p] \in Snapshot /\ readings[p] \in Estimate \cup {NoActivity}
    BY <1>1, <2>1 DEF ReadingSet
  <2>3. Honest(status.of[p], OnDials(Visible(dials[p])))
    BY <2>1, <2>2, DialIsHonest
  <2>4. QED
    BY <1>4, <1>7, <2>3 DEF f
<1>8. QED
  BY <1>6, <1>7

-----------------------------------------------------------------------------
\* The invariant of the dashboard, in its initial states and in every step.
LEMMA CockpitStarts ==
  ASSUME MonitorAssumption, CockpitAssumption, Init
  PROVE  CockpitInv
<1>1. NetTypeOK
  BY InitTypes DEF Init
<1>2. 0 \in 0..(Round - 1)
  BY DEF CockpitAssumption
<1>3. pc # "sleep"
  BY DEF Init
<1>4. QED
  BY <1>1, <1>2, <1>3 DEF Init, CockpitInv, FrameOfHeld

\* Each step of the samplers and of the render loop keeps it.
LEMMA CockpitSteps ==
  ASSUME MonitorAssumption, CockpitAssumption, CockpitInv, [Next]_vars
  PROVE  CockpitInv'
<1>1. CASE Monitor
  <2>1. NetTypeOK'
    BY <1>1, StepTypes DEF Monitor, CockpitInv
  <2>2. UNCHANGED <<latest, held, pc, turn, frame>>
    BY <1>1 DEF Monitor
  <2>3. QED
    BY <2>1, <2>2 DEF CockpitInv, FrameOfHeld
<1>2. ASSUME UNCHANGED netVars
      PROVE  NetTypeOK' /\ activity' = activity
  BY <1>2 DEF netVars, CockpitInv, NetTypeOK
<1>3. ASSUME NEW status \in Statuses, NewStatus(status)
      PROVE  CockpitInv'
  BY <1>2, <1>3 DEF NewStatus, CockpitInv, FrameOfHeld
<1>4. CASE Read
  BY <1>2, <1>4 DEF Read, CockpitInv, FrameOfHeld
<1>5. CASE Draw
  <2>1. activity \in ReadingSet
    BY DEF CockpitInv, NetTypeOK, ReadingSet
  <2>2. frame' = Frame(held', activity, turn) /\ turn \in 0..(Round - 1)
    BY <1>5 DEF Draw, CockpitInv
  <2>3. FrameOfHeld'
    BY <2>1, <2>2 DEF FrameOfHeld
  <2>4. QED
    BY <1>2, <1>5, <2>3 DEF Draw, CockpitInv
<1>6. CASE Wake \/ Interrupt
  BY <1>2, <1>6 DEF Wake, Interrupt, CockpitInv, FrameOfHeld
<1>7. CASE NextTurn
  <2>1. turn' \in 0..(Round - 1)
    BY <1>7 DEF NextTurn, CockpitInv, CockpitAssumption
  <2>2. QED
    BY <1>2, <1>7, <2>1 DEF NextTurn, CockpitInv, FrameOfHeld
<1>8. CASE UNCHANGED vars
  BY <1>2, <1>8 DEF vars, CockpitInv, FrameOfHeld
<1>9. QED
  BY <1>1, <1>3, <1>4, <1>5, <1>6, <1>7, <1>8 DEF Next

\* The frame on the screen is one of the status that the render loop holds.
THEOREM CockpitHolds == Spec => []CockpitInv
<1> USE MonitorAssumption, CockpitAssumption
<1>1. Init => CockpitInv
  BY CockpitStarts
<1>2. CockpitInv /\ [Next]_vars => CockpitInv'
  BY CockpitSteps
<1>3. QED
  BY <1>1, <1>2, PTL DEF Spec

\* Whenever the status and the traffic change while a frame is drawn: a positive rate on the
\* dials is the provider's own, or the dials say that it is an estimate.
THEOREM RatesAreHonest == Spec => []HonestRates
<1> USE MonitorAssumption, InstrumentAssumption, CockpitAssumption
<1>1. CockpitInv => HonestRates
  <2> SUFFICES ASSUME CockpitInv, pc = "sleep"
               PROVE  Honest(Reported(frame.provider), frame.dial)
    BY DEF HonestRates, Honest
  <2>1. PICK readings \in ReadingSet, t \in 0..(Round - 1) : frame = Frame(held, readings, t)
    BY DEF CockpitInv, FrameOfHeld
  <2>2. held \in Statuses
    BY DEF CockpitInv
  <2>3. Honest(IF frame.provider = 0 THEN NoSnapshot ELSE held.of[frame.provider], frame.dial)
    BY <2>1, <2>2, FrameIsHonest
  <2>4. QED
    BY <2>3 DEF Reported
<1>2. QED
  BY <1>1, CockpitHolds, PTL

\* The dashboard leaves the monitor as it is: what holds of the monitor alone holds in it.
THEOREM CockpitKeepsMonitor == Spec => NetSpec
<1>1. Init => NetInit
  BY DEF Init
<1>2. [Next]_vars => [NetStep]_netVars
  BY DEF Next, vars, NewStatus, Monitor, Read, Draw, Wake, Interrupt, NextTurn
<1>3. QED
  BY <1>1, <1>2, PTL DEF Spec, NetSpec
=============================================================================
