----------------------------- MODULE PermitPool -----------------------------
(***************************************************************************)
(* What the admission controller promises, without requests, snapshots,    *)
(* stale clocks or a table that is pruned now and then: each key owns at   *)
(* most Limit permits that still run.  A permit is acquired with a life of *)
(* at most MaxLife, is released oldest first, and otherwise ends only      *)
(* because its life is over.                                               *)
(***************************************************************************)
EXTENDS Integers, FiniteSets

CONSTANTS Key, Limit, Permit, MaxLife

VARIABLE left   \* left[key][permit]: the time a permit still runs, 0 when it does not

Running(k) == LET mine == left[k] IN {permit \in Permit : mine[permit] > 0}

Init == left = [k \in Key |-> [permit \in Permit |-> 0]]

\* Permits are numbered in the order they are acquired.
Acquire(k, permit, life) ==
  /\ Cardinality(Running(k)) < Limit
  /\ \A j \in Key : \A other \in Running(j) : other < permit
  /\ left' = [left EXCEPT ![k][permit] = life]

Release(k, permit) ==
  /\ permit \in Running(k)
  /\ \A other \in Running(k) : permit <= other
  /\ left' = [left EXCEPT ![k][permit] = 0]

Elapse ==
  LET now == left IN
  left' = [k \in Key |-> [permit \in Permit |->
             IF now[k][permit] > 0 THEN now[k][permit] - 1 ELSE 0]]

Next ==
  \/ \E k \in Key, permit \in Permit :
       \/ \E life \in 1..MaxLife : Acquire(k, permit, life)
       \/ Release(k, permit)
  \/ Elapse

Spec == Init /\ [][Next]_left

\* The pool is kept in memory: a crash ends every permit at once, and gives out no number
\* twice.
Crash == left' = [k \in Key |-> [permit \in Permit |-> 0]]

VolatileSpec == Init /\ [][Next \/ Crash]_left
=============================================================================
