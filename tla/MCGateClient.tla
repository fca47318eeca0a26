---------------------------- MODULE MCGateClient ----------------------------
(* Small instances of GateClient for TLC: up to three callers, two handlers. *)
EXTENDS GateClient, TLC

CONSTANTS p, m, h1, h2, c1, c2, c3

Ask1(provider, model, tokens) == [provider |-> provider, model |-> model, tokens |-> tokens]
Short == Ask1(p, m, 0)
Long  == Ask1(p, m, 9)
MCRequests == {Short, Long}

\* Callers that estimate alike, and callers that do not.
Alike   == [c \in Client |-> Long]
Unlike  == [c \in Client |-> IF c = c1 THEN Long ELSE Short]

Table(s) == [k \in Key |-> s]
Room   == Table([state |-> "Healthy", reset |-> 0])
Spent  == Table([state |-> "Exhausted", reset |-> 1])
RoomOnly == {Room}
RoomOrSpent == {Room, Spent}

Symmetry == Permutations(Handler) \cup Permutations(Client \ {c1})
=============================================================================
