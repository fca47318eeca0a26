---------------------------- MODULE MCAdmission ----------------------------
(* A small instance of Admission for TLC. *)
EXTENDS Admission, TLC

CONSTANTS p, m, h1, h2

\* Short and long requests for the model, short ones for the provider as a whole, and
\* one whose provider does not validate.
Ask(provider, model, tokens) == [provider |-> provider, model |-> model, tokens |-> tokens]
MCRequests == {Ask(p, m, 0), Ask(p, m, 9), Ask(p, AnyModel, 0), Ask(BadName, m, 0)}

\* Tables a poll can install: room on the provider alone, which the model falls back to;
\* and pressure on both, on the model until a known reset.  Before the first poll there
\* is no snapshot at all.
Table(wide, exact) == [k \in Key |-> IF k[2] = AnyModel THEN wide ELSE exact]
Room  == [state |-> "Healthy", reset |-> 0]
Tight == [state |-> "Critical", reset |-> 0]
Spent == [state |-> "Exhausted", reset |-> 2]

MCPolls == {Table(Room, Absent), Table(Tight, Spent)}

Symmetry == Permutations(Handler)
=============================================================================
