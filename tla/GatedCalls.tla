------------------------------ MODULE GatedCalls ------------------------------
(***************************************************************************)
(* What the ingauge-gate crate promises to the programs that use it,       *)
(* without a network, a daemon, clocks or retries: a call asks before it   *)
(* runs and runs at most once.  It runs under a lease that is its own      *)
(* alone, unless its owner lets it run ungated, and it is given up only    *)
(* if its owner does not.                                                  *)
(***************************************************************************)

CONSTANTS Call, MayRunUngated, Lease, NoLease

VARIABLES
  phase,  \* per call: how far it has come
  held    \* per call: the lease it runs or ran under

Init ==
  /\ phase = [c \in Call |-> "before"]
  /\ held = [c \in Call |-> NoLease]

Move(c, from, to) ==
  /\ phase[c] \in from
  /\ phase' = [phase EXCEPT ![c] = to]

Ask(c) == Move(c, {"before"}, "asking") /\ UNCHANGED held

Admit(c, lease) ==
  /\ Move(c, {"asking"}, "running")
  /\ \A other \in Call : held[other] # lease
  /\ held' = [held EXCEPT ![c] = lease]

RunUngated(c) ==
  /\ c \in MayRunUngated
  /\ Move(c, {"before", "asking"}, "running")
  /\ UNCHANGED held

GiveUp(c) ==
  /\ c \notin MayRunUngated
  /\ Move(c, {"before", "asking"}, "failed")
  /\ UNCHANGED held

End(c) == Move(c, {"running"}, "over") /\ UNCHANGED held

Next ==
  \E c \in Call :
    \/ Ask(c) \/ RunUngated(c) \/ GiveUp(c) \/ End(c)
    \/ \E lease \in Lease : Admit(c, lease)

Spec == Init /\ [][Next]_<<phase, held>>
=============================================================================
