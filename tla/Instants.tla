------------------------------ MODULE Instants ------------------------------
(***************************************************************************)
(* Instants, and the text form in which the store keeps and compares them  *)
(* (to_rfc3339 of chrono, in src/src/store.rs).                            *)
(*                                                                         *)
(* An instant is its whole seconds and its milli-, micro- and nanoseconds. *)
(* The text up to the seconds has a fixed width, so it compares as the     *)
(* number of seconds; the fraction is written in none, one, two or three   *)
(* groups of digits, as many as it takes, and an offset ends the text.     *)
(***************************************************************************)
EXTENDS Integers, Sequences

CONSTANT Base   \* numbers a group of digits can write: 1000

ASSUME InstantAssumption == Base \in Nat \ {0}

Digits == 0..(Base - 1)
Instant == Nat \X Digits \X Digits \X Digits

NoInstant == <<>>   \* Option::None where an instant may stand

Before(a, b) ==
  \/ a[1] < b[1]
  \/ a[1] = b[1] /\ a[2] < b[2]
  \/ a[1] = b[1] /\ a[2] = b[2] /\ a[3] < b[3]
  \/ a[1] = b[1] /\ a[2] = b[2] /\ a[3] = b[3] /\ a[4] < b[4]

\* Seconds later.
Plus(t, seconds) == <<t[1] + seconds, t[2], t[3], t[4]>>

\* Whole units between two instants, a the earlier one, cut off as chrono does.
Nanos(t) == ((t[1] * Base + t[2]) * Base + t[3]) * Base + t[4]
Milliseconds(a, b) == (Nanos(b) - Nanos(a)) \div (Base * Base)
Seconds(a, b) == (Nanos(b) - Nanos(a)) \div (Base * Base * Base)

\* Mutant: the offset is written Z, which sorts after every digit.
Zulu == Base

\* The offset is written +00:00, and + sorts before the point and before every digit.
Offset == -1

\* The groups of digits that are written: the seconds, and the fraction up to its last
\* group that is not zero.
Written(t) == CHOOSE n \in 1..4 : (n = 1 \/ t[n] # 0) /\ \A i \in (n + 1)..4 : t[i] = 0

\* The text of an instant, as what it compares by.
Text(t) == Append(SubSeq(t, 1, Written(t)), Offset)

\* The order of SQLite on text.
TextBefore(a, b) ==
  LET x == Text(a)
      y == Text(b)
  IN \E i \in DOMAIN x \cap DOMAIN y :
       /\ x[i] < y[i]
       /\ \A j \in 1..(i - 1) : x[j] = y[j]
=============================================================================
