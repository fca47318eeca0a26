---------------------------- MODULE LaunchProofs ----------------------------
(***************************************************************************)
(* What holds of a program that is started with --config, for any          *)
(* arguments and settings and beside any number of setups.                 *)
(***************************************************************************)
EXTENDS Launch, ConfigFilesProofs, ListsProofs

-----------------------------------------------------------------------------
(* The files, and the program on what it finds *)

\* The files are as the setups leave them, and what was saved validates; the program is a
\* record with the fields it was started with.
LaunchInv == FilesInv /\ OnlyValid /\ DOMAIN program = DOMAIN Started(Plain)

LEMMA FilesAtLaunch == FilesAssumption /\ Init => LaunchInv
<1> SUFFICES ASSUME FilesAssumption, Init
             PROVE  LaunchInv
  OBVIOUS
<1>1. AtFirst
  <2>1. CASE FilesInit
    <3>1. [Idle EXCEPT !.step = "ready"] = Idle
      BY DEF Idle
    <3>2. QED
      BY <2>1, <3>1 DEF FilesInit, AtFirst
  <2>2. CASE FilesAtFirst /\ setup = [p \in Setup |-> [Idle EXCEPT !.step = "done"]]
    BY <2>2 DEF AtFirst
  <2>3. QED
    BY <2>1, <2>2 DEF Init
<1>2. DOMAIN program = DOMAIN Started(Plain)
  <2>1. PICK argument \in Arguments \cup {Plain} : program = Started(argument)
    BY DEF Init
  <2>2. QED
    BY <2>1 DEF Started
<1>3. QED
  BY <1>1, <1>2, InitFiles, InitOnlyValid DEF LaunchInv

LEMMA FilesDuringLaunch == FilesAssumption /\ LaunchInv /\ [Next]_vars => LaunchInv'
<1> SUFFICES ASSUME FilesAssumption, LaunchInv, [Next]_vars
             PROVE  LaunchInv'
  OBVIOUS
<1>0. DOMAIN program' = DOMAIN Started(Plain)
  <2>1. CASE UNCHANGED program
    BY <2>1 DEF LaunchInv
  <2>2. CASE RunAgain
    BY <2>2 DEF RunAgain, LaunchInv
  <2>3. CASE LoadConfig
    BY <2>3 DEF LoadConfig, LaunchInv
  <2>4. QED
    BY <2>1, <2>2, <2>3 DEF Next, vars
<1>1. CASE UNCHANGED fileVars
  <2>1. FilesInv'
    BY <1>1, FilesStutter DEF LaunchInv
  <2>2. OnlyValid'
    BY <1>1 DEF LaunchInv, OnlyValid, ValidConfig, fileVars
  <2>3. QED
    BY <1>0, <2>1, <2>2 DEF LaunchInv, Started
<1>2. CASE \E p \in Setup : SetupStep(p) /\ UNCHANGED program
  <2>1. PICK p \in Setup : SetupStep(p)
    BY <1>2
  <2>2. FilesInv'
    BY <2>1, FilesStep DEF LaunchInv
  <2>3. OnlyValid'
    BY <2>1, StepOnlyValid DEF LaunchInv, FilesInv
  <2>4. QED
    BY <1>0, <2>2, <2>3 DEF LaunchInv, Started
<1>3. CASE RunAgain \/ LoadConfig \/ UNCHANGED vars
  <2>1. UNCHANGED fileVars
    BY <1>3 DEF RunAgain, LoadConfig, vars
  <2>2. QED
    BY <1>1, <2>1
<1>4. QED
  BY <1>2, <1>3 DEF Next

\* What the setups promise of their files holds beside a program too, wherever it starts.
THEOREM FilesBesideProgram == Spec => []Promises
<1> USE FilesAssumption
<1>1. Init => LaunchInv
  BY FilesAtLaunch
<1>2. LaunchInv /\ [Next]_vars => LaunchInv'
  BY FilesDuringLaunch
<1>3. LaunchInv => Promises
  BY InvariantSuffices DEF LaunchInv
<1>4. QED
  BY <1>1, <1>2, <1>3, PTL DEF Spec

\* A program refuses only what no setup has saved yet, or what two of them have spoilt.
LEMMA RefusesUnsaved ==
  ASSUME LaunchAssumption, LaunchInv, [Next]_vars,
         program.stage = "started", program'.stage = "refused", ~crossed
  PROVE  saved = NoEntries
<1> SUFFICES ASSUME saved # NoEntries
             PROVE  FALSE
  OBVIOUS
<1>1. LoadConfig
  <2>1. CASE UNCHANGED program
    BY <2>1
  <2>2. CASE RunAgain
    <3>1. program'.stage = program.stage \/ program' = program
      BY <2>2 DEF RunAgain
    <3>2. QED
      BY <3>1
  <2>3. QED
    BY <2>1, <2>2 DEF Next, vars
<1>2. /\ inode["config"] # 0 /\ text[inode["config"]].state = "whole"
      /\ ValidConfig(text[inode["config"]].config)
  BY DEF LaunchInv, FilesInv, TempIsMine, OnlyValid
<1>3. OnDisk.state = "whole" /\ ValidConfig(OnDisk.config)
  BY <1>2 DEF OnDisk
<1>4. Validates(OnDisk.config.settings) /\ ValidProviders(OnDisk.config.providers)
  BY <1>3 DEF ValidConfig, LaunchAssumption
<1>5. program' = [program EXCEPT !.stage = "running"]
  BY <1>1, <1>3, <1>4 DEF LoadConfig
<1>6. program'.stage = "running"
  BY <1>5 DEF LaunchInv, Started
<1>7. QED
  BY <1>6

\* Whatever the settings and whatever setups and kills there are: once a setup has reported
\* success, a program that loads the configuration runs on it.
THEOREM SavedStarts == Spec => SavedConfigStarts
<1> USE FilesAssumption, LaunchAssumption
<1>1. Init => LaunchInv
  BY FilesAtLaunch
<1>2. LaunchInv /\ [Next]_vars => LaunchInv'
  BY FilesDuringLaunch
<1>3. LaunchInv /\ [Next]_vars =>
        [program.stage = "started" /\ program'.stage = "refused" /\ ~crossed => saved = NoEntries]_vars
  BY RefusesUnsaved
<1>4. QED
  BY <1>1, <1>2, <1>3, PTL DEF Spec, SavedConfigStarts

-----------------------------------------------------------------------------
(* The braces of a token *)
\* The places of a character among the first n.
Places(t, c, n) == {j \in 1..n : t[j] = c}

LEMMA PlacesGrow ==
  ASSUME NEW t, NEW c, NEW i \in Nat
  PROVE  /\ Cardinality(Places(t, c, 0)) = 0
         /\ Cardinality(Places(t, c, i)) \in Nat
         /\ t[i + 1] = c => Cardinality(Places(t, c, i + 1)) = Cardinality(Places(t, c, i)) + 1
         /\ t[i + 1] # c => Cardinality(Places(t, c, i + 1)) = Cardinality(Places(t, c, i))
<1> DEFINE P == Places(t, c, i)
           Q == Places(t, c, i + 1)
<1>1. Places(t, c, 0) = {}
  BY DEF Places
<1>2. IsFiniteSet(P)
  <2>1. IsFiniteSet(1..i) /\ P \in SUBSET (1..i)
    BY FS_Interval DEF Places
  <2>2. QED
    BY <2>1, FS_Subset
<1>3. i + 1 \notin P
  BY DEF Places
<1>4. (t[i + 1] = c => Q = P \cup {i + 1}) /\ (t[i + 1] # c => Q = P)
  BY DEF Places
<1> HIDE DEF P, Q
<1>5. Cardinality(P) \in Nat /\ Cardinality(P \cup {i + 1}) = Cardinality(P) + 1
  BY <1>2, <1>3, FS_AddElement, FS_CardinalityType
<1>6. Cardinality(Places(t, c, 0)) = 0
  BY <1>1, FS_EmptySet
<1>7. QED
  BY <1>4, <1>5, <1>6 DEF P, Q

\* The depth changes by one at a brace.
LEMMA DepthSteps ==
  ASSUME NEW t, NEW i \in Nat
  PROVE  /\ Depth(t, 0) = 0 /\ Depth(t, i) \in Int
         /\ t[i + 1] = "{" => Depth(t, i + 1) = Depth(t, i) + 1
         /\ t[i + 1] = "}" => Depth(t, i + 1) = Depth(t, i) - 1
         /\ t[i + 1] \notin {"{", "}"} => Depth(t, i + 1) = Depth(t, i)
<1> DEFINE opens(n)  == Cardinality(Places(t, "{", n))
           closes(n) == Cardinality(Places(t, "}", n))
<1>1. /\ Depth(t, 0) = opens(0) - closes(0)
      /\ Depth(t, i) = opens(i) - closes(i)
      /\ Depth(t, i + 1) = opens(i + 1) - closes(i + 1)
  BY DEF Depth, Places
<1>2. opens(0) = 0 /\ closes(0) = 0 /\ opens(i) \in Nat /\ closes(i) \in Nat
  BY PlacesGrow
<1>3. /\ t[i + 1] = "{" => opens(i + 1) = opens(i) + 1 /\ closes(i + 1) = closes(i)
      /\ t[i + 1] = "}" => opens(i + 1) = opens(i) /\ closes(i + 1) = closes(i) + 1
      /\ t[i + 1] \notin {"{", "}"} => opens(i + 1) = opens(i) /\ closes(i + 1) = closes(i)
  <2>1. /\ t[i + 1] = "{" => opens(i + 1) = opens(i) + 1
        /\ t[i + 1] # "{" => opens(i + 1) = opens(i)
        /\ t[i + 1] = "}" => closes(i + 1) = closes(i) + 1
        /\ t[i + 1] # "}" => closes(i + 1) = closes(i)
    BY PlacesGrow
  <2>2. "{" # "}"
    OBVIOUS
  <2> HIDE DEF opens, closes
  <2>3. QED
    BY <2>1, <2>2
<1> DEFINE o == opens(i)
           c == closes(i)
           oo == opens(i + 1)
           cc == closes(i + 1)
<1>4. o \in Nat /\ c \in Nat /\ Depth(t, i) = o - c /\ Depth(t, i + 1) = oo - cc
  BY <1>1, <1>2
<1>5. /\ t[i + 1] = "{" => oo = o + 1 /\ cc = c
      /\ t[i + 1] = "}" => oo = o /\ cc = c + 1
      /\ t[i + 1] \notin {"{", "}"} => oo = o /\ cc = c
  BY <1>3
<1>6. Depth(t, 0) = 0
  <2>1. Depth(t, 0) = 0 - 0
    BY <1>1, <1>2
  <2>2. QED
    BY <2>1
<1> HIDE DEF o, c, oo, cc, opens, closes
<1>7. o - c \in Int /\ (o + 1) - c = (o - c) + 1 /\ o - (c + 1) = (o - c) - 1
  BY <1>4
<1>8. QED
  BY <1>4, <1>5, <1>6, <1>7

\* What is at a place.
IsOpen(t, i)  == t[i] = "{"
IsClose(t, i) == t[i] = "}"
IsCut(t, i)   == t[i] = "," /\ Depth(t, i) = 0

LEMMA DepthAtFirst == ASSUME NEW t PROVE Depth(t, 0) = 0
BY DepthSteps

LEMMA DepthIsInteger == ASSUME NEW t, NEW i \in Nat PROVE Depth(t, i) \in Int
BY DepthSteps

LEMMA LiteralHasNone == ASSUME NEW t PROVE Literal(t) <=> \A i \in DOMAIN t : ~IsOpen(t, i)
BY DEF Literal, IsOpen

\* The same, one place at a time from the left.
LEMMA DepthFrom ==
  ASSUME NEW t, NEW i \in Nat, i > 0
  PROVE  /\ Depth(t, i - 1) \in Int /\ Depth(t, i) \in Int
         /\ IsOpen(t, i) => ~IsClose(t, i) /\ Depth(t, i) = Depth(t, i - 1) + 1
         /\ IsClose(t, i) => Depth(t, i) = Depth(t, i - 1) - 1
         /\ ~IsOpen(t, i) /\ ~IsClose(t, i) => Depth(t, i) = Depth(t, i - 1)
<1> DEFINE k == i - 1
<1>1. k \in Nat /\ k + 1 = i
  OBVIOUS
<1> HIDE DEF k
<1>2. /\ IsOpen(t, k + 1) <=> t[k + 1] = "{"
      /\ IsClose(t, k + 1) <=> t[k + 1] = "}"
      /\ IsOpen(t, k + 1) => ~IsClose(t, k + 1)
  BY DEF IsOpen, IsClose
<1>3. /\ Depth(t, k) \in Int /\ Depth(t, k + 1) \in Int
      /\ t[k + 1] = "{" => Depth(t, k + 1) = Depth(t, k) + 1
      /\ t[k + 1] = "}" => Depth(t, k + 1) = Depth(t, k) - 1
      /\ t[k + 1] \notin {"{", "}"} => Depth(t, k + 1) = Depth(t, k)
  BY <1>1, DepthSteps
<1>4. /\ IsOpen(t, k + 1) => ~IsClose(t, k + 1) /\ Depth(t, k + 1) = Depth(t, k) + 1
      /\ IsClose(t, k + 1) => Depth(t, k + 1) = Depth(t, k) - 1
      /\ ~IsOpen(t, k + 1) /\ ~IsClose(t, k + 1) => Depth(t, k + 1) = Depth(t, k)
  BY <1>2, <1>3
<1>5. /\ IsOpen(t, i) => ~IsClose(t, i) /\ Depth(t, i) = Depth(t, k) + 1
      /\ IsClose(t, i) => Depth(t, i) = Depth(t, k) - 1
      /\ ~IsOpen(t, i) /\ ~IsClose(t, i) => Depth(t, i) = Depth(t, k)
      /\ Depth(t, k) \in Int /\ Depth(t, i) \in Int
  BY <1>1, <1>3, <1>4
<1>6. QED
  BY <1>5 DEF k

\* From and to are the ends of a slice of a token of length n.
Ends(from, to, n) == from \in 1..(n + 1) /\ to \in 0..n /\ from <= to + 1

\* A slice is a list, with the characters of the token.
LEMMA SliceIsList ==
  ASSUME NEW X, NEW t \in Seq(X), NEW a, NEW b, Ends(a, b, Len(t))
  PROVE  /\ SubSeq(t, a, b) \in Seq(X) /\ Len(SubSeq(t, a, b)) = b - a + 1
         /\ b - a + 1 \in Nat
         /\ \A i \in 1..(b - a + 1) : SubSeq(t, a, b)[i] = t[a + i - 1]
<1>1. a \in Int /\ b \in Int /\ \A i \in a..b : t[i] \in X
  BY DEF Ends
<1>2. /\ SubSeq(t, a, b) \in Seq(X)
      /\ Len(SubSeq(t, a, b)) = IF a <= b THEN b - a + 1 ELSE 0
      /\ \A i \in 1..(b - a + 1) : SubSeq(t, a, b)[i] = t[a + i - 1]
  BY <1>1, SubSeqProperties
<1>3. QED
  BY <1>1, <1>2 DEF Ends

\* The depth in a slice counts from that before it.
LEMMA SliceDepth ==
  ASSUME NEW X, NEW t \in Seq(X), NEW a, NEW b, Ends(a, b, Len(t)), NEW i \in 0..(b - a + 1)
  PROVE  Depth(SubSeq(t, a, b), i) = Depth(t, a - 1 + i) - Depth(t, a - 1)
<1> DEFINE u == SubSeq(t, a, b)
           n == b - a + 1
           P == {m \in Nat : m <= n => Depth(u, m) = Depth(t, a - 1 + m) - Depth(t, a - 1)}
<1>1. a \in Nat /\ a >= 1 /\ n \in Nat /\ \A m \in 1..n : u[m] = t[a + m - 1]
  BY SliceIsList DEF Ends
<1> HIDE DEF u, n
<1>2. 0 \in P
  <2>1. a - 1 \in Nat /\ a - 1 + 0 = a - 1 /\ 0 \in Nat
    BY <1>1
  <2>2. Depth(u, 0) = 0
    BY <2>1, DepthSteps
  <2>3. Depth(t, a - 1) \in Int
    BY <2>1, DepthSteps
  <2>4. QED
    BY <2>1, <2>2, <2>3
<1>3. \A m \in Nat : m \in P => m + 1 \in P
  <2> SUFFICES ASSUME NEW m \in Nat, m \in P, m + 1 <= n
               PROVE  Depth(u, m + 1) = Depth(t, a - 1 + (m + 1)) - Depth(t, a - 1)
    OBVIOUS
  <2> DEFINE k == a - 1 + m
  <2>1. k \in Nat /\ a - 1 \in Nat /\ k + 1 = a - 1 + (m + 1)
    BY <1>1
  <2>2. u[m + 1] = t[k + 1]
    <3>1. m + 1 \in 1..n
      BY <1>1
    <3>2. u[m + 1] = t[a + (m + 1) - 1]
      BY <1>1, <3>1
    <3>3. a + (m + 1) - 1 = k + 1
      BY <1>1
    <3>4. QED
      BY <3>2, <3>3
  <2>3. Depth(u, m) = Depth(t, k) - Depth(t, a - 1)
    BY <1>1
  <2> HIDE DEF k
  <2>4. Depth(u, m) \in Int /\ Depth(t, k) \in Int /\ Depth(t, a - 1) \in Int
    BY <2>1, DepthSteps
  <2>5. CASE t[k + 1] = "{"
    <3>1. Depth(u, m + 1) = Depth(u, m) + 1 /\ Depth(t, k + 1) = Depth(t, k) + 1
      BY <2>1, <2>2, <2>5, DepthSteps
    <3>2. QED
      BY <2>1, <2>3, <2>4, <3>1
  <2>6. CASE t[k + 1] = "}"
    <3>1. Depth(u, m + 1) = Depth(u, m) - 1 /\ Depth(t, k + 1) = Depth(t, k) - 1
      BY <2>1, <2>2, <2>6, DepthSteps
    <3>2. QED
      BY <2>1, <2>3, <2>4, <3>1
  <2>7. CASE t[k + 1] \notin {"{", "}"}
    <3>1. Depth(u, m + 1) = Depth(u, m) /\ Depth(t, k + 1) = Depth(t, k)
      BY <2>1, <2>2, <2>7, DepthSteps
    <3>2. QED
      BY <2>1, <2>3, <2>4, <3>1
  <2>8. QED
    BY <2>5, <2>6, <2>7
<1> HIDE DEF P
<1>4. Nat \subseteq P
  BY <1>2, <1>3, Induction
<1>5. i \in P /\ i <= n
  BY <1>1, <1>4 DEF n
<1>6. QED
  BY <1>5 DEF P, u

\* A slice that never gets below the depth it starts at, and ends at it, is balanced.
LEMMA SliceBalanced ==
  ASSUME NEW X, NEW t \in Seq(X), NEW a, NEW b, Ends(a, b, Len(t)),
         NEW d, Depth(t, a - 1) = d, Depth(t, b) = d,
         \A i \in a..b : Depth(t, i) >= d
  PROVE  Balanced(SubSeq(t, a, b))
<1> DEFINE u == SubSeq(t, a, b)
           n == b - a + 1
<1>1. a \in Int /\ b \in Int /\ a >= 1 /\ n \in Nat /\ Len(u) = n /\ u \in Seq(X)
  BY SliceIsList DEF Ends
<1>2. \A i \in 0..n : Depth(u, i) = Depth(t, a - 1 + i) - d
  BY SliceDepth
<1>3. \A i \in 0..n : Depth(t, a - 1 + i) \in Int
  <2> SUFFICES ASSUME NEW i \in 0..n
               PROVE  Depth(t, a - 1 + i) \in Int
    OBVIOUS
  <2>1. a - 1 + i \in Nat
    BY <1>1
  <2>2. QED
    BY <2>1, DepthSteps
<1>4. d \in Int
  <2>1. a - 1 \in Nat
    BY <1>1
  <2>2. QED
    BY <2>1, DepthSteps
<1>5. DOMAIN u = 1..n
  BY <1>1
<1>6. \A i \in 1..n : Depth(u, i) >= 0
  <2> SUFFICES ASSUME NEW i \in 1..n
               PROVE  Depth(u, i) >= 0
    OBVIOUS
  <2>1. a - 1 + i \in a..b
    BY <1>1
  <2>2. Depth(t, a - 1 + i) >= d /\ Depth(t, a - 1 + i) \in Int /\ Depth(u, i) = Depth(t, a - 1 + i) - d
    BY <1>2, <1>3, <2>1
  <2>3. QED
    BY <1>4, <2>2
<1>7. Depth(u, n) = 0
  <2>1. a - 1 + n = b /\ n \in 0..n
    BY <1>1
  <2>2. Depth(u, n) = Depth(t, b) - d
    BY <1>2, <2>1
  <2>3. QED
    BY <1>4, <2>2
<1> HIDE DEF u, n
<1>8. Balanced(u)
  BY <1>1, <1>5, <1>6, <1>7 DEF Balanced
<1>9. QED
  BY <1>8 DEF u

LEMMA LeastIsLeast ==
  ASSUME NEW S, S \subseteq Nat, S # {}
  PROVE  Least(S) \in S /\ \A i \in S : Least(S) <= i
<1>1. \E i \in S : \A j \in S : i <= j
  BY LeastNatural
<1>2. QED
  BY <1>1 DEF Least

\* The first group of a token lies at depth zero, and what is inside it deeper.
FirstAt(t, open, close) ==
  /\ open \in 1..Len(t) /\ close \in (open + 1)..Len(t)
  /\ \A i \in 1..(open - 1) : ~IsOpen(t, i)
  /\ Depth(t, open) = 1
  /\ \A i \in open..(close - 1) : Depth(t, i) >= 1
  /\ Depth(t, close - 1) = 1 /\ Depth(t, close) = 0

OpenPlaces(t)  == {i \in DOMAIN t : IsOpen(t, i)}
ClosePlaces(t) == {i \in DOMAIN t : IsClose(t, i) /\ Depth(t, i) = 0}

LEMMA GroupPlaces ==
  ASSUME NEW t
  PROVE  GroupOpen(t) = Least(OpenPlaces(t)) /\ GroupClose(t) = Least(ClosePlaces(t))
BY DEF GroupOpen, GroupClose, OpenPlaces, ClosePlaces, IsOpen, IsClose

LEMMA FirstGroup ==
  ASSUME NEW X, NEW t \in Seq(X), Balanced(t), ~Literal(t)
  PROVE  FirstAt(t, GroupOpen(t), GroupClose(t))
<1> DEFINE n == Len(t)
           opens  == OpenPlaces(t)
           closes == ClosePlaces(t)
           open  == GroupOpen(t)
           close == GroupClose(t)
<1>1. n \in Nat /\ DOMAIN t = 1..n
  OBVIOUS
<1>2. open = Least(opens) /\ close = Least(closes) /\ opens # {} /\ opens \subseteq Nat
  <2>1. opens # {} /\ opens \subseteq Nat
    BY <1>1, LiteralHasNone DEF OpenPlaces
  <2>2. QED
    BY <2>1, GroupPlaces
<1>3. (\A i \in 1..n : Depth(t, i) >= 0) /\ Depth(t, n) = 0
  BY <1>1 DEF Balanced
<1>4. \A i \in 0..n : Depth(t, i) \in Int
  BY <1>1, DepthIsInteger
<1>5. open \in 1..n /\ IsOpen(t, open) /\ \A i \in 1..n : IsOpen(t, i) => open <= i
  <2>1. open \in opens /\ \A i \in opens : open <= i
    <3> HIDE DEF opens, open
    <3> QED
      BY <1>2, LeastIsLeast
  <2>2. QED
    BY <1>1, <2>1 DEF OpenPlaces
<1> HIDE DEF open, close, n, opens, closes
<1>6. Depth(t, 0) = 0
  BY DepthSteps
\* Before the group there is no brace.
<1>7. \A i \in 1..(open - 1) : ~IsOpen(t, i) /\ i \in 1..n
  BY <1>1, <1>5
<1>8. \A m \in 0..(open - 1) : Depth(t, m) = 0
  <2> DEFINE P == {m \in Nat : m <= open - 1 => Depth(t, m) = 0}
  <2>1. 0 \in P
    BY <1>6
  <2>2. \A m \in Nat : m \in P => m + 1 \in P
    <3> SUFFICES ASSUME NEW m \in Nat, m \in P, m + 1 <= open - 1
                 PROVE  Depth(t, m + 1) = 0
      OBVIOUS
    <3>1. m + 1 \in 1..n /\ ~IsOpen(t, m + 1) /\ Depth(t, m + 1) >= 0
      <4>1. m + 1 \in 1..(open - 1)
        BY <1>1, <1>5
      <4>2. QED
        BY <1>3, <1>7, <4>1
    <3>2. Depth(t, m) = 0
      BY <1>1, <1>5
    <3> DEFINE k == m + 1
    <3>3. k \in Nat /\ k > 0 /\ k - 1 = m /\ ~IsOpen(t, k) /\ Depth(t, k) >= 0
      BY <3>1
    <3> HIDE DEF k
    <3>4. /\ Depth(t, k) \in Int
          /\ IsClose(t, k) => Depth(t, k) = Depth(t, m) - 1
          /\ ~IsClose(t, k) => Depth(t, k) = Depth(t, m)
      BY <3>3, DepthFrom
    <3>5. Depth(t, k) = 0
      BY <3>2, <3>3, <3>4
    <3>6. QED
      BY <3>5 DEF k
  <2> HIDE DEF P
  <2>3. Nat \subseteq P
    BY <2>1, <2>2, Induction
  <2>4. \A m \in 0..(open - 1) : m \in P /\ m <= open - 1
    BY <1>1, <1>5, <2>3
  <2>5. QED
    BY <2>4 DEF P
<1>9. Depth(t, open) = 1
  <2>1. open \in Nat /\ open > 0 /\ open - 1 \in 0..(open - 1)
    BY <1>1, <1>5
  <2>2. Depth(t, open) = Depth(t, open - 1) + 1 /\ Depth(t, open - 1) = 0
    BY <1>5, <1>8, <2>1, DepthFrom
  <2>3. QED
    BY <2>2
\* It ends where the depth first is zero again.
<1> DEFINE ends == {i \in 1..n : i > open /\ Depth(t, i) = 0}
<1>10. ends # {} /\ ends \subseteq Nat
  <2>1. n \in 1..n /\ n # open
    BY <1>1, <1>3, <1>5, <1>9
  <2>2. n > open
    BY <1>1, <1>5, <2>1
  <2>3. n \in ends
    BY <1>3, <2>1, <2>2
  <2>4. QED
    BY <1>1, <2>3
<1>11. PICK e \in ends : \A i \in ends : e <= i
  <2> HIDE DEF ends
  <2> QED
    BY <1>10, LeastNatural
<1>12. e \in 1..n /\ e > open /\ Depth(t, e) = 0
  BY <1>11
<1>13. \A i \in open..(e - 1) : Depth(t, i) >= 1 /\ i \in 1..n
  <2> SUFFICES ASSUME NEW i \in open..(e - 1)
               PROVE  Depth(t, i) >= 1 /\ i \in 1..n
    OBVIOUS
  <2>1. i \in 1..n
    BY <1>1, <1>5, <1>12
  <2>2. CASE i = open
    BY <1>9, <2>1, <2>2
  <2>3. CASE i # open
    <3>1. i > open /\ i < e
      BY <1>1, <1>5, <1>12, <2>1, <2>3
    <3>2. ~(e <= i)
      BY <1>1, <1>12, <2>1, <3>1
    <3>3. i \notin ends
      BY <1>11, <3>2
    <3>4. Depth(t, i) # 0
      BY <2>1, <3>1, <3>3
    <3>5. Depth(t, i) >= 0 /\ Depth(t, i) \in Int
      BY <1>1, <1>3, <1>4, <2>1
    <3>6. QED
      BY <2>1, <3>4, <3>5
  <2>4. QED
    BY <2>2, <2>3
<1>14. e - 1 \in open..(e - 1) /\ e \in Nat /\ e > 0
  BY <1>1, <1>5, <1>12
<1>15. IsClose(t, e) /\ Depth(t, e - 1) = 1
  <2>1. Depth(t, e - 1) >= 1
    BY <1>13, <1>14
  <2>2. /\ Depth(t, e - 1) \in Int
        /\ IsOpen(t, e) => Depth(t, e) = Depth(t, e - 1) + 1
        /\ IsClose(t, e) => Depth(t, e) = Depth(t, e - 1) - 1
        /\ ~IsOpen(t, e) /\ ~IsClose(t, e) => Depth(t, e) = Depth(t, e - 1)
    BY <1>14, DepthFrom
  <2>3. QED
    BY <1>12, <2>1, <2>2
<1>16. close = e
  <2>1. e \in closes
    BY <1>1, <1>12, <1>15 DEF closes, ClosePlaces
  <2>2. closes \subseteq Nat /\ closes # {}
    BY <1>1, <2>1 DEF closes, ClosePlaces
  <2>3. close \in closes /\ \A i \in closes : close <= i
    BY <1>2, <2>2, LeastIsLeast
  <2>4. close <= e
    BY <2>1, <2>3
  <2>5. close \in 1..n /\ IsClose(t, close) /\ Depth(t, close) = 0
    BY <1>1, <2>3 DEF closes, ClosePlaces
  <2>6. ~(close < open)
    <3> SUFFICES ASSUME close < open
                 PROVE  FALSE
      OBVIOUS
    <3>1. close - 1 \in 0..(open - 1) /\ close \in Nat /\ close > 0
      BY <1>1, <1>5, <2>5
    <3>2. Depth(t, close) = Depth(t, close - 1) - 1 /\ Depth(t, close - 1) = 0
      BY <1>8, <2>5, <3>1, DepthFrom
    <3>3. QED
      BY <2>5, <3>2
  <2>7. close # open
    BY <1>9, <2>5
  <2>8. close > open
    BY <1>1, <1>5, <2>5, <2>6, <2>7
  <2>9. close \in ends
    BY <2>5, <2>8
  <2>10. e <= close
    BY <1>11, <2>9
  <2>11. QED
    BY <1>1, <1>12, <2>4, <2>5, <2>10
<1>17. close \in (open + 1)..n
  BY <1>1, <1>5, <1>12, <1>16
<1>18. FirstAt(t, open, close)
  BY <1>5, <1>7, <1>9, <1>12, <1>13, <1>15, <1>16, <1>17 DEF FirstAt, n
<1>19. QED
  BY <1>18 DEF open, close

-----------------------------------------------------------------------------
(* Pieces *)

\* A cut leaves the depth as it is.
LEMMA CutDepth ==
  ASSUME NEW t, NEW i \in Nat, i > 0, IsCut(t, i)
  PROVE  Depth(t, i) = 0 /\ Depth(t, i - 1) = 0
<1>1. ~IsOpen(t, i) /\ ~IsClose(t, i)
  BY DEF IsCut, IsOpen, IsClose
<1>2. Depth(t, i) = 0
  BY DEF IsCut
<1>3. QED
  BY <1>1, <1>2, DepthFrom

CutPlaces(t) == {i \in DOMAIN t : IsCut(t, i)}

\* An alternative is a balanced slice.
Alternative(t, a, b) == Ends(a, b, Len(t)) /\ Balanced(SubSeq(t, a, b))

LEMMA SplitsInSlices ==
  ASSUME NEW X, NEW t \in Seq(X), Balanced(t)
  PROVE  /\ Split(t) \in Seq(Seq(X))
         /\ \A n \in DOMAIN Split(t) : \E a, b : Alternative(t, a, b) /\ Split(t)[n] = SubSeq(t, a, b)
<1> DEFINE L == Len(t)
           cuts == {0, L + 1} \cup CutPlaces(t)
           cut == Sorted(cuts, Forward(cuts))
           k == Cardinality(cuts)
<1>1. L \in Nat /\ DOMAIN t = 1..L
  OBVIOUS
<1>2. Split(t) = [n \in 1..(k - 1) |-> SubSeq(t, cut[n] + 1, cut[n + 1] - 1)]
  BY DEF Split, CutPlaces, IsCut
<1>3. /\ (\A i \in 1..L : Depth(t, i) >= 0) /\ Depth(t, L) = 0 /\ Depth(t, 0) = 0
      /\ \A i \in 0..L : Depth(t, i) \in Int
  BY <1>1, DepthIsInteger, DepthAtFirst DEF Balanced
<1> HIDE DEF L
<1>4. /\ cuts \subseteq 0..(L + 1) /\ IsFiniteSet(cuts)
      /\ \A c \in cuts : (c <= L => Depth(t, c) = 0) /\ (c > 0 => Depth(t, c - 1) = 0)
  <2>1. CutPlaces(t) \subseteq 1..L
    BY <1>1 DEF CutPlaces
  <2>2. cuts \subseteq 0..(L + 1)
    BY <1>1, <2>1
  <2>3. IsFiniteSet(0..(L + 1))
    BY <1>1, FS_Interval
  <2>4. IsFiniteSet(cuts)
    BY <2>2, <2>3, FS_Subset
  <2>5. ASSUME NEW c \in cuts
        PROVE  (c <= L => Depth(t, c) = 0) /\ (c > 0 => Depth(t, c - 1) = 0)
    <3>1. CASE c = 0
      BY <1>3, <3>1
    <3>2. CASE c = L + 1
      BY <1>1, <1>3, <3>2
    <3>3. CASE c \in CutPlaces(t)
      <4>1. IsCut(t, c) /\ c \in Nat /\ c > 0
        BY <1>1, <2>1, <3>3 DEF CutPlaces
      <4>2. QED
        BY <4>1, CutDepth
    <3>4. QED
      BY <3>1, <3>2, <3>3
  <2>6. QED
    BY <2>2, <2>4, <2>5
<1> HIDE DEF cuts
<1>5. /\ k \in Nat /\ cut \in [1..k -> cuts]
      /\ \A m, n \in 1..k : m < n => <<cut[m], cut[n]>> \in Forward(cuts)
  <2>1. cuts \subseteq Int
    BY <1>1, <1>4
  <2>2. StrictOrder(cuts, Forward(cuts))
    BY <2>1, ForwardIsStrict
  <2> DEFINE R == Forward(cuts)
  <2> HIDE DEF R
  <2>3. StrictOrder(cuts, R)
    BY <2>2 DEF R
  <2>4. /\ Cardinality(cuts) \in Nat /\ Sorted(cuts, R) \in [1..Cardinality(cuts) -> cuts]
        /\ \A m, n \in 1..Cardinality(cuts) : m < n => <<Sorted(cuts, R)[m], Sorted(cuts, R)[n]>> \in R
    BY <1>4, <2>3, SortedInOrder
  <2>5. QED
    BY <2>4 DEF R
<1> HIDE DEF cut, k
<1>6. ASSUME NEW n \in 1..(k - 1)
      PROVE  Alternative(t, cut[n] + 1, cut[n + 1] - 1)
  <2> DEFINE c == cut[n]
             d == cut[n + 1]
  <2>1. n \in 1..k /\ n + 1 \in 1..k /\ n < n + 1
    BY <1>5
  <2>2. c \in cuts /\ d \in cuts /\ <<c, d>> \in Forward(cuts)
    BY <1>5, <2>1
  <2> HIDE DEF c, d
  <2>3. c \in 0..(L + 1) /\ d \in 0..(L + 1) /\ c < d
    BY <1>4, <2>2 DEF Forward
  <2>4. Depth(t, c) = 0 /\ Depth(t, d - 1) = 0
    BY <1>1, <1>4, <2>2, <2>3
  <2> DEFINE a == c + 1
             b == d - 1
  <2>5. /\ a \in 1..(L + 1) /\ b \in 0..L /\ a <= b + 1 /\ a - 1 = c
        /\ \A i \in a..b : i \in 1..L
    BY <1>1, <2>3
  <2> HIDE DEF a
  <2>6. Ends(a, b, L) /\ Depth(t, a - 1) = 0 /\ Depth(t, b) = 0 /\ \A i \in a..b : Depth(t, i) >= 0
    BY <1>3, <2>4, <2>5 DEF Ends
  <2> HIDE DEF b
  <2>7. Balanced(SubSeq(t, a, b))
    BY <2>6, SliceBalanced DEF L
  <2>8. Alternative(t, a, b)
    BY <2>6, <2>7 DEF Alternative, L
  <2>9. QED
    BY <2>8 DEF a, b, c, d
<1>7. \A n \in 1..(k - 1) : SubSeq(t, cut[n] + 1, cut[n + 1] - 1) \in Seq(X)
  BY <1>6, SliceIsList DEF Alternative
<1>8. k - 1 \in Nat \/ 1..(k - 1) = {}
  BY <1>5
<1>9. Split(t) \in Seq(Seq(X))
  <2>1. CASE k - 1 \in Nat
    <3>1. Split(t) \in [1..(k - 1) -> Seq(X)]
      BY <1>2, <1>7
    <3>2. QED
      BY <2>1, <3>1, FunctionIsList
  <2>2. CASE 1..(k - 1) = {}
    <3>1. Split(t) \in [1..0 -> Seq(X)]
      BY <1>2, <2>2
    <3>2. QED
      BY <3>1, FunctionIsList
  <2>3. QED
    BY <1>8, <2>1, <2>2
<1>10. \A n \in DOMAIN Split(t) : \E a, b : Alternative(t, a, b) /\ Split(t)[n] = SubSeq(t, a, b)
  BY <1>2, <1>6
<1>11. QED
  BY <1>9, <1>10

\* A slice of a slice is a slice of the token.
LEMMA SliceOfSlice ==
  ASSUME NEW X, NEW t \in Seq(X), NEW s \in Slices(t), NEW a, NEW b, Alternative(s, a, b)
  PROVE  SubSeq(s, a, b) \in Slices(t) /\ SubSeq(s, a, b) \in Seq(X)
<1> DEFINE n == Len(t)
<1>1. n \in Nat
  OBVIOUS
<1>2. PICK c \in 1..(n + 1), d \in 0..n : s = SubSeq(t, c, d)
  BY DEF Slices
<1>3. Balanced(SubSeq(s, a, b)) /\ Ends(a, b, Len(s))
  BY DEF Alternative
<1> DEFINE u == SubSeq(s, a, b)
<1>4. CASE c <= d + 1
  <2> DEFINE e == c + a - 1
             f == c + b - 1
  <2>1. Ends(c, d, n)
    BY <1>2, <1>4 DEF Ends
  <2>2. /\ s \in Seq(X) /\ Len(s) = d - c + 1
        /\ \A i \in 1..(d - c + 1) : s[i] = t[c + i - 1]
    BY <1>2, <2>1, SliceIsList
  <2>3. /\ u \in Seq(X) /\ Len(u) = b - a + 1 /\ b - a + 1 \in Nat
        /\ \A i \in 1..(b - a + 1) : u[i] = s[a + i - 1]
    BY <1>3, <2>2, SliceIsList
  <2>4. /\ e \in 1..(n + 1) /\ f \in 0..n /\ e <= f + 1 /\ f - e = b - a
        /\ a \in Int /\ b \in Int /\ c \in Int
    BY <1>1, <1>2, <1>3, <1>4, <2>2 DEF Ends
  <2>5. Ends(e, f, n)
    BY <2>4 DEF Ends
  <2> DEFINE v == SubSeq(t, e, f)
  <2> HIDE DEF e, f
  <2>6. /\ v \in Seq(X) /\ Len(v) = b - a + 1
        /\ \A i \in 1..(b - a + 1) : v[i] = t[e + i - 1]
    BY <2>4, <2>5, SliceIsList
  <2> HIDE DEF u, v
  <2>7. u = v
    <3>1. ASSUME NEW i \in 1..(b - a + 1)
          PROVE  u[i] = v[i]
      <4>1. a + i - 1 \in 1..(d - c + 1)
        BY <1>2, <1>3, <2>2, <2>4 DEF Ends
      <4>2. s[a + i - 1] = t[c + (a + i - 1) - 1]
        BY <2>2, <4>1
      <4>3. c + (a + i - 1) - 1 = e + i - 1
        BY <2>4 DEF e
      <4>4. QED
        BY <2>3, <2>6, <4>2, <4>3
    <3> DEFINE m == b - a + 1
    <3>2. m \in Nat /\ Len(u) = m /\ Len(v) = m /\ \A i \in 1..m : u[i] = v[i]
      BY <2>3, <2>6, <3>1
    <3> HIDE DEF m
    <3>3. u \in [1..m -> X] /\ v \in [1..m -> X]
      BY <2>3, <2>6, <3>2
    <3>4. QED
      BY <3>2, <3>3
  <2>8. u \in {SubSeq(t, from, to) : from \in 1..(n + 1), to \in 0..n}
    BY <2>4, <2>7 DEF v
  <2>9. Balanced(u)
    BY <1>3 DEF u
  <2>10. u \in Slices(t)
    BY <2>8, <2>9 DEF Slices
  <2>11. QED
    BY <2>3, <2>10 DEF u
<1>5. CASE ~(c <= d + 1)
  <2>1. s = <<>> /\ c \in Int /\ d \in Int
    BY <1>1, <1>2, <1>5
  <2>2. Len(s) = 0
    BY <2>1
  <2>3. a = 1 /\ b = 0
    BY <1>3, <2>2 DEF Ends
  <2>4. u = s
    BY <2>1, <2>3
  <2>5. u \in Seq(X)
    <3>1. <<>> \in Seq(X)
      OBVIOUS
    <3> HIDE DEF u
    <3>2. QED
      BY <2>1, <2>4, <3>1
  <2>6. QED
    BY <2>4, <2>5
<1>6. QED
  BY <1>2, <1>4, <1>5

LEMMA SliceIsToken ==
  ASSUME NEW X, NEW t \in Seq(X), NEW s \in Slices(t)
  PROVE  s \in Seq(X) /\ Balanced(s)
<1> DEFINE n == Len(t)
<1>1. n \in Nat
  OBVIOUS
<1>2. PICK c \in 1..(n + 1), d \in 0..n : s = SubSeq(t, c, d)
  BY DEF Slices
<1>3. CASE c <= d + 1
  <2>1. Ends(c, d, n)
    BY <1>2, <1>3 DEF Ends
  <2>2. QED
    BY <1>2, <2>1, SliceIsList DEF Slices
<1>4. CASE ~(c <= d + 1)
  <2>1. s = <<>>
    BY <1>1, <1>2, <1>4
  <2>2. <<>> \in Seq(X)
    OBVIOUS
  <2>3. QED
    BY <2>1, <2>2 DEF Slices
<1>5. QED
  BY <1>3, <1>4

\* The whole of a token is one of its slices.
LEMMA TokenIsSlice ==
  ASSUME NEW X, NEW t \in Seq(X), Balanced(t)
  PROVE  t \in Slices(t)
<1> DEFINE n == Len(t)
           u == SubSeq(t, 1, n)
<1>1. n \in Nat
  OBVIOUS
<1>2. Ends(1, n, n)
  BY <1>1 DEF Ends
<1>3. u \in Seq(X) /\ Len(u) = n /\ \A i \in 1..n : u[i] = t[i]
  <2>1. /\ u \in Seq(X) /\ Len(u) = n - 1 + 1
        /\ \A i \in 1..(n - 1 + 1) : u[i] = t[1 + i - 1]
    BY <1>2, SliceIsList
  <2>2. n - 1 + 1 = n /\ \A i \in 1..n : 1 + i - 1 = i
    BY <1>1
  <2>3. QED
    BY <2>1, <2>2
<1>4. u = t
  <2> HIDE DEF u
  <2>1. u \in [1..n -> X] /\ t \in [1..n -> X]
    BY <1>3
  <2>2. QED
    BY <1>3, <2>1
<1>5. 1 \in 1..(n + 1) /\ n \in 0..n
  BY <1>1
<1>6. QED
  BY <1>4, <1>5 DEF Slices

-----------------------------------------------------------------------------
(* What a token expands to *)

\* Shorter slices of t than s.
Shorter(t, s) == {u \in Slices(t) : Len(u) < Len(s)}

\* The parts of a token with a group.
Lead(s)    == SubSeq(s, 1, GroupOpen(s) - 1)
Content(s) == SubSeq(s, GroupOpen(s) + 1, GroupClose(s) - 1)
Following(s)    == SubSeq(s, GroupClose(s) + 1, Len(s))

\* Tokens without groups.
Literals(X) == {s \in Seq(X) : Literal(s)}

LEMMA GroupParts ==
  ASSUME NEW X, NEW t \in Seq(X), NEW s \in Slices(t), ~Literal(s)
  PROVE  /\ Lead(s) \in Literals(X)
         /\ Following(s) \in Shorter(t, s)
         /\ Split(Content(s)) \in Seq(Shorter(t, s))
<1> DEFINE n == Len(s)
           open == GroupOpen(s)
           close == GroupClose(s)
<1>1. s \in Seq(X) /\ Balanced(s) /\ n \in Nat
  BY SliceIsToken
<1>2. FirstAt(s, open, close)
  BY <1>1, FirstGroup
<1> HIDE DEF n, open, close
<1>3. /\ open \in 1..n /\ close \in (open + 1)..n
      /\ \A i \in 1..(open - 1) : ~IsOpen(s, i)
      /\ Depth(s, open) = 1
      /\ \A i \in open..(close - 1) : Depth(s, i) >= 1
      /\ Depth(s, close - 1) = 1 /\ Depth(s, close) = 0
  BY <1>2 DEF FirstAt, n
<1>4. Lead(s) \in Literals(X)
  <2> DEFINE u == SubSeq(s, 1, open - 1)
             b == open - 1
  <2>1. b \in 0..n /\ 1 \in 1..(n + 1) /\ 1 <= b + 1 /\ b - 1 + 1 = b
    BY <1>1, <1>3
  <2> HIDE DEF b
  <2>2. Ends(1, b, n)
    BY <2>1 DEF Ends
  <2>3. /\ SubSeq(s, 1, b) \in Seq(X) /\ Len(SubSeq(s, 1, b)) = b - 1 + 1
        /\ \A i \in 1..(b - 1 + 1) : SubSeq(s, 1, b)[i] = s[1 + i - 1]
    BY <1>1, <2>2, SliceIsList DEF n
  <2> DEFINE v == SubSeq(s, 1, b)
  <2> HIDE DEF v
  <2>4. v \in Seq(X) /\ DOMAIN v = 1..b /\ \A i \in 1..b : v[i] = s[i]
    <3>1. \A i \in 1..b : 1 + i - 1 = i
      BY <2>1
    <3>2. QED
      BY <2>1, <2>3, <3>1 DEF v
  <2>5. \A i \in 1..b : ~IsOpen(v, i)
    BY <1>3, <2>4 DEF IsOpen, b
  <2>6. Literal(v)
    BY <2>4, <2>5, LiteralHasNone
  <2>7. QED
    BY <2>4, <2>6 DEF Literals, Lead, v, b, open
<1>5. Following(s) \in Shorter(t, s)
  <2> DEFINE a == close + 1
  <2>1. a \in 1..(n + 1) /\ n \in 0..n /\ a <= n + 1 /\ a - 1 = close /\ n - a + 1 < n
    BY <1>1, <1>3
  <2>2. \A i \in a..n : i \in DOMAIN s
    BY <1>1, <1>3 DEF n
  <2> HIDE DEF a
  <2>3. Ends(a, n, n)
    BY <2>1 DEF Ends
  <2>4. Depth(s, a - 1) = 0 /\ Depth(s, n) = 0 /\ \A i \in a..n : Depth(s, i) >= 0
    BY <1>1, <1>3, <2>1, <2>2 DEF Balanced, n
  <2>5. Balanced(SubSeq(s, a, n))
    BY <1>1, <2>3, <2>4, SliceBalanced DEF n
  <2>6. Alternative(s, a, n)
    BY <2>3, <2>5 DEF Alternative, n
  <2>7. SubSeq(s, a, n) \in Slices(t)
    BY <2>6, SliceOfSlice
  <2>8. Len(SubSeq(s, a, n)) = n - a + 1
    BY <1>1, <2>3, SliceIsList DEF n
  <2>9. SubSeq(s, a, n) \in Shorter(t, s)
    BY <2>1, <2>7, <2>8 DEF Shorter, n
  <2>10. QED
    BY <2>9 DEF Following, a, close, n
<1>6. Split(Content(s)) \in Seq(Shorter(t, s))
  <2> DEFINE a == open + 1
             b == close - 1
             u == SubSeq(s, a, b)
             m == b - a + 1
  <2>1. /\ a \in 1..(n + 1) /\ b \in 0..n /\ a <= b + 1 /\ a - 1 = open /\ m \in Nat /\ m < n
        /\ \A i \in a..b : i \in open..(close - 1)
    BY <1>1, <1>3
  <2> HIDE DEF a
  <2>2. /\ Ends(a, b, n)
        /\ Depth(s, a - 1) = 1 /\ Depth(s, b) = 1 /\ \A i \in a..b : Depth(s, i) >= 1
    BY <1>3, <2>1 DEF Ends
  <2> HIDE DEF b
  <2>3. Balanced(u)
    BY <1>1, <2>2, SliceBalanced DEF n
  <2>4. Alternative(s, a, b)
    BY <2>2, <2>3 DEF Alternative, n
  <2>5. u \in Slices(t) /\ u \in Seq(X)
    BY <2>4, SliceOfSlice
  <2>6. Len(u) = m
    BY <1>1, <2>2, SliceIsList DEF n
  <2> HIDE DEF u, m
  <2>7. /\ Split(u) \in Seq(Seq(X))
        /\ \A k \in DOMAIN Split(u) : \E c, d : Alternative(u, c, d) /\ Split(u)[k] = SubSeq(u, c, d)
    BY <2>3, <2>5, SplitsInSlices
  <2>8. ASSUME NEW k \in DOMAIN Split(u)
        PROVE  Split(u)[k] \in Shorter(t, s)
    <3>1. PICK c, d : Alternative(u, c, d) /\ Split(u)[k] = SubSeq(u, c, d)
      BY <2>7
    <3>2. SubSeq(u, c, d) \in Slices(t)
      BY <2>5, <3>1, SliceOfSlice
    <3>3. Ends(c, d, m)
      BY <2>6, <3>1 DEF Alternative
    <3>4. Len(SubSeq(u, c, d)) = d - c + 1
      BY <2>5, <2>6, <3>3, SliceIsList
    <3>5. d - c + 1 <= m /\ d - c + 1 \in Int
      BY <2>1, <3>3 DEF Ends
    <3>6. Len(SubSeq(u, c, d)) < n
      BY <1>1, <2>1, <3>4, <3>5
    <3>7. QED
      BY <3>1, <3>2, <3>6 DEF Shorter, n
  <2> DEFINE w == Split(u)
             q == Len(w)
  <2>9. w \in Seq(Seq(X)) /\ q \in Nat /\ DOMAIN w = 1..q
    BY <2>7
  <2> HIDE DEF w, q
  <2>10. w \in [1..q -> Shorter(t, s)]
    <3>1. \A k \in 1..q : w[k] \in Shorter(t, s)
      BY <2>8, <2>9 DEF w
    <3>2. w = [k \in 1..q |-> w[k]]
      BY <2>9
    <3>3. QED
      BY <3>1, <3>2
  <2>11. w \in Seq(Shorter(t, s))
    BY <2>9, <2>10, FunctionIsList
  <2>12. QED
    BY <2>11 DEF w, u, a, b, Content, open, close
<1>7. QED
  BY <1>4, <1>5, <1>6

\* The two indices that a place of a product stands for.
LEMMA ProductPlaces ==
  ASSUME NEW a \in Nat, NEW b \in Nat, NEW n \in 1..(a * b)
  PROVE  ((n - 1) \div b) + 1 \in 1..a /\ ((n - 1) % b) + 1 \in 1..b
<1> DEFINE q == (n - 1) \div b
           r == (n - 1) % b
<1>1. b # 0 /\ n \in Nat /\ n >= 1 /\ n <= a * b /\ a * b \in Nat
  <2>1. a * b \in Nat
    OBVIOUS
  <2>2. b = 0 => a * b = 0
    OBVIOUS
  <2>3. QED
    BY <2>1, <2>2
<1>2. q \in Int /\ b * q <= n - 1 /\ n - 1 < b * q + b
  BY <1>1
<1>3. r \in 0..(b - 1)
  BY <1>1
<1> HIDE DEF q, r
<1>4. q >= 0
  <2>1. CASE q < 0
    <3>1. q + 1 <= 0
      BY <1>2, <2>1
    <3>2. b * (q + 1) <= 0
      BY <1>1, <1>2, <3>1
    <3>3. b * (q + 1) = b * q + b /\ b * q \in Int
      BY <1>2
    <3>4. QED
      BY <1>1, <1>2, <3>2, <3>3
  <2>2. QED
    BY <1>2, <2>1
<1>5. q < a
  <2>1. CASE q >= a
    <3>1. b * a <= b * q
      BY <1>1, <1>2, <2>1
    <3>2. b * a = a * b /\ b * q \in Int
      BY <1>2
    <3>3. QED
      BY <1>1, <1>2, <3>1, <3>2
  <2>2. QED
    BY <1>2, <2>1
<1>6. q + 1 \in 1..a /\ r + 1 \in 1..b
  BY <1>1, <1>2, <1>3, <1>4, <1>5
<1>7. QED
  BY <1>6 DEF q, r

\* Two literals make one.
LEMMA LiteralsJoin ==
  ASSUME NEW X, NEW s \in Literals(X), NEW u \in Literals(X)
  PROVE  s \o u \in Literals(X)
<1> DEFINE w == s \o u
           m == Len(s)
           n == Len(u)
<1>1. s \in Seq(X) /\ u \in Seq(X) /\ m \in Nat /\ n \in Nat
  BY DEF Literals
<1>2. (\A i \in 1..m : ~IsOpen(s, i)) /\ (\A i \in 1..n : ~IsOpen(u, i))
  BY <1>1, LiteralHasNone DEF Literals
<1>3. /\ w \in Seq(X) /\ DOMAIN w = 1..(m + n)
      /\ \A i \in 1..(m + n) : w[i] = IF i <= m THEN s[i] ELSE u[i - m]
  BY <1>1
<1> HIDE DEF w, m, n
<1>4. ASSUME NEW i \in 1..(m + n)
      PROVE  ~IsOpen(w, i)
  <2>1. CASE i <= m
    <3>1. i \in 1..m /\ w[i] = s[i]
      BY <1>1, <1>3, <2>1
    <3>2. QED
      BY <1>2, <3>1 DEF IsOpen
  <2>2. CASE ~(i <= m)
    <3>1. i - m \in 1..n /\ w[i] = u[i - m]
      BY <1>1, <1>3, <2>2
    <3>2. QED
      BY <1>2, <3>1 DEF IsOpen
  <2>3. QED
    BY <2>1, <2>2
<1>5. Literal(w)
  BY <1>3, <1>4, LiteralHasNone
<1>6. QED
  BY <1>3, <1>5 DEF Literals, w

LEMMA JoinedLiterals ==
  ASSUME NEW X, NEW p \in Seq(Literals(X)), NEW q \in Seq(Literals(X))
  PROVE  Joined(p, q) \in Seq(Literals(X))
<1> DEFINE Y == Literals(X)
           a == Len(p)
           b == Len(q)
           first(n) == ((n - 1) \div b) + 1
           second(n) == ((n - 1) % b) + 1
<1> HIDE DEF Y
<1>1. /\ p \in Seq(Y) /\ q \in Seq(Y) /\ a \in Nat /\ b \in Nat
      /\ (\A i \in 1..a : p[i] \in Y) /\ (\A i \in 1..b : q[i] \in Y)
  BY DEF Y
<1>2. Joined(p, q) = [n \in 1..(a * b) |-> p[first(n)] \o q[second(n)]]
  BY DEF Joined
<1> HIDE DEF a, b
<1>3. ASSUME NEW n \in 1..(a * b)
      PROVE  p[first(n)] \o q[second(n)] \in Y
  <2> DEFINE i == first(n)
             j == second(n)
  <2>1. i \in 1..a /\ j \in 1..b
    BY <1>1, ProductPlaces
  <2> HIDE DEF i, j
  <2>2. p[i] \in Y /\ q[j] \in Y
    BY <1>1, <2>1
  <2>3. p[i] \o q[j] \in Y
    BY <2>2, LiteralsJoin DEF Y
  <2>4. QED
    BY <2>3 DEF i, j
<1>4. Joined(p, q) \in [1..(a * b) -> Y]
  BY <1>2, <1>3
<1> DEFINE m == a * b
<1>5. m \in Nat
  BY <1>1
<1> HIDE DEF m
<1>6. Joined(p, q) \in Seq(Y)
  BY <1>4, <1>5, FunctionIsList DEF m
<1>7. QED
  BY <1>6 DEF Y

\* What a token expands to depends only on its shorter slices.
LEMMA ExpansionDepends ==
  ASSUME NEW X, NEW t \in Seq(X), NEW s \in Slices(t), NEW f, NEW g,
         \A u \in Shorter(t, s) : f[u] = g[u]
  PROVE  ExpandPieces(s, f) = ExpandPieces(s, g)
<1>1. CASE Literal(s)
  BY <1>1 DEF ExpandPieces
<1>2. CASE ~Literal(s)
  <2> DEFINE w == Split(Content(s))
  <2>1. Following(s) \in Shorter(t, s) /\ w \in Seq(Shorter(t, s))
    BY <1>2, GroupParts
  <2>2. f[Following(s)] = g[Following(s)] /\ \A n \in DOMAIN w : f[w[n]] = g[w[n]]
    BY <2>1
  <2>3. Alternatives(Content(s), f) = Alternatives(Content(s), g)
    <3>1. [n \in DOMAIN w |-> f[w[n]]] = [n \in DOMAIN w |-> g[w[n]]]
      BY <2>2
    <3>2. QED
      BY <3>1 DEF Alternatives
  <2>4. ExpandPieces(s, f) = Joined(<<Lead(s)>>, Joined(Alternatives(Content(s), f), f[Following(s)]))
    BY <1>2 DEF ExpandPieces, Lead, Content, Following
  <2>5. ExpandPieces(s, g) = Joined(<<Lead(s)>>, Joined(Alternatives(Content(s), g), g[Following(s)]))
    BY <1>2 DEF ExpandPieces, Lead, Content, Following
  <2>6. QED
    BY <2>2, <2>3, <2>4, <2>5
<1>3. QED
  BY <1>1, <1>2

\* It expands to literals if its shorter slices do.
LEMMA ExpansionIsLiteral ==
  ASSUME NEW X, NEW t \in Seq(X), NEW s \in Slices(t), NEW f,
         \A u \in Shorter(t, s) : f[u] \in Seq(Literals(X))
  PROVE  ExpandPieces(s, f) \in Seq(Literals(X))
<1> DEFINE Y == Literals(X)
<1>1. CASE Literal(s)
  <2>1. s \in Y
    BY <1>1, SliceIsToken DEF Literals
  <2> HIDE DEF Y
  <2>2. <<s>> \in Seq(Y)
    BY <2>1
  <2>3. QED
    BY <1>1, <2>2 DEF ExpandPieces, Y
<1>2. CASE ~Literal(s)
  <2> DEFINE w == Split(Content(s))
             c == [n \in DOMAIN w |-> f[w[n]]]
             z == Shorter(t, s)
  <2>1. Following(s) \in z /\ w \in Seq(z) /\ Lead(s) \in Y
    BY <1>2, GroupParts
  <2>2. f[Following(s)] \in Seq(Y) /\ \A u \in z : f[u] \in Seq(Y)
    BY <2>1
  <2> HIDE DEF Y, z, w
  <2>3. c \in Seq(Seq(Y))
    <3> DEFINE k == Len(w)
    <3>1. k \in Nat /\ DOMAIN w = 1..k /\ \A n \in 1..k : w[n] \in z
      BY <2>1
    <3> HIDE DEF k
    <3>2. c \in [1..k -> Seq(Y)]
      BY <2>2, <3>1
    <3>3. QED
      BY <3>1, <3>2, FunctionIsList
  <2>4. FlattenSeq(c) \in Seq(Y)
    BY <2>3, FlattenedElements
  <2>5. Alternatives(Content(s), f) = FlattenSeq(c)
    BY DEF Alternatives, w
  <2> DEFINE al == Alternatives(Content(s), f)
             re == f[Following(s)]
             jo == Joined(al, re)
  <2>6. al \in Seq(Y) /\ re \in Seq(Y)
    BY <2>2, <2>4, <2>5
  <2> HIDE DEF al, re
  <2>7. jo \in Seq(Y)
    BY <2>6, JoinedLiterals DEF Y
  <2>8. <<Lead(s)>> \in Seq(Y)
    BY <2>1
  <2> HIDE DEF jo
  <2>9. Joined(<<Lead(s)>>, jo) \in Seq(Y)
    BY <2>7, <2>8, JoinedLiterals DEF Y
  <2>10. ExpandPieces(s, f) = Joined(<<Lead(s)>>, jo)
    BY <1>2 DEF ExpandPieces, Lead, Content, Following, jo, al, re
  <2>11. QED
    BY <2>9, <2>10 DEF Y
<1>3. QED
  BY <1>1, <1>2

\* The slices of a token that are shorter than n, and the values of these.
Below(t, n) == {s \in Slices(t) : Len(s) < n}

Valued(t, n, f) == f = [s \in Below(t, n) |-> ExpandPieces(s, f)]

\* The recursion over the slices is well founded, whatever the token.
LEMMA ValuesExist ==
  ASSUME NEW X, NEW t \in Seq(X), NEW n \in Nat
  PROVE  \E f : Valued(t, n, f) /\ \A s \in Below(t, n) : f[s] \in Seq(Literals(X))
<1> DEFINE Typed(k, f) == \A s \in Below(t, k) : f[s] \in Seq(Literals(X))
           P == {k \in Nat : \E f : Valued(t, k, f) /\ Typed(k, f)}
<1>1. \A s \in Slices(t) : Len(s) \in Nat
  <2> SUFFICES ASSUME NEW s \in Slices(t)
               PROVE  Len(s) \in Nat
    OBVIOUS
  <2>1. s \in Seq(X)
    BY SliceIsToken
  <2>2. QED
    BY <2>1
<1>2. 0 \in P
  <2>1. Below(t, 0) = {}
    BY <1>1 DEF Below
  <2> DEFINE f == [s \in {} |-> 0]
  <2>2. Valued(t, 0, f)
    BY <2>1 DEF Valued
  <2>3. Typed(0, f)
    BY <2>1
  <2>4. QED
    BY <2>2, <2>3
<1>3. \A k \in Nat : k \in P => k + 1 \in P
  <2> SUFFICES ASSUME NEW k \in Nat, NEW f, Valued(t, k, f), Typed(k, f)
               PROVE  \E g : Valued(t, k + 1, g) /\ Typed(k + 1, g)
    OBVIOUS
  <2> DEFINE g == [s \in Below(t, k + 1) |-> ExpandPieces(s, f)]
  <2>1. ASSUME NEW s \in Below(t, k + 1)
        PROVE  s \in Slices(t) /\ Shorter(t, s) \subseteq Below(t, k) /\ Shorter(t, s) \subseteq Below(t, k + 1)
    BY <1>1 DEF Below, Shorter
  <2>2. ASSUME NEW u \in Below(t, k), u \in Below(t, k + 1)
        PROVE  g[u] = f[u]
    <3>1. f[u] = ExpandPieces(u, f)
      BY DEF Valued
    <3>2. QED
      BY <2>2, <3>1
  <2>3. ASSUME NEW s \in Below(t, k + 1)
        PROVE  ExpandPieces(s, f) = ExpandPieces(s, g) /\ ExpandPieces(s, f) \in Seq(Literals(X))
    <3>1. \A u \in Shorter(t, s) : f[u] = g[u]
      BY <2>1, <2>2
    <3>2. \A u \in Shorter(t, s) : f[u] \in Seq(Literals(X))
      BY <2>1
    <3> HIDE DEF g
    <3>3. s \in Slices(t)
      BY <2>1
    <3>4. ExpandPieces(s, f) = ExpandPieces(s, g)
      BY <3>1, <3>3, ExpansionDepends
    <3>5. ExpandPieces(s, f) \in Seq(Literals(X))
      BY <3>2, <3>3, ExpansionIsLiteral
    <3>6. QED
      BY <3>4, <3>5
  <2>4. Valued(t, k + 1, g)
    <3>1. g = [s \in Below(t, k + 1) |-> ExpandPieces(s, f)]
      OBVIOUS
    <3> HIDE DEF g
    <3>2. g = [s \in Below(t, k + 1) |-> ExpandPieces(s, g)]
      BY <2>3, <3>1
    <3>3. QED
      BY <3>2 DEF Valued
  <2>5. Typed(k + 1, g)
    BY <2>3
  <2>6. QED
    BY <2>4, <2>5
<1> HIDE DEF P
<1>4. n \in P
  BY <1>2, <1>3, Induction
<1>5. QED
  BY <1>4 DEF P

\* A token that parses expands to literals, and a literal to itself.
LEMMA ExpandsToLiterals ==
  ASSUME NEW X, NEW t \in Seq(X), Balanced(t)
  PROVE  Expand(t) \in Seq(Literals(X)) /\ (Literal(t) => Expand(t) = <<t>>)
<1> DEFINE m == Len(t)
           n == m + 1
<1>1. m \in Nat /\ n \in Nat
  OBVIOUS
<1>2. Below(t, n) = Slices(t)
  <2> SUFFICES ASSUME NEW s \in Slices(t)
               PROVE  Len(s) < n
    BY DEF Below
  <2>1. PICK c \in 1..(m + 1), d \in 0..m : s = SubSeq(t, c, d)
    BY DEF Slices
  <2>2. CASE c <= d + 1
    <3>1. Ends(c, d, m)
      BY <2>1, <2>2 DEF Ends
    <3>2. Len(s) = d - c + 1
      BY <2>1, <3>1, SliceIsList
    <3>3. QED
      BY <1>1, <3>2
  <2>3. CASE ~(c <= d + 1)
    <3>1. s = <<>>
      BY <1>1, <2>1, <2>3
    <3>2. QED
      BY <1>1, <3>1
  <2>4. QED
    BY <2>2, <2>3
<1>3. \E f : Valued(t, n, f) /\ \A s \in Below(t, n) : f[s] \in Seq(Literals(X))
  <2> HIDE DEF n
  <2>1. QED
    BY <1>1, ValuesExist
<1>4. PICK e : e = [s \in Slices(t) |-> ExpandPieces(s, e)]
  BY <1>2, <1>3 DEF Valued
<1> DEFINE values == CHOOSE v : v = [s \in Slices(t) |-> ExpandPieces(s, v)]
<1>5. values = [s \in Slices(t) |-> ExpandPieces(s, values)]
  BY <1>4
<1>6. Expand(t) = values[t]
  BY DEF Expand
<1> HIDE DEF values
<1>7. t \in Slices(t)
  BY TokenIsSlice
<1>8. \A s \in Slices(t) : values[s] = ExpandPieces(s, values)
  BY <1>5
<1> DEFINE Q == {k \in Nat : \A s \in Below(t, k) : values[s] \in Seq(Literals(X))}
<1>9. 0 \in Q
  <2> SUFFICES ASSUME NEW s \in Below(t, 0)
               PROVE  FALSE
    OBVIOUS
  <2>1. s \in Seq(X) /\ Len(s) < 0
    BY SliceIsToken DEF Below
  <2>2. QED
    BY <2>1
<1>10. \A k \in Nat : k \in Q => k + 1 \in Q
  <2> SUFFICES ASSUME NEW k \in Nat, k \in Q, NEW s \in Below(t, k + 1)
               PROVE  values[s] \in Seq(Literals(X))
    OBVIOUS
  <2>1. s \in Slices(t) /\ Len(s) < k + 1
    BY DEF Below
  <2>2. s \in Seq(X)
    BY <2>1, SliceIsToken
  <2>3. ASSUME NEW u \in Shorter(t, s)
        PROVE  values[u] \in Seq(Literals(X))
    <3>1. u \in Slices(t) /\ Len(u) < Len(s)
      BY DEF Shorter
    <3>2. u \in Seq(X)
      BY <3>1, SliceIsToken
    <3>3. Len(u) < k
      BY <2>1, <2>2, <3>1, <3>2
    <3>4. QED
      BY <3>1, <3>3 DEF Below
  <2>4. ExpandPieces(s, values) \in Seq(Literals(X))
    BY <2>1, <2>3, ExpansionIsLiteral
  <2>5. QED
    BY <1>8, <2>1, <2>4
<1> HIDE DEF Q
<1>11. n \in Q
  BY <1>1, <1>9, <1>10, Induction
<1>12. Expand(t) \in Seq(Literals(X))
  BY <1>2, <1>6, <1>7, <1>11 DEF Q
<1>13. Literal(t) => Expand(t) = <<t>>
  BY <1>6, <1>7, <1>8 DEF ExpandPieces
<1>14. QED
  BY <1>12, <1>13

\* With one field, a plan for each of its values.
LEMMA PlansOfOne ==
  ASSUME NEW X, NEW fs \in Seq(X)
  PROVE  /\ Len(Cartesian(<<fs>>)) = Len(fs) /\ DOMAIN Cartesian(<<fs>>) = DOMAIN fs
         /\ \A n \in DOMAIN fs : Cartesian(<<fs>>)[n][1] = fs[n]
<1> DEFINE b == Len(fs)
           F == <<fs>>
           singles == [m \in DOMAIN fs |-> <<fs[m]>>]
           Plan(g) == g = [n \in 0..Len(F) |->
                             IF n = 0 THEN <<<<>>>>
                             ELSE Joined(g[n - 1], [m \in DOMAIN F[n] |-> <<F[n][m]>>])]
           plans == CHOOSE g : Plan(g)
           all == Joined(<<<<>>>>, singles)
<1>1. b \in Nat /\ DOMAIN fs = 1..b
  OBVIOUS
<1>2. Len(F) = 1 /\ F[1] = fs /\ [m \in DOMAIN F[1] |-> <<F[1][m]>>] = singles
  OBVIOUS
<1>3. Cartesian(F) = plans[1]
  BY <1>2 DEF Cartesian
<1>4. \E g : Plan(g)
  <2> DEFINE g == [n \in 0..1 |-> IF n = 0 THEN <<<<>>>> ELSE all]
  <2>1. g[0] = <<<<>>>> /\ g[1] = all
    OBVIOUS
  <2>2. \A n \in 0..1 : g[n] = IF n = 0 THEN <<<<>>>>
                               ELSE Joined(g[n - 1], [m \in DOMAIN F[n] |-> <<F[n][m]>>])
    <3> HIDE DEF F, singles
    <3> SUFFICES ASSUME NEW n \in 0..1
                 PROVE  g[n] = IF n = 0 THEN <<<<>>>>
                               ELSE Joined(g[n - 1], [m \in DOMAIN F[n] |-> <<F[n][m]>>])
      OBVIOUS
    <3>1. CASE n = 0
      BY <2>1, <3>1
    <3>2. CASE n = 1
      BY <1>2, <2>1, <3>2
    <3>3. QED
      BY <3>1, <3>2
  <2>3. Plan(g)
    BY <1>2, <2>2
  <2>4. QED
    BY <2>3
<1>5. Plan(plans)
  BY <1>4
<1>6. plans[1] = all
  <2> HIDE DEF F, plans, singles
  <2>1. plans[0] = <<<<>>>>
    BY <1>2, <1>5
  <2>2. plans[1] = Joined(plans[1 - 1], [m \in DOMAIN F[1] |-> <<F[1][m]>>])
    BY <1>2, <1>5
  <2>3. 1 - 1 = 0
    OBVIOUS
  <2>4. plans[1] = Joined(plans[0], [m \in DOMAIN F[1] |-> <<F[1][m]>>])
    BY <2>2, <2>3
  <2>5. plans[1] = Joined(plans[0], singles)
    BY <1>2, <2>4
  <2>6. QED
    BY <2>1, <2>5
<1> HIDE DEF plans
<1>7. Len(singles) = b
  BY <1>1
<1>8. all = [n \in 1..b |-> <<fs[n]>>]
  <2>1. all = [n \in 1..(1 * Len(singles)) |->
                 <<<<>>>>[((n - 1) \div Len(singles)) + 1] \o singles[((n - 1) % Len(singles)) + 1]]
    BY DEF Joined
  <2> DEFINE l == Len(singles)
  <2>2. 1 * l = b
    <3>1. l = b
      BY <1>7
    <3> HIDE DEF l, b
    <3>2. QED
      BY <1>1, <3>1
  <2>3. ASSUME NEW n \in 1..b
        PROVE  <<<<>>>>[((n - 1) \div Len(singles)) + 1] \o singles[((n - 1) % Len(singles)) + 1] = <<fs[n]>>
    <3>1. ((n - 1) \div b) + 1 = 1 /\ ((n - 1) % b) + 1 = n
      BY <1>1
    <3>2. singles[n] = <<fs[n]>>
      BY <1>1
    <3>3. <<<<>>>>[1] \o <<fs[n]>> = <<fs[n]>>
      OBVIOUS
    <3> HIDE DEF singles
    <3>4. QED
      BY <1>7, <3>1, <3>2, <3>3
  <2> DEFINE Value(n) == <<<<>>>>[((n - 1) \div l) + 1] \o singles[((n - 1) % l) + 1]
  <2>4. all = [n \in 1..(1 * l) |-> Value(n)]
    BY <2>1
  <2>5. \A n \in 1..b : Value(n) = <<fs[n]>>
    BY <2>3
  <2> HIDE DEF Value, all, l, b
  <2>6. QED
    BY <2>2, <2>4, <2>5
<1> HIDE DEF all, b
<1>9. DOMAIN all = 1..b /\ Len(all) = b /\ \A n \in 1..b : all[n][1] = fs[n]
  <2>1. all \in [1..b -> {<<fs[n]>> : n \in 1..b}]
    BY <1>8
  <2>2. DOMAIN all = 1..b /\ Len(all) = b
    BY <1>1, <2>1, FunctionIsList
  <2>3. QED
    BY <1>8, <2>2
<1>10. QED
  BY <1>1, <1>3, <1>6, <1>9 DEF b

-----------------------------------------------------------------------------
(* The program and its children *)

\* What one argument expands to: itself, or literals.
LEMMA PlansOfArgument ==
  ASSUME program.argument \in Seq(STRING)
  PROVE  /\ Literal(program.argument) => ~Expands
         /\ Expands => \A n \in DOMAIN Plans : Plans[n][1] \in Literals(STRING)
<1> DEFINE t == program.argument
           fs == ExpandOrLiteral(t)
<1>1. CASE Balanced(t)
  <2>1. fs \in Seq(Literals(STRING)) /\ (Literal(t) => fs = <<t>>)
    <3>1. fs = Expand(t)
      BY <1>1 DEF ExpandOrLiteral
    <3> HIDE DEF fs, t
    <3>2. t \in Seq(STRING)
      BY DEF t
    <3>3. QED
      BY <1>1, <3>1, <3>2, ExpandsToLiterals
  <2> DEFINE Y == Literals(STRING)
  <2> HIDE DEF Y, fs
  <2>2. /\ Len(Cartesian(<<fs>>)) = Len(fs) /\ DOMAIN Cartesian(<<fs>>) = DOMAIN fs
        /\ \A n \in DOMAIN fs : Cartesian(<<fs>>)[n][1] = fs[n]
    BY <2>1, PlansOfOne DEF Y
  <2>3. \A n \in DOMAIN fs : fs[n] \in Y
    BY <2>1 DEF Y
  <2>4. Literal(t) => Len(fs) = 1
    BY <2>1
  <2>5. Plans = Cartesian(<<fs>>)
    BY DEF Plans, fs
  <2> DEFINE l == Len(Plans)
  <2>6. Literal(t) => l = 1
    BY <2>2, <2>4, <2>5
  <2> HIDE DEF l
  <2>7. Literal(t) => ~(l > 1)
    BY <2>6
  <2>8. QED
    BY <2>2, <2>3, <2>5, <2>7 DEF Expands, Y, l
<1>2. CASE ~Balanced(t)
  <2>1. fs = <<t>>
    BY <1>2 DEF ExpandOrLiteral
  <2>2. fs \in Seq(Seq(STRING)) /\ Len(fs) = 1
    <3> HIDE DEF t, fs
    <3>1. t \in Seq(STRING)
      BY DEF t
    <3>2. QED
      BY <2>1, <3>1
  <2> DEFINE l == Len(Cartesian(<<fs>>))
  <2> HIDE DEF fs
  <2>3. l = 1
    BY <2>2, PlansOfOne
  <2> HIDE DEF l
  <2>4. ~(l > 1)
    BY <2>3
  <2>5. ~Expands
    BY <2>4 DEF Expands, Plans, fs, l
  <2>6. QED
    BY <2>5
<1>3. QED
  BY <1>1, <1>2

\* The arguments are sequences of characters, and a child has one without a group.
ArgumentInv ==
  /\ DOMAIN program = DOMAIN Started(Plain)
  /\ program.argument \in Seq(STRING)
  /\ program.depth \in 0..1
  /\ program.depth = 1 => Literal(program.argument)

\* Whatever the argument: a program that was run again does not run itself again.
THEOREM RunsOnce == Spec => []RunsAgainOnce
<1>1. Init => ArgumentInv
  <2> SUFFICES ASSUME Init
               PROVE  ArgumentInv
    OBVIOUS
  <2>1. PICK argument \in Arguments \cup {Plain} : program = Started(argument)
    BY DEF Init
  <2>2. program.argument \in Seq(STRING) /\ program.depth = 0 /\ DOMAIN program = DOMAIN Started(Plain)
    BY <2>1, LaunchAssumption DEF Started
  <2>3. QED
    BY <2>2 DEF ArgumentInv
<1>2. ArgumentInv /\ [Next]_vars => ArgumentInv'
  <2> SUFFICES ASSUME ArgumentInv, [Next]_vars
               PROVE  ArgumentInv'
    OBVIOUS
  <2>1. CASE UNCHANGED program
    BY <2>1 DEF ArgumentInv
  <2>2. CASE RunAgain
    <3>1. PICK n \in DOMAIN Plans :
            program' = [program EXCEPT !.argument = Plans[n][1], !.depth = @ + 1]
      BY <2>2, Zenon DEF RunAgain
    <3>2. Expands
      BY <2>2 DEF RunAgain
    <3>3. program.depth = 0 /\ Plans[n][1] \in Literals(STRING)
      <4>1. program.argument \in Seq(STRING)
        BY DEF ArgumentInv
      <4>2. ~Literal(program.argument) /\ Plans[n][1] \in Literals(STRING)
        BY <3>2, <4>1, PlansOfArgument
      <4>3. QED
        BY <4>2 DEF ArgumentInv
    <3>4. /\ program'.argument = Plans[n][1] /\ program'.depth = 1
          /\ DOMAIN program' = DOMAIN program
      BY <3>1, <3>3 DEF ArgumentInv, Started
    <3>5. QED
      BY <3>3, <3>4 DEF ArgumentInv, Literals
  <2>3. CASE LoadConfig
    <3>1. /\ program'.argument = program.argument /\ program'.depth = program.depth
          /\ DOMAIN program' = DOMAIN program
      BY <2>3 DEF LoadConfig, ArgumentInv, Started
    <3>2. QED
      BY <3>1 DEF ArgumentInv
  <2>4. QED
    BY <2>1, <2>2, <2>3 DEF Next, vars
<1>3. ArgumentInv => RunsAgainOnce
  <2>1. ArgumentInv => program.depth <= 1
    BY DEF ArgumentInv
  <2>2. ArgumentInv /\ program.depth = 1 => ~Expands
    BY PlansOfArgument DEF ArgumentInv
  <2>3. QED
    BY <2>1, <2>2 DEF RunsAgainOnce
<1>4. QED
  BY <1>1, <1>2, <1>3, PTL DEF Spec
=============================================================================
