------------------------------- MODULE Cockpit -------------------------------
(***************************************************************************)
(* The live dashboard, live_dashboard in src/src/main.rs, with the network *)
(* monitor that feeds it.  One task replaces `latest` by a fresh status,   *)
(* another replaces `activity`, and the render loop reads the one, then    *)
(* the other, and draws the provider whose turn it is.                     *)
(*                                                                         *)
(* A frame is drawn with its needles at rest; how they get there is in     *)
(* Needles.  A provider has one snapshot at most.                          *)
(***************************************************************************)
EXTENDS NetworkMonitor, Instruments

CONSTANTS
  Configured,       \* the enabled providers of the configuration
  Statuses,         \* what status(true) may return
  Round             \* a common multiple of the numbers of providers: turns count modulo it

NoSnapshot == [freshness |-> "none", rpm |-> -1, tpm |-> -1, rpd |-> 0]

\* A rate is -1 where the telemetry has none.
Snapshot == [freshness : {"live", "stale"}, rpm : Nat \cup {-1}, tpm : Nat \cup {-1}, rpd : Nat]
            \cup {NoSnapshot}

ASSUME CockpitAssumption ==
  /\ 0 \notin Provider /\ Configured \subseteq Provider
  /\ \A status \in Statuses : status.fault \in BOOLEAN /\ status.of \in [Provider -> Snapshot]
  /\ Round \in Nat \ {0}
  /\ \A n \in 1..Cardinality(Provider) : Round % n = 0

VARIABLES
  latest,  \* the status that the sampler stored last
  held,    \* the clone of it that the render loop works on
  pc,      \* the render loop: "read", "draw", "sleep", or "left"
  turn,    \* seconds since the start / cycle_seconds, modulo Round
  frame    \* what is on the screen

vars == <<netVars, latest, held, pc, turn, frame>>

-----------------------------------------------------------------------------
\* Mutant: an estimate replaces what the provider reports.
AlwaysLacks(rate) == TRUE

\* A rate that is missing or not positive gives way to an estimate.
Lacks(rate) == rate <= 0

\* apply_network_activity for one provider: an estimate fills in for the rates its snapshot
\* lacks, and a provider with traffic but no snapshot gets one.
WithNetwork(snapshot, reading) ==
  LET traffic == reading.connections > 0 \/ reading.detected > 0 \/ reading.bytes > 0
      fills   == IF snapshot = NoSnapshot THEN traffic ELSE reading # NoActivity
      gap(rate) == fills /\ Lacks(rate)
  IN [freshness |-> IF fills /\ snapshot = NoSnapshot THEN "live" ELSE snapshot.freshness,
      rpm |-> IF gap(snapshot.rpm) THEN reading.rpm ELSE snapshot.rpm,
      tpm |-> IF gap(snapshot.tpm) THEN reading.bytes ELSE snapshot.tpm,
      rpd |-> snapshot.rpd,
      estimated |-> gap(snapshot.rpm) \/ gap(snapshot.tpm)]

\* Mutant: a configured provider without a snapshot is left out.
SnapshotNames(dials) == {p \in Provider : dials[p].freshness # "none"}

\* provider_names: the providers with a snapshot, and those of the configuration.
Names(dials) == Configured \cup {p \in Provider : dials[p].freshness # "none"}

\* provider_frame: the names in their order, the position modulo their number; 0 for none.
AtTurn(names, t) ==
  IF names = {} THEN 0
  ELSE CHOOSE p \in names : Cardinality({q \in names : q < p}) = t % Cardinality(names)

\* render_sports_car draws a provider without a snapshot, and no provider, as offline.
Visible(dial) ==
  IF dial.freshness = "none" THEN [dial EXCEPT !.freshness = "offline", !.rpm = 0, !.tpm = 0] ELSE dial

\* DashboardAnimator::advance with the needles at rest: the values as the dials show them.
OnDials(dial) ==
  [dial EXCEPT !.rpm = Clamp(@, 0, RpmMax), !.tpm = Clamp(@, 0, TpmMax), !.rpd = Clamp(@, 0, RpdLimit)]

Frame(status, readings, t) ==
  LET dials == [p \in Provider |-> WithNetwork(status.of[p], readings[p])]
      p     == AtTurn(Names(dials), t)
      dial  == OnDials(Visible(IF p = 0 THEN WithNetwork(NoSnapshot, NoActivity) ELSE dials[p]))
  IN [provider |-> p, turn |-> t, dial |-> dial, fault |-> status.fault,
      engine |-> EngineState(dial.freshness, dial.rpm, dial.tpm, dial.rpd,
                             RpmMax, TpmMax, (RpdLimit * 3) \div 4)]

-----------------------------------------------------------------------------
\* Nothing is on the screen yet: the frame that the initial status gives stands for it.
Init ==
  /\ NetInit
  /\ latest \in Statuses
  /\ held = latest
  /\ pc = "read"
  /\ turn = 0
  /\ frame = Frame(latest, activity, 0)

\* The sampler's ticker fires, and status(true) answers.  A failed probe answers too.
NewStatus(status) ==
  /\ pc # "left"
  /\ latest' = status
  /\ UNCHANGED <<netVars, held, pc, turn, frame>>

Monitor ==
  /\ pc # "left"
  /\ NetStep
  /\ UNCHANGED <<latest, held, pc, turn, frame>>

Read ==
  /\ pc = "read"
  /\ held' = latest
  /\ pc' = "draw"
  /\ UNCHANGED <<netVars, latest, turn, frame>>

Draw ==
  /\ pc = "draw"
  /\ frame' = Frame(held, activity, turn)
  /\ pc' = "sleep"
  /\ UNCHANGED <<netVars, latest, held, turn>>

Wake ==
  /\ pc = "sleep"
  /\ pc' = "read"
  /\ UNCHANGED <<netVars, latest, held, turn, frame>>

\* Ctrl-C, listened for during the sleep: the loop returns, and both tasks are aborted.
Interrupt ==
  /\ pc = "sleep"
  /\ pc' = "left"
  /\ UNCHANGED <<netVars, latest, held, turn, frame>>

\* A turn is a second or longer: at least one frame is drawn in it.
NextTurn ==
  /\ pc # "left" /\ frame.turn = turn
  /\ turn' = (turn + 1) % Round
  /\ UNCHANGED <<netVars, latest, held, pc, frame>>

Next ==
  \/ \E status \in Statuses : NewStatus(status)
  \/ Monitor
  \/ Read \/ Draw \/ Wake \/ Interrupt \/ NextTurn

Spec == Init /\ [][Next]_vars

\* Time passes, ss answers again and again (the interval timer of the network sampler), the
\* render loop goes on.  Nothing obliges a probe to answer.
Fairness ==
  /\ WF_vars(pc # "left" /\ Tick /\ UNCHANGED <<latest, held, pc, turn, frame>>)
  /\ WF_vars(pc # "left" /\ Sample(Open) /\ UNCHANGED <<latest, held, pc, turn, frame>>)
  /\ WF_vars(Read) /\ WF_vars(Draw) /\ WF_vars(Wake) /\ WF_vars(NextTurn)

FairSpec == Spec /\ Fairness

-----------------------------------------------------------------------------
Reported(p) == IF p = 0 THEN NoSnapshot ELSE held.of[p]

\* "network readings are explicitly labelled NET EST and never replace a positive
\* authoritative provider rate": whatever the monitor saw between the two reads of a frame,
\* a rate on the dials is the provider's own, or the dials carry the label.
HonestRates ==
  pc = "sleep" =>
    LET dial == frame.dial
        own  == Reported(frame.provider)
    IN /\ own.rpm > 0 => dial.rpm = Clamp(own.rpm, 0, RpmMax)
       /\ own.tpm > 0 => dial.tpm = Clamp(own.tpm, 0, TpmMax)
       /\ (dial.rpm > 0 /\ own.rpm <= 0) \/ (dial.tpm > 0 /\ own.tpm <= 0) => dial.estimated

\* Once the connections carry nothing more, the estimates leave the dials: what they show
\* in the end is what the provider reports.
EstimateDecays ==
  <>[][UNCHANGED conn]_vars =>
    <>[](pc = "sleep" => /\ frame.dial.rpm > 0 => Reported(frame.provider).rpm > 0
                         /\ frame.dial.tpm > 0 => Reported(frame.provider).tpm > 0)

\* "provider dial sets rotate": each configured provider has its turn again and again,
\* whatever providers the statuses and the traffic add, as long as they stop changing.
EveryProviderTurns ==
  <>[][UNCHANGED <<latest, conn>>]_vars =>
    \A p \in Configured : []<>(frame.provider = p \/ pc = "left")
=============================================================================
