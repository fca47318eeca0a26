----------------------------- MODULE Validation -----------------------------
(***************************************************************************)
(* What configurations validate: src/src/config/validation.rs with         *)
(* parse_duration and the defaults of src/src/config.rs.  A duration is an *)
(* amount and a unit; fractions are percentages; texts are classified by   *)
(* what their checks tell apart.                                           *)
(***************************************************************************)
EXTENDS Integers

CONSTANT MaxSeconds   \* bound: stands for u64::MAX

Hour == 3600
Day == 24 * Hour
UnitSeconds == [s |-> 1, m |-> 60, h |-> Hour, d |-> Day]

\* parse_duration succeeds: positive, a known unit, and seconds that fit.
Parses(duration) ==
  /\ duration.amount > 0
  /\ duration.unit \in DOMAIN UnitSeconds
  /\ duration.amount <= MaxSeconds \div UnitSeconds[duration.unit]

Seconds(duration) == duration.amount * UnitSeconds[duration.unit]

For(amount, unit) == [amount |-> amount, unit |-> unit]

Gauge(min, max, redline) == [min |-> min, max |-> max, redline |-> redline, mode |-> "fixed"]

Duration == [amount : Nat, unit : STRING]
Dial == [min : Int, max : Int, redline : Int, mode : STRING]

DefaultSettings ==
  [schema |-> 1, poll |-> For(60, "s"), retention |-> For(30, "d"), connect |-> For(3, "s"),
   request |-> For(10, "s"), window |-> For(24, "h"),
   responseBytes |-> 1048576, records |-> 10000, attempts |-> 3,
   admission |-> TRUE, concurrent |-> 4, delay |-> 1000,
   samples |-> 5, moderate |-> 70, constrained |-> 30, critical |-> 10,
   cycle |-> 4, sample |-> 15, networkMs |-> 250, bytesPerToken |-> 4,
   rpm |-> Gauge(0, 10000, 8500), tpm |-> Gauge(0, 100000, 85000),
   rpdLimit |-> 100000, rpdWarning |-> 75, rpdCritical |-> 90, targets |-> {}]

\* A target: its id, the scheme and host of its endpoint, its variable, source and path.
Target == [enabled : BOOLEAN, id : {"good", "bad"}, scheme : {"http", "https", "ftp"},
           host : {"127.0.0.1", "localhost", "[::1]", "remote"},
           variable : {"good", "bad", "none"}, source : BOOLEAN, path : {"good", "bad"}]

\* Settings as they are read, before any check.
SettingsRead(c) ==
  /\ {c.poll, c.retention, c.connect, c.request, c.window} \subseteq Duration
  /\ {c.schema, c.responseBytes, c.records, c.attempts, c.concurrent, c.delay, c.samples, c.cycle,
      c.sample, c.networkMs} \subseteq Nat
  /\ {c.moderate, c.constrained, c.critical, c.bytesPerToken, c.rpdLimit, c.rpdWarning,
      c.rpdCritical} \subseteq Int
  /\ c.admission \in BOOLEAN
  /\ {c.rpm, c.tpm} \subseteq Dial
  /\ c.targets \subseteq Target

ValidDurations(c) ==
  /\ Parses(c.poll) /\ Seconds(c.poll) \in 1..Day
  /\ Parses(c.retention) /\ Parses(c.connect) /\ Parses(c.request) /\ Parses(c.window)

MaxResponseBytes == 64 * 1024 * 1024
MaxRecords == 1000 * 1000

ValidBounds(c) ==
  c.responseBytes \in 1..MaxResponseBytes /\ c.records \in 1..MaxRecords /\ c.attempts \in 1..10

ValidAdmission(c) == c.admission => c.concurrent # 0 /\ c.delay # 0

ValidForecast(c) ==
  /\ c.samples >= 2
  /\ 0 < c.critical /\ c.critical < c.constrained /\ c.constrained < c.moderate /\ c.moderate < 100

ValidGauge(gauge) ==
  /\ gauge.min >= 0 /\ gauge.max > gauge.min
  /\ gauge.redline \in gauge.min..gauge.max
  /\ gauge.mode \in {"fixed", "adaptive", "historical", "provider-specific"}

\* Only rpd.warning < 1 and warning <= critical < 1, whatever the message says.
ValidInstruments(c) ==
  /\ c.cycle \in 1..60 /\ c.sample \in 2..300
  /\ c.networkMs \in 100..5000 /\ c.bytesPerToken \in 1..32
  /\ ValidGauge(c.rpm) /\ ValidGauge(c.tpm)
  /\ c.rpdLimit > 0 /\ c.rpdWarning \in 0..99 /\ c.rpdCritical \in c.rpdWarning..99

\* Url::host_str writes the IPv6 loopback in brackets, which is not among the three names.
ValidTarget(target) ==
  target.enabled =>
    /\ target.id = "good"
    /\ \/ target.scheme = "https"
       \/ target.scheme = "http" /\ target.host \in {"127.0.0.1", "localhost", "::1"}
    /\ target.variable # "bad"
    /\ target.source => target.variable # "none"
    /\ target.path = "good"

Validates(c) ==
  /\ c.schema = 1
  /\ ValidDurations(c) /\ ValidBounds(c) /\ ValidAdmission(c) /\ ValidForecast(c)
  /\ ValidInstruments(c)
  /\ \A target \in c.targets : ValidTarget(target)
=============================================================================
