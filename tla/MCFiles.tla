------------------------------ MODULE MCFiles ------------------------------
(* A small instance of Launch for TLC. *)
EXTENDS Launch, TLC

CONSTANTS p1, p2

Said(provider, source, variable) == [provider |-> provider, source |-> source, variable |-> variable]

\* Two providers with keys of their own, one that takes its key from elsewhere, and a
\* variable that the configuration refuses.
MCAnswers ==
  {Said("groq", "manual", "K1"), Said("other", "manual", "K2"), Said("other", "bashrc", "K1"),
   Said("groq", "manual", "bad")}

\* The defaults with one field, or one pair of fields, at and beyond the ends of its range.
With(field, values) == {[DefaultSettings EXCEPT ![field] = v] : v \in values}
Durations == {For(a, u) : a \in {0, 1, 2, 25, 86400, 86401}, u \in {"s", "h", "d", "x"}}
Gauges == {Gauge(min, max, redline) : min \in {-1, 0, 4}, max \in {0, 4, 8}, redline \in {-1, 0, 4, 8, 9}}
Targets == [enabled : BOOLEAN, id : {"good"}, scheme : {"http", "https", "ftp"},
            host : {"localhost", "[::1]", "remote"}, variable : {"good", "bad", "none"},
            source : BOOLEAN, path : {"good"}]
MCSettings ==
  UNION {With("schema", {0, 2}), With("poll", Durations), With("retention", Durations),
         With("connect", Durations), With("request", Durations), With("window", Durations),
         With("responseBytes", {0, 1, 67108864, 67108865}), With("records", {0, 1, 1000001}),
         With("attempts", {0, 1, 10, 11}), With("concurrent", {0, 1}), With("delay", {0, 1}),
         {[DefaultSettings EXCEPT !.admission = FALSE, !.concurrent = 0]},
         With("samples", {0, 1, 2}), With("critical", {0, 29, 30}), With("constrained", {10, 70}),
         With("moderate", {99, 100}), With("cycle", {0, 1, 60, 61}), With("sample", {1, 2, 300, 301}),
         With("networkMs", {0, 99, 100, 5000, 5001}), With("bytesPerToken", {0, 1, 32, 33}),
         With("rpm", Gauges), With("tpm", Gauges), With("rpdLimit", {0, 1}),
         With("rpdWarning", {-1, 0, 90, 91}), With("rpdCritical", {74, 75, 99, 100}),
         With("targets", {{t} : t \in Targets})}
AllSettings == MCSettings \cup {DefaultSettings}
MCAcceptable == {c \in AllSettings : Validates(c)}

\* All tokens of up to six characters, of one letter, that are balanced or nearly so.
Letters == {"{", "}", ",", "a"}
MCArguments == {t \in [1..6 -> Letters] : Depth(t, 6) \in 0..1 /\ t[1] \in {"{", "a"}}
MCPlain == <<"a", "a", "a", "a", "a", "a">>

Symmetry == Permutations(Setup)
=============================================================================
