----------------------------- MODULE CurlyExpand -----------------------------
(***************************************************************************)
(* Brace expansion of an argument, src/src/curly_expand.rs: a token is a   *)
(* sequence of characters, of which "{", "," and "}" matter.  The code     *)
(* collects pieces from left to right; here the first group is expanded    *)
(* and then what follows it, which gives the same values in the same       *)
(* order.                                                                  *)
(***************************************************************************)
EXTENDS Lists, SequencesExt

\* The depth behind the first i characters.
Depth(token, i) ==
  Cardinality({j \in 1..i : token[j] = "{"}) - Cardinality({j \in 1..i : token[j] = "}"})

\* parse_pieces is an error for any other token; what is inside the braces of a token that
\* is balanced is balanced, so that neither it nor split_top_level fails further down.
Balanced(token) ==
  /\ \A i \in DOMAIN token : Depth(token, i) >= 0
  /\ Depth(token, Len(token)) = 0

Least(S) == CHOOSE i \in S : \A j \in S : i <= j

\* The first group of a token: where it opens and where it closes.
GroupOpen(token)  == Least({i \in DOMAIN token : token[i] = "{"})
GroupClose(token) == Least({i \in DOMAIN token : token[i] = "}" /\ Depth(token, i) = 0})

\* split_top_level at commas.
Split(content) ==
  LET cuts == {0, Len(content) + 1} \cup
              {i \in DOMAIN content : content[i] = "," /\ Depth(content, i) = 0}
      cut  == Sorted(cuts, Forward(cuts))
  IN [n \in 1..(Cardinality(cuts) - 1) |-> SubSeq(content, cut[n] + 1, cut[n + 1] - 1)]

\* Each of one sequence followed by each of another, the first choice going slowest.
Joined(heads, tails) ==
  [n \in 1..(Len(heads) * Len(tails)) |->
     heads[((n - 1) \div Len(tails)) + 1] \o tails[((n - 1) % Len(tails)) + 1]]

\* Mutant: what is inside an alternative stays as it is.
FlatAlternatives(content, values) == Split(content)

\* The values that the alternatives of a group stand for.
Alternatives(content, values) == FlattenSeq([n \in DOMAIN Split(content) |-> values[Split(content)[n]]])

\* A token without a group.
Literal(token) == \A i \in DOMAIN token : token[i] # "{"

\* expand_pieces of a token, from the values of its slices.
ExpandPieces(token, values) ==
  IF Literal(token) THEN <<token>>
  ELSE LET open  == GroupOpen(token)
           close == GroupClose(token)
           group == Alternatives(SubSeq(token, open + 1, close - 1), values)
           rest  == values[SubSeq(token, close + 1, Len(token))]
       IN Joined(<<SubSeq(token, 1, open - 1)>>, Joined(group, rest))

\* The slices of a token that parse.
Slices(token) ==
  {s \in {SubSeq(token, from, to) : from \in 1..(Len(token) + 1), to \in 0..Len(token)} : Balanced(s)}

Expand(token) ==
  LET values[slice \in Slices(token)] == ExpandPieces(slice, values) IN values[token]

\* A token that does not parse stands for itself.
ExpandOrLiteral(token) == IF Balanced(token) THEN Expand(token) ELSE <<token>>

\* The plans of several fields, the last one going fastest.
Cartesian(fields) ==
  LET plans[n \in 0..Len(fields)] ==
        IF n = 0 THEN <<<<>>>>
        ELSE Joined(plans[n - 1], [m \in DOMAIN fields[n] |-> <<fields[n][m]>>])
  IN plans[Len(fields)]
=============================================================================
