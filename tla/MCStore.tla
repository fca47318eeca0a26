------------------------------ MODULE MCStore ------------------------------
(* A small instance of Store for TLC. *)
EXTENDS Store

Record(provider, values) == [provider |-> provider, model |-> NoModel, values |-> values]

\* Instants whose texts have no fraction or one, two or three groups of digits.
MCClock == {<<1, 0, 0, 0>>, <<1, 0, 0, 1>>, <<1, 1, 0, 0>>, <<2, 0, 1, 0>>}

\* A counter that runs on and starts again, with and without what else a bridge reports: a
\* limit, a reset, requests, a second provider with a rate; and an answer to reject.  None
\* reports more than it needs, so that three of them, or two quotas, fit into the table.
MCAnswers ==
  {<<Record(1, "Tokens" :> 9 @@ "TokenLimit" :> 10)>>,
   <<Record(1, "Tokens" :> 5)>>,
   <<Record(1, "Tokens" :> 3 @@ "ResetAt" :> <<4, 1, 0, 0>>)>>,
   <<Record(2, "RemainingTokens" :> 1 @@ "TokensPerMinute" :> 60 @@ "ResetAt" :> <<4, 0, 0, 0>>)>>,
   <<Record(1, "Requests" :> 3 @@ "RequestLimit" :> 4 @@ "RemainingRequests" :> 1)>>,
   <<Record(1, "Tokens" :> 1), Record(BadName, "Tokens" :> 1)>>}

\* Tokens used up, and requests of which only the limit is known.
MCHeaders ==
  {[tokenLimit |-> 4, tokenRemaining |-> 0, requestLimit |-> 9, requestRemaining |-> None]}
=============================================================================
