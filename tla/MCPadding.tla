----------------------------- MODULE MCPadding -----------------------------
(* An instance of Serving for TLC: a model that selects the padding token. *)
EXTENDS Serving

MCTokens == 0 .. 3
MCStops == {3}

\* A model that selects padding between two other tokens.
PadSelect(s) == <<0, 2, 1>>[1 + (Len(s) % 3)]
PadKinds ==
  {[prompt |-> <<1, 2>>, maximum |-> 3, context |-> 5, chunk |-> 2, cache |-> 5, policy |-> "text", ignoreEos |-> FALSE]}
PadSettings ==
  {[maximumActive |-> 1, maximumRequests |-> 3, budget |-> 5, chunk |-> 2, compact |-> FALSE, deferred |-> FALSE,
    ahead |-> 1]}
=============================================================================
