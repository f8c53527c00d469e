----------------------------- MODULE MCServing -----------------------------
(***************************************************************************)
(* Instances of Serving and GraphSession for TLC.  A behaviour is one of   *)
(* the queue or one of a context's replay cache, and the variables of the  *)
(* other stay.                                                             *)
(***************************************************************************)
EXTENDS Serving, GraphSession

VARIABLE part  \* "queue" or "steps"

\* A small deterministic "model": the selected token depends on every token
\* of the KV contents and on their positions.  It selects 0 (padding) never
\* and 3 (the stop token) sometimes.
RECURSIVE Mix(_)
Mix(s) == IF s = <<>> THEN 1 ELSE (3 * Mix(Tail(s)) + Head(s) + Len(s)) % 7
MCSelect(s) == 1 + (Mix(s) % 3)

MCTokens == 0 .. 3
MCStops == {3}

Kind(prompt, maximum, context, cache) ==
  [prompt |-> prompt, maximum |-> maximum, context |-> context, chunk |-> 2,
   cache |-> cache, policy |-> "text", ignoreEos |-> FALSE]

Setting(active, budget, deferred, ahead) ==
  [maximumActive |-> active, maximumRequests |-> 3, budget |-> budget,
   chunk |-> 2, compact |-> FALSE, deferred |-> deferred, ahead |-> ahead]

\* The abstract promise, with the caller's view of the queue.
Promise == INSTANCE Answers WITH
  asked <- task, withdrawn <- cancelled, answered <- answers, broken <- failed

\* Serving gives every caller what Answers promises.
AnswersAreGreedy == Promise!Spec

\* A request that runs to its limit, one that shares its first token only, so
\* that a retained prefix is reused in part, and one that stops early.
CallKinds ==
  {[Kind(<<1, 2, 1>>, 3, 6, 6) EXCEPT !.ignoreEos = TRUE], Kind(<<1, 1, 2>>, 3, 6, 6), Kind(<<2>>, 4, 5, 0)}
\* The browser's serving with deferred tokens and compact reservations; CUDA's,
\* one request decoded ahead of the host; and a batch of two.
CallSettings ==
  {[Setting(2, 12, TRUE, 1) EXCEPT !.compact = TRUE], Setting(1, 8, FALSE, 3), Setting(2, 12, FALSE, 1)}

-----------------------------------------------------------------------------
(* Steps of one to four operators. *)
Weight == 201
In(i, off, len) == [k |-> "in", i |-> i, off |-> off, len |-> len]
Made(i, off, len) == [k |-> "node", i |-> i, off |-> off, len |-> len]
Fixed(p) == [k |-> "param", i |-> p, off |-> 0, len |-> 2]
Temporary == [k |-> "temp", i |-> 0, off |-> 0, len |-> 2]
Op(op, args, len) == [op |-> op, attr |-> "fixed", mode |-> "result", args |-> args, out |-> [len |-> len]]
OpInto(op, args, out) == [op |-> op, attr |-> "fixed", mode |-> "inplace", args |-> args, out |-> out]

\* Four operators in a row, the last one over a window of an earlier result.
Chain ==
  [inputs |-> <<2>>,
   nodes |-> <<Op("f", <<In(1, 0, 2)>>, 2), Op("g", <<Made(1, 0, 2), Fixed(Weight)>>, 2),
               Op("h", <<Made(2, 1, 1), In(1, 1, 1)>>, 1), Op("f", <<Made(3, 0, 1), Made(2, 0, 1)>>, 2)>>,
   outs |-> <<Made(4, 0, 2)>>]
\* A row scattered into a cache, read back, and the cache itself as an output.
Cache ==
  [inputs |-> <<1, 2>>,
   nodes |-> <<Op("f", <<In(1, 0, 1)>>, 1), OpInto("s", <<Made(1, 0, 1)>>, In(2, 1, 1)),
               Op("g", <<In(2, 0, 2)>>, 2)>>,
   outs |-> <<Made(3, 1, 1), In(2, 0, 2)>>]
\* An operator of the chain.
Link == [inputs |-> <<2>>, nodes |-> <<Op("f", <<In(1, 0, 2)>>, 2)>>, outs |-> <<Made(1, 0, 2)>>]
\* Two operators with a result in between.
Short ==
  [inputs |-> <<2>>, nodes |-> <<Op("f", <<In(1, 0, 2)>>, 2), Op("g", <<Made(1, 0, 2), Fixed(Weight)>>, 2)>>,
   outs |-> <<Made(2, 0, 2)>>]
\* A temporary of the host, and an argument of the host.
Temp ==
  [inputs |-> <<2>>, nodes |-> <<Op("g", <<In(1, 0, 2), Temporary>>, 2)>>, outs |-> <<Made(1, 0, 2)>>]
Varying ==
  [inputs |-> <<2>>, nodes |-> <<[Op("f", <<In(1, 0, 2)>>, 2) EXCEPT !.attr = "call"]>>, outs |-> <<Made(1, 0, 2)>>]

With(compiler, validate, capacity) ==
  [enabled |-> TRUE, compiler |-> compiler, validate |-> validate, capacity |-> capacity]
Session(a, b, how) == [body |-> [a |-> a, b |-> b], options |-> how]
\* The operators of the chain alone fit the context's cache.
AllSessions ==
  {Session(Chain, Link, With("none", TRUE, 2)), Session(Chain, Cache, With("none", TRUE, 2)), Session(Chain, Link, With("direct", FALSE, 2)), Session(Short, Cache, With("direct", FALSE, 2)),
   Session(Chain, Cache, With("thread", TRUE, 1)), Session(Temp, Varying, With("direct", TRUE, 2)),
   Session(Chain, Cache, [With("none", TRUE, 1) EXCEPT !.enabled = FALSE])}
Whole(b) == [s |-> b, off |-> 0, len |-> 2]
Owned == {Whole(101), Whole(102), [s |-> 101, off |-> 1, len |-> 1], [s |-> 102, off |-> 0, len |-> 1]}

-----------------------------------------------------------------------------
both == <<part, vars, sessionVars>>

EitherInit ==
  /\ Init /\ SessionInit
  /\ \/ part = "steps"
     \/ part = "queue" /\ [body |-> body, options |-> options] = CHOOSE s \in AllSessions : TRUE

\* The calls of the session are bounded; the queue may not stop.
EitherNext ==
  \/ part = "queue" /\ Next /\ UNCHANGED <<part, sessionVars>>
  \/ part = "steps" /\ SessionNext /\ UNCHANGED <<part, vars>>
  \/ part = "steps" /\ UNCHANGED both

EitherSpec == EitherInit /\ [][EitherNext]_both

\* The fairness of Serving.
InQueue(A) == part = "queue" /\ A
FairEitherSpec ==
  /\ EitherSpec
  /\ WF_vars(InQueue(Step /\ (pc # "idle" \/ PendingRequests > 0)))
  /\ SF_vars(InQueue(AheadBegin /\ pc' = "poll"))
  /\ WF_vars(InQueue(GenerateReturns))
  /\ \A id \in Ids : WF_vars(InQueue(ReadbackCompletes(id)))
=============================================================================
