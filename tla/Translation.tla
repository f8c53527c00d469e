---------------------------- MODULE Translation ----------------------------
(***************************************************************************)
(* Translations of one or several sources: kidi::inference::Translator and *)
(* the searches of kidi::inference::Decoder.                               *)
(*                                                                         *)
(* A call sorts its sources by length, decodes them greedily in batches of *)
(* rows that share decoder steps, and puts the results back in the order   *)
(* of the sources; with more than one beam every source is searched alone. *)
(* Tokens are 0..Vocabulary-1.  A source is [ids: its length, dist: the    *)
(* distributions of the model for it].  Log-probabilities are integers.    *)
(***************************************************************************)
EXTENDS Integers, SequencesExt, FiniteSetsExt

CONSTANTS
  Vocabulary,     \* number of tokens
  EndId, PadId,   \* the token that ends a text, and the one that fills finished rows
  BeginId,        \* the token that decoding starts from
  Requests,       \* [sources, beams, penalty, scored, batch]: the calls
  ExtraTokens,    \* maximum_extra_tokens
  NegInf,         \* the log-probability of an impossible token
  None

VARIABLES
  request,    \* the call
  order,      \* indices of the sources that wait, in the order of decoding
  rows,       \* the batch that is decoded: a state per row
  beams,      \* hypotheses of the source that is searched
  steps,      \* decoder steps of this batch or search
  results,    \* result per source, or None
  status      \* "running", "done" or "failed"

vars == <<request, order, rows, beams, steps, results, status>>

Tokens == 0..(Vocabulary - 1)
Sources == request.sources
Indices == [i \in DOMAIN Sources |-> i]
MaximumSteps(i) == Sources[i].ids + ExtraTokens

(***************************************************************************)
(* The model: a distribution for a source and everything that the decoder  *)
(* was fed, so that a wrong or a missing token shows in all later ones.    *)
(***************************************************************************)
Digest(fed) == FoldLeftDomain(LAMBDA h, j: h + j * (fed[j] + 1), 0, fed)
LogProbabilities(source, fed) == source.dist[(Digest(fed) % Len(source.dist)) + 1]

\* The first token of greatest probability.
Best(dist) == CHOOSE t \in Tokens :
  \A u \in Tokens : dist[u] < dist[t] \/ (dist[u] = dist[t] /\ t <= u)

(***************************************************************************)
(* Scores.  A length penalty of one divides by (5 + length) / 6; scores    *)
(* are compared without the division.                                      *)
(***************************************************************************)
Normalized(score, length) == IF request.penalty = 0 THEN <<score, 1>> ELSE <<6 * score, 5 + length>>
Below(a, b) == a[1] * b[2] < b[1] * a[2]

IsEnd(token) == token = EndId
Text(tokens) ==
  LET ends == {j \in DOMAIN tokens : IsEnd(tokens[j])}
      cut == IF ends = {} THEN tokens ELSE SubSeq(tokens, 1, Min(ends) - 1)
  IN SelectSeq(cut, LAMBDA t: t # PadId)

(***************************************************************************)
(* Decoder::generate with one beam: the reference for the batches.         *)
(***************************************************************************)
Greedy(i) ==
  LET Step(beam, step) ==
        LET dist == LogProbabilities(Sources[i], <<BeginId>> \o beam.tokens)
            token == Best(dist)
        IN IF ~beam.active THEN beam
           ELSE [tokens |-> Append(beam.tokens, token),
                 score |-> IF request.scored THEN beam.score + dist[token] ELSE beam.score,
                 length |-> IF IsEnd(token) THEN step ELSE beam.length,
                 active |-> ~IsEnd(token)]
      last == FoldLeftDomain(LAMBDA beam, step: Step(beam, step),
                [tokens |-> <<>>, score |-> 0, length |-> ExtraTokens, active |-> TRUE],
                [j \in 1..MaximumSteps(i) |-> j])
  IN [tokens |-> Text(last.tokens), score |-> Normalized(last.score, last.length)]

(***************************************************************************)
(* GreedyState: a row of a batch.  `fed` is its part of the decoder cache. *)
(***************************************************************************)
NewRow(i) == [source |-> i, fed |-> <<>>, next |-> BeginId, tokens |-> <<>>, score |-> 0,
              steps |-> 0, finished |-> FALSE]

AcceptPads(row, token, probability) ==
  LET ended == IsEnd(token)
      taken == [row EXCEPT
                  !.score = IF request.scored THEN @ + probability ELSE @,
                  !.steps = @ + 1,
                  !.tokens = IF ended THEN @ ELSE Append(@, token),
                  !.finished = ended \/ row.steps + 1 = MaximumSteps(row.source)]
  IN IF taken.finished
     THEN [taken EXCEPT !.score = Normalized(@, IF ended THEN taken.steps ELSE ExtraTokens), !.next = PadId]
     ELSE [taken EXCEPT !.next = token]

AcceptFor(row, token, probability, limit) ==
  LET ended == IsEnd(token)
      taken == [row EXCEPT
                  !.score = IF request.scored THEN @ + probability ELSE @,
                  !.steps = @ + 1,
                  !.tokens = IF ended \/ token = PadId THEN @ ELSE Append(@, token),
                  !.finished = ended \/ row.steps + 1 = limit]
  IN IF taken.finished
     THEN [taken EXCEPT !.score = Normalized(@, IF ended THEN taken.steps ELSE ExtraTokens), !.next = PadId]
     ELSE [taken EXCEPT !.next = token]

AcceptLongest(row, token, probability) ==
  AcceptFor(row, token, probability, Max({MaximumSteps(rows[r].source) : r \in DOMAIN rows}))

\* GreedyState::accept, and the token that generate_batch feeds next.
Accept(row, token, probability) == AcceptFor(row, token, probability, MaximumSteps(row.source))

\* One decoder step: every row is fed, the finished ones with padding.
Fed(row) == [row EXCEPT !.fed = Append(@, row.next)]
Advance(row) ==
  LET dist == LogProbabilities(Sources[row.source], Fed(row).fed)
      token == Best(dist)
  IN IF row.finished THEN Fed(row) ELSE Accept(Fed(row), token, dist[token])

(***************************************************************************)
(* Batches.                                                                *)
(***************************************************************************)
Shorter(i, j) == Sources[i].ids < Sources[j].ids \/ (Sources[i].ids = Sources[j].ids /\ i < j)
SortedIndices == SetToSortSeq(DOMAIN Sources, Shorter)

\* Encodes the next batch and makes its cache.
StartBatch ==
  /\ status = "running" /\ request.beams = 1
  /\ rows = <<>> /\ order # <<>>
  /\ LET count == Min({request.batch, Len(order)})
     IN /\ rows' = [r \in 1..count |-> NewRow(order[r])]
        /\ order' = SubSeq(order, count + 1, Len(order))
  /\ steps' = 0
  /\ UNCHANGED <<request, beams, results, status>>

BatchStep ==
  /\ status = "running"
  /\ \E r \in DOMAIN rows : ~rows[r].finished
  /\ rows' = [r \in DOMAIN rows |-> Advance(rows[r])]
  /\ steps' = steps + 1
  /\ UNCHANGED <<request, order, beams, results, status>>

\* The rows of the batch, under the numbers of their sources.
ScatterInOrder(given) ==
  [i \in DOMAIN given |->
     LET first == Min({n \in DOMAIN given : given[n] = None})
     IN IF i - first + 1 \in DOMAIN rows
        THEN [tokens |-> rows[i - first + 1].tokens, score |-> rows[i - first + 1].score] ELSE given[i]]
Scatter(given) ==
  [i \in DOMAIN given |->
     IF \E r \in DOMAIN rows : rows[r].source = i
     THEN LET row == CHOOSE x \in Range(rows) : x.source = i IN [tokens |-> row.tokens, score |-> row.score]
     ELSE given[i]]

EndBatch ==
  /\ status = "running"
  /\ rows # <<>> /\ \A r \in DOMAIN rows : rows[r].finished
  /\ results' = Scatter(results)
  /\ rows' = <<>>
  /\ status' = IF order = <<>> THEN "done" ELSE "running"
  /\ UNCHANGED <<request, order, beams, steps>>

(***************************************************************************)
(* Beams.                                                                  *)
(***************************************************************************)
StartSearch ==
  /\ status = "running" /\ request.beams > 1
  /\ beams = <<>> /\ order # <<>>
  /\ beams' = [b \in 1..request.beams |->
                 [tokens |-> <<>>, score |-> 0, length |-> ExtraTokens, active |-> TRUE]]
  /\ steps' = 0
  /\ UNCHANGED <<request, order, rows, results, status>>

\* What a hypothesis offers: every possible token, or padding once it ended.
Offers(b) ==
  LET dist == LogProbabilities(Sources[Head(order)], <<BeginId>> \o beams[b].tokens)
      tokens == IF beams[b].active THEN {t \in Tokens : dist[t] # NegInf} ELSE {PadId}
  IN {[beam |-> b, token |-> t, score |-> beams[b].score + (IF beams[b].active THEN dist[t] ELSE 0)] : t \in tokens}

\* All hypotheses are the same at first, so that only one of them offers.
EveryOffer == UNION {Offers(b) : b \in DOMAIN beams}
Candidates == UNION {Offers(b) : b \in IF steps = 0 THEN {1} ELSE DOMAIN beams}

ExtendLate(candidate) ==
  LET beam == beams[candidate.beam]
      ended == beam.active /\ IsEnd(candidate.token)
  IN [tokens |-> Append(beam.tokens, candidate.token), score |-> candidate.score,
      length |-> IF ended \/ ~beam.active THEN steps + 1 ELSE beam.length, active |-> beam.active /\ ~ended]

Extend(candidate) ==
  LET beam == beams[candidate.beam]
      ended == beam.active /\ IsEnd(candidate.token)
  IN [tokens |-> Append(beam.tokens, candidate.token), score |-> candidate.score,
      length |-> IF ended THEN steps + 1 ELSE beam.length, active |-> beam.active /\ ~ended]

Searching ==
  /\ status = "running" /\ beams # <<>>
  /\ steps < MaximumSteps(Head(order))
  /\ \E b \in DOMAIN beams : beams[b].active

\* The queue keeps as many candidates as there are beams, none of them below one that it
\* dropped; which of several equal ones it keeps, and in which order, is left open.
BeamStep ==
  /\ Searching
  /\ Cardinality(Candidates) >= request.beams
  /\ \E kept \in kSubset(request.beams, Candidates) :
       /\ \A c \in kept, d \in Candidates \ kept : d.score <= c.score
       /\ \E ranked \in SetToSeqs(kept) :
            /\ \A m, n \in DOMAIN ranked : m < n => ranked[n].score <= ranked[m].score
            /\ beams' = [b \in DOMAIN ranked |-> Extend(ranked[b])]
  /\ steps' = steps + 1
  /\ UNCHANGED <<request, order, rows, results, status>>

\* Too few finite candidates: the whole call fails.
BeamsRunOut ==
  /\ Searching
  /\ Cardinality(Candidates) < request.beams
  /\ status' = "failed"
  /\ UNCHANGED <<request, order, rows, beams, steps, results>>

Value(beam) == Normalized(beam.score, beam.length)
BestBeam == CHOOSE b \in DOMAIN beams : \A c \in DOMAIN beams :
  Below(Value(beams[c]), Value(beams[b])) \/ (~Below(Value(beams[b]), Value(beams[c])) /\ b <= c)

EndSearch ==
  /\ status = "running" /\ beams # <<>> /\ ~Searching
  /\ results' = [results EXCEPT ![Head(order)] =
                   [tokens |-> Text(beams[BestBeam].tokens), score |-> Value(beams[BestBeam])]]
  /\ order' = Tail(order)
  /\ beams' = <<>>
  /\ status' = IF order' = <<>> THEN "done" ELSE "running"
  /\ UNCHANGED <<request, rows, steps>>

\* The model or its device fails: so does the call, for all of its sources.
Fails ==
  /\ status = "running"
  /\ status' = "failed"
  /\ UNCHANGED <<request, order, rows, beams, steps, results>>

InitWith(asked) ==
  /\ request = asked
  /\ order = IF request.beams = 1 THEN SortedIndices ELSE Indices
  /\ rows = <<>>
  /\ beams = <<>>
  /\ steps = 0
  /\ results = [i \in DOMAIN Sources |-> None]
  /\ status = "running"
Init == \E asked \in Requests : InitWith(asked)

Next == StartBatch \/ BatchStep \/ EndBatch \/ StartSearch \/ BeamStep \/ BeamsRunOut \/ EndSearch \/ Fails

Spec == Init /\ [][Next]_vars

(***************************************************************************)
(* Properties.                                                             *)
(***************************************************************************)
\* What a source is translated to does not depend on the other sources of the call, their
\* order, the batch they share or the rows that finish earlier: tokens and score are those of
\* a search for that source alone.
BatchMatchesSingle ==
  request.beams = 1 => \A i \in DOMAIN results : results[i] # None => results[i] = Greedy(i)

\* Everything the model gives a hypothesis, up to the token that ends it.
Likelihood(i, tokens) ==
  LET ends == {j \in DOMAIN tokens : IsEnd(tokens[j])}
      count == IF ends = {} THEN Len(tokens) ELSE Min(ends)
  IN FoldLeftDomain(
       LAMBDA sum, j: sum + LogProbabilities(Sources[i], <<BeginId>> \o SubSeq(tokens, 1, j - 1))[tokens[j]],
       0, SubSeq(tokens, 1, count))

\* All that can be said within the limit of a source.
Hypotheses(i) ==
  LET Grow(found, step) ==
        UNION {IF \E j \in DOMAIN h : IsEnd(h[j]) THEN {h}
               ELSE {Append(h, t) : t \in {u \in Tokens :
                       LogProbabilities(Sources[i], <<BeginId>> \o h)[u] # NegInf}} : h \in found}
  IN FoldLeftDomain(LAMBDA found, step: Grow(found, step), {<<>>}, [j \in 1..MaximumSteps(i) |-> j])

HypothesisValue(i, h) ==
  Normalized(Likelihood(i, h), IF \E j \in DOMAIN h : IsEnd(h[j]) THEN Len(h) ELSE ExtraTokens)

\* Hypotheses are distinct, scored by all of their tokens and ranked, and a search whose beams
\* hold everything that can be said returns the best of it.
BeamsAreSound ==
  /\ beams # <<>> /\ steps > 0 =>
       /\ \A b, c \in DOMAIN beams : b # c => beams[b].tokens # beams[c].tokens
       /\ \A b \in DOMAIN beams :
            /\ beams[b].score = Likelihood(Head(order), beams[b].tokens)
            /\ ~beams[b].active => IsEnd(beams[b].tokens[beams[b].length])
            /\ b > 1 => beams[b].score <= beams[b - 1].score
  /\ request.beams > 1 => \A i \in DOMAIN results :
       results[i] # None /\ Cardinality(Hypotheses(i)) <= request.beams =>
         \A h \in Hypotheses(i) : ~Below(results[i].score, HypothesisValue(i, h))

\* Both: what a source is translated to depends on it alone, and is the best of what was tried.
TranslationsAreSound == BatchMatchesSingle /\ BeamsAreSound
=============================================================================
