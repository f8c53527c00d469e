----------------------------- MODULE MCSessions -----------------------------
(***************************************************************************)
(* Instances of TextGeneration, Translation, Transcription, Speech,        *)
(* NpuMirror, StepLowering and WorkerPool for TLC.  They share nothing: a  *)
(* behaviour is one of text generation, of a translation, of               *)
(* transcriptions, of synthesised texts, of a conversation on an           *)
(* accelerator, of a step that is recorded or of the threads that compute, *)
(* and the variables of the others keep a value.                           *)
(***************************************************************************)
EXTENDS WorkerPool

CONSTANT None

VARIABLES
  part,  \* "text", "translation", "transcription", "speech", "mirror", "lowering" or "pool"
  engine, prefix, retained, images, whole,
  translation, waiting, rows, beams, steps, results, status,
  recording, recordings, phase, window, fed, language, tokens, emitted, device, yielded, shown, ended,
  model, call, served, cached, installed, reference, order, voice, completed, finished, heard, active,
  submitted, outcome,
  state, mirrored, asked, answered, turn, replay, key, last,
  nodes, more

-----------------------------------------------------------------------------
(* Prompts of one to seven tokens and conversations with images, on CPUs and GPUs that do or do  *)
(* not crop, and accelerators that run steps in segments or as a whole. *)
LayersOfText == <<"sliding", "full", "sliding", "full">>
Engines ==
  {[captures |-> FALSE, whole |-> FALSE, crop |-> c, chunk |-> 1, last |-> l] :
     c \in BOOLEAN, l \in {"chunks", "last", "tail"}}
  \cup {[captures |-> TRUE, whole |-> w, crop |-> TRUE, chunk |-> IF w THEN 4 ELSE 1, last |-> "last"] : w \in BOOLEAN}
Prompts == {<<1, 2, 3, 1, 2, 1>>, <<1, 2, 3, 1, 3>>, <<1, 2, 2>>, <<3>>, <<1, 2, 3, 1, 2, 1, 3>>}
Chats ==
  {<<<<1>>, <<1, 0>>, <<2>>>>, <<<<1>>, <<2, 0>>, <<2>>>>, <<<<1>>, <<1, 0>>, <<3>>, <<2, 0>>>>,
   <<<<1>>, <<2>>, <<1>>>>, <<<<1>>, <<1, 0>>, <<2>>, <<3>>, <<1>>>>}
\* Without a cache; with a small prefix; with a state kept; with all of the history.
TextOptions ==
  {[chunk |-> s[1], context |-> s[2], maximum |-> 3, cache |-> b, full |-> FALSE] :
     s \in {<<2, 10>>, <<2, 12>>, <<3, 12>>}, b \in {4, 12}}
  \cup {[chunk |-> k, context |-> 10, maximum |-> 3, cache |-> 0, full |-> FALSE] : k \in {1, 3}}
  \cup {[chunk |-> 2, context |-> 12, maximum |-> 2, cache |-> 12, full |-> TRUE]}
\* A bound: generation drops what a conversation keeps; both at once show nothing more.
NotBoth == prefix = None \/ (retained = None /\ images = {})

-----------------------------------------------------------------------------
(* Translations of one to three sources, alone or in batches of up to three rows, and searches *)
(* with two and four beams; Narrow says less than four beams hold. *)
Impossible == -1000
Dist(e, p, a, b) == [t \in 0..3 |-> <<e, p, a, b>>[t + 1]]
Plain == [ids |-> 1, dist |-> <<Dist(-4, -9, -1, -3), Dist(-1, -5, -2, -2), Dist(-3, -1, -2, -4)>>]
Long == [ids |-> 3, dist |-> <<Dist(-6, -7, -2, -1), Dist(-5, -4, -1, -1), Dist(-2, -9, -3, -5), Dist(-1, -8, -2, -3)>>]
Brief == [ids |-> 1, dist |-> <<Dist(-1, -9, -2, -3), Dist(-2, -9, -1, -3)>>]
\* Half of the tokens are impossible.
Narrow == [ids |-> 1, dist |-> <<Dist(-2, Impossible, -1, Impossible), Dist(-3, Impossible, Impossible, -2), Dist(Impossible, Impossible, -2, -1)>>]
SourceLists == UNION {[1..n -> {Plain, Long, Brief}] : n \in 1..3}
Translations ==
  {[sources |-> s, beams |-> 1, penalty |-> p, scored |-> c, batch |-> b] :
     s \in SourceLists, p \in {0, 1}, c \in {TRUE}, b \in {1, 2, 3}}
  \cup {[sources |-> <<Long, Brief, Plain>>, beams |-> 1, penalty |-> 1, scored |-> FALSE, batch |-> 2]}
  \cup {[sources |-> s, beams |-> b, penalty |-> p, scored |-> TRUE, batch |-> 1] :
     s \in {<<Plain>>, <<Narrow>>, <<Brief, Narrow>>}, p \in {0, 1}, b \in {2, 4}}

-----------------------------------------------------------------------------
(* Recordings.  Token 0 ends, 1 starts, 2 and 3 are languages, 4 the task, 5 to 8 text, 9 says *)
(* that no times follow and 10 is one.  Ring says all sorts of things, Halves cuts characters *)
(* at token boundaries, and Loop repeats itself. *)
\* 0 end, 1 start, 2,3 languages, 4 task; 5.. text; 9 no timestamps, 10 a time
TokenBytes == [t \in 0..10 |-> CASE t = 5 -> <<"a">> [] t = 6 -> <<"L">> [] t = 7 -> <<"C">> [] t = 8 -> <<"a", "L">> [] OTHER -> <<>>]
SpokenLanguages == <<2, 3>>
Scores(first, second, third) ==
  [t \in 0..10 |-> (IF t = first THEN 30 ELSE IF t = second THEN 29 ELSE IF t = third THEN 28 ELSE 11 - t)]
Ring == <<Scores(9, 10, 6), Scores(5, 7, 0), Scores(6, 3, 8), Scores(0, 3, 5), Scores(8, 2, 7)>>
Halves == <<Scores(6, 7, 2), Scores(6, 3, 7), Scores(7, 6, 5)>>
Loop == <<Scores(5, 2, 6)>>
Windows == {Ring, Halves, Loop}
Recordings ==
  {[fit |-> f, auto |-> a, gpu |-> g, lossy |-> l, maximum |-> m, scores |-> [short |-> s, full |-> w]] :
    f \in BOOLEAN, a \in BOOLEAN, g \in BOOLEAN, l \in BOOLEAN, m \in {1, 3, 6}, s \in Windows, w \in Windows}

-----------------------------------------------------------------------------
(* Texts of one to three chunks, on a host, on a device and on a device of the browser, with *)
(* one diffusion step and with three, and a model without voice prompts. *)
Texts == {<<2>>, <<1, 3>>, <<4, 2, 3>>, <<2, 0, 1>>}
Shifts == {<<1, 10>>, <<1, 1>>}
Kinds == {<<TRUE, FALSE, FALSE>>, <<TRUE, TRUE, FALSE>>, <<TRUE, TRUE, TRUE>>, <<FALSE, FALSE, FALSE>>}
CallsOf(k) ==
  {[lengths |-> t, prompts |-> k[1], device |-> k[2], deferred |-> k[3], steps |-> n, shift |-> s, cache |-> c, use |-> u] :
     t \in Texts, n \in {1, 3}, s \in {<<1, 10>>}, c \in BOOLEAN, u \in BOOLEAN}
  \cup {[lengths |-> <<3, 4>>, prompts |-> k[1], device |-> k[2], deferred |-> k[3], steps |-> 2, shift |-> <<1, 1>>, cache |-> TRUE, use |-> TRUE]}
SpeechModels == {CallsOf(k) : k \in Kinds}

-----------------------------------------------------------------------------
(* Conversations that continue, go back or begin anew, with and without images; extents of 8 and *)
(* of all 10 rows. *)
Said(ids, image, captured) == [tokens |-> ids, image |-> image, captured |-> captured]
Turns ==
  {Said(<<1, 2>>, FALSE, TRUE), Said(<<1, 2, 1, 1, 2, 1>>, FALSE, TRUE), Said(<<1, 2, 1, 1, 2, 1, 2, 2, 1>>, FALSE, TRUE),
   Said(<<1, 1, 1>>, FALSE, FALSE), Said(<<1, 2, 2, 1>>, TRUE, TRUE), Said(<<1, 2, 2, 1, 2, 1>>, TRUE, TRUE)}

-----------------------------------------------------------------------------
(* Steps of one to eleven operations.  A pair of weights exceeds a graph: the rows of a cache are *)
(* made in the graph that attends to them, in the one before, and in none yet. *)
Node(op, sources, weight) == [op |-> op, sources |-> sources, weight |-> weight, local |-> FALSE]
Of(node) == [kind |-> "node", index |-> node]
Cache(slot) == [kind |-> "input", index |-> slot]
Embedding == Node("embedding", <<>>, 0)
Linear(x) == Node("linear", <<Of(x)>>, 2)
Round(x) == Node("round", <<Of(x)>>, 0)
Scatter(slot, x) == Node("scatter", <<Cache(slot), Of(x)>>, 0)
Beginnings ==
  {<<Embedding, Round(1)>>,
   <<Embedding, Linear(1), Round(2), Scatter(1, 3), Linear(2), Round(5), Scatter(2, 6)>>,
   <<Embedding, Linear(1), Round(2), Scatter(1, 3), Linear(2), Round(5), Scatter(2, 6), Linear(1),
     Node("attention", <<Of(8), Of(4), Of(7)>>, 0)>>,
   <<Embedding, Round(1), Scatter(1, 2), Node("attention", <<Of(1), Cache(1), Cache(1)>>, 0), Linear(4), Embedding, Linear(6)>>,
   <<Embedding, Linear(1), Round(2), Linear(3), Scatter(1, 3), Node("attention", <<Of(4), Cache(1), Cache(1)>>, 0), Linear(6)>>}

-----------------------------------------------------------------------------
(* Programs for the worker pool. *)
Do(what, subject) == [do |-> what, on |-> subject]
ParallelFor(l) == <<Do("enqueue", l), Do("join", l)>>

\* A pipeline: the first iteration of an ordered loop joins a loop that was
\* enqueued before, the second one waits for the first; a second application
\* thread leaves a loop to whoever has time and waits for the flag it sets.
PipelineLoops == {"pipeline", "input", "single"}
PipelineBody ==
  [pipeline |-> <<<<Do("join", "input"), Do("set", "stage")>>,
                  <<Do("await", "stage")>>>>,
   input    |-> <<<<>>, <<>>>>,
   single   |-> <<<<Do("set", "ready")>>>>]
PipelineBound == [pipeline |-> 2, single |-> 1]
PipelineScript ==
  [reader |-> <<Do("enqueue", "input")>> \o ParallelFor("pipeline"),
   writer |-> <<Do("enqueue", "single"), Do("await", "ready")>>]

-----------------------------------------------------------------------------
G == INSTANCE TextGeneration WITH
  LayerTypes <- LayersOfText, SharedLayers <- 2, Window <- 3, MaximumPosition <- 12, Bucket <- 2, TailMinimum <- 4,
  TailRows <- 2, CaptureMinimum <- 2, CaptureTokens <- 6,
  Devices <- Engines, Details <- {1, 2}, Options <- TextOptions, device <- engine
B == INSTANCE Translation WITH
  Vocabulary <- 4, EndId <- 0, PadId <- 1, BeginId <- 1, Requests <- Translations, ExtraTokens <- 1,
  NegInf <- Impossible, request <- translation, order <- waiting
T == INSTANCE Transcription WITH
  Vocabulary <- 11, Bytes <- TokenBytes, StartToken <- 1, EndToken <- 0, NoTimestamps <- 9, TaskToken <- 4,
  Languages <- SpokenLanguages, Suppressed <- {1, 2, 3, 4}, BeginSuppressed <- {0, 5}, Gram <- 2, LoopTokens <- 4,
  Requests <- Recordings, MaxRequests <- 2,
  request <- recording, served <- recordings, submitted <- yielded, outcome <- ended
S == INSTANCE Speech WITH Models <- SpeechModels, MaxCalls <- 2, MaxPrompts <- 1, Qualified <- 3
M == INSTANCE NpuMirror WITH
  Capacity <- 10, LeastExtent <- 8, CompiledChunk <- 2, CaptureMinimum <- 2, PrefillChunk <- 2, Storages <- 1..3,
  Prompts <- Turns, AnswerTokens <- {2}, MaxTurns <- 3, MaxAnswer <- 2, rows <- mirrored, request <- asked
L == INSTANCE StepLowering WITH
  Budget <- 3, Window <- 2, CacheRows <- 5, Starts <- Beginnings, MaxMore <- 2, Weights <- {0, 2}

ASSUME G!Gemma4Assumption /\ T!RequestAssumption /\ S!CallAssumption /\ M!NpuMirrorAssumption

generates == <<engine, prefix, retained, images, whole>>
translates == <<translation, waiting, rows, beams, steps, results, status>>
transcribes ==
  <<recording, recordings, phase, window, fed, language, tokens, emitted, device, yielded, shown, ended>>
speaks ==
  <<model, call, served, cached, installed, reference, order, voice, completed, finished, heard, active,
    submitted, outcome>>
mirrors == <<state, mirrored, asked, answered, turn, replay, key, last>>
records == <<nodes, more>>
sessions == <<part, generates, translates, transcribes, speaks, mirrors, records, vars>>

Untold == engine = None /\ prefix = None /\ retained = None /\ images = {} /\ whole = TRUE
Unasked == [sources |-> <<>>, beams |-> 1]
Unrecorded == nodes = <<>> /\ more = 0

AnyInit ==
  /\ T!Init /\ M!Init /\ Init
  /\ \/ part = "text" /\ G!Init /\ B!InitWith(Unasked) /\ S!InitWith({}) /\ Unrecorded
     \/ part = "translation" /\ Untold /\ B!Init /\ S!InitWith({}) /\ Unrecorded
     \/ part \in {"transcription", "mirror", "pool"} /\ Untold /\ B!InitWith(Unasked) /\ S!InitWith({}) /\ Unrecorded
     \/ part = "speech" /\ Untold /\ B!InitWith(Unasked) /\ S!Init /\ Unrecorded
     \/ part = "lowering" /\ Untold /\ B!InitWith(Unasked) /\ S!InitWith({}) /\ L!Init

AnyNext ==
  \/ part = "text" /\ G!Next /\ NotBoth' /\ UNCHANGED <<part, translates, transcribes, speaks, mirrors, records, vars>>
  \/ part = "translation" /\ B!Next /\ UNCHANGED <<part, generates, transcribes, speaks, mirrors, records, vars>>
  \/ part = "transcription" /\ T!Next /\ UNCHANGED <<part, generates, translates, speaks, mirrors, records, vars>>
  \/ part = "speech" /\ S!Next /\ UNCHANGED <<part, generates, translates, transcribes, mirrors, records, vars>>
  \/ part = "mirror" /\ M!Next /\ UNCHANGED <<part, generates, translates, transcribes, speaks, records, vars>>
  \/ part = "lowering" /\ L!Next /\ UNCHANGED <<part, generates, translates, transcribes, speaks, mirrors, vars>>
  \/ part = "pool" /\ Next /\ UNCHANGED <<part, generates, translates, transcribes, speaks, mirrors, records>>

AnySpec == AnyInit /\ [][AnyNext]_sessions

\* The fairness of the pool.
FairPoolSpec == AnySpec /\ \A t \in Threads : WF_vars(part = "pool" /\ Step(t))

\* See the modules.
ContextIsWhole == G!ContextIsWhole
TranslationsAreSound == part = "translation" => B!TranslationsAreSound
TranscriptIsOne == T!TranscriptIsOne
SpeechIsWhole == S!SpeechIsWhole
MirrorsAreFresh == M!MirrorsAreFresh
LoweringIsFaithful == part = "lowering" => L!LoweringIsFaithful
\* Every join and every predicate wait of the pool returns, and the destructor ends every worker.
PoolReturns == part = "pool" => EverythingReturns
=============================================================================
