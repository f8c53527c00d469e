---------------------------- MODULE Gemma4Cache ----------------------------
(***************************************************************************)
(* The decoder state of the text model: which rows of the key-value cache  *)
(* every call writes and which of them every query reads, through chunked  *)
(* prefill, captured steps with padded rows, cropped histories, layers     *)
(* that share the cache of another, forks of a prefix, images and batched  *)
(* decoding.                                                               *)
(*                                                                         *)
(* A row of activations is named by what it stands for: the layers behind  *)
(* it and the context that it is the last place of.  A row whose inputs    *)
(* were not the ones that the architecture combines is Wrong, and so is    *)
(* all that is computed from it.                                           *)
(***************************************************************************)
EXTENDS Integers, Sequences, FiniteSets, FiniteSetsExt, SequencesExt

CONSTANTS
  LayerTypes,       \* "sliding" or "full", for each layer
  SharedLayers,     \* how many of the last layers have no keys of their own
  Window,           \* how many places a sliding layer sees
  MaximumPosition,
  Bucket,           \* 128: extents and crops are rounded to it
  TailMinimum,      \* 64: prompts from this length narrow to
  TailRows,         \* 4: their last rows in the shared layers
  CaptureMinimum,   \* 16: the least length of a captured prefill
  CaptureTokens     \* 2048: the least prompt whose prefill a whole-step accelerator captures

Gemma4Assumption ==
  /\ SharedLayers \in 0..(Len(LayerTypes) - 1)
  /\ Window \in Nat \ {0} /\ Bucket \in Nat \ {0} /\ TailRows \in 1..TailMinimum
  /\ \A l \in 1..Len(LayerTypes) : \E p \in 1..(Len(LayerTypes) - SharedLayers) : LayerTypes[p] = LayerTypes[l]

Smaller(a, b) == IF a < b THEN a ELSE b
Larger(a, b) == IF a < b THEN b ELSE a
RoundUp(n, unit) == ((n + unit - 1) \div unit) * unit

LayerCount == Len(LayerTypes)
SharedBegin == LayerCount - SharedLayers
Producers == 1..SharedBegin
\* Whose cache a layer reads: its own, or that of the last layer of its type that has one.
CacheLayer(l) == IF l \in Producers THEN l ELSE Max({p \in Producers : LayerTypes[p] = LayerTypes[l]})

-----------------------------------------------------------------------------
(* Activations. *)
Wrong == <<>>
Row(level, context) == <<level, context>>
\* The last row that the model computes for a context.
Answer(context) == Row(LayerCount, context)

\* The places that the architecture lets a query of a layer see.
Visible(l, place) == {p \in 0..place : LayerTypes[l] = "full" \/ place - p < Window}

Attended(l, row, query, cache) ==
  LET rows == query.visible[LayerTypes[l]]
  IN IF /\ row = Row(l - 1, query.context)
        /\ rows = Visible(l, Len(query.context) - 1)
        /\ \A r \in rows : cache[r] = Row(CacheLayer(l) - 1, SubSeq(query.context, 1, r + 1))
     THEN Row(l, query.context)
     ELSE Wrong

(* Computes a value once, where TLC would put it off and do it at every use. *)
Now(value) == CHOOSE v \in {value} : TRUE
Given(value, F(_)) == CHOOSE r \in {F(v) : v \in {value}} : TRUE

-----------------------------------------------------------------------------
(* One pass over the layers.  A query is a row of the pass: whose state it *)
(* belongs to, the cache row it writes, the context it stands for and the  *)
(* cache rows its masks leave visible.                                     *)
Write(l, pass, queries) ==
  [pass EXCEPT !.layers =
     [s \in DOMAIN @ |-> [@[s] EXCEPT ![l] =
        [r \in DOMAIN @ |->
           LET own == {q \in DOMAIN queries : queries[q].state = s /\ queries[q].place = r}
           IN IF own = {} THEN @[r] ELSE pass.hidden[Max(own)]]]]]

LayerForward(l, pass, queries) ==
  LET written == IF l \in Producers THEN Now(Write(l, pass, queries)) ELSE pass
  IN [written EXCEPT !.hidden =
        [q \in DOMAIN queries |->
           Attended(l, pass.hidden[q], queries[q], written.layers[queries[q].state][CacheLayer(l)])]]

RECURSIVE Layers(_, _, _, _)
Layers(from, to, pass, queries) ==
  IF from > to THEN pass ELSE Layers(from + 1, to, Now(LayerForward(from, pass, queries)), queries)

\* Prefill has to write the producers only; nothing reads what the last of them puts out.
Produce(pass, queries) == Now(Write(SharedBegin, Layers(1, SharedBegin - 1, pass, queries), queries))

\* Only the last queries of a long prompt reach the layers that share.
Narrowed(s, count) == SubSeq(s, Len(s) - count + 1, Len(s))
All(pass, queries, tail) ==
  IF tail
  THEN LET first == Layers(1, SharedBegin, pass, queries)
       IN Layers(SharedBegin + 1, LayerCount, [first EXCEPT !.hidden = Narrowed(@, TailRows)], Narrowed(queries, TailRows))
  ELSE Layers(1, LayerCount, pass, queries)

-----------------------------------------------------------------------------
(* Inputs of a pass. *)
\* An image covers its places whatever tokens stand there.
ImageAt(images, place) == {i \in DOMAIN images : place \in images[i].position..(images[i].position + images[i].rows - 1)}
Input(images, place, token) ==
  IF ImageAt(images, place) = {} THEN <<token>>
  ELSE LET i == Max(ImageAt(images, place)) IN <<images[i].content, place - images[i].position>>
Embed(tokens, images, position) == [i \in DOMAIN tokens |-> Input(images, position + i - 1, tokens[i])]

\* Where the keys of sliding layers begin when what is out of reach is not passed.
KeyStartLate(type, position, crop) ==
  IF type = "sliding" /\ crop /\ position + 1 > Window THEN RoundUp(position + 1 - Window, Bucket) ELSE 0
KeyStart(type, position, crop) ==
  IF type = "sliding" /\ crop /\ position + 1 > Window THEN ((position + 1 - Window) \div Bucket) * Bucket ELSE 0

MaskWide(type, current, start, extent) ==
  {key \in start..(extent - 1) : key <= current /\ (type = "full" \/ current - key <= Window)}
Mask(type, current, start, extent) ==
  {key \in start..(extent - 1) : key <= current /\ (type = "full" \/ current - key < Window)}

Queries(s, state, inputs, crop, extent) ==
  [q \in DOMAIN inputs |->
     LET current == state.position + q - 1
     IN [state |-> s, place |-> current, context |-> state.context \o SubSeq(inputs, 1, q),
         visible |-> [t \in {"sliding", "full"} |-> Mask(t, current, KeyStart(t, state.position, crop), extent)]]]

\* Inputs of an eager pass, for the rows of one state.
AttentionInputs(device, s, state, inputs) ==
  Queries(s, state, inputs, state.crop /\ device.crop,
          Smaller(state.capacity, RoundUp(state.position + Len(inputs), Bucket)))

Hidden(queries) == [q \in DOMAIN queries |-> Row(0, queries[q].context)]
Begin(queries, layers) == [hidden |-> Hidden(queries), layers |-> layers]

-----------------------------------------------------------------------------
(* States. *)
Blank(capacity) == [p \in Producers |-> [r \in 0..(capacity - 1) |-> Wrong]]
CanCreate(capacity) == capacity \in 1..MaximumPosition
CreateState(capacity) ==
  [capacity |-> capacity, position |-> 0, context |-> <<>>, images |-> <<>>, crop |-> TRUE, capture |-> TRUE, layers |-> Blank(capacity)]

CanFork(source, length, capacity) == length <= source.position /\ length <= capacity /\ CanCreate(capacity)
ForkShort(source, length, capacity) ==
  [CreateState(capacity) EXCEPT
     !.position = length, !.context = SubSeq(source.context, 1, length), !.images = source.images, !.crop = source.crop,
     !.layers = [p \in Producers |-> [r \in 0..(capacity - 1) |-> IF r < length - 1 THEN source.layers[p][r] ELSE Wrong]]]
ForkState(source, length, capacity) ==
  [CreateState(capacity) EXCEPT
     !.position = length, !.context = SubSeq(source.context, 1, length), !.images = source.images, !.crop = source.crop,
     !.layers = [p \in Producers |-> [r \in 0..(capacity - 1) |-> IF r < length THEN source.layers[p][r] ELSE Wrong]]]

-----------------------------------------------------------------------------
(* Calls.  Each has a guard, the state it leaves and what it selects.      *)
(* device says whether an accelerator captures prefill and in which        *)
(* chunks, whether it and the eager path crop the history, and what runs   *)
(* for the last token of a prompt ("chunks", "last" or "tail").            *)
Fits(state, count) == count > 0 /\ count <= state.capacity - state.position

\* The key extent of a captured step.
StepExtent(device, required, capacity) ==
  IF device.whole THEN capacity ELSE Smaller(capacity, RoundUp(required, Bucket))
CapturedQueries(device, state, inputs) ==
  Queries(1, state, inputs, state.crop /\ device.crop /\ ~device.whole,
          StepExtent(device, state.position + Len(inputs), state.capacity))

Powers == {2^k : k \in 0..10}
CapturesExactly(count) == count \in Powers /\ count >= CaptureMinimum
CapturesPadded(device, state, count) ==
  ~CapturesExactly(count) /\ count < device.chunk /\ state.position + device.chunk <= state.capacity
\* Padded rows follow the real ones, and later steps write over what they leave.
PrefillTokensAhead(device, state, tokens) ==
  IF CapturesPadded(device, state, Len(tokens))
  THEN [i \in 1..(device.chunk - Len(tokens)) |-> 0] \o tokens
  ELSE tokens
PrefillTokens(device, state, tokens) ==
  IF CapturesPadded(device, state, Len(tokens))
  THEN tokens \o [i \in 1..(device.chunk - Len(tokens)) |-> 0]
  ELSE tokens

\* A state after a pass over so many of the inputs.
Moved(state, layers, inputs, count) ==
  [state EXCEPT !.layers = layers, !.position = @ + count, !.context = @ \o SubSeq(inputs, 1, count)]
Prefill(device, state, tokens) ==
  LET captured == /\ device.captures /\ state.capture
                  /\ CapturesExactly(Len(tokens)) \/ CapturesPadded(device, state, Len(tokens))
      fed == IF captured THEN PrefillTokens(device, state, tokens) ELSE tokens
      inputs == Embed(fed, state.images, state.position)
  IN Given(IF captured THEN CapturedQueries(device, state, inputs) ELSE AttentionInputs(device, 1, state, inputs), LAMBDA queries :
       Moved(state, Produce(Begin(queries, <<state.layers>>), queries).layers[1], inputs, Len(tokens)))

\* Whether the token at the position is text, so that a captured step can embed it.
CanDecodeStep(state) == ImageAt(state.images, state.position) = {}

\* The last chunk of a prompt, or one token, and the row its answer is selected from.
ProjectOnce(device, state, tokens) ==
  LET step == Len(tokens) = 1 /\ CanDecodeStep(state)
      inputs == IF step THEN <<tokens>> ELSE Embed(tokens, state.images, state.position)
      tail == ~step /\ device.last = "tail" /\ Len(tokens) >= TailMinimum /\ SharedLayers > 0
  IN Given(IF step THEN CapturedQueries(device, state, inputs) ELSE AttentionInputs(device, 1, state, inputs), LAMBDA queries :
       Given(All(Begin(queries, <<state.layers>>), queries, tail), LAMBDA pass :
         [state |-> Moved(state, pass.layers[1], inputs, Len(tokens)), row |-> pass.hidden[Len(pass.hidden)]]))

Project(device, state, tokens) ==
  IF device.last = "last" /\ Len(tokens) > 1
  THEN Given(Prefill(device, state, SubSeq(tokens, 1, Len(tokens) - 1)), LAMBDA read :
         ProjectOnce(device, read, <<tokens[Len(tokens)]>>))
  ELSE ProjectOnce(device, state, tokens)

\* One token of each of several states, whose caches must not be the same; their images are past.
CanRunBatch(states) == \A s \in DOMAIN states : states[s].position < states[s].capacity
RunBatch(device, states, tokens) ==
  Given(FlattenSeq([s \in DOMAIN states |-> AttentionInputs(device, s, states[s], <<<<tokens[s]>>>>)]), LAMBDA queries :
    Given(All(Begin(queries, [s \in DOMAIN states |-> states[s].layers]), queries, FALSE), LAMBDA pass :
      [states |-> [s \in DOMAIN states |-> Moved(states[s], pass.layers[s], <<<<tokens[s]>>>>, 1)], rows |-> pass.hidden]))
=============================================================================
