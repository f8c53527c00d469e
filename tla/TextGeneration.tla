--------------------------- MODULE TextGeneration ---------------------------
(***************************************************************************)
(* The callers of the text model that reuse what it has read: serial       *)
(* generation with its prefix snapshot, batches, and conversations with    *)
(* images that resume the cache of the turn before.  Serving schedules     *)
(* such calls; here each runs to its end, and every row that a token was   *)
(* selected from is compared with what the whole context makes of it.      *)
(***************************************************************************)
EXTENDS Gemma4Cache

CONSTANTS
  Devices,    \* what the device and its accelerator do, as in Gemma4Cache
  Prompts,    \* token sequences
  Chats,      \* sequences of parts: <<token>> or <<image, rows>>
  Details,    \* how many rows an image is encoded in
  Options,    \* [chunk, context, maximum, cache, full]
  None

VARIABLES
  device,
  prefix,     \* the snapshot of generate
  retained,   \* the state of the last conversation
  images,     \* the encoded images of the last conversation
  whole       \* whether the last call selected each token from the row of its whole context

vars == <<device, prefix, retained, images, whole>>

End == 0
ImageToken == 9
ImageOpen == 7
ImageClose == 8

(* A greedy choice: some function of the context. *)
Selected(row) == IF row = Wrong THEN End ELSE (Len(row[2]) + row[2][Len(row[2])][1]) % 4

Chunk(o) == IF device.whole THEN Larger(o.chunk, device.chunk) ELSE o.chunk
\* A whole-step accelerator compiles a prefill only for what is worth it.
Captures(prompt, pictures) == ~device.whole \/ pictures \/ Len(prompt) >= CaptureTokens
Prepared(state, prompt, pictures, o) == [state EXCEPT !.crop = ~o.full, !.capture = Captures(prompt, pictures)]
Suffix(s, offset) == SubSeq(s, offset + 1, Len(s))
CommonPrefix(s, t, limit) == Max({n \in 0..limit : SubSeq(s, 1, n) = SubSeq(t, 1, n)})
Texts(tokens) == [i \in DOMAIN tokens |-> <<tokens[i]>>]
Admissible(prompt, o) == prompt # <<>> /\ o.chunk > 0 /\ Len(prompt) + o.maximum <= o.context

-----------------------------------------------------------------------------
(* One request: its state, the context it stands for, the token selected   *)
(* last and whether all its selections were sound.                         *)
Take(request, step) ==
  LET token == Selected(step.row)
  IN [request EXCEPT !.state = step.state, !.token = token, !.count = @ + 1,
                     !.whole = @ /\ step.row = Answer(request.context),
                     !.ended = token = End \/ request.count + 1 = request.maximum]
Request(of, context, maximum, step) ==
  LET begun == [of |-> of, state |-> step.state, context |-> context, token |-> End, count |-> 0, whole |-> TRUE,
                ended |-> FALSE, maximum |-> maximum]
  IN Take(begun, step)
Fed(request) == [request EXCEPT !.context = Append(@, <<request.token>>)]
Decode(request) ==
  IF request.ended THEN request
  ELSE Given(Fed(request), LAMBDA next : Take(next, Project(device, next.state, <<request.token>>)))
DecodeAll(request) == FoldLeft(LAMBDA r, i : Now(Decode(r)), request, [i \in 1..request.maximum |-> i])

\* The chunks of a prompt but the last, from an offset; the snapshot is taken at its length.
Chunks(count, offset, chunk) == (count - offset - 1) \div chunk
ReadChunk(r, prompt, chunk) ==
  LET offset == r.offset + chunk
      state == Prefill(device, r.state, SubSeq(prompt, r.offset + 1, offset))
  IN [state |-> state, offset |-> offset, taken |-> IF offset = r.wanted THEN state ELSE r.taken, wanted |-> r.wanted]
ReadChunks(state, prompt, offset, chunk, wanted) ==
  FoldLeft(LAMBDA r, i : Now(ReadChunk(r, prompt, chunk)),
           [state |-> state, offset |-> offset, taken |-> None, wanted |-> wanted],
           [i \in 1..Chunks(Len(prompt), offset, chunk) |-> i])

-----------------------------------------------------------------------------
(* Generator::generate *)
KeepsAnyPrefix(o) ==
  /\ prefix # None /\ o.cache > 0
  /\ Len(prefix.tokens) <= o.cache
KeepsPrefix(o) ==
  /\ prefix # None /\ o.cache > 0
  /\ Len(prefix.tokens) <= o.cache /\ prefix.chunk = Chunk(o) /\ prefix.crop = ~o.full
ReusedUnaligned(kept, prompt, o) ==
  IF kept = None THEN 0 ELSE Smaller(Len(kept.tokens), Len(prompt) - 1)
Reused(kept, prompt, o) ==
  IF kept = None THEN 0
  ELSE (CommonPrefix(kept.tokens, prompt, Smaller(Len(kept.tokens), Len(prompt) - 1)) \div Chunk(o)) * Chunk(o)
CachedLength(prompt, o) ==
  Smaller((Len(prompt) - 1) \div Chunk(o), o.cache \div Chunk(o)) * Chunk(o)

Generate(prompt, o) ==
  /\ Admissible(prompt, o)
  /\ LET kept == IF KeepsPrefix(o) THEN prefix ELSE None
         reused == Reused(kept, prompt, o)
         first == IF reused > 0 THEN ForkState(kept.state, reused, o.context) ELSE CreateState(o.context)
         cached == CachedLength(prompt, o)
         wanted == IF cached > reused THEN cached ELSE 0
     IN \E read \in {ReadChunks(Prepared(first, prompt, FALSE, o), prompt, reused, Chunk(o), wanted)} :
          /\ whole' = DecodeAll(Request(1, Texts(prompt), o.maximum,
                                        Project(device, read.state, Suffix(prompt, read.offset)))).whole
          /\ prefix' = IF read.taken = None THEN kept
                       ELSE [tokens |-> SubSeq(prompt, 1, cached), state |-> ForkState(read.taken, cached, cached),
                             chunk |-> Chunk(o), crop |-> ~o.full]
  /\ retained' = None
  /\ UNCHANGED <<device, images>>

(* Generator::generate_batch: the prompts are read one after the other, then all unfinished rows *)
(* advance together. *)
Active(requests) == SelectSeq([r \in DOMAIN requests |-> r], LAMBDA r : ~requests[r].ended)
Advanced(requests, fed, step) ==
  [r \in DOMAIN requests |->
     LET taken == {a \in DOMAIN fed : fed[a].of = r}
         a == CHOOSE a \in taken : TRUE
     IN IF taken = {} THEN requests[r] ELSE Take(fed[a], [state |-> step.states[a], row |-> step.rows[a]])]
DecodeActive(requests) ==
  LET active == Active(requests)
  IN IF active = <<>> THEN requests
     ELSE Given([a \in DOMAIN active |-> Fed(requests[active[a]])], LAMBDA fed :
            Given(RunBatch(device, [a \in DOMAIN fed |-> fed[a].state], [a \in DOMAIN fed |-> fed[a].token]), LAMBDA step :
              Advanced(requests, fed, step)))
Begun(of, prompt, o) ==
  Given(ReadChunks(Prepared(CreateState(o.context), prompt, FALSE, o), prompt, 0, Chunk(o), 0), LAMBDA read :
    Request(of, Texts(prompt), o.maximum, Project(device, read.state, Suffix(prompt, read.offset))))
GenerateBatch(prompts, o) ==
  /\ o.cache = 0
  /\ \A r \in DOMAIN prompts : Admissible(prompts[r], o)
  /\ \E done \in {FoldLeft(LAMBDA requests, i : Now(DecodeActive(requests)),
                            [r \in DOMAIN prompts |-> Begun(r, prompts[r], o)], [i \in 1..o.maximum |-> i])} :
       whole' = \A r \in DOMAIN prompts : done[r].whole
  /\ retained' = None
  /\ UNCHANGED <<device, prefix, images>>

-----------------------------------------------------------------------------
(* Generator::enqueue_chat: every image becomes as many placeholders as it has rows. *)
IsImage(part) == Len(part) = 2
Encoded(name, detail) == [name |-> name, detail |-> detail, rows |-> detail, content |-> 10 * name + detail]
CachedByName(part, detail) ==
  LET same == {i \in images : i.name = part[1]}
  IN IF same = {} THEN Encoded(part[1], detail) ELSE CHOOSE i \in same : TRUE
Cached(part, detail) ==
  LET same == {i \in images : i.name = part[1] /\ i.detail = detail}
  IN IF same = {} THEN Encoded(part[1], detail) ELSE CHOOSE i \in same : TRUE
Current(chat, detail) ==
  LET parts == SelectSeq(chat, IsImage) IN [i \in DOMAIN parts |-> Cached(parts[i], detail)]
Placeholders(rows) == <<ImageOpen>> \o [i \in 1..rows |-> ImageToken] \o <<ImageClose>>
Serialized(chat, detail) ==
  FlattenSeq([i \in DOMAIN chat |-> IF IsImage(chat[i]) THEN Placeholders(Cached(chat[i], detail).rows) ELSE chat[i]])
\* The k-th run of placeholders holds the k-th image.
Runs(ids) == SelectSeq([i \in DOMAIN ids |-> i], LAMBDA i : ids[i] = ImageToken /\ (i = 1 \/ ids[i - 1] # ImageToken))
Positions(ids, current) ==
  [k \in DOMAIN current |-> [position |-> Runs(ids)[k] - 1, rows |-> current[k].rows, content |-> current[k].content]]
ImageKey(current) == [k \in DOMAIN current |-> <<current[k].detail, current[k].name>>]

\* What the conversation says, without any cache.
Meant(chat, detail) ==
  FlattenSeq([i \in DOMAIN chat |->
    IF IsImage(chat[i])
    THEN LET image == Encoded(chat[i][1], detail)
         IN <<<<ImageOpen>>>> \o [r \in 1..image.rows |-> <<image.content, r - 1>>] \o <<<<ImageClose>>>>
    ELSE <<chat[i]>>])

(* Admission of a conversation, its prefill and its answer, and what is kept of it. *)
ResumesAnyImage(key, o) ==
  /\ retained # None
  /\ o.cache >= retained.state.capacity
  /\ o.context = retained.state.capacity
  /\ Chunk(o) = retained.chunk
  /\ retained.crop = ~o.full
Resumes(key, o) ==
  /\ retained # None
  /\ o.cache >= retained.state.capacity
  /\ key = retained.key
  /\ o.context = retained.state.capacity
  /\ Chunk(o) = retained.chunk
  /\ retained.crop = ~o.full
Resumed(prompt) ==
  LET kept == CommonPrefix(retained.tokens, prompt, Smaller(Len(retained.tokens), Len(prompt) - 1))
  IN [retained.state EXCEPT !.position = kept, !.context = SubSeq(@, 1, kept)]
Retained(request, ids, key, o) ==
  IF o.cache < request.state.capacity THEN None
  ELSE LET told == ids \o [i \in 1..(Len(request.context) - Len(ids)) |-> request.context[Len(ids) + i][1]]
       IN [tokens |-> SubSeq(told, 1, request.state.position), state |-> request.state, key |-> key,
           chunk |-> Chunk(o), crop |-> ~o.full]

Chat(chat, detail, o) ==
  LET current == Current(chat, detail)
      ids == Serialized(chat, detail)
      key == ImageKey(current)
  IN /\ Admissible(ids, o)
     /\ LET begun == IF Resumes(key, o) THEN Resumed(ids) ELSE CreateState(o.context)
            state == Prepared([begun EXCEPT !.images = Positions(ids, current)], ids, current # <<>>, o)
        IN \E read \in {ReadChunks(state, ids, state.position, Chunk(o), 0)} :
           \E done \in {DecodeAll(Request(1, Meant(chat, detail), o.maximum,
                                          Project(device, read.state, Suffix(ids, read.offset))))} :
             /\ whole' = done.whole
             /\ retained' = Retained(done, ids, key, o)
     /\ images' = {current[k] : k \in DOMAIN current}
     /\ UNCHANGED <<device, prefix>>

-----------------------------------------------------------------------------
Init ==
  /\ device \in Devices
  /\ prefix = None /\ retained = None /\ images = {} /\ whole = TRUE

(* Generator::configure_serving *)
Reconfigure == prefix' = None /\ retained' = None /\ whole' = TRUE /\ UNCHANGED <<device, images>>

Next ==
  \/ \E p \in Prompts, o \in Options : Generate(p, o)
  \/ \E p, q \in Prompts, o \in Options : GenerateBatch(<<p, q>>, o)
  \/ \E c \in Chats, d \in Details, o \in Options : Chat(c, d, o)
  \/ Reconfigure

Spec == Init /\ [][Next]_vars

(* Every token is selected from the row that the whole context would give, whatever was reused,  *)
(* however it was cut into chunks and steps, and whoever shared the pass.                        *)
ContextIsWhole == whole
=============================================================================
