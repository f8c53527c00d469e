----------------------------- MODULE NpuMirror -----------------------------
(***************************************************************************)
(* The key-value cache of a conversation and its copies on an accelerator  *)
(* that runs whole steps: one executable decodes, one reads prompts, each  *)
(* keeps a copy of the CPU's cache of its own, and brings it up to date    *)
(* from the row that it remembers.  Rows are also written by captured      *)
(* steps that are not compiled yet, by chunks that are not captured and by *)
(* steps that decode several requests at once, all on the CPU.             *)
(*                                                                         *)
(* A row is named by the tokens up to it: what a row holds depends on all  *)
(* of them.  Rows that no step has written are <<>>.                       *)
(***************************************************************************)
EXTENDS Integers, Sequences, FiniteSets, FiniteSetsExt

CONSTANTS
  None,
  Capacity,       \* rows of a cache
  LeastExtent,    \* 512: extents are powers of two from it on
  CompiledChunk,  \* 128: short chunks are padded to it
  CaptureMinimum, \* 16: the least length of a chunk that is captured as it is
  PrefillChunk,   \* how many tokens of a prompt a pass reads
  Storages,       \* addresses of caches
  Prompts,        \* of a conversation's turns
  AnswerTokens,   \* what the model may answer
  MaxTurns, MaxAnswer

NpuMirrorAssumption ==
  /\ CompiledChunk \in 1..Capacity /\ PrefillChunk \in Nat \ {0} /\ LeastExtent \in 1..Capacity
  /\ \A p \in Prompts : Len(p.tokens) \in 1..Capacity /\ p.image \in BOOLEAN /\ p.captured \in BOOLEAN
  /\ Cardinality(Storages) > 2

Rows == 1..Capacity
Padding == 0
Uses == {"decode", "prefill"}

VARIABLES
  state,      \* Gemma4State: [storage, position, tokens, prefilling, image, firm], or None; for each
              \* use, firm rows were written before anything that the copies do not notice
  rows,       \* what the CPU's cache of the state holds
  request,    \* the prompt that is read, or None
  answered,   \* tokens of the answer that were decoded
  turn,
  replay,     \* for each use: the captured step or executable, or None
  key,        \* npu_decode_key, npu_prefill_key
  last        \* the last step of an executable: the rows of its copy that are not the cache's,
              \* those of them that padding wrote, and how many rows were firm

vars == <<state, rows, request, answered, turn, replay, key, last>>

Smaller(a, b) == IF a < b THEN a ELSE b
\* An executable that waits for its first step has bound no cache.
Captured(k, n, storage) ==
  [key |-> k, captures |-> n, compiled |-> FALSE, bound |-> storage, synced_storage |-> None, synced |-> 0,
   rows |-> [r \in Rows |-> <<>>]]
NoStep == [stale |-> {}, padding |-> {}, firm |-> 0]

Init ==
  /\ state = None /\ rows = [r \in Rows |-> <<>>] /\ request = None /\ answered = 0 /\ turn = 0
  /\ replay = [u \in Uses |-> None] /\ key = [u \in Uses |-> None] /\ last = NoStep

-----------------------------------------------------------------------------
(* Executables. *)
PowerOfTwo(n) == \E e \in 0..n : n = 2^e
KeyExtent(required) ==
  Smaller(Capacity, Min({n \in 1..(2 * Capacity) : PowerOfTwo(n) /\ n >= required /\ n >= LeastExtent}))

RowsOf(tokens, position, length) ==
  [r \in Rows |-> IF r > position /\ r <= position + length THEN SubSeq(tokens, 1, r) ELSE <<>>]
Written(old, new, position, length) ==
  [r \in Rows |-> IF r > position /\ r <= position + length THEN new[r] ELSE old[r]]

SynchronizedOnce(e, position) ==
  LET from == IF position < e.synced THEN 0 ELSE e.synced
  IN [e EXCEPT !.bound = state.storage, !.synced_storage = state.storage,
               !.synced = IF from >= position THEN from ELSE position,
               !.rows = [r \in Rows |-> IF from < r /\ r <= position THEN rows[r] ELSE @[r]]]
Synchronized(e, position) ==
  LET from == IF state.storage /= e.synced_storage \/ position < e.synced THEN 0 ELSE e.synced
  IN [e EXCEPT !.bound = state.storage, !.synced_storage = state.storage,
               !.synced = IF from >= position THEN from ELSE position,
               !.rows = [r \in Rows |-> IF from < r /\ r <= position THEN rows[r] ELSE @[r]]]
\* The rows of the step go to the copy and to the CPU's cache.
Collected(e, new, position, length) ==
  [e EXCEPT !.rows = Written(@, new, position, length),
            !.synced = IF @ = position THEN position + length ELSE @]

Stale(e, position) == {r \in 1..position : e.rows[r] /= rows[r]}
IsPadding(row) == row /= <<>> /\ row[Len(row)] = Padding

\* A step of these lengths: captured at first, then replayed by the CPU until an executable is there.
Step(use, k, tokens, position, length, kept) ==
  LET new == RowsOf(tokens, position, length)
      e == IF key[use] = k /\ kept[use] /= None THEN kept[use] ELSE Captured(k, 0, state.storage)
  IN /\ rows' = Written(rows, new, position, length)
     /\ key' = [key EXCEPT ![use] = k]
     /\ \/ /\ e.compiled
           /\ replay' = [kept EXCEPT ![use] = Collected(Synchronized(e, position), new, position, length)]
           /\ \E stale \in {Stale(Synchronized(e, position), position)} :
                last' = [stale |-> stale, firm |-> state.firm[use],
                         padding |-> {r \in stale : IsPadding(Synchronized(e, position).rows[r])}]
        \/ /\ ~e.compiled
           /\ replay' = [kept EXCEPT ![use] = [e EXCEPT !.captures = Smaller(2, @ + 1), !.bound = state.storage]]
           /\ UNCHANGED last

\* Decoding is captured twice before it is compiled, on a thread of its own or at once.
Compiles(use) ==
  /\ replay[use] /= None /\ ~replay[use].compiled
  /\ replay[use].captures >= (IF use = "decode" THEN 2 ELSE 1)
  /\ replay' = [replay EXCEPT ![use].compiled = TRUE]
  /\ UNCHANGED <<state, rows, request, answered, turn, key, last>>

-----------------------------------------------------------------------------
(* Conversations. *)
CommonPrefix(s, t, limit) == Max({n \in 0..limit : SubSeq(s, 1, n) = SubSeq(t, 1, n)})
Resumes(p) == state /= None /\ state.image = p.image
AnyStorage == Storages
\* No executable or captured step refers to these: they may be allocated again.
Free == Storages \ {replay[u].bound : u \in {v \in Uses : replay[v] /= None}}

Turn(p) ==
  /\ request = None /\ turn < MaxTurns
  /\ turn' = turn + 1 /\ request' = p /\ answered' = 0
  /\ \/ /\ Resumes(p)
        /\ \E common \in {CommonPrefix(state.tokens, p.tokens, Smaller(Len(state.tokens), Len(p.tokens) - 1))} :
             state' = [state EXCEPT !.position = common, !.tokens = SubSeq(@, 1, common),
                                    !.firm = IF common = Len(state.tokens) THEN @ ELSE [u \in Uses |-> Smaller(@[u], common)]]
        /\ UNCHANGED rows
     \/ /\ ~Resumes(p)
        /\ \E s \in Free :
             state' = [storage |-> s, position |-> 0, tokens |-> <<>>, prefilling |-> TRUE, image |-> p.image,
                       firm |-> [u \in Uses |-> Capacity]]
        /\ rows' = [r \in Rows |-> <<>>]
  /\ UNCHANGED <<replay, key, last>>

Remaining == Len(request.tokens) - state.position
\* The last token of a prompt is left to a decoding step.
PassLength == IF Remaining <= PrefillChunk THEN Remaining - 1 ELSE PrefillChunk
Reading == request /= None /\ state.position < Len(request.tokens)
Read(n) == SubSeq(request.tokens, 1, state.position + n)

Exact(n) == PowerOfTwo(n) /\ n >= CaptureMinimum
Padded(n) == ~Exact(n) /\ n < CompiledChunk /\ state.position + CompiledChunk <= Capacity
CapturesPrefill == request.image \/ request.captured

PrefillPass ==
  /\ Reading /\ PassLength > 0
  /\ state' = [state EXCEPT !.position = @ + PassLength, !.tokens = Read(PassLength)]
  /\ \/ \E length \in {IF Padded(PassLength) THEN CompiledChunk ELSE PassLength} :
          /\ CapturesPrefill /\ (Exact(PassLength) \/ Padded(PassLength))
          /\ Step("prefill", <<length, KeyExtent(state.position + length), request.image>>,
                  Read(PassLength) \o [i \in 1..(length - PassLength) |-> Padding], state.position, length, replay)
     \/ /\ ~(CapturesPrefill /\ (Exact(PassLength) \/ Padded(PassLength)))
        /\ rows' = Written(rows, RowsOf(Read(PassLength), state.position, PassLength), state.position, PassLength)
        /\ UNCHANGED <<replay, key, last>>
  /\ UNCHANGED <<request, answered, turn>>

\* The first step that decodes gives up the executable that read the prompt.
GivesUp == state.prefilling /\ ~state.image
KeepsAll == replay
KeptForDecoding == IF GivesUp THEN [replay EXCEPT !["prefill"] = None] ELSE replay

Decoded(token, firm) ==
  [state EXCEPT !.position = @ + 1, !.tokens = Append(@, token), !.prefilling = FALSE, !.firm.prefill = Smaller(@, firm)]
Decode(token) ==
  /\ state' = Decoded(token, IF GivesUp THEN Capacity ELSE state.position)
  /\ Step("decode", <<1, KeyExtent(state.position + 1)>>, Append(state.tokens, token), state.position, 1,
          KeptForDecoding)
\* Several requests decode at once: nothing is captured.
DecodeTogether(token) ==
  /\ state' = Decoded(token, state.position)
  /\ rows' = Written(rows, RowsOf(Append(state.tokens, token), state.position, 1), state.position, 1)
  /\ UNCHANGED <<replay, key, last>>

EndsPrompt ==
  /\ Reading /\ Remaining = 1
  /\ Decode(request.tokens[Len(request.tokens)])
  /\ UNCHANGED <<request, answered, turn>>
Answers(token) ==
  /\ request /= None /\ ~Reading /\ answered < MaxAnswer /\ state.position < Capacity
  /\ (Decode(token) \/ DecodeTogether(token))
  /\ answered' = answered + 1 /\ UNCHANGED <<request, turn>>
Ends ==
  /\ request /= None /\ ~Reading
  /\ request' = None /\ UNCHANGED <<state, rows, answered, turn, replay, key, last>>
\* The cache of the conversation is given up: another request, or one that keeps nothing.
Forgets ==
  /\ request = None /\ state /= None
  /\ state' = None /\ UNCHANGED <<rows, request, answered, turn, replay, key, last>>

Next ==
  \/ \E p \in Prompts : Turn(p)
  \/ PrefillPass \/ EndsPrompt \/ Ends \/ Forgets
  \/ \E t \in AnswerTokens : Answers(t)
  \/ \E u \in Uses : Compiles(u)

Spec == Init /\ [][Next]_vars

-----------------------------------------------------------------------------
(* gemma4.cpp, prefill_impl: "Padded rows follow every real row, so causal attention never reads *)
(* them, and later steps overwrite those cache positions": no executable reads rows that padding *)
(* wrote. *)
PaddingIsNeverRead == last.padding = {}

(* What does hold: an executable that decodes reads the cache up to where the conversation went *)
(* back to, and one that reads prompts up to where the conversation first decoded, whichever steps *)
(* ran on the CPU in between, whatever was compiled when, and whether or not an address was used *)
(* again. *)
MirrorsAreFresh == \A r \in last.stale : r > last.firm
=============================================================================
