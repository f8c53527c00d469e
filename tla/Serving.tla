------------------------------ MODULE Serving ------------------------------
(***************************************************************************)
(* The serving queue of inference::Generator (generator.cpp): requests are *)
(* enqueued, admitted first in first out under a slot limit and a budget   *)
(* of KV cache tokens, prefilled chunk by chunk and decoded token by token *)
(* until they complete, are cancelled, or a model call fails.              *)
(*                                                                         *)
(* The queue is confined to one thread.  An API call that changes state is *)
(* one action, except step(), which is the sequence of phases that pc      *)
(* names: other calls are possible only at pc = "idle", a model call may   *)
(* fail in every other phase, and the device finishes queued readbacks at  *)
(* any time.                                                               *)
(***************************************************************************)
EXTENDS Integers, Sequences, FiniteSets

CONSTANTS
  Kinds,            \* what callers may submit: prompt, limits and options
  Settings,         \* the ServingOptions callers may configure
  IdLimit,          \* next_request_id_ stops here (2^64 - 1 in the code)
  Tokens,           \* the vocabulary
  Stops,            \* end_id and stop_ids
  Pad,              \* pad_id
  Select(_),        \* the model: the token selected after these KV contents
  DeviceTokens,     \* the model chains token tensors on the device
  DeferredDevice,   \* the host reads device memory only between calls
  DefaultAhead,     \* the device policy's decode_ahead_tokens
  Bucket,           \* rounding of a compact reservation (128)
  ByteCacheTokens,  \* the backend's int8_cache_tokens
  SizeLimit         \* number of values of std::size_t

Ids == 1 .. IdLimit - 1

\* What one request asks for.  "cache" is prefix_cache_bytes in units of one
\* token's KV bytes and "policy" stands for what must agree for KV reuse
\* besides tokens: the image key and crop_local_attention.
KindType ==
  [prompt : Seq(Tokens) \ {<<>>}, maximum : Nat \ {0}, context : Nat,
   chunk : Nat \ {0}, cache : Nat, policy : STRING, ignoreEos : BOOLEAN]

SettingType ==
  [maximumActive : Nat, maximumRequests : Nat, budget : Nat, chunk : Nat,
   compact : BOOLEAN, deferred : BOOLEAN, ahead : Nat]

ASSUME KindsAssumption == Kinds \subseteq KindType
ASSUME SettingsAssumption ==
  /\ Settings \subseteq SettingType
  /\ \A s \in Settings : s.budget < SizeLimit
ASSUME TokensAssumption ==
  /\ Stops \subseteq Tokens
  /\ Pad \in Tokens
ASSUME LimitsAssumption ==
  /\ IdLimit \in Nat \ {0}
  /\ Bucket \in Nat \ {0}
  /\ ByteCacheTokens \in Nat
  /\ DefaultAhead \in Nat
  /\ SizeLimit \in Nat
  /\ DeviceTokens \in BOOLEAN
  /\ DeferredDevice \in BOOLEAN
  /\ \A k \in Kinds : k.context < SizeLimit

None == [absent |-> TRUE]  \* std::nullopt

VARIABLES
  serving,        \* serving_: None or the configured setting
  failed,         \* serving_failed_
  waiting,        \* waiting_: ids in arrival order
  running,        \* running_: ids; the vector holds them in increasing order
  retired,        \* retired_: cancelled ids whose readbacks are in flight
  reserved,       \* reserved_cache_tokens_
  nextId,         \* next_request_id_
  prefillAfter,   \* prefill_after_
  pending,        \* pending_tokens_: deferred selections of the last step
  servingPrefix,  \* serving_prefix_
  task,           \* per id: the request as enqueued
  kv,             \* per id: KV contents; state->position is their length
  search,         \* per id: GreedyState
  decode,         \* per id: DeviceDecode
  emitted,        \* ids with completion_emitted
  pc,             \* phase of step()
  batch,          \* selected tokens that this phase of step() accepts
  decoded,        \* this step() submitted a decode (count > 0)
  skipped,        \* history: the last step() left ready rows undecoded
  blocking,       \* None or the serving_ that generate() will restore
  cancelled,      \* history: ids cancelled by the caller
  events,         \* per id, the completions that this step() will return
  answers         \* history: per id, the completions returned to the caller

config   == <<serving, failed, blocking>>
arrivals == <<waiting, nextId, task>>
slots    == <<running, retired, reserved>>
caches   == <<kv, search, decode>>
results  == <<events, emitted, servingPrefix>>
locals   == <<batch, decoded, skipped>>
others   == <<prefillAfter, pending, cancelled, answers>>
vars     == <<config, arrivals, slots, caches, results, pc, locals, others>>

----------------------------------------------------------------------------
NoSearch == [steps |-> 0, token |-> Pad, finished |-> FALSE, ids |-> <<>>]
NoDecode == [on |-> FALSE, token |-> Pad, pending |-> <<>>, ready |-> 0,
             submitted |-> 0, logical |-> 0]
NoEvents == [id \in Ids |-> <<>>]

\* A token that a model call selected for a request.  A call that selects
\* none of the vocabulary fails.
Selection == [id : Ids, token : Tokens]

Min2(a, b) == IF a <= b THEN a ELSE b
Max2(a, b) == IF a >= b THEN a ELSE b

\* Unsigned subtraction wraps.
Minus(a, b) == IF b <= a THEN a - b ELSE a - b + SizeLimit

\* The cache tokens a set of requests holds: the sum of their capacities,
\* counted as the cells <<id, token slot>> of their KV caches.
Cells(S) == UNION {{id} \X (1 .. task[id].capacity) : id \in S}
Reservation(S) == Cardinality(Cells(S))

PendingRequests == Len(waiting) + Cardinality(running)

\* The rounding of a compact reservation: prompt plus output in buckets, on
\* the same side of the backend's byte-cache threshold as the full context.
RoundUp(n) == n + ((Bucket - (n % Bucket)) % Bucket)
OutputCapacity(k, compact) ==  \* mutant: the prompt is not counted
  LET required == IF k.context > ByteCacheTokens
                  THEN Max2(k.maximum, ByteCacheTokens + 1) ELSE k.maximum
  IN  IF compact THEN Min2(k.context, RoundUp(required)) ELSE k.context

RequestCapacity(k, compact) ==
  LET fits     == Len(k.prompt) + k.maximum
      required == IF k.context > ByteCacheTokens
                  THEN Max2(fits, ByteCacheTokens + 1) ELSE fits
  IN  IF compact THEN Min2(k.context, RoundUp(required)) ELSE k.context

Task(k, compact) ==
  [prompt |-> k.prompt, maximum |-> k.maximum, chunk |-> k.chunk,
   cache |-> k.cache, policy |-> k.policy, ignoreEos |-> k.ignoreEos,
   capacity |-> RequestCapacity(k, compact)]

\* GreedyState::accept of a preselected token.
Accepted(s, token, t) ==
  LET ended == ~t.ignoreEos /\ token \in Stops
      kept  == ~ended /\ (t.ignoreEos \/ token # Pad)
  IN  [steps    |-> s.steps + 1,
       token    |-> token,
       finished |-> ended \/ s.steps + 1 = t.maximum,
       ids      |-> IF kept THEN Append(s.ids, token) ELSE s.ids]

EffectiveChunk(t, setting) == Min2(t.chunk, setting.chunk)

\* retain_serving_prefix: what is kept of a request with these KV contents
\* and output.  Token storage larger than the request's byte budget is freed.
RetainedWithSampled(t, contents, ids) ==  \* mutant: counts the last token
  IF \/ contents = <<>>
     \/ t.capacity > t.cache
     \/ Len(contents) > Len(t.prompt) + Len(ids)
  THEN None
  ELSE [tokens   |-> t.prompt \o ids,
        kv       |-> contents,
        capacity |-> t.capacity,
        chunk    |-> EffectiveChunk(t, serving),
        policy   |-> t.policy]

Retained(t, contents, ids) ==
  IF \/ contents = <<>>
     \/ t.capacity > t.cache
     \/ Len(contents) > Len(t.prompt) + Len(ids)
  THEN None
  ELSE [tokens   |-> SubSeq(t.prompt \o ids, 1, Len(contents)),
        kv       |-> contents,
        capacity |-> t.capacity,
        chunk    |-> EffectiveChunk(t, serving),
        policy   |-> t.policy]

\* Admission reuses the retained KV of a compatible request.
Reusable(t) ==
  /\ servingPrefix # None
  /\ t.cache >= servingPrefix.capacity
  /\ t.policy = servingPrefix.policy
  /\ t.capacity = servingPrefix.capacity
  /\ EffectiveChunk(t, serving) = servingPrefix.chunk

\* The longest identical token prefix that leaves one prompt token over.
CommonLength(tokens, prompt, n) ==  \* mutant: compares no tokens
  n = Min2(Len(tokens), Len(prompt) - 1)

Common(tokens, prompt, n) ==
  LET limit == Min2(Len(tokens), Len(prompt) - 1)
  IN  /\ n \in 0 .. limit
      /\ \A i \in 1 .. n : tokens[i] = prompt[i]
      /\ n < limit => tokens[n + 1] # prompt[n + 1]

\* A readback is ready when the device has finished it; work finishes in
\* order, so the last one is ready when all are.
FirstDrained(id) ==  \* mutant: asks the first readback, not the last one
  decode[id].pending # <<>> => decode[id].ready > 0

Drained(id) == decode[id].ready = Len(decode[id].pending)

\* Their reservations are given back.
KeepReservation(S) == UNCHANGED reserved  \* mutant: nothing is given back

Release(S) == reserved' = Minus(reserved, Reservation(S))

\* Requests destroyed in this call keep nothing.
Forget(S) ==
  /\ kv' = [id \in Ids |-> IF id \in S THEN <<>> ELSE kv[id]]
  /\ search' = [id \in Ids |-> IF id \in S THEN NoSearch ELSE search[id]]
  /\ decode' = [id \in Ids |-> IF id \in S THEN NoDecode ELSE decode[id]]

\* reap_retired
ReapRetired ==
  LET reaped == {id \in retired : Drained(id)}
  IN  /\ retired' = retired \ reaped
      /\ Release(reaped)
      /\ Forget(reaped)

----------------------------------------------------------------------------
(* Calls of the API between steps.                                          *)

Idle == pc = "idle" /\ blocking = None

ValidSetting(s) ==
  /\ s.maximumActive \in 1 .. 16
  /\ s.maximumRequests >= s.maximumActive
  /\ s.budget > 0
  /\ s.chunk > 0
  /\ s.ahead <= 64
  /\ DeferredDevice => s.deferred

WithAhead(s) == IF s.ahead = 0 THEN [s EXCEPT !.ahead = DefaultAhead] ELSE s

\* configure_serving reaps first, whether or not it then rejects the call.
ConfigureServing(s) ==
  /\ Idle
  /\ ReapRetired
  /\ IF /\ PendingRequests = 0
        /\ retired' = {}
        /\ ~failed
        /\ ValidSetting(WithAhead(s))
     THEN serving' = WithAhead(s) /\ servingPrefix' = None
     ELSE UNCHANGED <<serving, servingPrefix>>
  /\ UNCHANGED <<arrivals, locals, others, failed, blocking, running, events,
                 emitted, pc>>

\* The checks of enqueue() under the setting it will be served with.
Admissible(k, setting) ==
  /\ k.context \in 1 .. setting.budget
  /\ Len(k.prompt) < k.context
  /\ k.maximum <= k.context - Len(k.prompt)
  /\ nextId < IdLimit

PushTwice(k, setting) ==  \* mutant: the id is advanced twice
  /\ task' = [task EXCEPT ![nextId] = Task(k, setting.compact)]
  /\ waiting' = Append(waiting, nextId)
  /\ nextId' = nextId + 2

PushFront(k, setting) ==  \* mutant: the newest request goes first
  /\ task' = [task EXCEPT ![nextId] = Task(k, setting.compact)]
  /\ waiting' = <<nextId>> \o waiting
  /\ nextId' = nextId + 1

Push(k, setting) ==
  /\ task' = [task EXCEPT ![nextId] = Task(k, setting.compact)]
  /\ waiting' = Append(waiting, nextId)
  /\ nextId' = nextId + 1

Enqueue(k) ==
  /\ Idle
  /\ serving # None
  /\ ~failed
  /\ PendingRequests < serving.maximumRequests
  /\ Admissible(k, serving)
  /\ Push(k, serving)
  /\ UNCHANGED <<config, slots, caches, results, locals, others, pc>>

CancelWaiting(id) ==
  /\ Idle
  /\ \E i \in 1 .. Len(waiting) :
       /\ waiting[i] = id
       /\ waiting' = SubSeq(waiting, 1, i - 1)
                     \o SubSeq(waiting, i + 1, Len(waiting))
  /\ cancelled' = cancelled \cup {id}
  /\ UNCHANGED <<config, slots, caches, results, locals, nextId, task, pc,
                 prefillAfter, pending, answers>>

\* A request whose readbacks are in flight keeps its reservation until the
\* device is done with its cache; any other one gives it up at once.
CancelRunning(id) ==
  /\ Idle
  /\ id \in running
  /\ running' = running \ {id}
  /\ IF decode[id].pending # <<>>
     THEN /\ retired' = retired \cup {id}
          /\ UNCHANGED <<caches, reserved, servingPrefix>>
     ELSE /\ Release({id})
          /\ servingPrefix' = Retained(task[id], kv[id], search[id].ids)
          /\ Forget({id})
          /\ UNCHANGED retired
  /\ cancelled' = cancelled \cup {id}
  /\ UNCHANGED <<config, arrivals, locals, events, emitted, pc, prefillAfter,
                 pending, answers>>

\* release_workspaces synchronizes with the device before it frees anything.
ReleaseWorkspaces ==
  /\ Idle
  /\ PendingRequests = 0
  /\ retired' = {}
  /\ reserved' = 0
  /\ Forget(retired)
  /\ UNCHANGED <<config, arrivals, results, locals, others, running, pc>>

\* The serial path of generate(), and generate_batch(): they only discard
\* the retained prefix; their own work is not queued.
GenerateSerially ==
  /\ Idle
  /\ ~DeferredDevice
  /\ PendingRequests = 0
  /\ ~failed
  /\ servingPrefix' = None
  /\ UNCHANGED <<config, arrivals, slots, caches, locals, others, events,
                 emitted, pc>>

AheadSetting(k) ==
  [maximumActive |-> 1, maximumRequests |-> 1, budget |-> k.context,
   chunk |-> k.chunk, compact |-> FALSE, deferred |-> FALSE,
   ahead |-> IF serving = None THEN DefaultAhead ELSE serving.ahead]

\* generate() on a device that chains tokens: it borrows the serving queue
\* for one request and restores the caller's setting when it returns, also
\* when configuring or enqueueing is rejected.
GenerateAhead(k) ==
  LET setting == AheadSetting(k)
  IN  /\ Idle
      /\ ~DeferredDevice
      /\ PendingRequests = 0
      /\ ~failed
      /\ setting.ahead > 1
      /\ k.cache = 0
      /\ DeviceTokens
      /\ servingPrefix' = None
      /\ ReapRetired
      /\ IF /\ retired' = {}
            /\ ValidSetting(setting)
            /\ Admissible(k, setting)
         THEN /\ Push(k, setting)
              /\ serving' = setting
              /\ blocking' = [previous |-> serving]
         ELSE UNCHANGED <<task, waiting, nextId, serving, blocking>>
      /\ UNCHANGED <<locals, others, failed, running, events, emitted, pc>>

\* The loop of generate() ends when its request is gone.
GenerateReturns ==
  /\ pc = "idle"
  /\ blocking # None
  /\ PendingRequests = 0
  /\ serving' = blocking.previous
  /\ blocking' = None
  /\ UNCHANGED <<arrivals, slots, caches, results, locals, others, failed,
                 pc>>

----------------------------------------------------------------------------
(* step()                                                                   *)

Goto(phase) == pc' = phase

StepBegin ==
  /\ pc = "idle"
  /\ serving # None
  /\ ~failed
  /\ ReapRetired
  /\ decoded' = FALSE
  /\ Goto("admit1")
  /\ UNCHANGED <<config, arrivals, results, others, running, batch, skipped>>

AdmitToSlot ==  \* mutant: observes slots, not the budget
  waiting # <<>> /\ Cardinality(running) < serving.maximumActive

CanAdmit ==
  /\ waiting # <<>>
  /\ Cardinality(running) < serving.maximumActive
  /\ task[Head(waiting)].capacity <= Minus(serving.budget, reserved)

Admitting == pc \in {"admit1", "admit2", "admit3"}

\* One turn of the loop in admit.
Admit ==
  LET id == Head(waiting)
  IN  /\ Admitting
      /\ CanAdmit
      /\ IF Reusable(task[id])
         THEN \E n \in 0 .. Len(task[id].prompt) :
                /\ Common(servingPrefix.tokens, task[id].prompt, n)
                /\ kv' = [kv EXCEPT ![id] = SubSeq(servingPrefix.kv, 1, n)]
         ELSE UNCHANGED kv
      /\ servingPrefix' = None
      /\ running' = running \cup {id}
      /\ reserved' = reserved + task[id].capacity
      /\ waiting' = Tail(waiting)
      /\ UNCHANGED <<config, locals, others, nextId, task, retired, search,
                     decode, events, emitted, pc>>

\* The tokens deferred by the last step are taken once.
CopyPending == batch' = pending /\ UNCHANGED pending  \* mutant: kept as well

TakePending == batch' = pending /\ pending' = {}

\* After the loop: the first admit is followed by accepting the tokens
\* deferred by the last step, the second by decoding, the third by prefill.
AdmitDone ==
  /\ Admitting
  /\ ~CanAdmit
  /\ IF pc = "admit1"
     THEN TakePending
     ELSE UNCHANGED <<batch, pending>>
  /\ Goto(CASE pc = "admit1" -> "accept1"
            [] pc = "admit2" -> "decode"
            [] pc = "admit3" -> "prefill")
  /\ UNCHANGED <<config, arrivals, slots, caches, results, decoded, skipped,
                 prefillAfter, cancelled, answers>>

\* complete: the step will return the result, and the KV contents that the
\* accepted tokens cover are retained.
Complete(id, result, contents) ==
  /\ events' = [events EXCEPT ![id] = Append(@, result.ids)]
  /\ emitted' = emitted \cup {id}
  /\ servingPrefix' = Retained(task[id], contents, result.ids)

Accepting == pc \in {"accept1", "accept2", "accept3"}

\* A selection counts while its request is still served.
AnyRequest(id) == TRUE  \* mutant: also after it was cancelled

Served(id) == id \in running

\* accept the next selected token, rows in increasing order.  A token whose
\* request was cancelled meanwhile is dropped.
Accept ==
  /\ Accepting
  /\ \E e \in batch :
       LET id == e.id
           s  == Accepted(search[id], e.token, task[id])
       IN  /\ \A other \in batch : id <= other.id
           /\ batch' = batch \ {e}
           /\ IF Served(id)
              THEN /\ ~search[id].finished
                   /\ search' = [search EXCEPT ![id] = s]
                   /\ IF s.finished
                      THEN Complete(id, s, kv[id])
                      ELSE UNCHANGED results
              ELSE UNCHANGED <<results, search>>
  /\ UNCHANGED <<config, arrivals, slots, others, kv, decode, pc, decoded,
                 skipped>>

\* retire after each round of accepting; the last one ends the step, which
\* returns its events.
Retire ==
  LET done == running \cap emitted
  IN  /\ Accepting
      /\ batch = {}
      /\ running' = running \ done
      /\ emitted' = emitted \ done
      /\ Release(done)
      /\ Forget(done)
      /\ Goto(CASE pc = "accept1" -> "admit2"
                [] pc = "accept2" -> "admit3"
                [] pc = "accept3" -> "idle")
      /\ IF pc = "accept3"
         THEN /\ answers' = [id \in Ids |-> answers[id] \o events[id]]
              /\ events' = NoEvents
         ELSE UNCHANGED <<answers, events>>
      /\ UNCHANGED <<config, arrivals, locals, retired, servingPrefix,
                     prefillAfter, pending, cancelled>>

\* next_prefill: round robin over the requests that have no token yet.
Unprefilled == {id \in running : search[id].steps = 0}
PrefillAfter(id) ==  \* mutant: never wraps around
  LET later == {c \in Unprefilled : c > prefillAfter}
  IN  id \in later /\ \A c \in later : id <= c

NextPrefill(id) ==
  LET later == {c \in Unprefilled : c > prefillAfter}
  IN  /\ id \in Unprefilled
      /\ later # {} => id \in later
      /\ \A c \in IF later # {} THEN later ELSE Unprefilled : id <= c

ChunkLength(id) ==
  Min2(Len(task[id].prompt) - Len(kv[id]), EffectiveChunk(task[id], serving))
FinalChunk(id) == Len(kv[id]) + ChunkLength(id) = Len(task[id].prompt)

\* A deferred step reports one selection, so a final chunk takes the step.
PrefillSelects ==
  serving.deferred /\ \E id \in Unprefilled : NextPrefill(id) /\ FinalChunk(id)

Ready == {id \in running : search[id].steps > 0 /\ id \notin emitted}
DecodeRows == IF PrefillSelects THEN {} ELSE Ready

Chained ==
  /\ serving.maximumActive = 1
  /\ ~serving.deferred
  /\ serving.ahead > 1
  /\ DeviceTokens

NoDecodeRows ==
  /\ pc = "decode"
  /\ DecodeRows = {}
  /\ skipped' = (Ready # {})
  /\ Goto("accept2")
  /\ UNCHANGED <<config, arrivals, slots, caches, results, others, batch,
                 decoded>>

\* One packed model call over all ready rows: each row's last token enters
\* its KV cache and a new token is selected.  Its selection is accepted in
\* this step, or left for the next one when tokens are deferred.
DecodeBatch ==
  LET rows     == DecodeRows
      contents == [id \in Ids |-> IF id \in rows
                                  THEN Append(kv[id], search[id].token)
                                  ELSE kv[id]]
      selected == {[id |-> id, token |-> Select(contents[id])] : id \in rows}
  IN  /\ pc = "decode"
      /\ rows # {}
      /\ ~Chained
      /\ selected \subseteq Selection
      /\ kv' = contents
      /\ decoded' = TRUE
      /\ skipped' = FALSE
      /\ IF serving.deferred
         THEN pending' = pending \cup selected /\ UNCHANGED batch
         ELSE batch' = selected /\ UNCHANGED pending
      /\ Goto("accept2")
      /\ UNCHANGED <<config, arrivals, slots, results, search, decode,
                     prefillAfter, cancelled, answers>>

\* DeviceDecode starts from the token the prefill selected.
DecodeFromPad(id) ==  \* mutant: the first token is not uploaded
  [on |-> TRUE, token |-> Pad, pending |-> <<>>, ready |-> 0,
   submitted |-> search[id].steps, logical |-> Len(kv[id])]

DecodeFrom(id) ==
  [on |-> TRUE, token |-> search[id].token, pending |-> <<>>, ready |-> 0,
   submitted |-> search[id].steps, logical |-> Len(kv[id])]

\* Decode ahead of the host: the selected token stays on the device and is
\* fed to the next step while its readback is in flight.  Readbacks are
\* polled at most every 50 microseconds, so a step may skip the poll.
AheadBegin ==
  /\ pc = "decode"
  /\ Chained
  /\ \E id \in DecodeRows :
       decode' = IF decode[id].on THEN decode
                 ELSE [decode EXCEPT ![id] = DecodeFrom(id)]
  /\ \/ Goto("poll")
     \/ Goto("polled")
  /\ UNCHANGED <<config, arrivals, slots, results, locals, others, kv,
                 search>>

\* A readback that arrives after the end of the text is dropped.
AheadPoll ==
  /\ pc = "poll"
  /\ \E id \in running :
       LET d == decode[id]
           r == Head(d.pending)
           s == Accepted(search[id], r.token, task[id])
       IN  /\ d.ready > 0
           /\ IF search[id].finished
              THEN /\ decode' = [decode EXCEPT
                        ![id] = [d EXCEPT !.pending = Tail(@), !.ready = @ - 1]]
                   /\ UNCHANGED <<results, search>>
              ELSE /\ decode' = [decode EXCEPT
                        ![id] = [d EXCEPT !.pending = Tail(@), !.ready = @ - 1,
                                          !.logical = r.position]]
                   /\ search' = [search EXCEPT ![id] = s]
                   /\ IF s.finished /\ Tail(d.pending) = <<>>
                      THEN Complete(id, s, SubSeq(kv[id], 1, r.position))
                      ELSE UNCHANGED results
  /\ UNCHANGED <<config, arrivals, slots, locals, others, kv, pc>>

AheadPollDone ==
  /\ pc = "poll"
  /\ \A id \in running : decode[id].ready = 0
  /\ Goto("polled")
  /\ UNCHANGED <<config, arrivals, slots, caches, results, locals, others>>

NeverSettles(id) == FALSE  \* mutant: completes only while accepting

Settles(id) ==
  /\ search[id].finished
  /\ decode[id].pending = <<>>
  /\ id \notin emitted

\* A request that ended with readbacks in flight completes when they are
\* drained, at the position of the last token it published.
AheadSettle ==
  /\ pc = "polled"
  /\ \E id \in running :
       IF Settles(id)
       THEN Complete(id, search[id], SubSeq(kv[id], 1, decode[id].logical))
       ELSE UNCHANGED results
  /\ Goto("submit")
  /\ UNCHANGED <<config, arrivals, slots, caches, locals, others>>

CanSubmitMore(id) ==  \* mutant: forgets the limit of the request
  ~search[id].finished /\ Len(decode[id].pending) < serving.ahead

CanSubmit(id) ==
  /\ ~search[id].finished
  /\ Len(decode[id].pending) < serving.ahead
  /\ decode[id].submitted < task[id].maximum

AheadSubmit ==
  /\ pc = "submit"
  /\ \E id \in running :
       LET contents == Append(kv[id], decode[id].token)
           token    == Select(contents)
       IN  /\ CanSubmit(id)
           /\ token \in Tokens
           /\ kv' = [kv EXCEPT ![id] = contents]
           /\ decode' = [decode EXCEPT
                ![id].token = token,
                ![id].pending =
                  Append(@, [token |-> token, position |-> Len(contents)]),
                ![id].submitted = @ + 1]
  /\ UNCHANGED <<config, arrivals, slots, results, locals, others, search,
                 pc>>

AheadDone ==
  /\ pc = "submit"
  /\ \A id \in running : ~CanSubmit(id)
  /\ Goto("accept2")
  /\ UNCHANGED <<config, arrivals, slots, caches, results, locals, others>>

AnySelection(id) ==  \* mutant: also when nothing was decoded
  serving.deferred /\ FinalChunk(id)

SecondSelection(id) == serving.deferred /\ decoded /\ FinalChunk(id)

NoPrefill ==
  /\ pc = "prefill"
  /\ \A id \in Unprefilled : NextPrefill(id) => SecondSelection(id)
  /\ Goto("accept3")
  /\ UNCHANGED <<config, arrivals, slots, caches, results, locals, others>>

\* One bounded chunk of one prompt; the final chunk selects the first token.
Prefill ==
  /\ pc = "prefill"
  /\ \E id \in Unprefilled :
       LET prompt   == task[id].prompt
           end      == Len(kv[id]) + ChunkLength(id)
           contents == kv[id] \o SubSeq(prompt, Len(kv[id]) + 1, end)
           selected == {[id |-> id, token |-> Select(contents)]}
       IN  /\ NextPrefill(id)
           /\ ~SecondSelection(id)
           /\ selected \subseteq Selection
           /\ prefillAfter' = id
           /\ kv' = [kv EXCEPT ![id] = contents]
           /\ CASE FinalChunk(id) /\ serving.deferred ->
                     pending' = pending \cup selected /\ UNCHANGED batch
                [] FinalChunk(id) /\ ~serving.deferred ->
                     batch' = selected /\ UNCHANGED pending
                [] ~FinalChunk(id) -> UNCHANGED <<batch, pending>>
  /\ Goto("accept3")
  /\ UNCHANGED <<config, arrivals, slots, results, search, decode, decoded,
                 skipped, cancelled, answers>>

\* Any model or tokenizer call in step() may fail: everything but the
\* retired requests is dropped, the events of this step too, and the queue
\* serves nothing any more.  A blocking generate() restores its caller's
\* setting on the way out.
Fail ==
  /\ pc # "idle"
  /\ failed' = TRUE
  /\ servingPrefix' = None
  /\ waiting' = <<>>
  /\ running' = {}
  /\ pending' = {}
  /\ reserved' = 0
  /\ Forget(running)
  /\ emitted' = {}
  /\ events' = NoEvents
  /\ batch' = {}
  /\ serving' = IF blocking = None THEN serving ELSE blocking.previous
  /\ blocking' = None
  /\ Goto("idle")
  /\ UNCHANGED <<nextId, task, retired, decoded, skipped, prefillAfter,
                 cancelled, answers>>

----------------------------------------------------------------------------
\* The device finishes the oldest readback in flight of a request.
ReadbackCompletes(id) ==
  /\ decode[id].ready < Len(decode[id].pending)
  /\ decode' = [decode EXCEPT ![id].ready = @ + 1]
  /\ UNCHANGED <<config, arrivals, slots, results, locals, others, kv, search,
                 pc>>

Init ==
  /\ serving = None
  /\ failed = FALSE
  /\ waiting = <<>>
  /\ running = {}
  /\ retired = {}
  /\ reserved = 0
  /\ nextId = 1
  /\ prefillAfter = 0
  /\ pending = {}
  /\ servingPrefix = None
  /\ task = [id \in Ids |-> None]
  /\ kv = [id \in Ids |-> <<>>]
  /\ search = [id \in Ids |-> NoSearch]
  /\ decode = [id \in Ids |-> NoDecode]
  /\ emitted = {}
  /\ pc = "idle"
  /\ batch = {}
  /\ decoded = FALSE
  /\ skipped = FALSE
  /\ blocking = None
  /\ cancelled = {}
  /\ events = NoEvents
  /\ answers = NoEvents

Step ==
  \/ StepBegin
  \/ Admit \/ AdmitDone
  \/ Accept \/ Retire
  \/ NoDecodeRows \/ DecodeBatch
  \/ AheadBegin \/ AheadPoll \/ AheadPollDone \/ AheadSettle
  \/ AheadSubmit \/ AheadDone
  \/ Prefill \/ NoPrefill

Callers ==
  \/ \E s \in Settings : ConfigureServing(s)
  \/ \E k \in Kinds : Enqueue(k) \/ GenerateAhead(k)
  \/ \E id \in Ids : CancelWaiting(id) \/ CancelRunning(id)
  \/ ReleaseWorkspaces
  \/ GenerateSerially
  \/ GenerateReturns

Device == \E id \in Ids : ReadbackCompletes(id)

Next == Step \/ Callers \/ Device \/ Fail

Spec == Init /\ [][Next]_vars

\* Callers run step() as long as requests are pending; time passes between
\* polls; the device finishes what was submitted to it.
Fairness ==
  /\ WF_vars(Step /\ (pc # "idle" \/ PendingRequests > 0))
  /\ SF_vars(AheadBegin /\ pc' = "poll")
  /\ WF_vars(GenerateReturns)
  /\ \A id \in Ids : WF_vars(ReadbackCompletes(id))

FairSpec == Spec /\ Fairness

----------------------------------------------------------------------------
(* Types                                                                    *)

TaskType ==
  [prompt : Seq(Tokens) \ {<<>>}, maximum : Nat \ {0}, chunk : Nat \ {0},
   cache : Nat, policy : STRING, ignoreEos : BOOLEAN, capacity : Nat]

SearchType ==
  [steps : Nat, token : Tokens, finished : BOOLEAN, ids : Seq(Tokens)]

DecodeType ==
  [on : BOOLEAN, token : Tokens,
   pending : Seq([token : Tokens, position : Nat]),
   ready : Nat, submitted : Nat, logical : Nat]

PrefixType ==
  [tokens : Seq(Tokens), kv : Seq(Tokens), capacity : Nat, chunk : Nat,
   policy : STRING]

Phases ==
  {"idle", "admit1", "accept1", "admit2", "decode", "poll", "polled",
   "submit", "accept2", "admit3", "prefill", "accept3"}

\* The variables range over the values of the code's types.
TypeOK ==
  /\ serving \in SettingType \cup {None}
  /\ failed \in BOOLEAN
  /\ waiting \in Seq(Ids)
  /\ running \subseteq Ids
  /\ retired \subseteq Ids
  /\ reserved \in Int
  /\ nextId \in 1 .. IdLimit
  /\ prefillAfter \in 0 .. IdLimit
  /\ pending \subseteq Selection
  /\ servingPrefix \in PrefixType \cup {None}
  /\ task \in [Ids -> TaskType \cup {None}]
  /\ kv \in [Ids -> Seq(Tokens)]
  /\ search \in [Ids -> SearchType]
  /\ decode \in [Ids -> DecodeType]
  /\ emitted \subseteq Ids
  /\ pc \in Phases
  /\ batch \subseteq Selection
  /\ decoded \in BOOLEAN
  /\ skipped \in BOOLEAN
  /\ blocking \in [previous : SettingType \cup {None}] \cup {None}
  /\ cancelled \subseteq Ids
  /\ events \in [Ids -> Seq(Seq(Tokens))]
  /\ answers \in [Ids -> Seq(Seq(Tokens))]

----------------------------------------------------------------------------
(* Properties                                                               *)

Held == running \cup retired

\* The reservation counter equals the capacities of the requests that hold
\* cache storage and never exceeds the configured budget, through admission,
\* completion, cancellation with work in flight and reaping.
BudgetRespected ==
  serving # None /\ ~failed =>
    /\ reserved = Reservation(Held)
    /\ reserved <= serving.budget

\* The one retained prefix fits in what its request gave back: requests and
\* retained storage together never exceed the budget between two calls.
RetainedFits ==
  servingPrefix # None =>
    Reservation(Held \ emitted) + servingPrefix.capacity <= serving.budget

\* No model call writes past the end of a request's KV cache, neither the
\* prefill of a prompt nor decoding ahead of the host.
CacheFits == \A id \in Held : Len(kv[id]) <= task[id].capacity

\* Requests are admitted in the order they arrived: whatever holds a slot
\* came before whatever waits.
NoOvertaking ==
  \A id \in Held : \A i \in 1 .. Len(waiting) : id < waiting[i]

\* ARCHITECTURE.md: the retained prefix "records only tokens actually
\* processed by the model".
PrefixIsProcessed ==
  servingPrefix # None => servingPrefix.tokens = servingPrefix.kv

\* GreedyState::accept rejects a finished search, which fails the queue, so a
\* selection may never be accepted for a request that already ended.
SelectionsAreExpected ==
  \A e \in batch : e.id \in running => ~search[e.id].finished

\* A captured step reuses its output buffers and deferred selections are
\* read one call later, so a step leaves either one packed decode or one
\* prefill selection pending, never both.
OneSelectionPerStep ==
  \A e, f \in pending :
    /\ {e.id, f.id} \subseteq running
    /\ e # f
    => search[e.id].steps > 0 /\ search[f.id].steps > 0

\* The cache storage holds what its accounting says: every cache within its
\* request's capacity, the retained prefix within what is left of the budget,
\* and with exactly the tokens the model processed.
StorageIsSound == CacheFits /\ RetainedFits /\ PrefixIsProcessed

\* A selection that the host accepts is one that a running search waits for.
SelectionsAreSound == SelectionsAreExpected /\ OneSelectionPerStep

\* While readbacks of a request are in flight its cache is neither freed nor
\* handed to another request, except by release_workspaces, which waits for
\* the device, and by a failure, which ends serving.
InFlightIsHeld ==
  [][\A id \in Held : id \notin Held' =>
       \/ decode[id].ready = Len(decode[id].pending)
       \/ failed'
       \/ ReleaseWorkspaces]_vars

\* Every request that enqueue() accepted is answered unless its caller
\* cancels it or serving fails: nothing starves in line, in prefill or in
\* decoding, and no result is lost between the phases of a step.
EveryRequestIsAnswered ==
  \A id \in Ids :
    id < nextId ~> answers[id] # <<>> \/ id \in cancelled \/ failed

\* generator.cpp: "a final prefill chunk takes the step and decoding resumes
\* next call".
DecodingResumes == pc = "decode" /\ skipped /\ Ready # {} => ~PrefillSelects
=============================================================================
