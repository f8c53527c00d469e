# A verification project for kidi

kidi runs text, vision and speech models on CPU, CUDA, Metal, Vulkan, WebGPU and mobile accelerators, from a
C++ library with command-line, desktop, browser and Android hosts and a wireless accessory. This directory models
the stateful parts of it in TLA+, checks small instances with TLC and proves, for every instance, what matters most
of the serving queue, the model store and the accessory with TLAPS. Paths below are relative to the repository.

## Inventory

| Part | Source | State | Operations | Hard behaviour |
| --- | --- | --- | --- | --- |
| Serving queue, greedy search | `src/kidi/inference/generator.{cpp,h}`, `decoder.{cpp,h}` | waiting, running and retired requests, cache-token reservation, one retained KV prefix, deferred selections, device readbacks | `configure_serving`, `enqueue`, `cancel`, `step`, `generate`, `release_workspaces` | cancellation with device work in flight, selections read one call late, decoding ahead of the host, prefix reuse, a failing model call |
| Text model | `src/kidi/model/gemma4.cpp`, conversations and batches of `generator.cpp` | a KV cache of rows per layer, its position, snapshots, retained conversations | `prefill`, `project`, `run_batch`, `fork_state`, `generate`, `chat` | chunks that are captured, padded or cropped; caches that are forked, resumed and shared by layers |
| Accelerator of whole steps | `src/kidi/runtime/qnn/compiler.cpp` | copies of the caches, the row they remember, graphs and their values | partition, lower, synchronize, run, collect | stale copies, rows of padding, values that are needed in another graph |
| CPU worker pool | `src/kidi/runtime/ynn/worker_pool.{cpp,h}` | queue of parallel loops, sleepers, stop flag | `enqueue`, `wait_for`, `worker_main`, destructor | lost wake-ups, nested joins, shutdown |
| Graph session | `src/kidi/graph/*.cpp`, `ops/context.cpp` | captured graphs by key, prepared operators, shared scratch buffers, compiled steps | `run`, `clear`, `set_capacity`, compilation | replaying stale captures, storage used twice, compilers on a detached thread |
| Translation, transcription, synthesis | `src/kidi/inference/{translator,transcriber,synthesizer}.cpp`, `model/whisper.cpp`, `model/omnivoice.cpp`, `platform/wasm/bindings.cpp` | beams, windows, chunks, voices; the browser's sessions | `translate`, `kidi_asr_*`, `kidi_tts_*` | batches of rows that end at different steps, texts that are revised, chunks spoken out of order |
| Desktop application | `desktop/app.cpp` | resident engines with last use, gates, recordings, images | requests, frames, cancel, disconnect, idle reaper | a reaper that races a load, frames that arrive during a partial transcript |
| Browser GPU runtime | `web/hosts/wasm/gpu-runtime-worker.mjs`, `scheduler.mjs`, `model-residency.mjs` | shared models, pins, turns, memory budget | load, generate, release, evict | calls that interleave at every `await`, abandoned loads, pressure |
| Android | `android/` | installed and downloading models; service requests, resident flags, native runtime | download, verify, install, remove; load, chat, dictate, read aloud | deaths between two files, cancelled loads, a mutex across suspension points |
| Accessory | `accessory/esp32` | registry of controllers, invitation, exchange; capture tasks and their queues; media tickets | pair, unpair, restart; photo, clip, stream; issue, spend, synchronize | a power cut between two writes, lost acknowledgements, a worker that fails while others wait |
| Operators, kernels, models, tokenizer, media | `src/kidi/{layers,ops,tensor,runtime,text,audio,image}` | numeric | pure functions | numerics |

(Library paths are under the repository's own `src/`.)

How they interact: every host (`cli`, `desktop/app.cpp`, the Android bindings, the wasm worker) owns one
`Generator`, enqueues requests and calls `step()` until no request is pending; `step()` calls the model,
which calls the operators of a backend through a graph session; the CPU backend runs kernels on the worker
pool, an accelerator runs whole captured steps, and the other backends submit work that the host awaits or
polls. The hosts decide which models are in memory. The accessory brings sound and pictures to the desktop.

What makes each part correct:

- *Serving queue*: each accepted request is answered once with the text that greedy decoding of its
  prompt alone gives, unless cancelled or serving fails; requests start in arrival order; cache tokens
  reserved are exactly those in use and within the budget; storage that the device may still write is not
  given back; no KV cache is written past its end; nothing starves.
- *Text model*: every token is selected from the row that its whole context gives, however the context was
  cut, padded, cropped, forked, resumed or batched.
- *Accelerator*: a lowered step does what the captured step does, and reads rows that the cache has.
- *Worker pool*: a join returns only when every iteration ran, each iteration runs once, and nobody sleeps
  while there is work that only they can do.
- *Graph session*: a replay does what running the step eagerly would, whatever was captured, rebound,
  compiled and evicted before, and nobody else writes to its outputs.
- *Sessions*: a translation does not depend on its batch; a transcript that the page sees only grows within
  an attempt and ends as the text; a text is heard once, in order and in one voice.
- *Hosts*: a model in use is never unloaded; memory is within its budget; every request ends, and fails for
  its own reasons; nothing incomplete passes for an installed model.
- *Accessory*: one owner; who acknowledged a pairing stays paired across restarts, and who did not is
  removed; frames, slots and queues are given back whatever fails; a ticket is served once for each synchronization
  and a session is ended by its own ticket or time.

## Modules

| Module | Models |
| --- | --- |
| `Serving` | The serving queue, with the greedy search of each request and the device's readbacks |
| `Answers` | What a caller is promised: the abstract specification that `Serving` implements |
| `ServingProofs` | The inductive invariants and the theorems about `Serving`: accounting, order, selections and readbacks; what the caches and the retained prefix hold |
| `Gemma4Cache`, `TextGeneration` | The text model's caches and passes; the callers that reuse what was read |
| `NpuMirror`, `StepLowering` | The accelerator's copies of a cache; how a captured step is partitioned and run on it |
| `ModelStoreProofs`, `DesktopHostProofs`, `AndroidHostProofs`, `AccessoryPairingProofs`, `AccessoryCaptureProofs`, `AccessoryMediaProofs` | Theirs about the module of that name |
| `WorkerPool` | The CPU backend's thread pool: forking, joining, helping, idling, waking, shutdown |
| `WorkerPoolProofs` | The inductive invariant of the thread pool, and the proof that it implements `ForkJoin` |
| `ForkJoin` | What a pool promises to the loops: the abstract specification that `WorkerPool` implements |
| `StepGraph`, `GraphSession` | Captured steps and their operations; the session that keys, replays and compiles them |
| `Translation`, `Transcription`, `Speech` | The three kinds of speech and translation sessions |
| `DesktopHost` | The desktop application's requests, gates, recordings, images and reaper |
| `GpuRuntime` | The browser's shared worker for the GPU |
| `ModelStore`, `AndroidHost` | Android's model files; Android's service requests and native runtime |
| `AccessoryPairing`, `AccessoryCapture`, `AccessoryMedia` | The accessory's registry and pairing exchange; its captures; its media tickets |
| `MCServing`, `MCPadding`, `MCSessions`, `MCNpuMirror`, `MCHosts`, `MCAndroid`, `MCAccessoryPairing`, `MCAccessory` | Instances for TLC and the refinement mappings |

Definitions have the names of the functions they model where TLA+ allows it, and `PROJECT.json` maps every one
to its lines. State variables have the names of the members, without trailing underscores. Operators marked
"mutant" are plausible bugs in the definition after them; the specification does not use them.

### Serving and the code

A `Generator` is confined to one thread, so a call that only changes state is one action, named after it:
`ConfigureServing`, `Enqueue`, `CancelWaiting` and `CancelRunning` (the two returns of `cancel`),
`ReleaseWorkspaces`, `GenerateSerially` (what the serial path of `generate()` and `generate_batch()` do to
the queue), `GenerateAhead` and `GenerateReturns` (the device-ahead path of `generate()`, which borrows the
queue, around the same `step()`). A call whose checks fail changes nothing and is no step, except that a
rejected `configure_serving` has reaped and a rejected ahead `generate()` has also dropped the retained
prefix.

`step()` is a sequence of phases because a model call in each of them may throw. `pc` names the phase:

| `pc` | Code | Actions |
| --- | --- | --- |
| `idle` | `reap_retired` | `StepBegin` |
| `admit1` | first `admit()` and taking the deferred selections | `Admit`, `AdmitDone` |
| `accept1` | accepting them, first `retire()` | `Accept`, `Retire` |
| `admit2` | second `admit()` | `Admit`, `AdmitDone` |
| `decode` | packed decode over ready rows | `NoDecodeRows`, `DecodeBatch`, `AheadBegin` |
| `poll`, `polled`, `submit` | decode-ahead: poll readbacks, settle, submit | `AheadPoll`, `AheadPollDone`, `AheadSettle`, `AheadSubmit`, `AheadDone` |
| `accept2` | accepting the decoded tokens, second `retire()` | `Accept`, `Retire` |
| `admit3` | third `admit()` | `Admit`, `AdmitDone` |
| `prefill` | one chunk of one prompt | `Prefill`, `NoPrefill` |
| `accept3` | accepting its token, third `retire()`, the return | `Accept`, `Retire` |

Completions collect in `events` and reach the caller (`answers`) only when `step()` returns: `Fail`, the two
catch clauses, drops them. `Fail` is possible in every phase, so it covers each call that can throw. The
readbacks of a request complete at any time, in submission order (`ReadbackCompletes`).

A request is split into `task` (what `enqueue` recorded), `kv` (the tokens its KV cache holds, so
`state->position` is their number), `search` (`GreedyState`) and `decode` (`DeviceDecode`). `running_` is a set
because its vector is always in id order. `cancelled`, `answers` and `skipped` record history for the properties.

Abstractions:

- The model is the constant `Select`, from KV contents to a token. What it computes is not modelled here; that
  a token depends on every token before it is what makes wrong KV contents visible as wrong text.
- Cache bytes are counted in tokens, and `cache` is `prefix_cache_bytes` in the same unit. `policy` stands
  for what else must agree for KV reuse (images, cropping of local attention).
- `reserved` is compared with `Reservation`, the number of cells `<<id, token slot>>` that a set of
  requests holds: the sum of capacities without recursion. Subtraction wraps at `SizeLimit` as
  `std::size_t` does.
- Tokenizing, text streaming, statistics and the wall clock are left out; the 50 microsecond poll interval
  is a choice whether this step polls. An error of a readback's `ready()` in a reap outside `step()` is not
  modelled.

### The text model and its accelerator

`Gemma4Cache` has what a pass does to a cache, for any number of layers, sliding windows, shared layers and
devices. A row is `<<level, context>>`: the level of the layer it belongs to and the tokens it was made from. A
layer makes the row of the next level only if the rows it attends to are those of its own level and of exactly
the places that a mask admits; otherwise the row is `Wrong`. So an early key, a wide mask, a row of padding
or a stale row of a resumed cache shows in every token selected later. The layers that share caches are taken
from the architecture. `Prefill`, `Project` and `RunBatch` are the code's three passes with their strategies:
whole chunks, the last token only, captured exactly or padded, cropped keys. `TextGeneration` has the callers:
`Generate` with its prefix snapshot, `GenerateBatch`, `Chat` with images, cached encodings and a retained cache.
A call is one action: nothing else runs during it. Precision, quantization and the numbers themselves are left out.

`NpuMirror` is a conversation on a device that runs captured steps as a whole: one action per turn, per pass
that reads a part of the prompt, and per decoded token, each of which runs captured, compiled or on the CPU.
`Synchronized` brings a copy up to date from the row that it remembers. A row is named by the tokens up to it.
`StepLowering` computes a step twice, as the CPU does (`ReferenceRun`) and as the partitioned graphs do
(`LoweredRun`), over digests; its actions record one operation after another, so that TLC enumerates programs.

### WorkerPool and the code

Every thread, of the pool or of the application, has a stack of frames (`stack`): the C++ call stack as far as
the pool is concerned. A frame names its function (`serve` for `worker_main`, `join` and `await` for
`wait_for(task)` and `wait_for(predicate)`, `work` for `run`, `script` for the application) and its place:

| `at` | Code | Actions |
| --- | --- | --- |
| `body` | an iteration of a loop, or the application | `Enqueue`, `AtomicCall`, `Await`, `Join`, `Finish` |
| `claim` | `task_impl::work()` | `Claim`, `WorkReturns` |
| `completed`, `announce` | `loop_completed()` before and after the load of `waiting_helpers_` | `LoopCompleted`, `Announce` |
| `poll` | the polling in `wait_for(task)` | `JoinReturns`, `StopPolling` |
| `enter` | before `waiting_helpers_` is incremented | `Enter` |
| `look` | head of the waiting loop, about to lock | `WaitEnds`, `WaitGoesOn` |
| `dequeue` | the condition is false, the lock is held | `Help`, `Idle` |
| `spin`, `park` | `idle()`: polling the epoch; budget spent, about to lock | `StopSpinning`, `Park`, or on as in `look` when the epoch moved |
| `asleep`, `woken` | `parked.wait`: blocked; notified, about to lock | `Notify` (of another thread), `Park`, or on as in `look` |
| `leave` | before `waiting_helpers_` is decremented; the end of a worker | `Leave` |

`update()` is `Update`: its change, the epoch and the count of sleepers are one action under the lock, and the
notifications that follow without the lock are `wake`, sent one by one by `Notify`. The epoch itself would grow
without bound; only whether it still equals what an idle thread has seen matters, and `fresh` is the set of
threads for which it does. `sleeping` counts the threads in `wait`, notified or not (`Sleeping`);
`notify_one` may wake any blocked one, or none if the sleepers are already notified. Loops enter `queue_` at its end
only and keep their order there, so `queue` is the set of the loops in it and their order that of `enqueued`, the
sequence of all loops so far (`Before`).

The loop itself is slinky's `task_impl`, which is outside the repository (`external`): it hands out at most
`max_workers` slots and each iteration once, in order if the loop was given a bound; sharding is left out. The
body of an iteration is the list of calls to the pool it makes (`Body`), and so is what the application does
(`Script`). Left out: the spin lock's own loop (taking the lock is atomic), the lengths of the spin phases (a
thread may stop spinning at any time), spurious wake-ups of the condition variable, and memory order: the
variables are read and written in one order, as the sequentially consistent operations of the code are.

### The graph session

A tensor is a window of a storage and a cell holds a symbolic value, so that two results agree only if the same
operators were applied to the same data. `StepGraph` has the recorder (`Record`, `Locate`, `Finish`), rebinding
(`Bind`, `Rebind`) and the compiler's plan for shared scratch buffers (`Lifetimes`, `Plan`). `GraphSession` has
one action per way through `Session::run`: eager (`CallEager`), first and second capture (`CallFirstCapture`,
`CallCapture`, `CallRefused`), replay (`CallReplay`), compiled step (`CallCompiled`), inputs that do not fit
(`CallMisfit`), and failures; `CompileEnds` is the detached thread, and the rest is maintenance between calls.
Every call also computes what running the body eagerly on the same memory gives, and `last` holds both. Storage
that nobody refers to is reused at once, lowest address first: a stale address is then as harmful as it can be.
Assumed: inputs of one call do not overlap, a destination written in place is an input or an intermediate, steps
that change from call to call are validated. Left out: references that an orphaned compiler thread still holds,
`eager_outputs_` and `trim_workspaces`.

### Translation, transcription, speech

`Translation`: the distribution of the next token is a function of a digest of everything that the decoder was
fed for a row, with integer log-probabilities; ties are broken in any way. `BatchStep` feeds all rows of a batch,
those that have ended too. `Transcription`: the coroutine's stages are `phase`, the browser's session around it
yields (`submitted`) until the page has waited; a text is a sequence of bytes, of which characters have one or
two; the tokenizer's external decoder keeps or replaces each invalid byte separately. `Speech`: what is known of a
voice is where it comes from, audio is which chunk was spoken in which voice with which undecided tokens.

### Hosts

`DesktopHost`: every request, helper and the start-up is a thread with a `pc`; `Receive` to `LeaveSession` are the
gates, `Prepare`, `Prepared`, `BeginUse`, `EndUse` the two locks around loading and using a model, `Frame`, `Stop`
and `Listen` a recording. The router and the gates belong to a library. `GpuRuntime`: the worker has one
thread, so an action is the code between two awaits; tasks are requests, preparations, cleanups and the timer, and
`waits` holds the promises each of them awaits. A request executes in steps (`Step`) that allocate what its grant
allows, and a chat that has generated a token keeps a margin of it only (`Decoding`); the device refuses what exceeds
the budget (`Exceeds`), which `AccountsAreSound` says never happens. The estimates of the code are taken to be right:
a request allocates no more than it reserved, and a chat after its first token no more than the margin. `ModelStore`: `JobStep` is the prepare that holds `prepareMutex`
(`Check`, `Connect`, `Receive`, `Verify`, `Publish`, `WriteReady`, `WriteCurrent`), `RemoveStep` a removal, and
`Die` a death of the process; a file is its length in chunks and whether its bytes are the published ones.
`AndroidHost`: a request is a program of stages (`Program`), each of which can suspend; `CancelRequest` sets native flags
at once and reaches the coroutine at its next suspension point. A reading asks for the sample rate after it has released
the mutex (`ReadRate`); every native load unsets it (`sampleRate`), and the reading then ends `unrated`.

### The accessory

`AccessoryPairing`: `slots` is the registry in memory and `flash` the one in storage; every write can fail, with
or without having been stored, and the chip restarts between any two (`Crash`, `Boot`). Keys, proofs and
encryption are reduced to what they decide. Times proposed by the console are right; an indication reports its
acknowledgement by a NOTIFY_TX event with status 0, as NimBLE does; a client does not pair while it unpairs.
`AccessoryCapture`: `pc` is the capture's own task, `worker` the camera's and microphone's tasks; frames are
counted, a packet of sound is its sequence number, and whether the duration has passed is a choice (`Expire`).
`AccessoryMedia`: the always-on chip (C6) sells tickets (`ReadTimer`, `ReadEpoch`, `IssueTicket`: the clock is read
without a lock), the camera chip (P4) spends them (`Authorize`, `Complete`) and asks for the key and the time until it
has them (`AskSync`, `SyncRequest`, `SyncRespond`, `ConfigureMediaSecurity`); messages are lost, P4 restarts, and its
console sets the time (`PairInvite`). `uses` records the tickets that were spent.

### What is checked

| Run | Module | Properties | Shows |
| --- | --- | --- | --- |
| `serving_calls` | `MCServing` | `TypeOK`, `BudgetRespected`, `NoOvertaking`, `StorageIsSound`, `SelectionsAreSound`, `InFlightIsHeld`, `AnswersAreGreedy`, `EveryRequestIsAnswered`, `ReplayMatchesEager`, `OutputsAreStable`, `RefusalsAreJustified` | The queue: three kinds of requests under the browser's deferred and compact serving, CUDA's decoding ahead of the host, and plain batches of two: chunked prefill, packed decoding, prefix reuse, cancellation with work in flight and failures give every caller the greedy text within the cache budget. The replay cache: four calls of two keyed steps with rebound, overlapping and misfitting tensors, steps that change between calls, compilers that work at once or on a thread, evictions and failures, in a context whose operators fit its cache or do not: a replayed step does what the eager one does. |
| `serving_padding` | `MCPadding` | `PrefixIsProcessed` violated | A model that selects the padding token: the retained prefix records tokens other than those in its KV cache. |
| `android_calls` | `MCAndroid` | `FilesAreSound`, `InstalledStays`, `LatestInstalled`, `HostIsSound`, `OthersSucceed`, `RequestsEnd` | Two revisions of a model, two failures, damaged chunks, cancellations or deaths, and a removal at any time: nothing incomplete becomes ready and downloading again installs the latest; and four mixes of translations, replies, dictations, readings, preloads and restores with failures and cancellations: flags are right, the synthesizer is alone, requests end. |
| `android_rate` | `MCAndroid` | `ReadingsKeepTheirRate` violated | A translation or a dictation that loads its model between the end of a reading's synthesis and the question for its sample rate: the reading is refused although nothing failed. |
| `host_requests` | `MCHosts` | `GatesAreSound`, `TranscriptIsComplete`, `UsesAreSound`, `RequestsAreServed`, `AccountsAreSound`, `EveryRequestEnds` | Desktop: a voice turn with its helper thread and a fault, a dictation while models are warmed up and reaped, a chat with an image beside translations and a disconnecting window, and two chats with the same image. Browser: pages that share a chat model, that want models which fit only one at a time, whose load fails, that abort, leave, evict and release a client whose request reloads its model: nobody's model is closed under a request, a shared load goes on when others leave it, memory and pins are accounted for. Every request of both ends. |
| `gpu_reload` | `MCHosts` | `BlameIsOwn` violated | A client is released while its request reloads a model that was evicted; another client that asks for the model then is cancelled. |
| `pairing_exchanges` | `MCAccessoryPairing` | `OneOwner`, `RegistryIsDurable`, `PairingsAreEarned` | Two controllers pair over three records and two expiring invitations, disconnect, lose acknowledgements and unpair while a write fails and the chip restarts between any two steps or writes. |
| `pairing_halts` | `MCAccessoryPairing` | `StoreBoots` violated | A restart between the erasure of a leaving owner and the record of its heir leaves a store that the next start refuses. |
| `accessory_tasks` | `MCAccessory` | `CaptureIsSound`, `TicketsAreSound`, `TasksEnd` | Photos, clips, speed tests and streams with and without sound asked for by the USB loop and the HTTPS server, three frames, a queue of two packets, every call failing at every point; and media tickets sold by one chip and spent on the other, with lost messages, a restart, a second ticket or a clock that is set back. |
| `accessory_tickets` | `MCAccessory` | `TicketsServeOnce` violated | A second answer to the question for the key arrives after a ticket was spent: the ticket is served again. |
| `session_calls` | `MCSessions` | `ContextIsWhole`, `TranslationsAreSound`, `TranscriptIsOne`, `SpeechIsWhole`, `MirrorsAreFresh`, `LoweringIsFaithful`, `StacksAreSound`, `SleepIsJustified`, `KeepsPromise`, `PoolReturns` | Prompts read in chunks, captured, padded and cropped steps, forks, batches and resumed conversations with images; translations alone, in batches and with beams, two transcriptions with shortened windows, drafts, cancellations and failures, and two synthesised texts with voices of their own, of pages and of earlier calls; conversations that go back while an accelerator mirrors their cache, and recorded steps that are lowered to it in parts. The thread pool: an ordered loop whose iterations wait for each other and join a loop enqueued before, and a second caller that leaves its loop to whoever helps: helping never deadlocks, no wake-up is lost, every join waits for its iterations, and the pool shuts down. |
| `npu_padding` | `MCNpuMirror` | `PaddingIsNeverRead` violated | A conversation with an image: the executable that reads its second prompt attends to rows that padding of the first one wrote. |

`AnswersAreGreedy` is the refinement of `Answers` by `Serving` (`asked <- task`, `withdrawn <- cancelled`,
`answered <- answers`, `broken <- failed`), `KeepsPromise` that of `ForkJoin` by `WorkerPool`. Modules that share
nothing are checked in one run where the state spaces are small enough (`MCServing`, `MCSessions`, `MCHosts`, `MCAndroid`
and `MCAccessory`): a
behaviour is one of one of them, and the variables of the others keep their values.

Bounds, and why they are enough:

- *Serving*: three requests, one that decodes, one that prefills and one that waits: the round robin wraps,
  admission blocks on the budget and on slots, and a prefix is retained, reused in part and evicted. Chunks
  of two make prompts with one and with several chunks, full and partial. The depth of three lets a readback be
  ready while a later one is in flight, and tokens be submitted past the end of a text.
- *Pool*: one worker, two application threads, three loops of at most two iterations: a thread joins while
  another one completes and a third one sleeps, helps across two levels of nesting, meets its own loop in
  the queue, and `notify_one` has a choice.
- *Android*: two revisions of two files in two chunks, two attempts, two faults and a removal: a fault in a
  retry, main moving during a download, a removal between any two steps. Four requests of
  four kinds in four mixes, one of them of readings alone, which never lose their rate.
- *GPU runtime*: three clients, two keys, five requests, four native sessions: sharing, replacement of a model
  that is being closed, a release during a reload, pressure that one eviction relieves or not. A model takes two units
  and a request two more, a chat that decodes reserves one, and the budget is four or five: a second model can be loaded
  beside one that decodes, and two that are loaded cannot both execute.
- *Desktop*: four mixes of up to three requests in three windows, with the helper thread of a recording, a queue of
  two frames, a clock of two: two chats share an image, translations come between a chat's image and its answer.
- *Pairing*: two clients, two slots, two invitations, three records, one fault and one restart: a rollback of
  one exchange while another controller, or the same one, is already stored. *Captures*: two tasks that ask,
  three frames, five packets in a queue of two.
- *Graph*: two keys, steps of one to four operators, four calls and one event in between: capture, validation,
  replay and one rebinding, with an eviction of the other key. The context keeps four prepared operators: those of one
  pair of steps fit, and those of the others evict each other between two captures.
- *Text*: four layers, two of which share caches, a window of three, contexts of up to twelve rows in
  chunks of one to four; conversations of three images at most. *Mirror*: three turns over ten rows, three
  addresses. *Lowering*: steps of up to eleven operations in three graphs, run twice.
- *Sessions*: up to three sources with up to four tokens of a vocabulary of four, beams of two and four; two
  transcriptions of up to six tokens; two texts of up to three chunks.

Fairness is assumed only where a run says that something ends. *Serving*: the hosts call `step()` as long as
requests are pending (`desktop/app.cpp`, `cli/interactive.cpp`, the Android bindings and `generate()` itself all loop
on `pending_requests()`), and a call once begun proceeds; a poll is not skipped for ever, since 50 microseconds
pass (strong fairness, because whether a step polls is decided anew in each one); `generate()` returns when
its loop ends; the device finishes what was submitted. *Pool*: the operating system runs every thread that can
take a step. *Store*: a prepare and a removal proceed; faults are finitely many, since otherwise nothing could be
installed. *Android host*, *GPU runtime*, *accessory*: every coroutine, handler or task whose next step is possible
takes it; in the last, time passes. *Desktop*: every thread proceeds, a client stops its recordings, and a thread that waits for the mutex of a
speech model gets it if it is free again and again (strong fairness: the C++ mutex promises as little, but the
holders of this one are finitely many requests and a reaper that only tries it); that of the chat model is only
asked for by the request inside its gate. Nothing is assumed about who
enqueues, cancels, configures, fails or disconnects.

### Findings

1. *A padding token shifts the retained prefix* (`serving_padding`). `GreedyState::accept` leaves a padding
   token out of the text (`decoder.cpp:92`), but the token is fed back and enters the KV cache.
   `retain_serving_prefix` (`generator.cpp:676`) takes the recorded tokens from that text up to the KV
   position, so after a padding token they are shifted against the cache, contrary to `ARCHITECTURE.md:974`
   ("only tokens actually processed by the model"). The passing runs use models that never select padding.
2. *A power cut during the transfer of ownership halts the accessory* (`pairing_halts`).
   `kidi_controller_store_remove` erases the owner before it writes its heir; after a restart in between the
   store refuses to load and `app_main` aborts, at every start. `DESIGN.md:736` says that the transfer survives
   a reboot.
3. *Rows of padding are attended to* (`npu_padding`). A padded chunk moves the row up to which the executable's
   copy counts as current past its padding (`compiler.cpp:2103`); a later chunk of the conversation at that row
   or behind it brings nothing before it up to date, contrary to the comment at `gemma4.cpp:848`.
4. *A release fails another client's load* (`gpu_reload`). A client that is released while its request reloads an
   evicted model aborts that load. Another client that asks for the model waits until it is idle and then disposes of
   it (`gpu-runtime-worker.mjs:271`), but `prepareModel` announces idleness (line 252) before its promise rejects, so
   the released request still holds its pin and the disposal does nothing; the client joins the abandoned model and
   is rejected with the release's AbortError. `runtime_scheduler_test.mjs:28` and `web/README-dev.md:597` say that
   stopping one client leaves the loads of others alone.
5. *A reading loses its sample rate* (`android_rate`). `runTts` releases `inferenceMutex` before it asks the native
   runtime for the sample rate (`LiteAppServiceHost.kt:553`), and a request that waited for the mutex unsets it by
   loading a model (`bindings.cpp:538`): `ttsSampleRate` throws (`bindings.cpp:647`) and the reading, already synthesized,
   ends with an error. `OthersSucceed` excepts exactly this: nobody else fails, and no reading does among readings alone.
6. *A ticket is served twice* (`accessory_tickets`). `configure_media_security` forgets the spent tickets whenever P4
   receives the key (`kidi_media_server.cpp:424`), also from a second answer that waited for a media request to end, and a
   restart of P4 forgets them too. `DESIGN.md:146` says that a ticket is valid for exactly one request; `TicketsAreSound`
   says what holds, once between two synchronizations.
### Observations

Behaviour met while modelling that no run turns into a finding, because no text of the repository promises
otherwise or because it lies outside the bounds of a module:

- *Serving*: `generator.cpp:816` says that decoding resumes in the call after a final prefill chunk; when the
  next call's chunk is final too, it skips decoding again.
- *Android*: a removal that dies after it deleted `model.yaml` leaves `ready.json`, and the next prepare looks at the
  downloaded files only (`ModelRepository.kt:99`). A cancelled load, a preload that took another model away, or a
  cancellation between the native enqueue and the registration of its id can make another request's reply fail;
  the flag `ttsCancelled` is shared by all readings. `OthersSucceed` is stated for requests on demand
  of which at most one is a dictation, while nothing failed or was cancelled.
- *GPU runtime*: requests that all pin a model and are about to reserve refuse each other although each
  could wait for the others (`gpu-runtime-worker.mjs:164`). After waiting to replace a model, `loadClient` joins
  whatever has its key without looking again (`gpu-runtime-worker.mjs:272`): with more clients than the runs have,
  that may be a model that others have abandoned in the meantime or that is being closed. The margin that a chat
  reserves after each token is not checked against the budget (`gpu-runtime-worker.mjs:412`), so one that grows by more
  than 64 MiB after its first token may take what others were granted.
- *Desktop*: a refused chat leaves its uploaded images until the socket closes; the reaper's unsigned difference of
  times wraps around when a use came after its clock was read, and unloads a model early (`app.cpp:531`), which
  `UsesAreSound` shows to be harmless; a chat's message is parsed before its gates (`app.cpp:1147`), so that a chat
  of the same session that ends in between removes the images it refers to (`app.cpp:1172`), and the accepted chat
  finds their files gone: `ImagesArePresent` excepts it.
- *Pairing*: `complete_ble_exchange` consumes the invitation that is active when it runs, which is another one if
  the console issued one during the exchange.
- *Media tickets*: P4's clock is behind C6's by the time that a message takes, so a
  fresh ticket may be refused as issued in the future; a second `pair-invite` sets C6's clock but not P4's.
- *Graph*: the two captures of a step are compared by the addresses of their prepared operators (`graph.cpp:266`). If
  the context evicted one in between (`ops/context.cpp:354`), a step that does not change is refused, and on every later
  call too, until its entry is cleared or evicted, because the first capture stays. `RefusalsAreJustified` says that
  there is no other reason, in runs whose operators do not fit. Inputs that overlap when a step is captured are bound to
  the first of them.
- *Sessions*: `kidi_load_asr` replaces the transcriber while a coroutine refers to it, `kidi_load_tts` does not reset an
  active synthesis, and when taking the result throws, the next `kidi_tts_start` says that one is already active;
  the standalone workers do not cancel when the device's synchronization is rejected; a chunk that is empty after
  cleaning is skipped as a reference but fails the whole text when spoken; a transcript shows a first byte
  without its second one when another character follows it, since it will never be whole (`Stable`).
- *Accelerators*: a decode after a conversation went back reads rows that the copy remembers from before; nodes of kind
  EMBEDDING always stay on the host, so the code for resident embeddings is not reached; structured tiles
  (`KIDI_QNN_STRUCTURED_TILES`) assume that a position ends its extent; `run_batch` refuses the BF16 caches that
  `create_state` makes.
- *Backends*: a Metal batch that failed once fails every later restart (`command_batch.mm:85`); the Vulkan packed
  weights and the parameter caches of WebGPU and Metal are keyed by storage without offset or shape.

## What is proved

A theorem holds for every value of the constants that the named assumption of its module admits, and TLC evaluates each
of these assumptions in a run. Each proof module states an inductive invariant `IInv`, shows that every action
keeps it (one lemma for each action, one step for each part of the invariant) and derives the properties from it. TLC
checked every `IInv` on the run's instance before it was proved (for the thread pool on its first 100000 states).

| Theorem | Statement |
| --- | --- |
| `ServingProofs` `TypeCorrect`, `BudgetHolds`, `FirstInFirstOut` | `[]TypeOK`, `[]BudgetRespected`, `[]NoOvertaking` |
| `ServingProofs` `SelectionsSound`, `InFlightHeld` | `[]SelectionsAreSound`, `InFlightIsHeld` |
| `ServingProofs` `StorageBounded`, `StorageSound` | `[](CacheFits /\ RetainedFits)`; `[]StorageIsSound` of models that never select the padding |
| `WorkerPoolProofs` `SleepJustified`, `PoolKeepsPromise` | `[]SleepIsJustified`, `KeepsPromise`: the pool implements fork and join |
| `ModelStoreProofs` `FilesSound`, `InstalledIsKept` | `[]FilesAreSound`, `InstalledStays` |
| `DesktopHostProofs` `GatesSound`, `UsesSound`, `TranscriptComplete` | `[]GatesAreSound`, `[]UsesAreSound`, `[]TranscriptIsComplete` |
| `AndroidHostProofs` `HostSound`, `UndisturbedSucceed` | `[]HostIsSound`, `[]OthersSucceed` |
| `AccessoryPairingProofs` `OwnerIsOne`, `RegistryIsKept`, `PairingsEarned` | `[]OneOwner`, `[]RegistryIsDurable`, `[]PairingsAreEarned` |
| `AccessoryCaptureProofs` `CaptureSound` | `[]CaptureIsSound` |
| `AccessoryMediaProofs` `TicketsSound` | `TicketsAreSound` |

*Serving* (`KindsAssumption`, `SettingsAssumption`, `TokensAssumption`, `LimitsAssumption`): any set of requests
and settings, any vocabulary, model, bucket, and number of requests. None of the first three properties is inductive
alone:

- the counter is exact only because a held request's task never changes (`TasksKnown`: ids are issued once),
  running and retired requests are disjoint and what retires was running (`HeldIssued`), and because
  `generate()` changes the setting only of an empty queue (`Configured`);
- arrival order among held and waiting requests needs the line itself ordered and below `nextId`
  (`WaitingOrdered`, `HeldIssued`);
- types need that a published position lies inside the KV cache when it is rewound (`DecodersSound`), and
  that a reused prefix records as many tokens as its cache holds (`PrefixAligned`).

Accounting rests on `CellsAdd` and `CellsDifference`: adding a request adds its capacity, and what a subset holds can
be subtracted without underflow. `Reservation` is a cardinality so that these follow from the library's theorems on
finite sets.

The two others need a second invariant, `FlowInv`, proved on top of the first (`FlowHolds`). A selection is made when
none is outstanding and taken over in a later phase, perhaps of a later `step()`, so what matters is which
phases can have one (`StagesOK`): the first acceptance takes what the last step left, so `decode` and the
phases that decode ahead start with none, and only deferred selections survive a step. What a selection finds then depends
on the searches and the readbacks: a decoder is on only when tokens are chained on the device, in one slot
(`ReadbacksOK`, `SlotsBounded`); a result that is emitted has nothing in flight, and a search that ended is emitted at
once, except while a poll drains (`EndsOK`); what holds no slot has no history that a new request could inherit
(`UnheldFresh`). That a request with a readback in flight keeps its slot is then a statement about the three places where
slots are given up.

What is stored needs two more invariants on top of these. `StorageInv` counts (`StorageHolds`): a request was given
room for its prompt and all it may produce (`TasksFit`), and what it stores follows from where it is (`StoresOK`):
a part of its prompt before the first selection; then the prompt and every selection but the one that is not fed
back yet, which `Due` tells apart; or, decoded ahead, every submission but the last one. `CacheFits` alone is not
inductive, because a packed decode adds a token without looking at the capacity. That the retained prefix fits
needs in addition that a borrowed queue retains nothing (`Borrowed`), since a `generate()` gives the setting back
without looking at it. `TextInv` says what the tokens are (`Reads`): a request's text is its prompt and what was
accepted for it; its cache agrees with the text, decoded ahead also with the readbacks in flight that will continue it
(`Fed`), up to the position that the last readback published. So whichever way a request ends, what is cut off and
retained was processed (`PrefixIsProcessed`). `StorageSound` has the hypothesis `NoPadding`, that `Select` never
returns the padding. It is needed: `serving_padding` shows the property violated without it (*Findings*);
`StorageBounded` does without it.

*Thread pool* (`ThreadsAssumption`, `LoopsAssumption`): any finite number of threads, and any loops, bounds, bodies and
scripts, those that deadlock included. The invariant reads a stack from its bottom (`Holds(t, d, f)`: frame `f` is
the `d`-th of thread `t`), so that a call or a return changes only its upper end. Its parts:

- `FramesOK`, `LinksOK`, `TopsOK`: which places a function can be at, which function calls which from where, and
  that the calls an iteration has made so far have returned, except the one that the next frame up is about. From
  this the refinement follows: when an iteration ends, what it joined has ended.
- `RunningOK`, `LoopsOK`: an iteration runs on at most one stack, once, between its start and its end.
- `HelpersOK`: `waiting_helpers_` is the number of waits that are registered, over all frames of all stacks, where one
  thread may hold several. Without it nothing is known when `loop_completed` reads 0 and announces nothing.
- `LockOK`, `FreshOK`, `WaitingOK`, `AsleepOK`, `OffersOK`: one thread holds the lock; one whose epoch is current has
  seen every change but a completion that is still to be announced; one that is blocked although it could go on is
  notified, or the announcement is still to come. `SleepIsJustified` says this of threads that sleep and is not
  inductive: it needs the same of those that hold the lock or have stopped spinning and are about to sleep.

`KeepsPromise` is proved step by step: the initial states are those of `ForkJoin`, and each action of the pool is one of
its actions (`Enqueue`, `Finish` as `Perform`, `JoinReturns` as `Join`, `AtomicCall` as `Set`) or changes nothing there.

*Model store* (`StoreAssumption`): any revisions, files, digests and sizes, and any numbers of attempts, faults and
removals. That a published file is verified is not inductive: it needs what the job knows of the
partial file at each place (`PartialOK`: it may have been removed meanwhile, but is never longer than what was
received, and complete when it is renamed). That `ready.json` is true needs that the files before the job's
are complete (`ProgressOK`), which only a removal can undo.

*Desktop* (`DesktopAssumption`): any sessions, requests, recordings with their helper threads, images and
scenarios, any lengths of recordings and any number of faults. A gate is exact only together with the other one: the gate
of a session is taken before and returned after that of the kind, so `GatesOK` speaks of requests between the two as
well. That a speech model stays loaded while it is used needs that whoever uses or loads it holds its lock (`LocksOK`), which
depends on which threads can be where for which model (`KindsOK`, `HelpersOK`: a recording starts its helper once).
The final transcript is complete because an open recording belongs to the one recognition inside its session's gate,
counts every frame unless it failed, and is final only if it was stopped, after which no frame comes
(`RecordingsOK`). `ImagesOK` carries the images of a chat from the parsing of its message to its generation.

*Android host* (`HostAssumption`): any requests, any scenarios with any number
of failures, any cancellations. A program is a sequence of stages, so the invariant starts with what its shape says
(`Proper`: from acquire to release without a gap, a model is used right after it was ensured) and what every
`Program` has (`Programs`). Then the holder of `inferenceMutex` is the one coroutine that is inside (`JobsOK`). That a
dictation which is refused the microphone is not the only one needs that it is claimed once and held from then on
(`MicrophoneOK`). The synthesizer stays alone when a generation fails because a generation that is under way has its
model (`NativeOK`). `ResidentIsLoaded` is not inductive: between the native load, which unloads other models, and
`SetFlags` the flags are wrong, but their holder is about to set them (`Settling`); on demand this is
inside the mutex, and nobody else can look (`DemandOK`). From right flags follows that what is used is ready and that the
generator has no other request, so nobody fails (`UndisturbedOK`), but for a reading that has lost its rate. `RateOK` is a second invariant, on top of the
first: while only readings were dispatched, what is left of each is a suffix of its program (`ReadingDos`), the
synthesizer stays loaded once it is, and the rate is set from the first synthesis on, since nothing loads another model.
In `OthersSucceed` nothing failed or was cancelled so far and the microphone is asked for once: a second dictation is
refused on purpose.

*Pairing* (`PairingAssumption`): any clients, fragments, replies, invitations, failed writes and restarts, and any
finite number of slots. The hard part is that a rollback removes what its own exchange stored and nothing else.
It rests on the history of tokens: each was issued once, for one controller and one slot (`TokensOK`), so that what an
exchange will undo (`Undone`) is never what somebody acknowledged (`StoredOK`), and who leaves gave its token up before
(`LeavingOK`). `GhostsOK` bounds the tokens in memory or storage that nobody acknowledged by the failed writes and
restarts: each of these makes at most one more.

*Captures* (`CaptureAssumption`): any number of frames and tasks, and any lengths of queue and batch. The place of the
capture decides which queues exist (`ControlOK`) and which workers run (`WorkersOK`); every frame is with the camera, in
a queue or in the hands of one of three tasks (`FramesOK`); and as long as no packet was dropped the
queue continues the batch, which continues what was sent (`AudioOK`).

*Media tickets* (`MediaAssumption`): any tickets, losses and restarts, any number of remembered tickets, and any times that
the console sets. A ticket that was spent since the last synchronization is remembered until it has expired, also
when its place in the table is given to another one (`UsesOK`), and what is reported as completed was spent (`ReportsOK`).

Only model-checked:

- all liveness: fairness and ENABLED are out of the prover's reach;
- what is defined by recursion or by folds over data: `AnswersAreGreedy` (the answer is a recursion over the text),
  the properties of `Gemma4Cache`, `TextGeneration`, `StepGraph`, `GraphSession`, `StepLowering`, `Translation`,
  `Transcription` and `Speech`, which all compare a computation with its reference: they would need induction over data;
- `StacksAreSound` of `WorkerPool`: its part `TypeOK` is in `PoolInvariant`; its part `NoReentry` says that a loop is not
  entered again below itself, which depends on which loops the application's own iterations join, and so holds of
  scripts and not of the pool for all of them;
- `RequestsAreServed` of `GpuRuntime`, which does not hold of all workloads: a client that waited to replace a model
  joins what it finds under the key (*Observations*), so the property is one of the listed workloads; and
  `AccountsAreSound`, for which such a client would have to be followed to its end.

## Plan

1. Models: the browser's playback controller, the operator cache of `ops/context.cpp` beyond what
   `GraphSession` needs, the accelerator's partition planner.

## Not modelled

Layer and model numerics and backend kernels (arithmetic on arrays, beyond a model checker); checkpoint loading
and model conversion (file formats); tokenizer training, audio and image preprocessing (pure functions); argument
parsing, benchmarks, the Python converters and vendored libraries. `PROJECT.json` lists every part with its status.
