---------------------------- MODULE AndroidHost ----------------------------
(***************************************************************************)
(* The Android service host: requests of the user interface run as         *)
(* coroutines that prepare, load and use the chat, speech recognition and  *)
(* speech synthesis models.  LiteAppServiceHost serializes them with       *)
(* inferenceMutex and remembers in resident flags which models the native  *)
(* runtime holds; the native loads unload other models on their own.       *)
(* Cancellation sets native flags at once and reaches the coroutine at its *)
(* next suspension point.                                                  *)
(*                                                                         *)
(* A request is a program of stages; image uploads, settings, payload      *)
(* checks and close() are left out.                                        *)
(***************************************************************************)
EXTENDS Integers, Sequences, FiniteSets

CONSTANTS
  Requests,   \* request identifiers, each used once
  Scenarios,  \* what the user may do; a behaviour follows one of them
  Draft,      \* the coroutine of publishAsrSnapshot
  Nobody

Kinds == {"chat", "asr", "tts"}
Preloads == {"runtime.load", "asr.preload", "tts.preload"}
Methods == Preloads \cup {"runtime.restore", "chat.start", "reader.translate", "tts.start", "asr.start"}

ASSUME HostAssumption ==
  /\ Draft \notin Requests /\ Nobody \notin Requests \cup {Draft}
  /\ \A s \in Scenarios :
       /\ DOMAIN s.method \subseteq Requests /\ s.cancellable \subseteq Requests
       /\ \A id \in DOMAIN s.method : s.method[id] \in Methods
       /\ s.installed \subseteq Kinds /\ s.failures \in Nat

VARIABLES
  jobs,        \* coroutines: status, stages left, and where in the first of them
  cancelled,   \* jobs that were cancelled
  mutex,       \* who holds inferenceMutex
  available,   \* chatLoaded, asrLoaded, ttsLoaded
  resident,    \* chatResident, asrResident, ttsResident
  native,      \* generator, transcriber, synthesizer: none, ready or failed
  sampleRate,  \* synthesis_sample_rate is set
  queue,       \* requests in the serving queue of the generator, at most one
  registered,  \* requests in nativeRequests
  cancels,     \* NativeRuntime.cancel calls posted to the runtime thread
  ttsCancelled,
  asrInput,    \* the request that owns the microphone
  failures,    \* injected so far
  scenario
\* The service methods of the requests, the kinds of models the repository holds
\* at the start, the requests the user may cancel, and a bound on failing loads,
\* downloads and model steps.
Method == scenario.method
Preinstalled == scenario.installed
Cancellable == scenario.cancellable
MaxFailures == scenario.failures

models == <<available, resident, native, sampleRate>>
serving == <<queue, registered, cancels>>
hostVars == <<jobs, cancelled, mutex, models, serving, ttsCancelled, asrInput, failures>>

Jobs == Requests \cup {Draft}
Stage(do, kind) == [do |-> do, kind |-> kind]

\* loadChat, loadAsr and loadTts set the flags after they released the mutex, ensureResident before.
Load(kind) ==
  <<Stage("prepare", kind), Stage("acquire", kind), Stage("load", kind), Stage("release", kind), Stage("flag", kind)>>
Use(kind, do) == <<Stage("acquire", kind), Stage("ensure", kind), Stage(do, kind), Stage("release", kind)>>
Playback == <<Stage("rate", "tts"), Stage("play", "tts")>>
Restore == <<Stage("acquire", "chat"), Stage("ensure", "chat"), Stage("release", "chat")>>
LoadIfMissing(kind) == IF kind \in available THEN <<>> ELSE Load(kind)

\* What a request runs.
Program(method) ==
  CASE method = "runtime.load" -> Load("chat")
    [] method = "asr.preload"  -> Load("asr")
    [] method = "tts.preload"  -> Load("tts")
    [] method = "runtime.restore" -> IF "chat" \in available \ resident THEN Restore ELSE <<>>
    [] method \in {"chat.start", "reader.translate"} -> <<Stage("require", "chat")>> \o Use("chat", "generate")
    [] method = "tts.start"    -> LoadIfMissing("tts") \o Use("tts", "synthesize") \o Playback
    [] method = "asr.start"    ->
         LoadIfMissing("asr")
           \o <<Stage("claim", "asr"), Stage("acquire", "asr"), Stage("ensure", "asr"),
                Stage("release", "asr"), Stage("capture", "asr")>>
           \o Use("asr", "transcribe")

\* "unrated" is an error too: ttsSampleRate found no sample rate.
Outcomes == {"completed", "cancelled", "error", "unrated"}
HostTypeOK ==
  /\ \A id \in Jobs : jobs[id].status \in {"none", "posted", "running", "dropped"} \cup Outcomes
  /\ cancelled \subseteq Requests /\ mutex \in Jobs \cup {Nobody}
  /\ available \subseteq Kinds /\ resident \subseteq Kinds
  /\ native \in [Kinds -> {"none", "ready", "failed"}] /\ sampleRate \in BOOLEAN
  /\ queue \subseteq Requests /\ Cardinality(queue) <= 1
  /\ registered \subseteq Requests /\ cancels \subseteq Requests
  /\ asrInput \in Requests \cup {Nobody}
  /\ failures \in 0 .. MaxFailures

InitWith(s) ==
  /\ scenario = s
  /\ jobs = [id \in Jobs |-> [status |-> "none", todo |-> <<>>, at |-> "start"]]
  /\ cancelled = {} /\ mutex = Nobody
  /\ available = Preinstalled /\ resident = {} /\ native = [k \in Kinds |-> "none"] /\ sampleRate = FALSE
  /\ queue = {} /\ registered = {} /\ cancels = {}
  /\ ttsCancelled = FALSE
  /\ asrInput = Nobody /\ failures = 0
HostInit == \E s \in Scenarios : InitWith(s)

Running(id) == jobs[id].status = "running"
Kind(id) == Head(jobs[id].todo).kind
InStage(id, do, at) ==
  /\ Running(id) /\ jobs[id].todo # <<>>
  /\ Head(jobs[id].todo).do = do /\ jobs[id].at = at
IsCancelled(id) == id \in cancelled
Proceed(id, at) == jobs' = [jobs EXCEPT ![id].at = at]
Next1(id) == jobs' = [jobs EXCEPT ![id].todo = Tail(@), ![id].at = "start"]
Failing == failures < MaxFailures /\ failures' = failures + 1

\* The coroutine ends: withLock and the finally blocks run, the terminal event is sent.
KeepsMutex(id) == mutex  \* mutant: a failing coroutine keeps the mutex
Release(id) == IF mutex = id THEN Nobody ELSE mutex
End(id, outcome) ==
  /\ jobs' = [jobs EXCEPT ![id] = [status |-> IF id = Draft THEN "none" ELSE outcome,
                                   todo |-> <<>>, at |-> "start"]]
  /\ mutex' = Release(id)
  /\ registered' = registered \ {id}
  /\ asrInput' = IF asrInput = id THEN Nobody ELSE asrInput

-----------------------------------------------------------------------------
(* Requests *)

Post(id) ==
  /\ id \in DOMAIN Method /\ jobs[id].status = "none"
  /\ jobs' = [jobs EXCEPT ![id].status = "posted"]
  /\ UNCHANGED <<cancelled, mutex, models, serving, ttsCancelled, asrInput, failures>>

\* A coroutine that is cancelled before it is dispatched runs nothing, not
\* even the handlers that send its terminal event.
Begin(id) ==
  /\ jobs[id].status = "posted"
  /\ jobs' = [jobs EXCEPT ![id] =
       IF IsCancelled(id)
       THEN [status |-> "dropped", todo |-> <<>>, at |-> "start"]
       ELSE [status |-> "running", todo |-> Program(Method[id]), at |-> "start"]]
  /\ UNCHANGED <<cancelled, mutex, models, serving, ttsCancelled, asrInput, failures>>

\* A suspension point finds the coroutine cancelled.
Suspends(id) ==
  \/ \E do \in {"prepare", "acquire", "load", "ensure", "generate", "transcribe", "synthesize", "capture", "play"} :
       InStage(id, do, "start")
  \/ \E do \in {"load", "ensure"} : InStage(id, do, "loaded")
  \/ InStage(id, "generate", "stepping") \/ InStage(id, "release", "start")
Cancelled(id) ==
  /\ IsCancelled(id) /\ Suspends(id)
  /\ End(id, "cancelled")
  /\ UNCHANGED <<cancelled, models, queue, cancels, ttsCancelled, failures>>

CompleteRequest(id) ==
  /\ Running(id) /\ jobs[id].todo = <<>>
  /\ End(id, "completed")
  /\ UNCHANGED <<cancelled, models, queue, cancels, ttsCancelled, failures>>

\* The cancel message: native flags first, then the job.
CancelRequest(id) ==
  /\ jobs[id].status \in {"posted", "running"} /\ ~IsCancelled(id)
  /\ id \in Cancellable
  /\ cancelled' = cancelled \cup {id}
  /\ cancels' = IF id \in registered THEN cancels \cup {id} ELSE cancels
  /\ ttsCancelled' = (ttsCancelled \/ Method[id] = "tts.start")
  /\ UNCHANGED <<jobs, mutex, models, queue, registered, asrInput, failures>>

-----------------------------------------------------------------------------
(* Preparing and loading models *)

PrepareModel(id) ==
  /\ InStage(id, "prepare", "start") /\ ~IsCancelled(id)
  /\ Next1(id)
  /\ UNCHANGED <<cancelled, mutex, models, serving, ttsCancelled, asrInput, failures>>

Fails(id) ==
  /\ \/ InStage(id, "prepare", "start")
     \/ InStage(id, "generate", "stepping")
     \/ InStage(id, "transcribe", "working") \/ InStage(id, "synthesize", "working")
  /\ Failing
  /\ native' = IF InStage(id, "generate", "stepping") THEN [native EXCEPT !["chat"] = "failed"] ELSE native
  /\ queue' = IF InStage(id, "generate", "stepping") THEN {} ELSE queue
  /\ End(id, "error")
  /\ UNCHANGED <<cancelled, available, resident, sampleRate, cancels, ttsCancelled>>

Require(id) ==
  /\ InStage(id, "require", "start")
  /\ IF Kind(id) \in available
     THEN Next1(id) /\ UNCHANGED <<mutex, registered, asrInput>>
     ELSE End(id, "error")
  /\ UNCHANGED <<cancelled, models, queue, cancels, ttsCancelled, failures>>

Acquire(id) ==
  /\ InStage(id, "acquire", "start")
  /\ mutex = Nobody /\ mutex' = id
  /\ Next1(id)
  /\ UNCHANGED <<cancelled, models, serving, ttsCancelled, asrInput, failures>>

ReleaseMutex(id) ==
  /\ InStage(id, "release", "start") /\ ~IsCancelled(id)
  /\ mutex' = Nobody
  /\ Next1(id)
  /\ UNCHANGED <<cancelled, models, serving, ttsCancelled, asrInput, failures>>

\* Cancellations posted earlier run first on the single runtime thread.
ThreadIsFree(kind) == kind = "chat" => cancels = {}

EnsureAvailable(id) ==  \* mutant: an installed model counts as resident
  /\ InStage(id, "ensure", "start")
  /\ Kind(id) \in available
  /\ Next1(id)
  /\ UNCHANGED <<cancelled, mutex, models, serving, ttsCancelled, asrInput, failures>>
Ensure(id) ==
  /\ InStage(id, "ensure", "start")
  /\ Kind(id) \in resident
  /\ Next1(id)
  /\ UNCHANGED <<cancelled, mutex, models, serving, ttsCancelled, asrInput, failures>>

BeginLoad(id) ==
  /\ \/ InStage(id, "load", "start")
     \/ InStage(id, "ensure", "start") /\ Kind(id) \notin resident
  /\ ~IsCancelled(id) /\ ThreadIsFree(Kind(id))
  /\ Proceed(id, "loading")
  /\ UNCHANGED <<cancelled, mutex, models, serving, ttsCancelled, asrInput, failures>>

\* The models a native load unloads before it loads its own.
ResetsOwn(kind) == {kind}  \* mutant: other models stay
Resets(kind) == IF kind = "tts" THEN Kinds ELSE {kind, "tts"}
Loading(id) == InStage(id, "load", "loading") \/ InStage(id, "ensure", "loading")

NativeLoad(id) ==
  /\ Loading(id)
  /\ native' = [k \in Kinds |-> IF k = Kind(id) THEN "ready"
                                ELSE IF k \in Resets(Kind(id)) THEN "none" ELSE native[k]]
  /\ queue' = IF "chat" \in Resets(Kind(id)) THEN {} ELSE queue
  /\ sampleRate' = (sampleRate /\ "tts" \notin Resets(Kind(id)))
  /\ ttsCancelled' = (ttsCancelled /\ Kind(id) # "tts")
  /\ Proceed(id, "loaded")
  /\ UNCHANGED <<cancelled, mutex, available, resident, registered, cancels, asrInput, failures>>

\* A load fails before or after it unloaded the others.
NativeLoadFails(id) ==
  /\ Loading(id) /\ Failing
  /\ \E unloaded \in {{}, Resets(Kind(id))} :
       /\ native' = [k \in Kinds |-> IF k \in unloaded THEN "none" ELSE native[k]]
       /\ queue' = IF "chat" \in unloaded THEN {} ELSE queue
       /\ sampleRate' = (sampleRate /\ "tts" \notin unloaded)
       /\ ttsCancelled' = (ttsCancelled /\ ~(Kind(id) = "tts" /\ unloaded # {}))
  /\ End(id, "error")
  /\ UNCHANGED <<cancelled, available, resident, cancels>>

\* Back in the coroutine, unless it was cancelled meanwhile.
LoadReturns(id) ==
  /\ InStage(id, "load", "loaded") /\ ~IsCancelled(id)
  /\ mutex' = Nobody
  /\ jobs' = [jobs EXCEPT ![id].todo = Tail(Tail(@)), ![id].at = "start"]
  /\ UNCHANGED <<cancelled, models, serving, ttsCancelled, asrInput, failures>>

EvictedNone(kind) == {}  \* mutant: the flags of other models stay
Evicted(kind) == IF kind = "tts" THEN {"chat", "asr"} ELSE {"tts"}
SetFlags(id) ==
  /\ \/ InStage(id, "flag", "start")
     \/ InStage(id, "ensure", "loaded") /\ ~IsCancelled(id)
  /\ resident' = (resident \cup {Kind(id)}) \ Evicted(Kind(id))
  /\ available' = available \cup {Kind(id)}
  /\ Next1(id)
  /\ UNCHANGED <<cancelled, mutex, native, sampleRate, serving, ttsCancelled, asrInput, failures>>

-----------------------------------------------------------------------------
(* Chat *)

\* The serving queue holds one request and rejects more.
AcceptsMore(kind) == native[kind] = "ready"  \* mutant: a second request is accepted
Accepts(kind) == native[kind] = "ready" /\ queue = {}
Enqueue(id) ==
  /\ InStage(id, "generate", "start") /\ ~IsCancelled(id) /\ ThreadIsFree("chat")
  /\ IF Accepts("chat")
     THEN queue' = queue \cup {id} /\ Proceed(id, "enqueued") /\ UNCHANGED <<mutex, registered, asrInput>>
     ELSE UNCHANGED queue /\ End(id, "error")
  /\ UNCHANGED <<cancelled, models, cancels, ttsCancelled, failures>>

Register(id) ==
  /\ InStage(id, "generate", "enqueued")
  /\ registered' = registered \cup {id}
  /\ Proceed(id, "stepping")
  /\ UNCHANGED <<cancelled, mutex, models, queue, cancels, ttsCancelled, asrInput, failures>>

\* The steps up to the completed event.
StepCompletes(id) ==
  /\ InStage(id, "generate", "stepping") /\ ~IsCancelled(id)
  /\ queue' = queue \ {id}
  /\ registered' = registered \ {id}
  /\ Next1(id)
  /\ UNCHANGED <<cancelled, mutex, models, cancels, ttsCancelled, asrInput, failures>>

\* The runtime thread comes to a posted cancellation after the block that occupies it.
RuntimeThreadBusy ==
  \E id \in Jobs : \/ Loading(id) /\ Kind(id) = "chat"
                   \/ InStage(id, "generate", "enqueued") \/ InStage(id, "generate", "stepping")
NativeCancel(id) ==
  /\ id \in cancels /\ ~RuntimeThreadBusy
  /\ cancels' = cancels \ {id}
  /\ queue' = queue \ {id}
  /\ UNCHANGED <<jobs, cancelled, mutex, models, registered, ttsCancelled, asrInput, failures>>

-----------------------------------------------------------------------------
(* Speech recognition *)

Claim(id) ==
  /\ InStage(id, "claim", "start")
  /\ IF asrInput = Nobody
     THEN asrInput' = id /\ Next1(id) /\ UNCHANGED <<mutex, registered>>
     ELSE End(id, "error")
  /\ UNCHANGED <<cancelled, models, queue, cancels, ttsCancelled, failures>>

Capture(id) ==
  /\ InStage(id, "capture", "start") /\ ~IsCancelled(id)
  /\ Proceed(id, "recording")
  /\ UNCHANGED <<cancelled, mutex, models, serving, ttsCancelled, asrInput, failures>>

\* Silence, the limit of 30 seconds, asr.stop or a cancellation stops the recorder.
EndCapture(id) ==
  /\ InStage(id, "capture", "recording")
  /\ Next1(id)
  /\ UNCHANGED <<cancelled, mutex, models, serving, ttsCancelled, asrInput, failures>>

\* One draft at a time transcribes what was captured so far; no one cancels its coroutine.
PublishSnapshot ==
  /\ \E id \in Requests : InStage(id, "capture", "recording") /\ asrInput = id
  /\ jobs[Draft].status = "none"
  /\ jobs' = [jobs EXCEPT ![Draft] = [status |-> "running", todo |-> Use("asr", "transcribe"), at |-> "start"]]
  /\ UNCHANGED <<cancelled, mutex, models, serving, ttsCancelled, asrInput, failures>>

-----------------------------------------------------------------------------
(* Transcription, synthesis, playback *)

BeginWork(id) ==
  /\ InStage(id, "transcribe", "start") \/ InStage(id, "synthesize", "start")
  /\ ~IsCancelled(id)
  /\ IF native[Kind(id)] = "ready"
     THEN Proceed(id, "working") /\ UNCHANGED <<mutex, registered, asrInput>>
     ELSE End(id, "error")
  /\ UNCHANGED <<cancelled, models, queue, cancels, ttsCancelled, failures>>

\* A synthesis asks at every step, and at its end, whether it was cancelled.
Interrupted(kind) == kind = "tts" /\ ttsCancelled
FinishWork(id) ==
  /\ InStage(id, "transcribe", "working") \/ InStage(id, "synthesize", "working")
  /\ IF Interrupted(Kind(id))
     THEN End(id, "error") /\ UNCHANGED sampleRate
     ELSE /\ Next1(id) /\ UNCHANGED <<mutex, registered, asrInput>>
          /\ sampleRate' = (sampleRate \/ Kind(id) = "tts")
  /\ UNCHANGED <<cancelled, available, resident, native, queue, cancels, ttsCancelled, failures>>

\* The mutex is free again, and a load of another request may have erased the rate.
ReadRate(id) ==
  /\ InStage(id, "rate", "start")
  /\ IF sampleRate
     THEN Next1(id) /\ UNCHANGED <<mutex, registered, asrInput>>
     ELSE End(id, "unrated")
  /\ UNCHANGED <<cancelled, models, queue, cancels, ttsCancelled, failures>>

Play(id) ==
  /\ InStage(id, "play", "start") /\ ~IsCancelled(id)
  /\ Proceed(id, "playing")
  /\ UNCHANGED <<cancelled, mutex, models, serving, ttsCancelled, asrInput, failures>>

EndPlay(id) ==
  /\ InStage(id, "play", "playing")
  /\ Next1(id)
  /\ UNCHANGED <<cancelled, mutex, models, serving, ttsCancelled, asrInput, failures>>

-----------------------------------------------------------------------------
Work(id) ==
  \/ Cancelled(id) \/ CompleteRequest(id)
  \/ PrepareModel(id) \/ Require(id) \/ Acquire(id) \/ ReleaseMutex(id)
  \/ Ensure(id) \/ BeginLoad(id) \/ NativeLoad(id) \/ LoadReturns(id) \/ SetFlags(id)
  \/ Enqueue(id) \/ Register(id) \/ StepCompletes(id)
  \/ Claim(id) \/ Capture(id) \/ EndCapture(id)
  \/ BeginWork(id) \/ FinishWork(id) \/ ReadRate(id) \/ Play(id) \/ EndPlay(id)

HostNext ==
  \/ \E id \in Requests : Post(id) \/ Begin(id) \/ CancelRequest(id) \/ NativeCancel(id)
  \/ \E id \in Jobs : Work(id) \/ Fails(id) \/ NativeLoadFails(id)
  \/ PublishSnapshot

HostSpec == HostInit /\ [][HostNext /\ UNCHANGED scenario]_<<hostVars, scenario>>

Dispatch == \E id \in Requests : Begin(id) \/ NativeCancel(id)

\* Dispatchers run every coroutine and the cancellations posted to the runtime thread, each once;
\* native calls, recordings and playback end.
FairHostSpec ==
  /\ HostSpec
  /\ WF_hostVars(Dispatch)
  /\ \A id \in Jobs : WF_hostVars(Work(id))

-----------------------------------------------------------------------------
(* Properties *)

\* The synthesizer never shares memory with the other models, whichever of
\* the three dispatchers loads what, and however loads fail.
TtsIsAlone == native["tts"] = "ready" => native["chat"] = "none" /\ native["asr"] = "none"

\* inferenceMutex and the microphone are held by coroutines that run: no
\* failure or cancellation leaves them taken.
OwnersRun ==
  /\ mutex # Nobody => Running(mutex)
  /\ asrInput # Nobody => Running(asrInput)

\* A request that was dispatched gets its terminal event, also when it is
\* cancelled while it waits, loads, generates or records.  (Requests are finitely
\* many, and dispatched and ended once.)
RequestsEnd == <>[](\A id \in Requests : ~Running(id))

\* Every model is installed, and requests load what they need; nothing failed
\* and nobody cancelled.
OnDemandOnly == Preinstalled = Kinds /\ \A id \in DOMAIN Method : Method[id] \notin Preloads
Undisturbed == OnDemandOnly /\ failures = 0 /\ cancelled = {}

\* The microphone is asked for once.
OneDictation ==
  \A a, b \in DOMAIN Method : Method[a] = "asr.start" /\ Method[b] = "asr.start" => a = b

\* A request other than a reading was dispatched: it may take the synthesizer away.
Dispatched(id) == jobs[id].status \notin {"none", "posted"}
EvictorsRan == \E id \in DOMAIN Method : Method[id] # "tts.start" /\ Dispatched(id)

\* Without injected failures and cancellations requests that load on demand do not
\* make each other fail, whatever models the others load, use and evict between
\* any two stages, but for one case: a reading that was synthesized may find its
\* sample rate erased (runTts asks after it released inferenceMutex), and only
\* when requests other than readings ran.
OthersSucceed ==
  Undisturbed =>
    /\ OneDictation => \A id \in Requests : jobs[id].status # "error"
    /\ ~EvictorsRan => \A id \in Requests : jobs[id].status # "unrated"

\* What ttsSampleRate's message says, "Synthesize audio before requesting its sample
\* rate": only who did not synthesize is refused.  The reading at its rate stage did.
ReadingsKeepTheirRate == Undisturbed => \A id \in Requests : jobs[id].status # "unrated"

\* While models are loaded on demand only, without failures and cancellations, the
\* resident flags are right whenever nobody holds the mutex: ensureChatResident
\* and its siblings trust them.  (Preloads and installations set their flags
\* after they released the mutex.)
ResidentIsLoaded ==
  Undisturbed /\ mutex = Nobody => \A k \in resident : native[k] = "ready"

\* The mutex, the microphone and the resident flags tell the truth.
FlagsAreSound == HostTypeOK /\ OwnersRun /\ ResidentIsLoaded

\* No coroutine leaves native memory, the mutex, the microphone or the flags in
\* a state that the next one misreads.
HostIsSound == FlagsAreSound /\ TtsIsAlone
=============================================================================
