---------------------------- MODULE DesktopHost ----------------------------
(***************************************************************************)
(* The desktop application: web socket sessions that run requests on       *)
(* threads of their own against one backend with a chat, a recognition and *)
(* a synthesis model.  A request passes the gate of its session and the    *)
(* gate of its kind, takes the lock of the model, and leaves; recordings   *)
(* stream in while they are transcribed; images are stored as files for a  *)
(* chat; a reaper unloads idle speech models.                              *)
(*                                                                         *)
(* The router and the gates are a library's: a gate admits one holder of a *)
(* kind, a session's frames and requests arrive in order.  Generation is   *)
(* one step here (module Serving has its inside).  EPUB uploads, playback  *)
(* frames and the prompt setting are left out.                             *)
(***************************************************************************)
EXTENDS Integers, FiniteSets

CONSTANTS
  Sessions, Requests, SessionOf,
  Method,            \* "chat", "translate", "asr" or "tts"
  Helpers, HelperOf, \* threads of voice recordings that prepare the synthesizer
  Uploads, UploadSession,  \* images
  UploadFrames,      \* size of an image
  MaxQueued,         \* frames of a recording that wait to be processed
  Timeout,           \* of idle models
  Scenarios,         \* what users may do; a behaviour follows one of them
  Startup,           \* the thread that warms up the speech models
  None

Kinds == {"chat", "asr", "tts"}
Speech == {"asr", "tts"}
Threads == Requests \cup Helpers \cup {Startup}
Outcomes == {"result", "cancelled", "error", "busy", "invalid"}

ASSUME DesktopAssumption ==
  /\ SessionOf \in [Requests -> Sessions] /\ UploadSession \in [Uploads -> Sessions]
  /\ Method \in [Requests -> {"chat", "translate", "asr", "tts"}]
  /\ \A r \in DOMAIN HelperOf : r \in Requests /\ Method[r] = "asr" /\ HelperOf[r] \in Helpers
  /\ \A q, r \in DOMAIN HelperOf : HelperOf[q] = HelperOf[r] => q = r  \* every recording starts its own
  /\ Requests \cap Helpers = {} /\ Startup \notin Requests \cup Helpers
  /\ None \notin Threads \cup Outcomes
  /\ {MaxQueued, Timeout, UploadFrames} \subseteq Nat
  /\ \A s \in Scenarios :
       /\ s.requests \cup s.cancellable \subseteq Requests /\ s.closable \subseteq Sessions
       /\ s.images \subseteq Uploads /\ s.speech \in BOOLEAN
       /\ {s.interval, s.samples, s.faults} \subseteq Nat /\ s.time \in Nat \ {0}

VARIABLES
  thread,     \* where each thread is, the model it works for, its snapshot, and its outcome
  active,     \* gate of the backend: kinds
  busy,       \* gates of the sessions
  holder,     \* of each model's mutex
  loaded, lastUse,  \* speech models, and their last use; 0 when unloaded
  reaper,     \* its place, its model and its reading of the clock
  audio,      \* the open recording of a session
  sent, stopped,    \* frames a client recorded for a request; recordings it stopped
  upload,     \* state and frames of an image
  cancelled, closed,  \* requests; sessions
  clock, faults,
  scenario
\* The requests that are sent, those that may be cancelled, the sessions that
\* may disconnect, the images a chat refers to, whether the speech models are
\* warmed up and reaped; the frames between partial results; bounds on the frames
\* of a recording, on the clock, and on failures and invalid frames.
Sent == scenario.requests
Cancellable == scenario.cancellable
Closable == scenario.closable
Images(r) ==
  IF Method[r] = "chat" THEN {u \in scenario.images : UploadSession[u] = SessionOf[r]} ELSE {}
Preload == scenario.speech
Reaps == scenario.speech
Interval == scenario.interval
MaxSamples == scenario.samples
MaxTime == scenario.time
MaxFaults == scenario.faults
media == <<audio, sent, stopped, upload>>
models == <<holder, loaded, lastUse, reaper>>
vars == <<thread, active, busy, models, media, cancelled, closed, clock, faults>>

NoAudio == [owner |-> None, samples |-> 0, processed |-> 0, final |-> FALSE, error |-> FALSE]
Idle == [pc |-> "none", kind |-> None, snapshot |-> 0, final |-> FALSE, outcome |-> None]

Init ==
  /\ scenario \in Scenarios
  /\ thread = [t \in Threads |-> IF t = Startup /\ Preload THEN [Idle EXCEPT !.pc = "use", !.kind = "asr"] ELSE Idle]
  /\ active = {} /\ busy = {}
  /\ holder = [k \in Kinds |-> None]
  /\ loaded = {} /\ lastUse = [k \in Speech |-> 0]
  /\ reaper = [pc |-> "sleep", kind |-> "asr", now |-> 0]
  /\ audio = [s \in Sessions |-> NoAudio]
  /\ sent = [r \in Requests |-> 0] /\ stopped = {}
  /\ upload = [u \in Uploads |-> [state |-> "none", frames |-> 0]]
  /\ cancelled = {} /\ closed = {} /\ clock = 1 /\ faults = 0

At(t, pc) == thread[t].pc = pc
Kind(t) == thread[t].kind
Session(r) == SessionOf[r]
Goto(t, pc) == thread' = [thread EXCEPT ![t].pc = pc]
End(t, pc, outcome) == thread' = [thread EXCEPT ![t].pc = pc, ![t].outcome = outcome]
Recording(r) == audio[Session(r)].owner = r
Started(r) == thread[r].pc # "none"
Finished(t) == thread[t].pc = "done"
HelperEnded(r) == r \in DOMAIN HelperOf => thread[HelperOf[r]].pc \in {"none", "done"}

TypeOK ==
  /\ active \subseteq Kinds /\ busy \subseteq Sessions
  /\ holder \in [Kinds -> Threads \cup {None}]
  /\ loaded \subseteq Speech /\ lastUse \in [Speech -> 0 .. MaxTime]
  /\ \A s \in Sessions : audio[s].samples \in 0 .. MaxSamples /\ audio[s].owner \in Requests \cup {None}
  /\ upload \in [Uploads -> [state : {"none", "open", "stored", "removed"}, frames : 0 .. UploadFrames]]

-----------------------------------------------------------------------------
(* Images *)

StartImage(u) ==
  /\ u \in scenario.images /\ upload[u].state = "none" /\ UploadSession[u] \notin closed \cup busy
  /\ upload' = [upload EXCEPT ![u].state = "open"]
  /\ UNCHANGED <<thread, active, busy, models, audio, sent, stopped, cancelled, closed, clock, faults>>
ImageFrame(u) ==
  /\ upload[u].state = "open" /\ upload[u].frames < UploadFrames /\ UploadSession[u] \notin closed
  /\ upload' = [upload EXCEPT ![u].frames = @ + 1]
  /\ UNCHANGED <<thread, active, busy, models, audio, sent, stopped, cancelled, closed, clock, faults>>
FinishImage(u) ==
  /\ upload[u].state = "open" /\ upload[u].frames = UploadFrames /\ UploadSession[u] \notin closed
  /\ upload' = [upload EXCEPT ![u].state = "stored"]
  /\ UNCHANGED <<thread, active, busy, models, audio, sent, stopped, cancelled, closed, clock, faults>>

RemoveImages(s) ==
  upload' = [u \in Uploads |-> IF UploadSession[u] = s /\ upload[u].state \in {"open", "stored"}
                               THEN [upload[u] EXCEPT !.state = "removed"] ELSE upload[u]]

-----------------------------------------------------------------------------
(* A request enters: its message is parsed, then the gates *)

ModelOf(r) == IF Method[r] \in {"chat", "translate"} THEN "chat" ELSE Method[r]

\* A client sends a chat when its images are stored.  An image that is gone makes the message invalid.
Receive(r) ==
  /\ r \in Sent /\ At(r, "none") /\ Session(r) \notin closed
  /\ \A u \in Images(r) : upload[u].state \in {"stored", "removed"}
  /\ IF \A u \in Images(r) : upload[u].state = "stored"
     THEN thread' = [thread EXCEPT ![r] = [Idle EXCEPT !.pc = "session", !.kind = ModelOf(r)]]
     ELSE End(r, "done", "invalid")
  /\ UNCHANGED <<active, busy, models, media, cancelled, closed, clock, faults>>

EnterSession(r) ==
  /\ At(r, "session")
  /\ IF Session(r) \in busy
     THEN End(r, "done", "busy") /\ UNCHANGED busy
     ELSE Goto(r, "backend") /\ busy' = busy \cup {Session(r)}
  /\ UNCHANGED <<active, models, media, cancelled, closed, clock, faults>>

RefusedKeeps(r) == busy  \* mutant: a refused request keeps the gate of its session
Refused(r) == busy \ {Session(r)}
FirstStep(r) == IF Kind(r) = "chat" THEN "use" ELSE "prepare"
RefuseKind(r) ==
  /\ Kind(r) \in active
  /\ busy' = Refused(r)
  /\ End(r, "done", "busy") /\ UNCHANGED active
\* A voice recording starts a thread that prepares the synthesizer.
AdmitKind(r) ==
  /\ Kind(r) \notin active
  /\ active' = active \cup {Kind(r)}
  /\ thread' = [t \in Threads |->
       IF t = r THEN [thread[r] EXCEPT !.pc = FirstStep(r)]
       ELSE IF r \in DOMAIN HelperOf /\ t = HelperOf[r] THEN [Idle EXCEPT !.pc = "use", !.kind = "tts"]
       ELSE thread[t]]
  /\ UNCHANGED busy
EnterBackend(r) ==
  /\ At(r, "backend")
  /\ RefuseKind(r) \/ AdmitKind(r)
  /\ UNCHANGED <<models, media, cancelled, closed, clock, faults>>

\* RequestLease.
LeavingKeeps(r) == active  \* mutant: a request that ends keeps the gate of its kind
Leaving(r) == active \ {Kind(r)}
LeaveBackend(r) ==
  /\ At(r, "leaving")
  /\ active' = Leaving(r)
  /\ Goto(r, "left")
  /\ UNCHANGED <<busy, models, media, cancelled, closed, clock, faults>>
LeaveSession(r) ==
  /\ At(r, "left")
  /\ busy' = busy \ {Session(r)}
  /\ Goto(r, "done")
  /\ UNCHANGED <<active, models, media, cancelled, closed, clock, faults>>

-----------------------------------------------------------------------------
(* Models and their locks *)

Locks(t) == holder[Kind(t)] = None
Touch(t) == lastUse' = [k \in Speech |-> IF k = Kind(t) THEN clock ELSE lastUse[k]]

\* prepare_asr and prepare_tts.
Prepare(t) ==
  /\ At(t, "prepare") /\ Locks(t)
  /\ holder' = [holder EXCEPT ![Kind(t)] = t]
  /\ Touch(t) /\ Goto(t, "loading")
  /\ UNCHANGED <<active, busy, loaded, reaper, media, cancelled, closed, clock, faults>>
Prepared(t) ==
  /\ At(t, "loading")
  /\ holder' = [holder EXCEPT ![Kind(t)] = None]
  /\ loaded' = loaded \cup {Kind(t)}
  /\ Goto(t, IF Kind(t) = "asr" THEN "open" ELSE "use")
  /\ UNCHANGED <<active, busy, lastUse, reaper, media, cancelled, closed, clock, faults>>
PrepareFails(t) ==
  /\ At(t, "loading") /\ faults < MaxFaults /\ faults' = faults + 1
  /\ holder' = [holder EXCEPT ![Kind(t)] = None]
  /\ End(t, IF Kind(t) = "asr" THEN "unwind" ELSE "leaving", "error")
  /\ UNCHANGED <<active, busy, loaded, lastUse, reaper, media, cancelled, closed, clock>>

\* generate, transcribe, synthesize and the warm-ups: the lock is held throughout, and
\* a speech model that is not loaded is loaded first.
BeginUse(t) ==
  /\ At(t, "use") /\ Locks(t)
  /\ holder' = [holder EXCEPT ![Kind(t)] = t]
  /\ Touch(t)
  /\ loaded' = loaded \cup (Speech \cap {Kind(t)})
  /\ Goto(t, "using")
  /\ UNCHANGED <<active, busy, reaper, media, cancelled, closed, clock, faults>>

WasFinalLate(t) == audio[Session(t)].final  \* mutant: the recording is final if it was stopped meanwhile
WasFinal(t) == thread[t].final
AnyClears(t) == TRUE  \* mutant: a translation removes the images of the session
Clears(t) == Method[t] = "chat"
\* Where a thread goes from its use of the model.
AfterUse(t, outcome) ==
  LET next == IF t = Startup /\ Kind(t) = "asr" THEN "use"
              ELSE IF t \notin Requests THEN "done"
              ELSE IF Kind(t) = "chat" /\ Clears(t) THEN "clear"
              ELSE IF Kind(t) # "asr" THEN "leaving"
              ELSE IF outcome # "result" THEN "close"
              ELSE IF WasFinal(t) THEN "join" ELSE "listen" IN
  [thread[t] EXCEPT !.pc = next, !.kind = IF t = Startup THEN "tts" ELSE @,
                    !.outcome = IF next = "listen" THEN None ELSE outcome]
EndUseAs(t, outcome) ==
  /\ At(t, "using")
  /\ holder' = [holder EXCEPT ![Kind(t)] = None]
  /\ thread' = [thread EXCEPT ![t] = AfterUse(t, outcome)]
  /\ audio' = IF t \in Requests /\ Method[t] = "asr" /\ outcome = "result" /\ Recording(t)
              THEN [audio EXCEPT ![Session(t)].processed = thread[t].snapshot] ELSE audio
  /\ UNCHANGED <<active, busy, loaded, lastUse, reaper, sent, stopped, upload, cancelled, closed, clock>>
\* Cancellation is polled between steps, so a result may still come.
EndUse(t) ==
  /\ \/ EndUseAs(t, "result")
     \/ /\ t \in cancelled \/ \E r \in cancelled \cap DOMAIN HelperOf : HelperOf[r] = t
        /\ EndUseAs(t, "cancelled")
  /\ UNCHANGED faults
UseFails(t) == EndUseAs(t, "error") /\ faults < MaxFaults /\ faults' = faults + 1

ClearImages(r) ==
  /\ At(r, "clear") /\ RemoveImages(Session(r))
  /\ Goto(r, "leaving")
  /\ UNCHANGED <<active, busy, models, audio, sent, stopped, cancelled, closed, clock, faults>>

-----------------------------------------------------------------------------
(* Recordings *)

Open(r) ==
  /\ At(r, "open")
  /\ audio' = [audio EXCEPT ![Session(r)] = [NoAudio EXCEPT !.owner = r]]
  /\ Goto(r, "listen")
  /\ UNCHANGED <<active, busy, models, sent, stopped, upload, cancelled, closed, clock, faults>>

\* The wait ends every 50 ms: no notification is needed.
HasWorkFull(r) ==  \* mutant: a stopped recording waits for a full interval
  LET a == audio[Session(r)] IN a.samples >= a.processed + Interval
HasWork(r) ==
  LET a == audio[Session(r)] IN a.final \/ a.samples >= a.processed + Interval
Listen(r) ==
  LET a == audio[Session(r)] IN
  /\ At(r, "listen")
  /\ IF r \in cancelled THEN End(r, "close", "cancelled")
     ELSE IF a.error THEN End(r, "close", "error")
     ELSE /\ HasWork(r)
          /\ thread' = [thread EXCEPT ![r].pc = "use", ![r].snapshot = a.samples, ![r].final = a.final]
  /\ UNCHANGED <<active, busy, models, media, cancelled, closed, clock, faults>>

OverflowsLate(a) == a.samples + 1 > a.processed + MaxQueued \/ a.samples > MaxSamples  \* mutant: off by one
Overflows(a) == a.samples + 1 > a.processed + MaxQueued \/ a.samples + 1 > MaxSamples
\* handle_binary: a frame of the recording.
Frame(r) ==
  LET s == Session(r)  a == audio[s] IN
  /\ thread[r].pc \in {"listen", "use", "using"} /\ r \notin stopped /\ s \notin closed
  /\ sent[r] <= MaxSamples
  /\ sent' = [sent EXCEPT ![r] = @ + 1]
  /\ audio' = IF ~Recording(r) THEN audio
              ELSE IF Overflows(a)
              THEN [audio EXCEPT ![s].error = TRUE]
              ELSE [audio EXCEPT ![s].samples = @ + 1]
  /\ UNCHANGED <<thread, active, busy, models, stopped, upload, cancelled, closed, clock, faults>>

\* A frame with a wrong header, stream or sequence number.
InvalidFrame(s) ==
  /\ faults < MaxFaults /\ faults' = faults + 1 /\ s \notin closed
  /\ audio[s].owner # None
  /\ audio' = [audio EXCEPT ![s].error = TRUE]
  /\ UNCHANGED <<thread, active, busy, models, sent, stopped, upload, cancelled, closed, clock>>

\* asr.stop, which a client sends after its last frame.
Stop(r) ==
  LET s == Session(r) IN
  /\ r \in Requests /\ Method[r] = "asr" /\ s \notin closed
  /\ thread[r].pc \in {"listen", "use", "using"} /\ r \notin stopped
  /\ stopped' = stopped \cup {r}
  /\ audio' = IF Recording(r) THEN [audio EXCEPT ![s].final = TRUE] ELSE audio
  /\ UNCHANGED <<thread, active, busy, models, sent, upload, cancelled, closed, clock, faults>>

Join(r) ==
  /\ At(r, "join") /\ HelperEnded(r)
  /\ Goto(r, "close")
  /\ UNCHANGED <<active, busy, models, media, cancelled, closed, clock, faults>>
Close(r) ==
  /\ At(r, "close")
  /\ audio' = IF Recording(r) THEN [audio EXCEPT ![Session(r)] = NoAudio] ELSE audio
  /\ Goto(r, "unwind")
  /\ UNCHANGED <<active, busy, models, sent, stopped, upload, cancelled, closed, clock, faults>>
Unwind(r) ==
  /\ At(r, "unwind") /\ HelperEnded(r)
  /\ Goto(r, "leaving")
  /\ UNCHANGED <<active, busy, models, media, cancelled, closed, clock, faults>>

-----------------------------------------------------------------------------
(* Cancellation, disconnection, time *)

Cancel(r) ==
  /\ r \in Cancellable \ cancelled /\ Started(r) /\ ~Finished(r)
  /\ cancelled' = cancelled \cup {r}
  /\ UNCHANGED <<thread, active, busy, models, media, closed, clock, faults>>

Disconnect(s) ==
  /\ s \in Closable \ closed
  /\ closed' = closed \cup {s}
  /\ cancelled' = cancelled \cup {r \in Requests : Session(r) = s}
  /\ UNCHANGED <<thread, active, busy, models, media, clock, faults>>
\* The session is destroyed when its handlers have ended.
CloseSession(s) ==
  /\ s \in closed /\ \A r \in Requests : Session(r) = s => thread[r].pc \in {"none", "done"}
  /\ \E u \in Uploads : UploadSession[u] = s /\ upload[u].state \in {"open", "stored"}
  /\ RemoveImages(s)
  /\ UNCHANGED <<thread, active, busy, models, audio, sent, stopped, cancelled, closed, clock, faults>>

Tick ==
  /\ clock < MaxTime /\ clock' = clock + 1
  /\ UNCHANGED <<thread, active, busy, models, media, cancelled, closed, faults>>

-----------------------------------------------------------------------------
(* The reaper: every five seconds, when no request is active *)

\* The difference is unsigned: a later use wraps around to more than any timeout.
Expired(k) == lastUse[k] # 0 /\ (reaper.now < lastUse[k] \/ reaper.now - lastUse[k] >= Timeout)
NextModel == IF reaper.kind = "asr" THEN [reaper EXCEPT !.pc = "examine", !.kind = "tts"]
             ELSE [reaper EXCEPT !.pc = "sleep"]
ReaperWakes ==
  /\ Reaps /\ reaper.pc = "sleep" /\ active = {}
  /\ reaper' = [pc |-> "examine", kind |-> "asr", now |-> clock]
  /\ UNCHANGED <<thread, active, busy, holder, loaded, lastUse, media, cancelled, closed, clock, faults>>
ReaperExamines ==
  /\ reaper.pc = "examine"
  /\ reaper' = IF Expired(reaper.kind) THEN [reaper EXCEPT !.pc = "try"] ELSE NextModel
  /\ UNCHANGED <<thread, active, busy, holder, loaded, lastUse, media, cancelled, closed, clock, faults>>
ReapableUnlocked(k) == Expired(k)  \* mutant: the reaper does not take the lock
Reapable(k) == holder[k] = None /\ Expired(k)
ReaperTries ==
  LET k == reaper.kind IN
  /\ reaper.pc = "try"
  /\ IF Reapable(k)
     THEN loaded' = loaded \ {k} /\ lastUse' = [lastUse EXCEPT ![k] = 0]
     ELSE UNCHANGED <<loaded, lastUse>>
  /\ reaper' = NextModel
  /\ UNCHANGED <<thread, active, busy, holder, media, cancelled, closed, clock, faults>>

-----------------------------------------------------------------------------
Request(r) ==
  \/ EnterSession(r) \/ EnterBackend(r) \/ ClearImages(r) \/ LeaveBackend(r) \/ LeaveSession(r)
  \/ Open(r) \/ Listen(r) \/ Join(r) \/ Close(r) \/ Unwind(r)
Work(t) == Prepare(t) \/ Prepared(t) \/ BeginUse(t) \/ EndUse(t)
Runs(t) == (t \in Requests /\ Request(t)) \/ Work(t)

Next ==
  \/ \E r \in Requests : Receive(r) \/ Request(r) \/ Frame(r) \/ Stop(r) \/ Cancel(r)
  \/ \E t \in Threads : Work(t) \/ PrepareFails(t) \/ UseFails(t)
  \/ \E u \in Uploads : StartImage(u) \/ ImageFrame(u) \/ FinishImage(u)
  \/ \E s \in Sessions : InvalidFrame(s) \/ Disconnect(s) \/ CloseSession(s)
  \/ Tick \/ ReaperWakes \/ ReaperExamines \/ ReaperTries

Spec == Init /\ [][Next /\ UNCHANGED scenario]_<<vars, scenario>>

\* Threads run, models return, and a client stops its recordings.  The lock of a speech model goes
\* to everyone who keeps asking for it, that of the chat model has no other takers.
FairSpec ==
  /\ Spec
  /\ \A r \in {q \in Requests : Method[q] = "asr"} : WF_vars(Stop(r))
  /\ \A t \in Threads : WF_vars(Runs(t))
  /\ \A t \in {u \in Threads : u \in Requests => ModelOf(u) \in Speech} : SF_vars(BeginUse(t))

-----------------------------------------------------------------------------
(* Properties *)

\* The gates are held exactly by the requests inside: a refused, failed or
\* cancelled request leaves nothing locked, and no two requests of a session
\* or of a kind are inside.
Inside(r) == thread[r].pc \notin {"none", "session", "backend", "left", "done"}
GatesFollowRequests ==
  /\ active = {Kind(r) : r \in {q \in Requests : Inside(q)}}
  /\ busy = {Session(r) : r \in {q \in Requests : Inside(q) \/ thread[q].pc \in {"backend", "left"}}}
  /\ \A q, r \in Requests : q # r /\ Inside(q) /\ Inside(r) => Kind(q) # Kind(r) /\ Session(q) # Session(r)

\* A speech model is there, and its lock held, while a thread uses it: the
\* reaper takes it only in between, and then it is loaded again.
ModelWhileUsed ==
  \A t \in Threads : At(t, "using") => holder[Kind(t)] = t /\ (Kind(t) \in Speech => Kind(t) \in loaded)

\* The final transcript covers all that the client recorded before it stopped,
\* also what arrived while a partial result was computed.
TranscriptIsComplete ==
  \A r \in Requests : Method[r] = "asr" /\ thread[r].outcome = "result" =>
    r \in stopped /\ thread[r].snapshot = sent[r]

\* The images that a chat refers to are stored while it generates, unless another chat of its session
\* ended since its message was parsed: parsing comes before the gates, and a chat that ends removes
\* the images of its session.
Removed(q) == At(q, "leaving") \/ At(q, "left") \/ At(q, "done")
OtherChatEnded(r) ==
  \E q \in Requests \ {r} :
    Session(q) = Session(r) /\ Method[q] = "chat" /\ Removed(q) /\ thread[q].outcome \notin {"busy", "invalid"}
ImagesArePresent ==
  \A r \in Requests : At(r, "using") =>
    OtherChatEnded(r) \/ \A u \in Images(r) : upload[u].state = "stored"

\* A thread that uses a model has all that its request needs.
UsesAreSound == ModelWhileUsed /\ ImagesArePresent

\* The gates of requests that are inside.
GatesAreSound == TypeOK /\ GatesFollowRequests

\* Every request ends, whatever else is cancelled, reaped or fails.  (Requests
\* are finitely many, and started and ended once.)
RequestsEnd == <>[](\A r \in Requests : Started(r) => Finished(r))
=============================================================================
