------------------------- MODULE AccessoryCapture -------------------------
(***************************************************************************)
(* Captures of the reference accessory: photos, clips, live streams and    *)
(* speed tests.  Two tasks ask for them, the USB loop and the HTTPS        *)
(* server; one mutex admits one capture.  A live stream has a camera       *)
(* worker that hands frames to the sender through a queue of one, an audio *)
(* worker that hands packets to it through a short queue, and a semaphore  *)
(* that counts the frames the camera may lend.  A clip of both records the *)
(* microphone in a worker of its own.                                      *)
(*                                                                         *)
(* A frame is only counted and an audio packet is its sequence number.     *)
(* The duration of the capture has passed or not (expired).  The backends  *)
(* and the writer fail whenever they are called.                           *)
(***************************************************************************)
EXTENDS Integers, Sequences, FiniteSets

CONSTANTS
  Tasks,        \* that ask for captures
  Kinds,        \* of capture that they ask for
  Buffers,      \* frames that the camera lends
  AudioQueue,   \* AUDIO_QUEUE_PACKETS
  AudioBatch,   \* AUDIO_BATCH_PACKETS
  MaxPackets,   \* bound on the audio packets of a capture
  Length,       \* of a recording, in blocks
  None

ASSUME CaptureAssumption ==
  /\ {Buffers, AudioQueue, AudioBatch, MaxPackets, Length} \subseteq Nat \ {0}
  /\ Kinds \subseteq {"photo", "audio", "video", "av", "speed", "stream", "stream_av"}
  /\ None \notin Tasks

VARIABLES
  holder,                \* the task that has the capture mutex
  kind, pc, result,      \* its capture
  camera, running,       \* the camera mutex is taken; the microphone runs
  out,                   \* frames that the camera has lent
  queues, slots, video, audio,  \* of a live session: they exist; free slots; the queues
  worker,                \* program counters of the camera and the audio worker
  workers, done,         \* workers that were started, and how many have ended since
  stop, error, dropped, expired,
  seq, recorded,         \* of the audio worker
  mine, batch, heard     \* the frame of the sender; its batch; the last packet that it sent
session == <<queues, slots, video, audio>>
flags == <<stop, error, dropped, expired>>
recording == <<seq, recorded>>
sending == <<mine, batch, heard>>
vars == <<holder, kind, pc, result, camera, running, out, session, worker, workers, done, flags, recording, sending>>

Stream == kind \in {"stream", "stream_av"}
NeedsCamera == kind \notin {"audio", "speed"}
NeedsAudio == kind \in {"audio", "av", "stream_av"}

Init ==
  /\ holder = None /\ kind = None /\ pc = "idle" /\ result = "ok"
  /\ camera = FALSE /\ running = FALSE /\ out = 0
  /\ queues = FALSE /\ slots = 0 /\ video = 0 /\ audio = <<>>
  /\ worker = [w \in {"camera", "audio"} |-> "none"] /\ workers = 0 /\ done = 0
  /\ stop = FALSE /\ error = FALSE /\ dropped = FALSE /\ expired = FALSE
  /\ seq = 0 /\ recorded = 0 /\ mine = FALSE /\ batch = <<>> /\ heard = -1

Goto(l) == pc' = l
Ends(r, l) == result' = r /\ pc' = l
Outcome(next) == Ends(result, next) \/ Ends("failed", "stop")
Writer(next) == Outcome(next) \/ Ends("cancelled", "stop")

-----------------------------------------------------------------------------
(* The capture *)

\* acquire_capture does not wait: another task that asks meanwhile is refused.
Acquire(t, k) ==
  /\ holder = None /\ holder' = t /\ kind' = k
  /\ Ends("ok", IF k \in {"speed", "audio"} THEN "microphone" ELSE "prepare")
  /\ IF k \in {"stream", "stream_av"}
     THEN queues' = TRUE /\ slots' = Buffers /\ video' = 0 /\ audio' = <<>>
     ELSE UNCHANGED session
  /\ workers' = 0 /\ done' = 0 /\ stop' = FALSE /\ error' = FALSE /\ dropped' = FALSE /\ expired' = FALSE
  /\ seq' = 0 /\ recorded' = 0 /\ mine' = FALSE /\ batch' = <<>> /\ heard' = -1
  /\ UNCHANGED <<camera, running, out, worker>>

\* The allocations of a session fail too: there is nothing to release then.
Prepare ==
  /\ pc = "prepare"
  /\ \/ ~camera /\ camera' = TRUE /\ Goto("microphone") /\ UNCHANGED result
     \/ Ends("failed", "stop") /\ UNCHANGED camera
  /\ UNCHANGED <<holder, kind, running, out, session, worker, workers, done, flags, recording, sending>>
\* A stream and a clip of sound read the first samples here, a clip of both in its worker.
StartAudio ==
  /\ pc = "microphone"
  /\ \/ ~NeedsAudio /\ Goto("begin") /\ UNCHANGED <<result, running>>
     \/ NeedsAudio /\ ~running /\ running' = TRUE /\ Outcome("begin")
     \/ NeedsAudio /\ Ends("failed", "stop") /\ UNCHANGED running
  /\ UNCHANGED <<holder, kind, camera, out, session, worker, workers, done, flags, recording, sending>>
Begin ==
  /\ pc = "begin"
  /\ Writer(CASE Stream -> "spawn_camera" [] kind = "av" -> "spawn_audio" [] kind = "audio" -> "record" [] OTHER -> "transfer")
  /\ UNCHANGED <<holder, kind, camera, running, out, session, worker, workers, done, flags, recording, sending>>

Spawn(w, next) ==
  /\ \/ worker' = [worker EXCEPT ![w] = "start"] /\ workers' = workers + 1 /\ Goto(next) /\ UNCHANGED result
     \/ Ends("failed", "stop") /\ UNCHANGED <<worker, workers>>
  /\ UNCHANGED <<holder, kind, camera, running, out, session, done, flags, recording, sending>>
SpawnCamera == pc = "spawn_camera" /\ Spawn("camera", IF kind = "stream_av" THEN "spawn_audio" ELSE "loop")
SpawnAudio == pc = "spawn_audio" /\ Spawn("audio", IF kind = "av" THEN "ready" ELSE "loop")
\* A clip of both waits for the first samples of its worker.
Ready ==
  /\ pc = "ready" /\ worker["audio"] \notin {"start", "none"}
  /\ IF error THEN Ends("failed", "stop") ELSE Writer("transfer")
  /\ UNCHANGED <<holder, kind, camera, running, out, session, worker, workers, done, flags, recording, sending>>

\* Captures that take their frames themselves: they borrow one, write it and return it.
Transfer ==
  /\ pc = "transfer" /\ ~mine
  /\ \/ (kind = "photo" \/ (kind # "speed" /\ ~expired)) /\ mine' = TRUE /\ out' = out + 1 /\ UNCHANGED <<pc, result>>
     \/ Ends("failed", "stop") /\ UNCHANGED <<mine, out>>
     \/ (kind = "speed" \/ (kind # "photo" /\ expired)) /\ Writer("stop") /\ UNCHANGED <<mine, out>>
  /\ UNCHANGED <<holder, kind, camera, running, session, worker, workers, done, flags, recording, batch, heard>>
Kept == pc = "transfer" /\ mine /\ mine' = FALSE /\ Writer(IF kind = "photo" THEN "stop" ELSE "transfer") /\ (IF result' = "ok" THEN out' = out - 1 ELSE UNCHANGED out) /\ UNCHANGED <<holder, kind, camera, running, session, worker, workers, done, flags, recording, batch, heard>>  \* mutant: a frame that cannot be written is not returned
Transferred ==
  /\ pc = "transfer" /\ mine
  /\ mine' = FALSE /\ out' = out - 1
  /\ Writer(IF kind = "photo" THEN "stop" ELSE "transfer")
  /\ UNCHANGED <<holder, kind, camera, running, session, worker, workers, done, flags, recording, batch, heard>>
Record ==
  /\ pc = "record" /\ Writer("stop")
  /\ UNCHANGED <<holder, kind, camera, running, out, session, worker, workers, done, flags, recording, sending>>

-----------------------------------------------------------------------------
(* The sender of a live stream *)

Sender == UNCHANGED <<holder, kind, camera, running, worker, workers, done, stop, dropped, expired, recording>>
Over == result # "ok"  \* mutant: the sender looks at its own result only
Finished == result # "ok" \/ error \/ expired
Loop ==
  /\ pc = "loop"
  /\ \/ Finished /\ Goto("stop") /\ UNCHANGED <<session, mine, batch>>
     \/ /\ ~Finished /\ kind = "stream_av" /\ audio # <<>>
        /\ batch' = <<Head(audio)>> /\ audio' = Tail(audio) /\ Goto("batch") /\ UNCHANGED <<queues, slots, video, mine>>
     \/ /\ ~Finished /\ audio = <<>>
        /\ \/ video = 1 /\ video' = 0 /\ mine' = TRUE /\ Goto("frame")
           \/ video = 0 /\ Goto("check") /\ UNCHANGED <<video, mine>>
        /\ UNCHANGED <<queues, slots, audio, batch>>
  /\ UNCHANGED <<result, error, out, heard>> /\ Sender
LongBatch == pc = "batch" /\ (IF Len(batch) <= AudioBatch /\ audio # <<>> THEN audio' = Tail(audio) /\ batch' = Append(batch, Head(audio)) /\ UNCHANGED pc ELSE Goto("send") /\ UNCHANGED <<audio, batch>>) /\ UNCHANGED <<error, result, out, queues, slots, video, mine, heard>> /\ Sender  \* mutant: one packet too many in a batch
\* A gap in the sequence ends the batch before it; otherwise it ends full or with the queue empty.
Batch ==
  /\ pc = "batch"
  /\ IF Len(batch) < AudioBatch /\ audio # <<>>
     THEN /\ audio' = Tail(audio)
          /\ IF Head(audio) = batch[Len(batch)] + 1
             THEN batch' = Append(batch, Head(audio)) /\ UNCHANGED <<pc, error>>
             ELSE error' = TRUE /\ Goto("send") /\ UNCHANGED batch
     ELSE Goto("send") /\ UNCHANGED <<audio, batch, error>>
  /\ UNCHANGED <<result, out, queues, slots, video, mine, heard>> /\ Sender
Send ==
  /\ pc = "send" /\ batch' = <<>>
  /\ \/ Ends(result, "check") /\ heard' = batch[Len(batch)]
     \/ result' \in {"failed", "cancelled"} /\ Goto("check") /\ UNCHANGED heard
  /\ UNCHANGED <<error, out, session, mine>> /\ Sender
\* return_frame: the slot is given back once the camera has the frame.
Frame ==
  /\ pc = "frame" /\ mine' = FALSE /\ out' = out - 1 /\ slots' = slots + 1
  /\ result' \in {result, "failed", "cancelled"} /\ Goto("check")
  /\ UNCHANGED <<error, queues, video, audio, batch, heard>> /\ Sender
NoCheck == pc = "check" /\ result' \in {result, "failed", "cancelled"} /\ Goto("loop") /\ UNCHANGED <<error, out, session, sending>> /\ Sender  \* mutant: dropped audio is only counted
Check ==
  /\ pc = "check" /\ error' = (error \/ dropped) /\ Goto("loop")
  /\ result' \in IF result = "ok" THEN {"ok", "failed", "cancelled"} ELSE {result}
  /\ UNCHANGED <<out, session, sending>> /\ Sender

-----------------------------------------------------------------------------
(* The end of a capture: it stops and joins its workers, drains the frames *)
(* and only then stops the devices and deletes the queues.                 *)

Stop ==
  /\ pc = "stop" /\ stop' = (stop \/ Stream \/ result # "ok") /\ Goto("join")
  /\ UNCHANGED <<holder, kind, result, camera, running, out, session, worker, workers, done, error, dropped, expired, recording, sending>>
Hurry == pc = "join" /\ Goto("drain") /\ UNCHANGED <<done, holder, kind, result, camera, running, out, session, worker, workers, flags, recording, sending>>  \* mutant: the workers are not joined
Join ==
  /\ pc = "join"
  /\ IF workers = 0 THEN Goto("drain") /\ UNCHANGED <<workers, done>>
     ELSE done > 0 /\ done' = done - 1 /\ workers' = workers - 1 /\ UNCHANGED pc
  /\ UNCHANGED <<holder, kind, result, camera, running, out, session, worker, flags, recording, sending>>
NoDrain == pc = "drain" /\ Goto("stop_audio") /\ UNCHANGED <<out, slots, video, queues, holder, kind, result, camera, running, audio, worker, workers, done, flags, recording, sending>>  \* mutant: the queued frame is dropped
Drain ==
  /\ pc = "drain"
  /\ IF video = 1 THEN video' = 0 /\ out' = out - 1 /\ slots' = slots + 1 /\ UNCHANGED pc
     ELSE Goto("stop_audio") /\ UNCHANGED <<out, slots, video>>
  /\ UNCHANGED <<holder, kind, result, camera, running, queues, audio, worker, workers, done, flags, recording, sending>>
Failed == IF result = "ok" THEN "failed" ELSE result
StopAudio ==
  /\ pc = "stop_audio" /\ Goto("release")
  /\ \/ running' = FALSE /\ UNCHANGED result
     \/ running /\ result' = Failed /\ UNCHANGED running
  /\ UNCHANGED <<holder, kind, camera, out, session, worker, workers, done, flags, recording, sending>>
ReleaseCamera ==
  /\ pc = "release" /\ camera' = FALSE
  /\ \/ UNCHANGED result
     \/ camera /\ result' = Failed
  /\ Goto("end")
  /\ queues' = FALSE /\ slots' = 0 /\ video' = 0 /\ audio' = <<>>
  /\ UNCHANGED <<holder, kind, running, out, worker, workers, done, flags, recording, sending>>
\* The last packet is written with the mutex held; the mutex goes to whoever asks next.
End ==
  /\ pc = "end" /\ holder' = None /\ kind' = None /\ Goto("idle")
  /\ worker' = [w \in {"camera", "audio"} |-> "none"]
  /\ UNCHANGED <<result, camera, running, out, session, workers, done, flags, recording, sending>>

-----------------------------------------------------------------------------
(* The camera worker *)

Work(w, l) == worker' = [worker EXCEPT ![w] = l]
Exit(w) == done' = done + 1 /\ Work(w, "gone")
CameraRest == UNCHANGED <<holder, kind, pc, result, camera, running, queues, audio, workers, stop, expired, recording, sending>>

CameraStart ==
  /\ worker["camera"] = "start"
  /\ IF stop \/ expired THEN Exit("camera") ELSE Work("camera", "slot") /\ UNCHANGED done
  /\ UNCHANGED <<out, slots, video, error, dropped>> /\ CameraRest
\* Without a free slot for 10 ms it gives up the queued frame and starts over.
CameraSlot ==
  /\ worker["camera"] = "slot"
  /\ \/ slots > 0 /\ slots' = slots - 1 /\ Work("camera", "acquire") /\ UNCHANGED <<out, video>>
     \/ slots = 0 /\ video = 1 /\ video' = 0 /\ out' = out - 1 /\ slots' = slots + 1 /\ Work("camera", "start")
     \/ slots = 0 /\ video = 0 /\ Work("camera", "start") /\ UNCHANGED <<out, slots, video>>
  /\ UNCHANGED <<done, error, dropped>> /\ CameraRest
Unslotted == worker["camera"] = "acquire" /\ error' = (error \/ ~stop) /\ Exit("camera") /\ UNCHANGED <<out, slots, video, dropped>> /\ CameraRest  \* mutant: a failed acquisition keeps its slot
CameraAbandon ==
  /\ worker["camera"] = "acquire"
  /\ IF stop THEN UNCHANGED error ELSE error' = TRUE
  /\ slots' = slots + 1 /\ Exit("camera")
  /\ UNCHANGED <<out, video, dropped>> /\ CameraRest
CameraAcquire ==
  /\ worker["camera"] = "acquire" /\ ~stop
  /\ out' = out + 1 /\ Work("camera", "replace")
  /\ UNCHANGED <<done, slots, video, error, dropped>> /\ CameraRest
CameraReplace ==
  /\ worker["camera"] = "replace"
  /\ IF video = 1 THEN video' = 0 /\ out' = out - 1 /\ slots' = slots + 1 ELSE UNCHANGED <<video, out, slots>>
  /\ Work("camera", "queue")
  /\ UNCHANGED <<done, error, dropped>> /\ CameraRest
CameraQueue ==
  /\ worker["camera"] = "queue" /\ video' = 1 /\ Work("camera", "start")
  /\ UNCHANGED <<done, out, slots, error, dropped>> /\ CameraRest

-----------------------------------------------------------------------------
(* The audio worker of a stream, and the recorder of a clip of both *)

AudioRest == UNCHANGED <<holder, kind, pc, result, camera, running, out, queues, slots, video, workers, stop, expired, sending>>
AudioStart ==
  /\ worker["audio"] = "start" /\ kind = "stream_av"
  /\ IF stop \/ expired \/ seq = MaxPackets THEN Exit("audio") ELSE Work("audio", "push") /\ UNCHANGED done
  /\ UNCHANGED <<audio, error, dropped, recording>> /\ AudioRest
AudioFails ==
  /\ worker["audio"] = "push" /\ error' = TRUE /\ Exit("audio")
  /\ UNCHANGED <<audio, dropped, recording>> /\ AudioRest
AudioPush ==
  /\ worker["audio"] = "push" /\ seq' = seq + 1 /\ Work("audio", "start")
  /\ IF Len(audio) < AudioQueue THEN audio' = Append(audio, seq) /\ UNCHANGED dropped
     ELSE dropped' = TRUE /\ UNCHANGED audio
  /\ UNCHANGED <<done, error, recorded>> /\ AudioRest
Warmup ==
  /\ worker["audio"] = "start" /\ kind = "av" /\ Work("audio", "record") /\ error' \in BOOLEAN
  /\ UNCHANGED <<done, audio, dropped, recording>> /\ AudioRest
RecordBlock ==
  /\ worker["audio"] = "record"
  /\ IF error \/ recorded = Length \/ stop
     THEN Exit("audio") /\ UNCHANGED <<error, recorded>>
     ELSE /\ UNCHANGED <<worker, done>>
          /\ (recorded' = recorded + 1 /\ UNCHANGED error) \/ (error' = TRUE /\ UNCHANGED recorded)
  /\ UNCHANGED <<audio, dropped, seq>> /\ AudioRest

Expire ==
  /\ ~expired /\ pc \notin {"idle"} /\ expired' = TRUE
  /\ UNCHANGED <<holder, kind, pc, result, camera, running, out, session, worker, workers, done, stop, error, dropped, recording, sending>>

Capture ==
  \/ Prepare \/ StartAudio \/ Begin \/ SpawnCamera \/ SpawnAudio \/ Ready \/ Transfer \/ Transferred \/ Record
  \/ Loop \/ Batch \/ Send \/ Frame \/ Check \/ Stop \/ Join \/ Drain \/ StopAudio \/ ReleaseCamera \/ End
CameraWorker == CameraStart \/ CameraSlot \/ CameraAbandon \/ CameraAcquire \/ CameraReplace \/ CameraQueue
AudioWorker == AudioStart \/ AudioFails \/ AudioPush \/ Warmup \/ RecordBlock
Next ==
  \/ \E t \in Tasks, k \in Kinds : Acquire(t, k)
  \/ Capture \/ CameraWorker \/ AudioWorker \/ Expire

Spec == Init /\ [][Next]_vars
\* The scheduler runs every ready task, calls return, and time passes.
FairSpec == Spec /\ WF_vars(Capture) /\ WF_vars(CameraWorker) /\ WF_vars(AudioWorker) /\ WF_vars(Expire)

-----------------------------------------------------------------------------
(* Properties *)

\* The state stays in its types.
TypeOK ==
  /\ holder \in Tasks \union {None} /\ result \in {"ok", "failed", "cancelled"}
  /\ slots \in 0 .. Buffers /\ video \in {0, 1}
  /\ out >= 0 /\ done <= workers
  /\ Len(audio) <= AudioQueue
  /\ Len(batch) <= AudioBatch

\* A camera that is released, or never prepared, has lent no frame: the frames
\* of the queue, of the worker and of the sender went back before.
FramesAreReturned == ~camera => out = 0

\* Each frame that the camera lent has a slot: a slot is free, its frame is being
\* acquired, or the frame is with the worker, in the queue or with the sender.
SlotsAreConserved ==
  queues =>
    /\ slots + out + (IF worker["camera"] = "acquire" THEN 1 ELSE 0) = Buffers
    /\ out = video + (IF mine THEN 1 ELSE 0) + (IF worker["camera"] \in {"replace", "queue"} THEN 1 ELSE 0)

\* The queues and semaphores of a stream exist as long as a worker that uses them.
QueuesOutliveWorkers ==
  Stream /\ (\E w \in DOMAIN worker : worker[w] \notin {"none", "gone"}) => queues /\ camera

\* The frames, slots and queues of a capture are owned by whoever uses them.
BuffersAreOwned == TypeOK /\ FramesAreReturned /\ SlotsAreConserved /\ QueuesOutliveWorkers

\* The sound of a stream has no gap: what is sent continues what was sent, though
\* packets are dropped behind the sender's back while it writes.
AudioIsContiguous == pc = "send" => batch[1] = heard + 1

\* See the two parts.
CaptureIsSound == BuffersAreOwned /\ AudioIsContiguous

\* A capture ends and leaves the mutex, whatever fails in it and whoever waits.
CapturesEnd == holder # None ~> holder = None
=============================================================================
