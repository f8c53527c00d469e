---------------------- MODULE AccessoryCaptureProofs ----------------------
(***************************************************************************)
(* Proofs about the captures of the reference accessory: who owns a frame, *)
(* a slot or a queue, and that the sound of a stream has no gap, for any   *)
(* number of frames and any lengths of the queue and of a batch.           *)
(***************************************************************************)
EXTENDS AccessoryCapture, TLAPS

Starting == {"prepare", "microphone", "begin"}
Sending == {"loop", "batch", "send", "frame", "check"}
Joined == {"drain", "stop_audio", "release", "end"}
Steps == {"idle", "spawn_camera", "spawn_audio", "ready", "transfer", "record", "stop", "join"}
           \union Starting \union Sending \union Joined
Running(w) == worker[w] \notin {"none", "gone"}
One(b) == IF b THEN 1 ELSE 0

Types ==
  /\ holder \in Tasks \union {None} /\ pc \in Steps /\ result \in {"ok", "failed", "cancelled"}
  /\ slots \in Nat /\ out \in Nat /\ video \in {0, 1}
  /\ worker \in [{"camera", "audio"} -> {"none", "gone", "start", "slot", "acquire", "replace", "queue", "push", "record"}]
  /\ workers \in Nat /\ done \in Nat /\ seq \in Nat /\ heard \in Int
  /\ audio \in Seq(Nat) /\ Len(audio) <= AudioQueue
  /\ batch \in Seq(Nat) /\ Len(batch) <= AudioBatch

\* Where the capture is says what it is, and which of its resources exist.
ControlOK ==
  /\ holder = None => pc = "idle"
  /\ pc # "idle" => kind \in Kinds
  /\ pc = "spawn_camera" \/ pc \in Sending => Stream
  /\ pc = "spawn_audio" => kind \in {"av", "stream_av"}
  /\ pc = "ready" => kind = "av"
  /\ pc = "transfer" => kind \in {"photo", "video", "av", "speed"}
  /\ queues <=> Stream /\ pc \notin {"idle", "end"}
  /\ ~queues => slots = 0 /\ video = 0 /\ audio = <<>>

\* A worker is running for each one that was started and not joined, and whoever uses the camera has it.
WorkersOK ==
  /\ workers = done + One(Running("camera")) + One(Running("audio"))
  /\ pc \in Joined \union {"idle"} => workers = 0
  /\ pc \in Starting \union {"idle", "spawn_camera"} => worker["camera"] = "none"
  /\ pc \in Starting \union {"idle", "spawn_camera", "spawn_audio"} => worker["audio"] = "none"
  /\ worker["camera"] # "none" => Stream
  /\ worker["audio"] # "none" => kind \in {"av", "stream_av"}
  /\ worker["audio"] = "push" => kind = "stream_av"
  /\ Running("camera") => camera
  /\ Stream /\ Running("audio") => camera
  /\ NeedsCamera /\ pc \in {"microphone", "begin", "spawn_camera", "spawn_audio", "ready", "transfer"} \union Sending => camera

\* Every frame is somewhere, and only a capture that has the camera has one.
FramesOK ==
  /\ ~camera => out = 0
  /\ mine => pc = "frame" \/ (pc = "transfer" /\ kind # "speed")
  /\ pc = "frame" => mine
  /\ ~queues => out = One(mine)
  /\ queues => slots + out + One(worker["camera"] = "acquire") = Buffers
  /\ queues => out = video + One(mine) + One(worker["camera"] \in {"replace", "queue"})
  /\ worker["camera"] = "queue" => video = 0
  /\ pc \in {"stop_audio", "release"} => video = 0

\* Unless a packet was dropped, the batch and the queue continue what was sent, up to the last packet
\* that the worker made; after a drop the head of the queue does, until the sender sends or looks.
AudioOK ==
  /\ pc \notin {"batch", "send"} => batch = <<>>
  /\ pc \in {"batch", "send"} => batch # <<>> /\ \A i \in 1 .. Len(batch) : batch[i] = heard + i
  /\ queues /\ result = "ok" /\ ~error /\ ~dropped =>
       /\ \A i \in 1 .. Len(audio) : audio[i] = heard + Len(batch) + i
       /\ seq = heard + Len(batch) + Len(audio) + 1
  /\ queues /\ result = "ok" /\ ~error /\ dropped /\ pc \notin {"batch", "send", "frame", "check"} =>
       audio # <<>> /\ audio[1] = heard + 1

IInv == Types /\ ControlOK /\ WorkersOK /\ FramesOK /\ AudioOK

-----------------------------------------------------------------------------
(* Queues and batches of packets *)

LEMMA TailIs ==
  ASSUME NEW s \in Seq(Nat), s # <<>>
  PROVE  /\ Head(s) = s[1] /\ s[1] \in Nat /\ Tail(s) \in Seq(Nat) /\ Len(Tail(s)) = Len(s) - 1
         /\ \A i \in 1 .. Len(s) - 1 : Tail(s)[i] = s[i + 1]
OBVIOUS

LEMMA AppendIs ==
  ASSUME NEW s \in Seq(Nat), NEW e \in Nat
  PROVE  /\ Append(s, e) \in Seq(Nat) /\ Append(s, e) # <<>> /\ Len(Append(s, e)) = Len(s) + 1
         /\ Append(s, e)[Len(s) + 1] = e /\ \A i \in 1 .. Len(s) : Append(s, e)[i] = s[i]
OBVIOUS

-----------------------------------------------------------------------------
(* The capture *)

LEMMA PrepareStep == ASSUME IInv, Prepare PROVE IInv'
<1> USE CaptureAssumption DEF IInv, Prepare, Ends, Goto, session, flags, recording, sending, Stream, NeedsCamera, NeedsAudio
<1>1. Types'
  BY DEF Types, ControlOK, WorkersOK, FramesOK, Steps, Starting, Sending, Joined, Running, One
<1>2. ControlOK'
  BY DEF Types, ControlOK, WorkersOK, Running, One, Starting, Sending, Joined
<1>3. WorkersOK'
  BY DEF Types, ControlOK, WorkersOK, Running, One, Starting, Sending, Joined
<1>4. FramesOK'
  BY DEF Types, ControlOK, WorkersOK, FramesOK, Running, One, Starting, Sending, Joined
<1>5. AudioOK'
  BY DEF Types, ControlOK, WorkersOK, AudioOK, Sending
<1> QED
  BY <1>1, <1>2, <1>3, <1>4, <1>5

LEMMA StartAudioStep == ASSUME IInv, StartAudio PROVE IInv'
<1> USE CaptureAssumption DEF IInv, StartAudio, Outcome, Ends, Goto, session, flags, recording, sending, Stream, NeedsCamera, NeedsAudio
<1>1. Types'
  BY DEF Types, ControlOK, WorkersOK, FramesOK, Steps, Starting, Sending, Joined, Running, One
<1>2. ControlOK'
  BY DEF Types, ControlOK, WorkersOK, Running, One, Starting, Sending, Joined
<1>3. WorkersOK'
  BY DEF Types, ControlOK, WorkersOK, Running, One, Starting, Sending, Joined
<1>4. FramesOK'
  BY DEF Types, ControlOK, WorkersOK, FramesOK, Running, One, Starting, Sending, Joined
<1>5. AudioOK'
  BY DEF Types, ControlOK, WorkersOK, AudioOK, Sending
<1> QED
  BY <1>1, <1>2, <1>3, <1>4, <1>5

LEMMA BeginStep == ASSUME IInv, Begin PROVE IInv'
<1> USE CaptureAssumption DEF IInv, Begin, Writer, Outcome, Ends, Goto, session, flags, recording, sending, Stream, NeedsCamera, NeedsAudio
<1>1. Types'
  BY DEF Types, ControlOK, WorkersOK, FramesOK, Steps, Starting, Sending, Joined, Running, One
<1>2. ControlOK'
  BY DEF Types, ControlOK, WorkersOK, Running, One, Starting, Sending, Joined
<1>3. WorkersOK'
  BY DEF Types, ControlOK, WorkersOK, Running, One, Starting, Sending, Joined
<1>4. FramesOK'
  BY DEF Types, ControlOK, WorkersOK, FramesOK, Running, One, Starting, Sending, Joined
<1>5. AudioOK'
  BY DEF Types, ControlOK, WorkersOK, AudioOK, Sending
<1> QED
  BY <1>1, <1>2, <1>3, <1>4, <1>5

LEMMA SpawnCameraStep == ASSUME IInv, SpawnCamera PROVE IInv'
<1> USE CaptureAssumption DEF IInv, SpawnCamera, Spawn, Ends, Goto, session, flags, recording, sending, Stream, NeedsCamera, NeedsAudio
<1>1. Types'
  BY DEF Types, ControlOK, WorkersOK, FramesOK, Steps, Starting, Sending, Joined, Running, One
<1>2. ControlOK'
  BY DEF Types, ControlOK, WorkersOK, Running, One, Starting, Sending, Joined
<1>3. WorkersOK'
  BY SMTT(40) DEF Types, ControlOK, WorkersOK, Running, One, Starting, Sending, Joined
<1>4. FramesOK'
  BY DEF Types, ControlOK, WorkersOK, FramesOK, Running, One, Starting, Sending, Joined
<1>5. AudioOK'
  BY DEF Types, ControlOK, WorkersOK, AudioOK, Sending
<1> QED
  BY <1>1, <1>2, <1>3, <1>4, <1>5

LEMMA SpawnAudioStep == ASSUME IInv, SpawnAudio PROVE IInv'
<1> USE CaptureAssumption DEF IInv, SpawnAudio, Spawn, Ends, Goto, session, flags, recording, sending, Stream, NeedsCamera, NeedsAudio
<1>1. Types'
  BY DEF Types, ControlOK, WorkersOK, FramesOK, Steps, Starting, Sending, Joined, Running, One
<1>2. ControlOK'
  BY DEF Types, ControlOK, WorkersOK, Running, One, Starting, Sending, Joined
<1>3. WorkersOK'
  BY SMTT(40) DEF Types, ControlOK, WorkersOK, Running, One, Starting, Sending, Joined
<1>4. FramesOK'
  BY DEF Types, ControlOK, WorkersOK, FramesOK, Running, One, Starting, Sending, Joined
<1>5. AudioOK'
  BY DEF Types, ControlOK, WorkersOK, AudioOK, Sending
<1> QED
  BY <1>1, <1>2, <1>3, <1>4, <1>5

LEMMA ReadyStep == ASSUME IInv, Ready PROVE IInv'
<1> USE CaptureAssumption DEF IInv, Ready, Writer, Outcome, Ends, Goto, session, flags, recording, sending, Stream, NeedsCamera, NeedsAudio
<1>1. Types'
  BY DEF Types, ControlOK, WorkersOK, FramesOK, Steps, Starting, Sending, Joined, Running, One
<1>2. ControlOK'
  BY DEF Types, ControlOK, WorkersOK, Running, One, Starting, Sending, Joined
<1>3. WorkersOK'
  BY DEF Types, ControlOK, WorkersOK, Running, One, Starting, Sending, Joined
<1>4. FramesOK'
  BY DEF Types, ControlOK, WorkersOK, FramesOK, Running, One, Starting, Sending, Joined
<1>5. AudioOK'
  BY DEF Types, ControlOK, WorkersOK, AudioOK, Sending
<1> QED
  BY <1>1, <1>2, <1>3, <1>4, <1>5

LEMMA TransferStep == ASSUME IInv, Transfer PROVE IInv'
<1> USE CaptureAssumption DEF IInv, Transfer, Writer, Outcome, Ends, Goto, session, flags, recording, sending, Stream, NeedsCamera, NeedsAudio
<1>1. Types'
  BY DEF Types, ControlOK, WorkersOK, FramesOK, Steps, Starting, Sending, Joined, Running, One
<1>2. ControlOK'
  BY DEF Types, ControlOK, WorkersOK, Running, One, Starting, Sending, Joined
<1>3. WorkersOK'
  BY DEF Types, ControlOK, WorkersOK, Running, One, Starting, Sending, Joined
<1>4. FramesOK'
  BY DEF Types, ControlOK, WorkersOK, FramesOK, Running, One, Starting, Sending, Joined
<1>5. AudioOK'
  BY DEF Types, ControlOK, WorkersOK, AudioOK, Sending
<1> QED
  BY <1>1, <1>2, <1>3, <1>4, <1>5

LEMMA TransferredStep == ASSUME IInv, Transferred PROVE IInv'
<1> USE CaptureAssumption DEF IInv, Transferred, Writer, Outcome, Ends, Goto, session, flags, recording, sending, Stream, NeedsCamera, NeedsAudio
<1>1. Types'
  BY DEF Types, ControlOK, WorkersOK, FramesOK, Steps, Starting, Sending, Joined, Running, One
<1>2. ControlOK'
  BY DEF Types, ControlOK, WorkersOK, Running, One, Starting, Sending, Joined
<1>3. WorkersOK'
  BY DEF Types, ControlOK, WorkersOK, Running, One, Starting, Sending, Joined
<1>4. FramesOK'
  BY DEF Types, ControlOK, WorkersOK, FramesOK, Running, One, Starting, Sending, Joined
<1>5. AudioOK'
  BY DEF Types, ControlOK, WorkersOK, AudioOK, Sending
<1> QED
  BY <1>1, <1>2, <1>3, <1>4, <1>5

LEMMA RecordStep == ASSUME IInv, Record PROVE IInv'
<1> USE CaptureAssumption DEF IInv, Record, Writer, Outcome, Ends, Goto, session, flags, recording, sending, Stream, NeedsCamera, NeedsAudio
<1>1. Types'
  BY DEF Types, ControlOK, WorkersOK, FramesOK, Steps, Starting, Sending, Joined, Running, One
<1>2. ControlOK'
  BY DEF Types, ControlOK, WorkersOK, Running, One, Starting, Sending, Joined
<1>3. WorkersOK'
  BY DEF Types, ControlOK, WorkersOK, Running, One, Starting, Sending, Joined
<1>4. FramesOK'
  BY DEF Types, ControlOK, WorkersOK, FramesOK, Running, One, Starting, Sending, Joined
<1>5. AudioOK'
  BY DEF Types, ControlOK, WorkersOK, AudioOK, Sending
<1> QED
  BY <1>1, <1>2, <1>3, <1>4, <1>5

LEMMA LoopStep == ASSUME IInv, Loop PROVE IInv'
<1> USE CaptureAssumption DEF IInv, Loop, Sender, Ends, Goto, Finished, session, flags, recording, sending, Stream, NeedsCamera, NeedsAudio
<1>1. Types'
  <2>1. CASE audio # <<>>
    <3>1. Head(audio) \in Nat /\ Tail(audio) \in Seq(Nat) /\ Len(Tail(audio)) = Len(audio) - 1
      BY <2>1, TailIs DEF Types
    <3>2. (batch' = batch \/ batch' = <<Head(audio)>>) /\ audio' \in {audio, Tail(audio)}
      BY <2>1
    <3>3. /\ pc' \in {"stop", "batch"} /\ UNCHANGED <<holder, result, slots, out, worker, workers, done, seq, heard>>
          /\ video' = video
      BY <2>1
    <3> HIDE DEF Loop, Sender
    <3>4. /\ batch \in Seq(Nat) /\ Len(batch) <= AudioBatch /\ audio \in Seq(Nat) /\ Len(audio) <= AudioQueue
          /\ Len(audio) - 1 <= AudioQueue
      BY DEF Types
    <3>5. <<Head(audio)>> \in Seq(Nat) /\ Len(<<Head(audio)>>) <= AudioBatch
      BY <3>1
    <3>6. batch' \in Seq(Nat) /\ Len(batch') <= AudioBatch /\ audio' \in Seq(Nat) /\ Len(audio') <= AudioQueue
      BY <3>1, <3>2, <3>4, <3>5, Zenon
    <3> QED
      BY <3>3, <3>6 DEF Types, Steps, Sending, Joined
  <2>2. CASE audio = <<>>
    BY <2>2 DEF Types, Steps, Sending, Joined
  <2> QED
    BY <2>1, <2>2
<1>2. ControlOK'
  BY DEF Types, ControlOK, WorkersOK, Running, One, Starting, Sending, Joined
<1>3. WorkersOK'
  BY DEF Types, ControlOK, WorkersOK, Running, One, Starting, Sending, Joined
<1>4. FramesOK'
  BY SMTT(40) DEF Types, ControlOK, WorkersOK, FramesOK, Running, One, Starting, Sending, Joined
<1>5. AudioOK'
  <2>1. CASE Finished
    BY <2>1 DEF Types, ControlOK, AudioOK, Sending
  <2>2. CASE ~Finished /\ audio = <<>>
    BY <2>2 DEF Types, ControlOK, AudioOK, Sending
  <2>3. CASE ~Finished /\ audio # <<>>
    <3>1. Head(audio) = audio[1] /\ Len(Tail(audio)) = Len(audio) - 1 /\ \A i \in 1 .. Len(audio) - 1 : Tail(audio)[i] = audio[i + 1]
      BY <2>3 DEF Types
    <3>2. batch = <<>> /\ audio[1] = heard + 1
      BY <2>3 DEF Types, ControlOK, AudioOK, Sending
    <3>3. batch' = <<audio[1]>> /\ audio' = Tail(audio) /\ pc' = "batch"
      BY <2>3, <3>1
    <3>4. Len(batch') = 1 /\ batch'[1] = heard + 1 /\ batch' # <<>>
      BY <3>2, <3>3
    <3>5. Len(audio') = Len(audio) - 1 /\ \A i \in 1 .. Len(audio) - 1 : audio'[i] = audio[i + 1]
      BY <3>1, <3>3
    <3>6. UNCHANGED <<queues, result, error, dropped, seq, heard>> /\ Len(audio) \in Nat /\ Len(batch) = 0 /\ pc = "loop"
      BY <2>3, <3>2 DEF Types
    <3> HIDE DEF Loop, Sender, Finished
    <3> QED
      BY <2>3, <3>2, <3>3, <3>4, <3>5, <3>6 DEF Types, AudioOK, Sending
  <2> QED
    BY <2>1, <2>2, <2>3
<1> QED
  BY <1>1, <1>2, <1>3, <1>4, <1>5

LEMMA BatchStep == ASSUME IInv, Batch PROVE IInv'
<1> USE CaptureAssumption DEF IInv, Batch, Sender, Ends, Goto, Finished, session, flags, recording, sending, Stream, NeedsCamera, NeedsAudio
<1>1. Types'
  <2>1. CASE audio # <<>>
    <3>1. Head(audio) \in Nat /\ Tail(audio) \in Seq(Nat) /\ Len(Tail(audio)) = Len(audio) - 1
      BY <2>1, TailIs DEF Types
    <3>2. Append(batch, Head(audio)) \in Seq(Nat) /\ Len(Append(batch, Head(audio))) = Len(batch) + 1
      BY <3>1, AppendIs DEF Types
    <3>3. /\ audio' \in {audio, Tail(audio)}
          /\ batch' = batch \/ (Len(batch) < AudioBatch /\ batch' = Append(batch, Head(audio)))
      BY <2>1
    <3>4. pc' \in {"batch", "send"} /\ UNCHANGED <<holder, result, slots, out, video, worker, workers, done, seq, heard>>
      OBVIOUS
    <3> HIDE DEF Batch, Sender
    <3>5. /\ batch \in Seq(Nat) /\ Len(batch) <= AudioBatch /\ (Len(batch) < AudioBatch => Len(batch) + 1 <= AudioBatch)
          /\ audio \in Seq(Nat) /\ Len(audio) <= AudioQueue /\ Len(audio) - 1 <= AudioQueue
      BY DEF Types
    <3>6. batch' \in Seq(Nat) /\ Len(batch') <= AudioBatch /\ audio' \in Seq(Nat) /\ Len(audio') <= AudioQueue
      BY <3>1, <3>2, <3>3, <3>5, Zenon
    <3> QED
      BY <3>4, <3>6 DEF Types, Steps, Sending, Joined
  <2>2. CASE audio = <<>>
    BY <2>2 DEF Types, Steps, Sending, Joined
  <2> QED
    BY <2>1, <2>2
<1>2. ControlOK'
  BY DEF Types, ControlOK, WorkersOK, Running, One, Starting, Sending, Joined
<1>3. WorkersOK'
  BY DEF Types, ControlOK, WorkersOK, Running, One, Starting, Sending, Joined
<1>4. FramesOK'
  BY DEF Types, ControlOK, WorkersOK, FramesOK, Running, One, Starting, Sending, Joined
<1>5. AudioOK'
  <2>1. CASE Len(batch) < AudioBatch /\ audio # <<>>
    <3>1. Head(audio) = audio[1] /\ Len(Tail(audio)) = Len(audio) - 1 /\ \A i \in 1 .. Len(audio) - 1 : Tail(audio)[i] = audio[i + 1]
      BY <2>1 DEF Types
    <3>2. batch # <<>> /\ batch[Len(batch)] = heard + Len(batch) /\ \A i \in 1 .. Len(batch) : batch[i] = heard + i
      BY DEF Types, AudioOK
    <3>3. CASE audio[1] = batch[Len(batch)] + 1
      <4>1. batch' = Append(batch, audio[1]) /\ audio' = Tail(audio) /\ pc' = "batch" /\ error' = error
        BY <2>1, <3>1, <3>3
      <4>2. Len(batch') = Len(batch) + 1 /\ batch' # <<>> /\ \A i \in 1 .. Len(batch) + 1 : batch'[i] = heard + i
        <5>1. /\ batch \in Seq(Nat) /\ audio[1] \in Nat /\ heard \in Int /\ Len(batch) \in Nat
              /\ audio[1] = heard + (Len(batch) + 1)
          BY <2>1, <3>2, <3>3, TailIs DEF Types
        <5> HIDE DEF Batch
        <5>2. /\ Len(batch') = Len(batch) + 1 /\ batch' # <<>> /\ batch'[Len(batch) + 1] = audio[1]
              /\ \A i \in 1 .. Len(batch) : batch'[i] = batch[i]
          BY <4>1, <5>1, AppendIs
        <5>3. ASSUME NEW i \in 1 .. Len(batch) + 1 PROVE batch'[i] = heard + i
          <6>1. i = Len(batch) + 1 \/ i \in 1 .. Len(batch)
            BY <5>1
          <6> QED
            BY <3>2, <5>1, <5>2, <6>1
        <5> QED
          BY <5>2, <5>3
      <4>3. Len(audio') = Len(audio) - 1 /\ \A i \in 1 .. Len(audio) - 1 : audio'[i] = audio[i + 1]
        BY <3>1, <4>1
      <4>4. UNCHANGED <<queues, result, dropped, seq, heard>> /\ {Len(audio), Len(batch)} \subseteq Nat /\ pc = "batch"
        BY DEF Types
      <4> HIDE DEF Batch, Sender
      <4>5. CASE dropped
        BY <4>1, <4>2, <4>4, <4>5 DEF AudioOK
      <4>6. CASE ~dropped
        <5>1. ASSUME queues, result = "ok", ~error
              PROVE  /\ \A i \in 1 .. Len(audio') : audio'[i] = heard + Len(batch') + i
                     /\ seq = heard + Len(batch') + Len(audio') + 1
          BY <4>2, <4>3, <4>4, <4>6, <5>1, SMTT(40) DEF Types, AudioOK
        <5> QED
          BY <4>1, <4>2, <4>4, <4>6, <5>1 DEF AudioOK
      <4> QED
        BY <4>5, <4>6
    <3>4. CASE audio[1] # batch[Len(batch)] + 1
      BY <2>1, <3>1, <3>2, <3>4 DEF AudioOK
    <3> QED
      BY <3>3, <3>4
  <2>2. CASE ~(Len(batch) < AudioBatch /\ audio # <<>>)
    BY <2>2 DEF Types, ControlOK, AudioOK, Sending
  <2> QED
    BY <2>1, <2>2
<1> QED
  BY <1>1, <1>2, <1>3, <1>4, <1>5

LEMMA SendStep == ASSUME IInv, Send PROVE IInv'
<1> USE CaptureAssumption DEF IInv, Send, Sender, Ends, Goto, Finished, session, flags, recording, sending, Stream, NeedsCamera, NeedsAudio
<1>1. Types'
  <2>1. batch[Len(batch)] \in Nat
    BY DEF Types, AudioOK
  <2> QED
    BY <2>1 DEF Types, Steps, Sending, Joined
<1>2. ControlOK'
  BY DEF Types, ControlOK, WorkersOK, Running, One, Starting, Sending, Joined
<1>3. WorkersOK'
  BY DEF Types, ControlOK, WorkersOK, Running, One, Starting, Sending, Joined
<1>4. FramesOK'
  BY DEF Types, ControlOK, WorkersOK, FramesOK, Running, One, Starting, Sending, Joined
<1>5. AudioOK'
  <2>1. batch[Len(batch)] = heard + Len(batch)
    BY DEF Types, AudioOK
  <2>2. Len(batch') = 0 /\ Len(batch) \in Nat
    BY DEF Types
  <2>3. CASE result' = result /\ heard' = batch[Len(batch)]
    BY <2>1, <2>2, <2>3 DEF Types, ControlOK, AudioOK, Sending
  <2>4. CASE result' # "ok"
    BY <2>4 DEF Types, ControlOK, AudioOK, Sending
  <2> QED
    BY <2>3, <2>4
<1> QED
  BY <1>1, <1>2, <1>3, <1>4, <1>5

LEMMA FrameStep == ASSUME IInv, Frame PROVE IInv'
<1> USE CaptureAssumption DEF IInv, Frame, Sender, Ends, Goto, Finished, session, flags, recording, sending, Stream, NeedsCamera, NeedsAudio
<1>1. Types'
  BY DEF Types, ControlOK, WorkersOK, FramesOK, Steps, Starting, Sending, Joined, Running, One
<1>2. ControlOK'
  BY DEF Types, ControlOK, WorkersOK, Running, One, Starting, Sending, Joined
<1>3. WorkersOK'
  BY DEF Types, ControlOK, WorkersOK, Running, One, Starting, Sending, Joined
<1>4. FramesOK'
  BY DEF Types, ControlOK, WorkersOK, FramesOK, Running, One, Starting, Sending, Joined
<1>5. AudioOK'
  BY DEF Types, ControlOK, WorkersOK, AudioOK, Sending
<1> QED
  BY <1>1, <1>2, <1>3, <1>4, <1>5

LEMMA CheckStep == ASSUME IInv, Check PROVE IInv'
<1> USE CaptureAssumption DEF IInv, Check, Sender, Ends, Goto, Finished, session, flags, recording, sending, Stream, NeedsCamera, NeedsAudio
<1>1. Types'
  BY DEF Types, ControlOK, WorkersOK, FramesOK, Steps, Starting, Sending, Joined, Running, One
<1>2. ControlOK'
  BY DEF Types, ControlOK, WorkersOK, Running, One, Starting, Sending, Joined
<1>3. WorkersOK'
  BY DEF Types, ControlOK, WorkersOK, Running, One, Starting, Sending, Joined
<1>4. FramesOK'
  BY DEF Types, ControlOK, WorkersOK, FramesOK, Running, One, Starting, Sending, Joined
<1>5. AudioOK'
  BY DEF Types, ControlOK, WorkersOK, AudioOK, Sending
<1> QED
  BY <1>1, <1>2, <1>3, <1>4, <1>5

LEMMA StopStep == ASSUME IInv, Stop PROVE IInv'
<1> USE CaptureAssumption DEF IInv, Stop, Goto, Failed, session, flags, recording, sending, Stream, NeedsCamera, NeedsAudio
<1>1. Types'
  BY DEF Types, ControlOK, WorkersOK, FramesOK, Steps, Starting, Sending, Joined, Running, One
<1>2. ControlOK'
  BY DEF Types, ControlOK, WorkersOK, Running, One, Starting, Sending, Joined
<1>3. WorkersOK'
  BY DEF Types, ControlOK, WorkersOK, Running, One, Starting, Sending, Joined
<1>4. FramesOK'
  BY DEF Types, ControlOK, WorkersOK, FramesOK, Running, One, Starting, Sending, Joined
<1>5. AudioOK'
  BY DEF Types, ControlOK, WorkersOK, AudioOK, Sending
<1> QED
  BY <1>1, <1>2, <1>3, <1>4, <1>5

LEMMA JoinStep == ASSUME IInv, Join PROVE IInv'
<1> USE CaptureAssumption DEF IInv, Join, Goto, Failed, session, flags, recording, sending, Stream, NeedsCamera, NeedsAudio
<1>1. Types'
  BY DEF Types, ControlOK, WorkersOK, FramesOK, Steps, Starting, Sending, Joined, Running, One
<1>2. ControlOK'
  BY DEF Types, ControlOK, WorkersOK, Running, One, Starting, Sending, Joined
<1>3. WorkersOK'
  <2>1. CASE workers = 0
    BY <2>1 DEF Types, ControlOK, WorkersOK, Running, One, Sending, Joined, Starting
  <2>2. CASE workers # 0
    <3>1. pc' = pc /\ workers' = workers - 1 /\ done' = done - 1 /\ workers' \in Nat /\ done' \in Nat /\ UNCHANGED <<worker, kind, camera>>
      BY <2>2 DEF Types
    <3> HIDE DEF Join
    <3>2. (workers = done + One(Running("camera")) + One(Running("audio")))'
      BY <3>1 DEF Types, WorkersOK, One, Running
    <3> QED
      BY <3>1, <3>2 DEF Join, WorkersOK, Sending, Joined, Starting, Running
  <2> QED
    BY <2>1, <2>2
<1>4. FramesOK'
  BY DEF Types, ControlOK, WorkersOK, FramesOK, Running, One, Starting, Sending, Joined
<1>5. AudioOK'
  BY DEF Types, ControlOK, WorkersOK, AudioOK, Sending
<1> QED
  BY <1>1, <1>2, <1>3, <1>4, <1>5

LEMMA DrainStep == ASSUME IInv, Drain PROVE IInv'
<1> USE CaptureAssumption DEF IInv, Drain, Goto, Failed, session, flags, recording, sending, Stream, NeedsCamera, NeedsAudio
<1>1. Types'
  BY DEF Types, ControlOK, WorkersOK, FramesOK, Steps, Starting, Sending, Joined, Running, One
<1>2. ControlOK'
  BY DEF Types, ControlOK, WorkersOK, Running, One, Starting, Sending, Joined
<1>3. WorkersOK'
  BY DEF Types, ControlOK, WorkersOK, Running, One, Starting, Sending, Joined
<1>4. FramesOK'
  BY DEF Types, ControlOK, WorkersOK, FramesOK, Running, One, Starting, Sending, Joined
<1>5. AudioOK'
  BY DEF Types, ControlOK, WorkersOK, AudioOK, Sending
<1> QED
  BY <1>1, <1>2, <1>3, <1>4, <1>5

LEMMA StopAudioStep == ASSUME IInv, StopAudio PROVE IInv'
<1> USE CaptureAssumption DEF IInv, StopAudio, Goto, Failed, session, flags, recording, sending, Stream, NeedsCamera, NeedsAudio
<1>1. Types'
  BY DEF Types, ControlOK, WorkersOK, FramesOK, Steps, Starting, Sending, Joined, Running, One
<1>2. ControlOK'
  BY DEF Types, ControlOK, WorkersOK, Running, One, Starting, Sending, Joined
<1>3. WorkersOK'
  BY DEF Types, ControlOK, WorkersOK, Running, One, Starting, Sending, Joined
<1>4. FramesOK'
  BY DEF Types, ControlOK, WorkersOK, FramesOK, Running, One, Starting, Sending, Joined
<1>5. AudioOK'
  BY DEF Types, ControlOK, WorkersOK, AudioOK, Sending
<1> QED
  BY <1>1, <1>2, <1>3, <1>4, <1>5

LEMMA ReleaseCameraStep == ASSUME IInv, ReleaseCamera PROVE IInv'
<1> USE CaptureAssumption DEF IInv, ReleaseCamera, Goto, Failed, session, flags, recording, sending, Stream, NeedsCamera, NeedsAudio
<1>1. Types'
  BY DEF Types, ControlOK, WorkersOK, FramesOK, Steps, Starting, Sending, Joined, Running, One
<1>2. ControlOK'
  BY DEF Types, ControlOK, WorkersOK, Running, One, Starting, Sending, Joined
<1>3. WorkersOK'
  BY DEF Types, ControlOK, WorkersOK, Running, One, Starting, Sending, Joined
<1>4. FramesOK'
  BY DEF Types, ControlOK, WorkersOK, FramesOK, Running, One, Starting, Sending, Joined
<1>5. AudioOK'
  BY DEF Types, ControlOK, WorkersOK, AudioOK, Sending
<1> QED
  BY <1>1, <1>2, <1>3, <1>4, <1>5

LEMMA EndStep == ASSUME IInv, End PROVE IInv'
<1> USE CaptureAssumption DEF IInv, End, Goto, Failed, session, flags, recording, sending, Stream, NeedsCamera, NeedsAudio
<1>1. Types'
  BY DEF Types, ControlOK, WorkersOK, FramesOK, Steps, Starting, Sending, Joined, Running, One
<1>2. ControlOK'
  BY DEF Types, ControlOK, WorkersOK, Running, One, Starting, Sending, Joined
<1>3. WorkersOK'
  BY DEF Types, ControlOK, WorkersOK, Running, One, Starting, Sending, Joined
<1>4. FramesOK'
  BY DEF Types, ControlOK, WorkersOK, FramesOK, Running, One, Starting, Sending, Joined
<1>5. AudioOK'
  BY DEF Types, ControlOK, WorkersOK, AudioOK, Sending
<1> QED
  BY <1>1, <1>2, <1>3, <1>4, <1>5

LEMMA CameraStartStep == ASSUME IInv, CameraStart PROVE IInv'
<1> USE CaptureAssumption DEF IInv, CameraStart, CameraRest, Exit, Work, session, flags, recording, sending, Stream, NeedsCamera, NeedsAudio
<1>1. Types'
  BY DEF Types, ControlOK, WorkersOK, FramesOK, Steps, Starting, Sending, Joined, Running, One
<1>2. ControlOK'
  BY DEF Types, ControlOK, WorkersOK, Running, One, Starting, Sending, Joined
<1>3. WorkersOK'
  BY DEF Types, ControlOK, WorkersOK, Running, One, Starting, Sending, Joined
<1>4. FramesOK'
  BY DEF Types, ControlOK, WorkersOK, FramesOK, Running, One, Starting, Sending, Joined
<1>5. AudioOK'
  BY DEF Types, ControlOK, WorkersOK, AudioOK, Sending
<1> QED
  BY <1>1, <1>2, <1>3, <1>4, <1>5

LEMMA CameraSlotStep == ASSUME IInv, CameraSlot PROVE IInv'
<1> USE CaptureAssumption DEF IInv, CameraSlot, CameraRest, Exit, Work, session, flags, recording, sending, Stream, NeedsCamera, NeedsAudio
<1>1. Types'
  BY DEF Types, ControlOK, WorkersOK, FramesOK, Steps, Starting, Sending, Joined, Running, One
<1>2. ControlOK'
  BY DEF Types, ControlOK, WorkersOK, Running, One, Starting, Sending, Joined
<1>3. WorkersOK'
  BY DEF Types, ControlOK, WorkersOK, Running, One, Starting, Sending, Joined
<1>4. FramesOK'
  BY DEF Types, ControlOK, WorkersOK, FramesOK, Running, One, Starting, Sending, Joined
<1>5. AudioOK'
  BY DEF Types, ControlOK, WorkersOK, AudioOK, Sending
<1> QED
  BY <1>1, <1>2, <1>3, <1>4, <1>5

LEMMA CameraAbandonStep == ASSUME IInv, CameraAbandon PROVE IInv'
<1> USE CaptureAssumption DEF IInv, CameraAbandon, CameraRest, Exit, Work, session, flags, recording, sending, Stream, NeedsCamera, NeedsAudio
<1>1. Types'
  BY DEF Types, ControlOK, WorkersOK, FramesOK, Steps, Starting, Sending, Joined, Running, One
<1>2. ControlOK'
  BY DEF Types, ControlOK, WorkersOK, Running, One, Starting, Sending, Joined
<1>3. WorkersOK'
  BY DEF Types, ControlOK, WorkersOK, Running, One, Starting, Sending, Joined
<1>4. FramesOK'
  BY DEF Types, ControlOK, WorkersOK, FramesOK, Running, One, Starting, Sending, Joined
<1>5. AudioOK'
  BY DEF Types, ControlOK, WorkersOK, AudioOK, Sending
<1> QED
  BY <1>1, <1>2, <1>3, <1>4, <1>5

LEMMA CameraAcquireStep == ASSUME IInv, CameraAcquire PROVE IInv'
<1> USE CaptureAssumption DEF IInv, CameraAcquire, CameraRest, Exit, Work, session, flags, recording, sending, Stream, NeedsCamera, NeedsAudio
<1>1. Types'
  BY DEF Types, ControlOK, WorkersOK, FramesOK, Steps, Starting, Sending, Joined, Running, One
<1>2. ControlOK'
  BY DEF Types, ControlOK, WorkersOK, Running, One, Starting, Sending, Joined
<1>3. WorkersOK'
  BY DEF Types, ControlOK, WorkersOK, Running, One, Starting, Sending, Joined
<1>4. FramesOK'
  BY DEF Types, ControlOK, WorkersOK, FramesOK, Running, One, Starting, Sending, Joined
<1>5. AudioOK'
  BY DEF Types, ControlOK, WorkersOK, AudioOK, Sending
<1> QED
  BY <1>1, <1>2, <1>3, <1>4, <1>5

LEMMA CameraReplaceStep == ASSUME IInv, CameraReplace PROVE IInv'
<1> USE CaptureAssumption DEF IInv, CameraReplace, CameraRest, Exit, Work, session, flags, recording, sending, Stream, NeedsCamera, NeedsAudio
<1>1. Types'
  BY SMTT(40) DEF Types, ControlOK, WorkersOK, FramesOK, Steps, Starting, Sending, Joined, Running, One
<1>2. ControlOK'
  BY DEF Types, ControlOK, WorkersOK, Running, One, Starting, Sending, Joined
<1>3. WorkersOK'
  BY DEF Types, ControlOK, WorkersOK, Running, One, Starting, Sending, Joined
<1>4. FramesOK'
  BY DEF Types, ControlOK, WorkersOK, FramesOK, Running, One, Starting, Sending, Joined
<1>5. AudioOK'
  BY DEF Types, ControlOK, WorkersOK, AudioOK, Sending
<1> QED
  BY <1>1, <1>2, <1>3, <1>4, <1>5

LEMMA CameraQueueStep == ASSUME IInv, CameraQueue PROVE IInv'
<1> USE CaptureAssumption DEF IInv, CameraQueue, CameraRest, Exit, Work, session, flags, recording, sending, Stream, NeedsCamera, NeedsAudio
<1>1. Types'
  BY DEF Types, ControlOK, WorkersOK, FramesOK, Steps, Starting, Sending, Joined, Running, One
<1>2. ControlOK'
  BY DEF Types, ControlOK, WorkersOK, Running, One, Starting, Sending, Joined
<1>3. WorkersOK'
  BY DEF Types, ControlOK, WorkersOK, Running, One, Starting, Sending, Joined
<1>4. FramesOK'
  BY DEF Types, ControlOK, WorkersOK, FramesOK, Running, One, Starting, Sending, Joined
<1>5. AudioOK'
  BY DEF Types, ControlOK, WorkersOK, AudioOK, Sending
<1> QED
  BY <1>1, <1>2, <1>3, <1>4, <1>5

LEMMA AudioStartStep == ASSUME IInv, AudioStart PROVE IInv'
<1> USE CaptureAssumption DEF IInv, AudioStart, AudioRest, Exit, Work, session, flags, recording, sending, Stream, NeedsCamera, NeedsAudio
<1>1. Types'
  BY DEF Types, ControlOK, WorkersOK, FramesOK, Steps, Starting, Sending, Joined, Running, One
<1>2. ControlOK'
  BY DEF Types, ControlOK, WorkersOK, Running, One, Starting, Sending, Joined
<1>3. WorkersOK'
  <2>1. worker'["camera"] = worker["camera"] /\ worker'["audio"] \in {"gone", "push"} /\ Running("audio")
    BY DEF Types, Running
  <2>2. (workers = done + One(Running("camera")) + One(Running("audio")))'
    BY <2>1 DEF Types, WorkersOK, One, Running
  <2>3. UNCHANGED <<pc, kind, camera, workers>>
    OBVIOUS
  <2> QED
    BY <2>1, <2>2, <2>3 DEF WorkersOK, Sending, Joined, Starting, Running
<1>4. FramesOK'
  BY DEF Types, ControlOK, WorkersOK, FramesOK, Running, One, Starting, Sending, Joined
<1>5. AudioOK'
  BY DEF Types, ControlOK, WorkersOK, AudioOK, Sending
<1> QED
  BY <1>1, <1>2, <1>3, <1>4, <1>5

LEMMA AudioFailsStep == ASSUME IInv, AudioFails PROVE IInv'
<1> USE CaptureAssumption DEF IInv, AudioFails, AudioRest, Exit, Work, session, flags, recording, sending, Stream, NeedsCamera, NeedsAudio
<1>1. Types'
  BY DEF Types, ControlOK, WorkersOK, FramesOK, Steps, Starting, Sending, Joined, Running, One
<1>2. ControlOK'
  BY DEF Types, ControlOK, WorkersOK, Running, One, Starting, Sending, Joined
<1>3. WorkersOK'
  BY DEF Types, ControlOK, WorkersOK, Running, One, Starting, Sending, Joined
<1>4. FramesOK'
  BY DEF Types, ControlOK, WorkersOK, FramesOK, Running, One, Starting, Sending, Joined
<1>5. AudioOK'
  BY DEF Types, ControlOK, WorkersOK, AudioOK, Sending
<1> QED
  BY <1>1, <1>2, <1>3, <1>4, <1>5

LEMMA AudioPushStep == ASSUME IInv, AudioPush PROVE IInv'
<1> USE CaptureAssumption DEF IInv, AudioPush, AudioRest, Exit, Work, session, flags, recording, sending, Stream, NeedsCamera, NeedsAudio
<1>1. Types'
  <2>1. Append(audio, seq) \in Seq(Nat) /\ Len(Append(audio, seq)) = Len(audio) + 1
    BY AppendIs DEF Types
  <2>2. audio' \in Seq(Nat) /\ Len(audio') <= AudioQueue
    <3>1. audio' = audio \/ (Len(audio) < AudioQueue /\ audio' = Append(audio, seq))
      OBVIOUS
    <3> HIDE DEF AudioPush
    <3>2. audio \in Seq(Nat) /\ Len(audio) <= AudioQueue /\ (Len(audio) < AudioQueue => Len(audio) + 1 <= AudioQueue)
      BY DEF Types
    <3> HIDE DEF IInv
    <3> QED
      BY <2>1, <3>1, <3>2, Zenon
  <2> QED
    BY <2>2 DEF Types
<1>2. ControlOK'
  BY DEF Types, ControlOK, WorkersOK, Running, One, Starting, Sending, Joined
<1>3. WorkersOK'
  BY DEF Types, ControlOK, WorkersOK, Running, One, Starting, Sending, Joined
<1>4. FramesOK'
  BY DEF Types, ControlOK, WorkersOK, FramesOK, Running, One, Starting, Sending, Joined
<1>5. AudioOK'
  <2>1. CASE Len(audio) < AudioQueue
    <3>1. Len(audio') = Len(audio) + 1 /\ audio'[Len(audio) + 1] = seq /\ audio' # <<>> /\ \A i \in 1 .. Len(audio) : audio'[i] = audio[i]
      BY <2>1, SMTT(40) DEF Types
    <3>2. UNCHANGED <<queues, result, error, dropped, pc, batch, heard>> /\ seq' = seq + 1 /\ {Len(audio), Len(batch)} \subseteq Nat
      BY <2>1 DEF Types
    <3> HIDE DEF AudioPush, AudioRest, Work
    <3>3. CASE dropped
      <4>1. audio # <<>> => audio'[1] = audio[1]
        BY <3>1 DEF Types
      <4> QED
        BY <3>1, <3>2, <3>3, <4>1 DEF AudioOK, Types
    <3>4. CASE ~dropped
      <4>1. ASSUME queues, result = "ok", ~error
            PROVE  /\ \A i \in 1 .. Len(audio') : audio'[i] = heard + Len(batch) + i
                   /\ seq' = heard + Len(batch) + Len(audio') + 1
        <5>1. /\ seq = heard + Len(batch) + (Len(audio) + 1)
              /\ \A i \in 1 .. Len(audio) : audio[i] = heard + Len(batch) + i
          BY <3>2, <3>4, <4>1 DEF AudioOK, Types
        <5>2. ASSUME NEW i \in 1 .. Len(audio') PROVE audio'[i] = heard + Len(batch) + i
          <6>1. i = Len(audio) + 1 \/ i \in 1 .. Len(audio)
            BY <3>1, <3>2
          <6> QED
            BY <3>1, <5>1, <6>1
        <5> QED
          BY <3>1, <3>2, <5>1, <5>2 DEF Types
      <4> QED
        BY <3>2, <3>4, <4>1 DEF AudioOK
    <3> QED
      BY <3>3, <3>4
  <2>2. CASE ~(Len(audio) < AudioQueue)
    <3>1. Len(audio) >= 1
      BY <2>2 DEF Types
    <3>2. CASE dropped
      BY <2>2, <3>2 DEF Types, ControlOK, AudioOK
    <3>3. CASE ~dropped /\ pc \notin {"batch", "send"}
      <4>1. Len(batch) = 0
        BY <3>3 DEF AudioOK
      <4> QED
        BY <2>2, <3>1, <3>3, <4>1 DEF Types, ControlOK, AudioOK, Work
    <3>4. CASE ~dropped /\ pc \in {"batch", "send"}
      BY <2>2, <3>4 DEF Types, ControlOK, AudioOK
    <3> QED
      BY <3>2, <3>3, <3>4
  <2> QED
    BY <2>1, <2>2
<1> QED
  BY <1>1, <1>2, <1>3, <1>4, <1>5

LEMMA WarmupStep == ASSUME IInv, Warmup PROVE IInv'
<1> USE CaptureAssumption DEF IInv, Warmup, AudioRest, Exit, Work, session, flags, recording, sending, Stream, NeedsCamera, NeedsAudio
<1>1. Types'
  BY DEF Types, ControlOK, WorkersOK, FramesOK, Steps, Starting, Sending, Joined, Running, One
<1>2. ControlOK'
  BY DEF Types, ControlOK, WorkersOK, Running, One, Starting, Sending, Joined
<1>3. WorkersOK'
  BY DEF Types, ControlOK, WorkersOK, Running, One, Starting, Sending, Joined
<1>4. FramesOK'
  BY DEF Types, ControlOK, WorkersOK, FramesOK, Running, One, Starting, Sending, Joined
<1>5. AudioOK'
  BY DEF Types, ControlOK, WorkersOK, AudioOK, Sending
<1> QED
  BY <1>1, <1>2, <1>3, <1>4, <1>5

LEMMA RecordBlockStep == ASSUME IInv, RecordBlock PROVE IInv'
<1> USE CaptureAssumption DEF IInv, RecordBlock, AudioRest, Exit, Work, session, flags, recording, sending, Stream, NeedsCamera, NeedsAudio
<1>1. Types'
  BY DEF Types, ControlOK, WorkersOK, FramesOK, Steps, Starting, Sending, Joined, Running, One
<1>2. ControlOK'
  BY DEF Types, ControlOK, WorkersOK, Running, One, Starting, Sending, Joined
<1>3. WorkersOK'
  BY DEF Types, ControlOK, WorkersOK, Running, One, Starting, Sending, Joined
<1>4. FramesOK'
  BY DEF Types, ControlOK, WorkersOK, FramesOK, Running, One, Starting, Sending, Joined
<1>5. AudioOK'
  BY DEF Types, ControlOK, WorkersOK, AudioOK, Sending
<1> QED
  BY <1>1, <1>2, <1>3, <1>4, <1>5

LEMMA ExpireStep == ASSUME IInv, Expire PROVE IInv'
<1> USE CaptureAssumption DEF IInv, Expire, session, flags, recording, sending, Stream, NeedsCamera, NeedsAudio
<1>1. Types'
  BY DEF Types, ControlOK, WorkersOK, FramesOK, Steps, Starting, Sending, Joined, Running, One
<1>2. ControlOK'
  BY DEF Types, ControlOK, WorkersOK, Running, One, Starting, Sending, Joined
<1>3. WorkersOK'
  BY DEF Types, ControlOK, WorkersOK, Running, One, Starting, Sending, Joined
<1>4. FramesOK'
  BY DEF Types, ControlOK, WorkersOK, FramesOK, Running, One, Starting, Sending, Joined
<1>5. AudioOK'
  BY DEF Types, ControlOK, WorkersOK, AudioOK, Sending
<1> QED
  BY <1>1, <1>2, <1>3, <1>4, <1>5

-----------------------------------------------------------------------------
(* The invariant and the properties *)

LEMMA InitInv == Init => IInv
  BY CaptureAssumption DEF Init, IInv, Types, ControlOK, WorkersOK, FramesOK, AudioOK, Steps, Starting, Sending,
     Joined, Running, One, Stream, NeedsCamera

LEMMA AcquireStep == ASSUME IInv, NEW t \in Tasks, NEW k \in Kinds, Acquire(t, k) PROVE IInv'
<1> USE CaptureAssumption DEF IInv, Acquire, Ends, session, flags, recording, sending, Stream, NeedsCamera
<1>1. Types'
  <2>1. /\ holder' \in Tasks \union {None} /\ pc' \in Steps /\ result' = "ok"
        /\ slots' \in {slots, Buffers} /\ video' \in {video, 0} /\ audio' \in {audio, <<>>}
    BY DEF Steps, Starting
  <2>2. batch' = <<>> /\ seq' = 0 /\ heard' = -1 /\ workers' = 0 /\ done' = 0 /\ UNCHANGED <<out, worker>>
    OBVIOUS
  <2> HIDE DEF Acquire
  <2>3. <<>> \in Seq(Nat) /\ Len(<<>>) <= AudioQueue /\ Len(<<>>) <= AudioBatch
    OBVIOUS
  <2>4. /\ audio' \in Seq(Nat) /\ Len(audio') <= AudioQueue
        /\ batch' \in Seq(Nat) /\ Len(batch') <= AudioBatch
    <3>1. audio \in Seq(Nat) /\ Len(audio) <= AudioQueue
      BY DEF Types
    <3> QED
      BY <2>1, <2>2, <2>3, <3>1, Zenon
  <2>5. {slots', out', workers', done', seq'} \subseteq Nat /\ heard' \in Int /\ video' \in {0, 1}
    BY <2>1, <2>2 DEF Types
  <2> QED
    BY <2>1, <2>2, <2>3, <2>4, <2>5 DEF Types
<1>2. ControlOK'
  BY DEF ControlOK, Sending
<1>3. WorkersOK'
  BY DEF Types, ControlOK, WorkersOK, Running, One, Starting, Sending, Joined
<1>4. FramesOK'
  BY DEF Types, ControlOK, WorkersOK, FramesOK, Running, One, Starting
<1>5. AudioOK'
  BY DEF Types, ControlOK, AudioOK
<1> QED
  BY <1>1, <1>2, <1>3, <1>4, <1>5

LEMMA NextInv == IInv /\ [Next]_vars => IInv'
<1> SUFFICES ASSUME IInv, [Next]_vars PROVE IInv'
  OBVIOUS
<1>1. CASE \E t \in Tasks, k \in Kinds : Acquire(t, k)
  BY <1>1, AcquireStep
<1>2. CASE Capture
  BY <1>2, PrepareStep, StartAudioStep, BeginStep, SpawnCameraStep, SpawnAudioStep, ReadyStep, TransferStep,
     TransferredStep, RecordStep, LoopStep, BatchStep, SendStep, FrameStep, CheckStep, StopStep, JoinStep,
     DrainStep, StopAudioStep, ReleaseCameraStep, EndStep DEF Capture
<1>3. CASE CameraWorker
  BY <1>3, CameraStartStep, CameraSlotStep, CameraAbandonStep, CameraAcquireStep, CameraReplaceStep,
     CameraQueueStep DEF CameraWorker
<1>4. CASE AudioWorker
  BY <1>4, AudioStartStep, AudioFailsStep, AudioPushStep, WarmupStep, RecordBlockStep DEF AudioWorker
<1>5. CASE Expire
  BY <1>5, ExpireStep
<1>6. CASE UNCHANGED vars
  BY <1>6 DEF vars, session, flags, recording, sending, IInv, Types, ControlOK, WorkersOK, FramesOK, AudioOK,
     Running, One, Stream, NeedsCamera
<1> QED
  BY <1>1, <1>2, <1>3, <1>4, <1>5, <1>6 DEF Next

\* Where a capture is decides which of its resources exist, whose frames and slots they are, and
\* which workers have to be joined (capture_stream, capture_av, the camera and the audio worker).
THEOREM CaptureInvariant == Spec => []IInv
BY InitInv, NextInv, PTL DEF Spec

\* Frames, slots and queues are owned by whoever uses them, and the sound that is sent has no gap,
\* for any number of frames and tasks, any queue and batch length, and every failure and timing.
THEOREM CaptureSound == Spec => []CaptureIsSound
<1>1. IInv => TypeOK
  BY CaptureAssumption DEF IInv, Types, WorkersOK, FramesOK, ControlOK, TypeOK, One, Running
<1>2. IInv => FramesAreReturned /\ SlotsAreConserved
  BY DEF IInv, FramesOK, FramesAreReturned, SlotsAreConserved, One
<1>3. IInv => QueuesOutliveWorkers
  BY DEF IInv, Types, WorkersOK, ControlOK, QueuesOutliveWorkers, Running, One, Joined
<1>4. IInv => AudioIsContiguous
  BY DEF IInv, Types, AudioOK, AudioIsContiguous
<1>5. IInv => CaptureIsSound
  BY <1>1, <1>2, <1>3, <1>4 DEF CaptureIsSound, BuffersAreOwned
<1> QED
  BY <1>5, CaptureInvariant, PTL
=============================================================================
