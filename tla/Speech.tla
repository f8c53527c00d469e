------------------------------- MODULE Speech -------------------------------
(***************************************************************************)
(* Speech of a text: SegmentedSynthesisSession of kidi::inference, the     *)
(* diffusion coroutine of model::OmniVoice that speaks one chunk, and the  *)
(* model session of the browser, kidi_tts_start and _step, that steps them.*)
(*                                                                         *)
(* A text is cut into chunks.  Without a voice prompt the model speaks a   *)
(* reference chunk first, whose tokens prompt all others, so that the text *)
(* keeps one voice; what is heard is nevertheless in the order of the      *)
(* text.  A voice is known by where it comes from: <<n, i>> is the one the *)
(* model makes up for chunk i of call n, <<"page", k>> one that a page     *)
(* installed.  Audio is [chunk, voice, sound].                             *)
(***************************************************************************)
EXTENDS Integers, SequencesExt, FiniteSetsExt, TLC

CONSTANTS
  Models,         \* the calls that pages make of a loaded model, see the type below
  MaxCalls, MaxPrompts,
  Qualified,      \* frames of a reference that is long enough: three seconds
  None

\* lengths: audio frames of each chunk, 0 for one without speakable text; prompts: the model
\* supports voice prompts; device: diffusion on the device; deferred: results come once the
\* page has waited; steps and shift: of the diffusion, <<numerator, denominator>>; cache, use:
\* cache_voice_prompt and use_voice_prompt.
CallAssumption == \A model \in Models : \A c \in model :
  /\ c.lengths # <<>> /\ \A i \in DOMAIN c.lengths : c.lengths[i] \in Nat
  /\ {c.prompts, c.device, c.deferred, c.cache, c.use} \subseteq BOOLEAN
  /\ c.deferred => c.device
  /\ c.steps \in Nat \ {0} /\ c.shift[1] > 0 /\ c.shift[2] > 0

VARIABLES
  model,     \* the calls of the model that is loaded
  call,      \* of the active session, or None
  served,    \* calls that were started
  cached,    \* voice_prompt of the model session
  installed, \* prompts that pages have installed
  reference, \* selected_reference_, or None
  order,     \* chunks in the order they are spoken
  voice,     \* voice_prompt_ of the session
  completed, \* audio per chunk until it is flushed, or None
  finished,  \* completed_count_
  heard,     \* what on_audio_chunk and the result received
  active,    \* the coroutine of the chunk that is spoken, or None
  submitted, \* the session has yielded, and the page has not waited yet
  outcome    \* of the last call: "none", "done", "failed", "refused", "masked" or "cancelled"

session == <<reference, order, voice, completed, finished, heard, active>>
vars == <<model, call, served, cached, installed, session, submitted, outcome>>

Chunks == DOMAIN call.lengths
Own(i) == <<"chunk", served, i>>

(***************************************************************************)
(* The reference: the shortest chunk that is long enough, or the longest.  *)
(***************************************************************************)
ReferenceChunk(c) ==
  LET spoken == {i \in DOMAIN c.lengths : c.lengths[i] > 0}
      long == {i \in spoken : c.lengths[i] >= Qualified}
  IN IF spoken = {} THEN None
     ELSE IF long = {}
     THEN CHOOSE i \in spoken : \A j \in spoken : c.lengths[j] < c.lengths[i] \/ (c.lengths[j] = c.lengths[i] /\ i <= j)
     ELSE CHOOSE i \in long : \A j \in long : c.lengths[i] < c.lengths[j] \/ (c.lengths[i] = c.lengths[j] /\ i <= j)

SelectedReference(c, given) == IF c.prompts /\ Len(c.lengths) > 1 /\ given = None THEN ReferenceChunk(c) ELSE None
TextOrder(c, first) == [i \in DOMAIN c.lengths |-> i]
SpeakingOrder(c, first) ==
  IF first = None THEN TextOrder(c, first)
  ELSE <<first>> \o SelectSeq(TextOrder(c, first), LAMBDA i: i # first)

(***************************************************************************)
(* Diffusion.  After step s of n the share of decided tokens is that of    *)
(* time s/n, shifted; the last step decides what remains.                  *)
(***************************************************************************)
Ceil(p, q) == (p + q - 1) \div q
\* The share is p(s) / q(s).
ShareP(c, s) == c.shift[1] * s
ShareQ(c, s) == c.shift[2] * c.steps + (c.shift[1] - c.shift[2]) * s
DecidedOfRest(c, total, step, remaining) ==
  Min({remaining, (total * (ShareP(c, step + 1) * ShareQ(c, step) - ShareP(c, step) * ShareQ(c, step + 1)))
                    \div (ShareQ(c, step + 1) * ShareQ(c, step))})
Decided(c, total, step, remaining) ==
  IF step + 1 = c.steps THEN remaining
  ELSE Min({remaining, Ceil(total * (ShareP(c, step + 1) * ShareQ(c, step) - ShareP(c, step) * ShareQ(c, step + 1)),
                            ShareQ(c, step + 1) * ShareQ(c, step))})

(***************************************************************************)
(* The model session.                                                      *)
(***************************************************************************)
Idle == call = None
Runs == call # None /\ ~submitted
Ends(result) == call' = None /\ outcome' = result

Given(c) == IF c.use /\ c.prompts THEN cached ELSE None

\* kidi_tts_start, refused while a session is active.
Start ==
  /\ Idle /\ served < MaxCalls
  /\ \E c \in model :
       LET given == Given(c) IN
       /\ call' = c @@ [given |-> given]
       /\ reference' = SelectedReference(c, given)
       /\ order' = SpeakingOrder(c, reference')
       /\ voice' = given
       /\ completed' = [i \in DOMAIN c.lengths |-> None]
  /\ served' = served + 1
  /\ finished' = 0 /\ heard' = <<>> /\ active' = None
  /\ outcome' = "none"
  /\ UNCHANGED <<model, cached, installed, submitted>>

\* Begins the next chunk: all but the reference are prompted with the voice.
PromptGiven(i) == call.given
Prompt(i) == IF i = reference THEN None ELSE voice
BeginChunk ==
  /\ Runs /\ active = None
  /\ LET i == order[finished + 1] IN
       IF call.lengths[i] = 0 /\ call.prompts
       THEN Ends("refused") /\ UNCHANGED active
       ELSE /\ active' = [chunk |-> i, prompt |-> Prompt(i), step |-> 0, masked |-> call.lengths[i],
                          stage |-> IF call.prompts THEN "diffusion" ELSE "spoken", host |-> FALSE, sound |-> "silence"]
            /\ UNCHANGED <<model, call, outcome>>
  /\ UNCHANGED <<model, served, cached, installed, reference, order, voice, completed, finished, heard, submitted>>

At(stage) == Runs /\ active # None /\ active.stage = stage
Become(record) ==
  /\ active' = record
  /\ UNCHANGED <<model, call, served, cached, installed, reference, order, voice, completed, finished, heard, outcome>>

\* The device path yields after every step.
Diffuse ==
  /\ At("diffusion") /\ active.step < call.steps
  /\ Become([active EXCEPT !.step = @ + 1,
               !.masked = @ - Decided(call, call.lengths[active.chunk], active.step, @)])
  /\ submitted' = (call.device /\ call.deferred)

\* The device's tokens are copied to the host, at once or when the page has waited.
CollectEarly ==
  /\ At("diffusion") /\ active.step = call.steps
  /\ Become([active EXCEPT !.stage = "check", !.host = ~call.deferred])
  /\ UNCHANGED submitted
Collect ==
  /\ At("diffusion") /\ active.step = call.steps
  /\ Become([active EXCEPT !.stage = "check", !.host = ~call.deferred])
  /\ submitted' = call.deferred

Check ==
  /\ At("check")
  /\ IF active.masked > 0 \/ ~active.host
     THEN /\ Ends("masked")
          /\ UNCHANGED <<model, served, cached, installed, session, submitted>>
     ELSE /\ Become([active EXCEPT !.stage = "decoded", !.sound = IF call.deferred THEN @ ELSE "speech"])
          /\ submitted' = call.deferred

\* Makes audio of what the decoder left in the buffer of the samples.
Postprocess ==
  /\ At("decoded")
  /\ Become([active EXCEPT !.stage = "spoken"])
  /\ UNCHANGED submitted

\* A model without diffusion speaks a chunk in one go.
Audio ==
  [chunk |-> active.chunk,
   voice |-> IF ~call.prompts THEN "model" ELSE IF active.prompt = None THEN Own(active.chunk) ELSE active.prompt,
   sound |-> IF call.prompts THEN active.sound ELSE "speech"]

\* Audio that may be heard: everything up to the first chunk that is not completed.
FlushedEach(audio, from) == SelectSeq(audio, LAMBDA a: a # None)
Flushed(audio, from) ==
  LET missing == {i \in DOMAIN audio : i >= from /\ audio[i] = None}
      end == IF missing = {} THEN Len(audio) ELSE Min(missing) - 1
  IN SubSeq(audio, from, end)

\* The first voice of a text that had none prompts all that follow.
Taken == voice = None /\ call.prompts /\ (Len(call.lengths) = 1 \/ reference = active.chunk)
VoiceAfter == IF Taken THEN Audio.voice ELSE voice

CacheLatest(last) == IF call.cache THEN last ELSE cached
CacheAfter(last) ==
  IF cached = None /\ call.cache THEN last ELSE cached

EndChunk ==
  /\ At("spoken")
  /\ LET spoken == [completed EXCEPT ![active.chunk] = Audio]
         ready == Flushed(spoken, Len(heard) + 1)
     IN /\ heard' = heard \o ready
        /\ completed' = [i \in DOMAIN spoken |-> IF i <= Len(heard') THEN None ELSE spoken[i]]
  /\ voice' = VoiceAfter
  /\ finished' = finished + 1
  /\ active' = None
  /\ IF finished' < Len(order) THEN UNCHANGED <<model, call, cached, outcome>>
     ELSE Ends("done") /\ cached' = CacheAfter(voice')
  /\ UNCHANGED <<model, served, installed, reference, order, submitted>>

\* The page waits after each call; copies to the host are there then.
Wait ==
  /\ submitted
  /\ submitted' = FALSE
  /\ active' = IF active = None THEN active
               ELSE CASE active.stage = "check" -> [active EXCEPT !.host = TRUE]
                      [] active.stage = "decoded" -> [active EXCEPT !.sound = "speech"]
                      [] OTHER -> active
  /\ UNCHANGED <<model, call, served, cached, installed, reference, order, voice, completed, finished, heard, outcome>>

\* kidi_tts_set_voice_prompt, between any two calls of the session.
SetVoicePrompt ==
  /\ ~submitted /\ installed < MaxPrompts
  /\ \E c \in model : c.prompts
  /\ installed' = installed + 1
  /\ cached' = <<"page", installed'>>
  /\ UNCHANGED <<model, call, served, session, submitted, outcome>>

Cancel ==
  /\ Runs /\ Ends("cancelled")
  /\ UNCHANGED <<model, served, cached, installed, session, submitted>>

Fail ==
  /\ Runs /\ active # None /\ Ends("failed")
  /\ UNCHANGED <<model, served, cached, installed, session, submitted>>

InitWith(calls) ==
  /\ model = calls /\ call = None /\ served = 0 /\ cached = None /\ installed = 0
  /\ reference = None /\ order = <<>> /\ voice = None /\ completed = <<>> /\ finished = 0 /\ heard = <<>> /\ active = None
  /\ submitted = FALSE /\ outcome = "none"
Init == \E calls \in Models : InitWith(calls)

Next ==
  \/ Start \/ BeginChunk \/ Diffuse \/ Collect \/ Check \/ Postprocess \/ EndChunk
  \/ Wait \/ SetVoicePrompt \/ Cancel \/ Fail

Spec == Init /\ [][Next]_vars

(***************************************************************************)
(* Properties.                                                             *)
(***************************************************************************)
\* A text is heard in its order, every chunk once and with sound; where the model takes
\* prompts, in one voice: the one that was given, or else that of one of its chunks.  No chunk
\* ends with undecided tokens.  A page's prompt stays until the page replaces it.
SpeechIsWhole ==
  /\ \A i \in DOMAIN heard : heard[i].chunk = i /\ heard[i].sound = "speech"
  /\ \A i, j \in DOMAIN heard : heard[i].voice = heard[j].voice
  /\ call # None /\ call.given # None => \A i \in DOMAIN heard : heard[i].voice = call.given
  /\ outcome = "done" => Len(heard) = Len(order)
  /\ outcome # "masked"
  /\ installed > 0 => cached = <<"page", installed>>
=============================================================================
