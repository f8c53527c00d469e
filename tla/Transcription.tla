--------------------------- MODULE Transcription ---------------------------
(***************************************************************************)
(* Transcriptions: the coroutine of kidi::inference::Transcriber, the      *)
(* decoder state of model::Whisper, and the model session of the browser   *)
(* (kidi_asr_start, kidi_asr_step, kidi_asr_cancel) that steps it.         *)
(*                                                                         *)
(* On a GPU of the browser the coroutine yields whenever it has submitted  *)
(* work, and what it reads from the device is there only once the page has *)
(* waited.  A window of shortened audio that makes Whisper repeat itself   *)
(* is decoded again over the full window.  A text is a sequence of bytes:  *)
(* a whole character, or the first or second half of one.                  *)
(***************************************************************************)
EXTENDS Integers, SequencesExt, FiniteSetsExt

CONSTANTS
  Vocabulary, Bytes,             \* number of tokens, and the bytes of the text ones
  StartToken, EndToken, NoTimestamps, TaskToken, \* NoTimestamps and all tokens above it time the text
  Languages,                     \* tokens of the languages, in the order they are tried
  Suppressed, BeginSuppressed,
  Gram, LoopTokens,              \* length of the sequences that repeat, and the fewest tokens that count
  Requests,                      \* see the type below
  MaxRequests,
  None

\* fit: whether the audio is shorter than the window and is fitted; auto: the language is
\* detected among all, or it is the first one; scores: what the model says of each window.
RequestAssumption == \A r \in Requests :
  /\ r.fit \in BOOLEAN /\ r.auto \in BOOLEAN /\ r.gpu \in BOOLEAN /\ r.lossy \in BOOLEAN
  /\ r.maximum \in Nat \ {0}

VARIABLES
  request,   \* of the active session, or None
  served,    \* requests that were started
  phase,     \* the next stage of the coroutine
  window,    \* of this attempt: "short" or "full"
  fed,       \* tokens in the decoder state
  language,
  tokens,    \* of this attempt
  emitted,   \* text that this attempt has reported
  device,    \* [value, there]: what the GPU was asked to select
  submitted, \* the coroutine has yielded, and the page has not waited yet
  shown,     \* transcription_text: what the page sees of the session
  outcome    \* of the last request: "none", "done", "failed", "revised" or "cancelled"

attempt == <<window, fed, language, tokens, emitted, device>>
vars == <<request, served, phase, attempt, submitted, shown, outcome>>

Tokens == 0..(Vocabulary - 1)

(***************************************************************************)
(* The model and its selections.                                           *)
(***************************************************************************)
Digest(s) == FoldLeftDomain(LAMBDA h, j: h + j * (s[j] + 1), 0, s)
Logits(r, w, s) == r.scores[w][(Digest(s) % Len(r.scores[w])) + 1]
First(scores, set) == CHOOSE t \in set : \A u \in set : scores[u] < scores[t] \/ (scores[u] = scores[t] /\ t <= u)

Allowed(step) == {t \in Tokens : t < NoTimestamps} \ (Suppressed \cup IF step = 0 THEN BeginSuppressed ELSE {})
SelectToken(r, w, s, step) == First(Logits(r, w, s), Allowed(step))
\* Of equal languages the one tried first.
SelectLanguage(r, w, s) ==
  LET scores == Logits(r, w, s)
      best == Max({scores[Languages[j]] : j \in DOMAIN Languages})
  IN Languages[Min({j \in DOMAIN Languages : scores[Languages[j]] = best})]

Repetitive(said) ==
  LET count == Len(said) - Gram + 1
      grams == {SubSeq(said, j, j + Gram - 1) : j \in 1..count}
  IN Len(said) >= LoopTokens /\ Cardinality(grams) * 3 < count * 2

(***************************************************************************)
(* Text.  A decoder keeps bytes that make no character, or replaces each.  *)
(***************************************************************************)
Decode(r, said) ==
  LET bytes == FoldLeft(LAMBDA text, t: text \o Bytes[t], <<>>, said)
      Whole(j) == \/ bytes[j] = "a"
                  \/ bytes[j] = "L" /\ j < Len(bytes) /\ bytes[j + 1] = "C"
                  \/ bytes[j] = "C" /\ j > 1 /\ bytes[j - 1] = "L"
  IN [j \in DOMAIN bytes |-> IF Whole(j) \/ ~r.lossy THEN bytes[j] ELSE "?"]

Width(byte) == IF byte \in {"L", "C"} THEN 2 ELSE 1

\* How much of a text decode_delta lets out: nothing from a replaced byte on, no half character.
AllOf(text, from) == Len(text)
Ripe(text, from) ==
  LET replaced == {j \in DOMAIN text : j > from /\ text[j] = "?"}
      end == IF replaced = {} THEN Len(text) ELSE Min(replaced) - 1
      leads == {j \in 1..end : text[j] # "C"}
      lead == IF leads = {} THEN 1 ELSE Max(leads)
  IN IF end > 0 /\ end - lead + 1 < Width(text[lead]) THEN lead - 1 ELSE end

(***************************************************************************)
(* Steps of the coroutine.                                                 *)
(***************************************************************************)
Running(p) == request # None /\ phase = p /\ ~submitted
Yield == submitted' = request.gpu
Ends(result) == request' = None /\ outcome' = result /\ phase' = "idle"

\* kidi_asr_start; a second session is refused while one is active.
Start ==
  /\ request = None /\ served < MaxRequests
  /\ request' \in Requests
  /\ served' = served + 1
  /\ phase' = "encode"
  /\ window' = IF request'.fit THEN "short" ELSE "full"
  /\ shown' = <<>>
  /\ outcome' = "none"
  /\ UNCHANGED <<fed, language, tokens, emitted, device, submitted>>

\* An attempt begins with nothing said and a new decoder state.
EncodeKeeping ==
  /\ Running("encode")
  /\ tokens' = <<>> /\ fed' = <<StartToken>>
  /\ Yield
  /\ phase' = "language"
  /\ UNCHANGED <<request, served, window, language, emitted, device, shown, outcome>>
Encode ==
  /\ Running("encode")
  /\ tokens' = <<>> /\ fed' = <<StartToken>> /\ emitted' = <<>>
  /\ Yield
  /\ phase' = "language"
  /\ UNCHANGED <<request, served, window, language, device, shown, outcome>>

AskLanguage ==
  /\ Running("language")
  /\ device' = [value |-> IF request.auto THEN SelectLanguage(request, window, fed) ELSE Languages[1], there |-> FALSE]
  /\ submitted' = (request.gpu /\ request.auto)
  /\ phase' = "prefix"
  /\ UNCHANGED <<request, served, window, fed, language, tokens, emitted, shown, outcome>>

\* What the device returns: another token as long as the work has not been waited for.
Read == IF device.there \/ ~request.gpu THEN device.value ELSE (device.value + 1) % Vocabulary

Prefix ==
  /\ Running("prefix")
  /\ language' = IF request.auto THEN Read ELSE device.value
  /\ fed' = fed \o <<language', TaskToken, NoTimestamps>>
  /\ phase' = "select"
  /\ UNCHANGED <<request, served, window, tokens, emitted, device, submitted, shown, outcome>>

SelectOnly ==
  /\ Running("select")
  /\ device' = [value |-> SelectToken(request, window, fed, Len(tokens)), there |-> FALSE]
  /\ phase' = "read"
  /\ UNCHANGED <<request, served, window, fed, language, tokens, emitted, submitted, shown, outcome>>
Select ==
  /\ Running("select")
  /\ device' = [value |-> SelectToken(request, window, fed, Len(tokens)), there |-> FALSE]
  /\ Yield
  /\ phase' = "read"
  /\ UNCHANGED <<request, served, window, fed, language, tokens, emitted, shown, outcome>>

\* Takes the selected token, reports the text it completes, and feeds it for the next one; a
\* text that takes back what was reported ends the request.
Take ==
  /\ Running("read") /\ Read # EndToken
  /\ LET said == Append(tokens, Read)
         text == Decode(request, said)
         ripe == SubSeq(text, 1, Ripe(text, Len(emitted)))
         more == Len(said) < request.maximum
     IN IF ~IsPrefix(emitted, text) THEN Ends("revised") /\ UNCHANGED <<tokens, fed, emitted, shown>>
        ELSE /\ tokens' = said /\ emitted' = ripe
             /\ shown' = IF Len(ripe) > Len(emitted) THEN ripe ELSE shown
             /\ fed' = IF more THEN Append(fed, Read) ELSE fed
             /\ phase' = IF more THEN "select" ELSE "attempted"
             /\ UNCHANGED <<request, outcome>>
  /\ UNCHANGED <<served, window, language, device, submitted>>

TakeEnd ==
  /\ Running("read") /\ Read = EndToken
  /\ phase' = "attempted"
  /\ UNCHANGED <<request, served, attempt, submitted, shown, outcome>>

Retry ==
  /\ Running("attempted") /\ window = "short" /\ Repetitive(tokens)
  /\ window' = "full" /\ phase' = "encode"
  /\ UNCHANGED <<request, served, fed, language, tokens, emitted, device, submitted, shown, outcome>>

\* The result; a text that was not reported to its end is reported now.
ShowNoMore == shown
ShowRest == LET text == Decode(request, tokens) IN IF text # emitted THEN text ELSE shown
Finish ==
  /\ Running("attempted") /\ ~(window = "short" /\ Repetitive(tokens))
  /\ shown' = ShowRest
  /\ Ends("done")
  /\ UNCHANGED <<served, attempt, submitted>>

(***************************************************************************)
(* Callers and faults.                                                     *)
(***************************************************************************)
\* The page waits for the device after every call, before it makes the next one.
Wait ==
  /\ submitted
  /\ submitted' = FALSE /\ device' = [device EXCEPT !.there = TRUE]
  /\ UNCHANGED <<request, served, phase, window, fed, language, tokens, emitted, shown, outcome>>

\* kidi_asr_cancel between two calls, or the caller's `cancelled` inside of one.  Without a GPU
\* a token is selected and read in one go.
Cancel ==
  /\ request # None /\ ~submitted /\ phase \notin {"idle", "attempted"}
  /\ phase = "read" => request.gpu
  /\ Ends("cancelled")
  /\ UNCHANGED <<served, attempt, submitted, shown>>

Fail ==
  /\ request # None /\ ~submitted
  /\ Ends("failed")
  /\ UNCHANGED <<served, attempt, submitted, shown>>

Init ==
  /\ request = None /\ served = 0 /\ phase = "idle"
  /\ window = "full" /\ fed = <<>> /\ language = None /\ tokens = <<>> /\ emitted = <<>>
  /\ device = [value |-> 0, there |-> FALSE]
  /\ submitted = FALSE /\ shown = <<>> /\ outcome = "none"

Next ==
  \/ Start \/ Encode \/ AskLanguage \/ Prefix \/ Select \/ Take \/ TakeEnd \/ Retry \/ Finish
  \/ Wait \/ Cancel \/ Fail

Spec == Init /\ [][Next]_vars

(***************************************************************************)
(* Properties.                                                             *)
(***************************************************************************)
\* The language and the tokens of a window, selected from the logits of everything before them.
Heard(r, w) == IF r.auto THEN SelectLanguage(r, w, <<StartToken>>) ELSE Languages[1]
Said(r, w) ==
  LET prefix == <<StartToken, Heard(r, w), TaskToken, NoTimestamps>>
      Step(said, n) ==
        LET t == SelectToken(r, w, prefix \o said.tokens, n - 1)
        IN IF said.ended \/ t = EndToken THEN [said EXCEPT !.ended = TRUE] ELSE [said EXCEPT !.tokens = Append(@, t)]
  IN FoldLeft(Step, [tokens |-> <<>>, ended |-> FALSE], [n \in 1..r.maximum |-> n]).tokens

\* Nothing is shown that a later token changes: no replaced byte, and no cut between the bytes of
\* a character.  A first byte ends it only if the text goes on with another character, so that it
\* will never be whole.
Stable(seen, text) ==
  /\ "?" \notin ToSet(seen)
  /\ Last(seen) = "L" => Len(seen) < Len(text) /\ text[Len(seen) + 1] # "C"

\* A transcription is that of one window, the full one if the shortened audio makes the model
\* repeat itself, whatever was read from the device and when; what the page has seen of it at
\* the end is its text, and until then more and more of the attempt's, in parts that are stable.
TranscriptIsOne ==
  [][/\ outcome' = "done" /\ outcome # "done" =>
          LET w == IF request.fit /\ ~Repetitive(Said(request, "short")) THEN "short" ELSE "full"
          IN /\ tokens = Said(request, w) /\ language = Heard(request, w)
             /\ shown' = Decode(request, tokens)
     /\ outcome' # "revised"
     /\ request' # None /\ shown' # shown /\ shown' # <<>> =>
          LET text == Decode(request, tokens')
          IN IsPrefix(emitted, shown') /\ IsPrefix(shown', text) /\ Stable(shown', text)
    ]_vars
=============================================================================
