------------------------- MODULE AndroidHostProofs -------------------------
(***************************************************************************)
(* Proofs about the Android service host: who holds the mutex and the      *)
(* microphone, what native memory holds, and what the resident flags say,  *)
(* for any requests, scenarios, failures and cancellations.                *)
(***************************************************************************)
EXTENDS AndroidHost, SequenceTheorems, FiniteSetTheorems, TLAPS

Statuses == {"none", "posted", "running", "dropped"} \cup Outcomes

\* What is done with inferenceMutex held, and what needs a resident model.
Inside == {"load", "ensure", "generate", "transcribe", "synthesize", "release"}
Uses == {"generate", "transcribe", "synthesize"}
Enters == {"acquire"} \cup (Inside \ {"release"})

Dos == Inside \cup {"acquire", "prepare", "flag", "require", "claim", "capture", "rate", "play"}
Places == {"start", "loading", "loaded", "enqueued", "stepping", "recording", "working", "playing"}
StageType == [do : Dos, kind : Kinds]
JobType == [status : Statuses, todo : Seq(StageType), at : Places]

\* The stages from acquire to release follow each other, a load is released
\* at once, and what is used was ensured by the stage before.
Proper(todo) ==
  \A i \in 1 .. Len(todo) :
    /\ todo[i].do \in Enters <=> i < Len(todo) /\ todo[i + 1].do \in Inside
    /\ todo[i].do = "load" => todo[i + 1].do = "release"
    /\ i < Len(todo) /\ todo[i + 1].do \in Uses =>
         todo[i].do = "ensure" /\ todo[i].kind = todo[i + 1].kind
    /\ todo[i].do = "generate" => todo[i].kind = "chat"

Without(todo, do) == \A i \in 1 .. Len(todo) : todo[i].do # do
Once(todo, do) ==
  \A i, j \in 1 .. Len(todo) : todo[i].do = do /\ todo[j].do = do => i = j

\* What PublishSnapshot starts.
DraftStages == {"acquire", "ensure", "transcribe", "release"}

JobOK(id) ==
  /\ Proper(jobs[id].todo)
  /\ ~Running(id) => jobs[id].todo = <<>>
  /\ jobs[id].status # "none" /\ id # Draft => id \in DOMAIN Method
  /\ id = Draft => /\ jobs[id].status \in {"none", "running"}
                   /\ \A i \in 1 .. Len(jobs[id].todo) : jobs[id].todo[i].do \in DraftStages

\* The coroutine is between acquire and release.
Within(id) == jobs[id].todo # <<>> /\ Head(jobs[id].todo).do \in Inside

\* The mutex is held by the coroutine that is inside, so at most one is.
JobsOK ==
  /\ jobs \in [Jobs -> JobType]
  /\ \A id \in Jobs : JobOK(id)
  /\ mutex # Nobody => mutex \in Jobs
  /\ \A id \in Jobs : Within(id) <=> mutex = id

SharedOK ==
  /\ scenario \in Scenarios
  /\ cancelled \subseteq Requests
  /\ available \subseteq Kinds /\ resident \subseteq Kinds
  /\ native \in [Kinds -> {"none", "ready", "failed"}]
  /\ queue = {} \/ \E id \in Requests : queue = {id}
  /\ registered \subseteq Requests /\ cancels \subseteq Requests
  /\ ttsCancelled \in BOOLEAN
  /\ failures \in 0 .. MaxFailures
  /\ cancelled = {} => cancels = {} /\ ~ttsCancelled

\* A dictation has the microphone from its claim on, and claims it once.
Claims(id) == ~Without(jobs[id].todo, "claim")
MicrophoneOK ==
  /\ asrInput # Nobody => asrInput \in Requests /\ Running(asrInput)
  /\ \A id \in Jobs :
       /\ Once(jobs[id].todo, "claim")
       /\ Claims(id) => asrInput # id
       /\ Claims(id) \/ asrInput = id => id \in DOMAIN Method /\ Method[id] = "asr.start"

\* A generation that is under way has its model, and the synthesizer is alone.
Generating(id) == InStage(id, "generate", "enqueued") \/ InStage(id, "generate", "stepping")
NativeOK ==
  /\ TtsIsAlone
  /\ \A id \in Jobs : Generating(id) => native["chat"] = "ready"

\* On demand nothing is loaded but by ensureResident.
DemandOK ==
  OnDemandOnly =>
    /\ available = Kinds
    /\ \A id \in Jobs : Without(jobs[id].todo, "load") /\ Without(jobs[id].todo, "flag")

\* The resident flags are right, or their holder is about to set them.
FlagsOf(S) == \A k \in S : native[k] = "ready"
Settling(id) ==
  /\ native[Kind(id)] = "ready"
  /\ FlagsOf(resident \ Evicted(Kind(id)))

\* Without failures and cancellations what is used is ready, the generator
\* has nothing but the request that generates, and nobody failed.
UndisturbedOK ==
  Undisturbed =>
    /\ \A id \in Jobs : InStage(id, "ensure", "loaded") => Settling(id)
    /\ (\A id \in Jobs : ~InStage(id, "ensure", "loaded")) => FlagsOf(resident)
    /\ \A id \in Jobs :
         Within(id) /\ Head(jobs[id].todo).do \in Uses => native[Kind(id)] = "ready"
    /\ \A r \in Jobs : r \in queue => Generating(r)
    /\ OneDictation => \A r \in Requests : jobs[r].status # "error"

IInv ==
  /\ JobsOK /\ SharedOK /\ MicrophoneOK /\ NativeOK /\ DemandOK /\ UndisturbedOK

-----------------------------------------------------------------------------
(* Programs *)

\* What is left of a program after stages are done with.
Part(u, v) ==
  /\ Proper(u) => Proper(v)
  /\ Once(u, "claim") => Once(v, "claim")
  /\ \A do \in {"load", "flag", "claim"} : Without(u, do) => Without(v, do)
  /\ (\A i \in 1 .. Len(u) : u[i].do \in DraftStages) => \A i \in 1 .. Len(v) : v[i].do \in DraftStages

\* A program that may follow another one.
Whole(todo) ==
  /\ todo \in Seq(StageType) /\ Proper(todo)
  /\ todo # <<>> => todo[1].do \notin Inside

\* What is known of the first stage.
LEMMA FirstStage ==
  ASSUME NEW todo \in Seq(StageType), todo # <<>>
  PROVE  /\ Len(todo) \in Nat \ {0} /\ Head(todo) = todo[1]
         /\ todo[1] \in StageType /\ 1 \in 1 .. Len(todo)
<1>1. Len(todo) \in Nat \ {0}
  BY EmptySeq
<1>2. 1 \in 1 .. Len(todo)
  BY <1>1
<1>3. todo[1] \in StageType
  BY <1>2, ElementOfSeq
<1>4. Head(todo) = todo[1]
  OBVIOUS
<1> QED
  BY <1>1, <1>2, <1>3, <1>4

\* What is known of the stages after the first.
LEMMA RestOfStages ==
  ASSUME NEW todo \in Seq(StageType), todo # <<>>
  PROVE  /\ Tail(todo) \in Seq(StageType)
         /\ Len(Tail(todo)) \in Nat /\ Len(Tail(todo)) + 1 = Len(todo)
         /\ \A i \in 1 .. Len(Tail(todo)) : Tail(todo)[i] = todo[i + 1] /\ i + 1 \in 1 .. Len(todo)
<1>1. Len(todo) \in Nat \ {0}
  BY FirstStage
<1>2. /\ Tail(todo) \in Seq(StageType) /\ Len(Tail(todo)) = Len(todo) - 1
      /\ \A i \in 1 .. Len(Tail(todo)) : Tail(todo)[i] = todo[i + 1]
  BY HeadTailProperties
<1> QED
  BY <1>1, <1>2

\* The stages after the first are a part.
LEMMA TailPart ==
  ASSUME NEW todo \in Seq(StageType), todo # <<>>
  PROVE  Part(todo, Tail(todo))
<1> DEFINE rest == Tail(todo)
<1>1. /\ rest \in Seq(StageType) /\ Len(rest) \in Nat /\ Len(rest) + 1 = Len(todo)
      /\ \A i \in 1 .. Len(rest) : rest[i] = todo[i + 1] /\ i + 1 \in 1 .. Len(todo)
  BY RestOfStages
<1> HIDE DEF rest
<1>2. ASSUME Proper(todo) PROVE Proper(rest)
  <2> SUFFICES ASSUME NEW i \in 1 .. Len(rest)
               PROVE  /\ rest[i].do \in Enters <=> i < Len(rest) /\ rest[i + 1].do \in Inside
                      /\ rest[i].do = "load" => rest[i + 1].do = "release"
                      /\ i < Len(rest) /\ rest[i + 1].do \in Uses =>
                           rest[i].do = "ensure" /\ rest[i].kind = rest[i + 1].kind
                      /\ rest[i].do = "generate" => rest[i].kind = "chat"
    BY DEF Proper
  <2> DEFINE j == i + 1
  <2>1. j \in 1 .. Len(todo) /\ rest[i] = todo[j]
    BY <1>1
  <2>2. /\ todo[j].do \in Enters <=> j < Len(todo) /\ todo[j + 1].do \in Inside
        /\ todo[j].do = "load" => todo[j + 1].do = "release"
        /\ j < Len(todo) /\ todo[j + 1].do \in Uses =>
             todo[j].do = "ensure" /\ todo[j].kind = todo[j + 1].kind
        /\ todo[j].do = "generate" => todo[j].kind = "chat"
    BY <1>2, <2>1 DEF Proper
  <2>3. j < Len(todo) <=> i < Len(rest)
    BY <1>1
  <2>4. i < Len(rest) => rest[i + 1] = todo[j + 1]
    <3>1. i < Len(rest) => i + 1 \in 1 .. Len(rest)
      BY <1>1
    <3> QED
      BY <1>1, <3>1
  <2>5. todo[j].do = "load" => j < Len(todo)
    BY <2>2 DEF Enters, Inside
  <2> HIDE DEF j
  <2> QED
    BY <2>1, <2>2, <2>3, <2>4, <2>5
<1>3. ASSUME Once(todo, "claim") PROVE Once(rest, "claim")
  <2> SUFFICES ASSUME NEW i \in 1 .. Len(rest), NEW j \in 1 .. Len(rest),
                      rest[i].do = "claim", rest[j].do = "claim"
               PROVE  i = j
    BY DEF Once
  <2>1. i + 1 = j + 1
    BY <1>1, <1>3 DEF Once
  <2> QED
    BY <2>1
<1>4. \A do \in {"load", "flag", "claim"} : Without(todo, do) => Without(rest, do)
  BY <1>1 DEF Without
<1>5. (\A i \in 1 .. Len(todo) : todo[i].do \in DraftStages)
        => \A i \in 1 .. Len(rest) : rest[i].do \in DraftStages
  BY <1>1
<1>6. Part(todo, rest)
  BY <1>2, <1>3, <1>4, <1>5 DEF Part
<1> QED
  BY <1>6 DEF rest

\* So is nothing.
LEMMA EmptyPart ==
  /\ Proper(<<>>) /\ Once(<<>>, "claim") /\ \A do : Without(<<>>, do)
  /\ \A u : Part(u, <<>>)
<1>1. Len(<<>>) = 0 /\ 1 .. 0 = {}
  OBVIOUS
<1> QED
  BY <1>1 DEF Proper, Once, Without, Part

\* Parts of parts are parts.
LEMMA PartOfPart ==
  ASSUME NEW u, NEW v, NEW w, Part(u, v), Part(v, w)
  PROVE  Part(u, w)
BY DEF Part

\* Two programs in sequence.
LEMMA WholeInSequence ==
  ASSUME NEW u, NEW v, Whole(u), Whole(v)
  PROVE  /\ Whole(u \o v)
         /\ \A do : Without(u, do) /\ Without(v, do) => Without(u \o v, do)
         /\ Without(u, "claim") /\ Once(v, "claim") => Once(u \o v, "claim")
         /\ Once(u, "claim") /\ Without(v, "claim") => Once(u \o v, "claim")
<1> DEFINE w == u \o v
           m == Len(u)
           n == Len(v)
<1>1. u \in Seq(StageType) /\ v \in Seq(StageType) /\ m \in Nat /\ n \in Nat
  BY LenProperties DEF Whole
<1>2. /\ w \in Seq(StageType) /\ Len(w) = m + n
      /\ \A i \in 1 .. m + n : w[i] = IF i <= m THEN u[i] ELSE v[i - m]
  BY <1>1, ConcatProperties
<1>3. \A i \in 1 .. m + n : ~(i <= m) => i - m \in 1 .. n
  BY <1>1
<1>4. \A i \in 1 .. m + n : i <= m => i \in 1 .. m
  BY <1>1
<1>5. n > 0 => v # <<>>
  <2>1. v = <<>> => n = 0
    BY EmptySeq
  <2> QED
    BY <1>1, <2>1
<1> HIDE DEF w
<1>6. Proper(w)
  <2> SUFFICES ASSUME NEW i \in 1 .. m + n
               PROVE  /\ w[i].do \in Enters <=> i < m + n /\ w[i + 1].do \in Inside
                      /\ w[i].do = "load" => w[i + 1].do = "release"
                      /\ i < m + n /\ w[i + 1].do \in Uses =>
                           w[i].do = "ensure" /\ w[i].kind = w[i + 1].kind
                      /\ w[i].do = "generate" => w[i].kind = "chat"
    BY <1>2 DEF Proper
  <2>1. CASE i < m
    <3>1. i \in 1 .. m /\ i + 1 \in 1 .. m /\ i + 1 <= m /\ i < m + n /\ i + 1 \in 1 .. m + n /\ i <= m
      BY <1>1, <2>1
    <3>2. w[i] = u[i] /\ w[i + 1] = u[i + 1]
      BY <1>2, <3>1
    <3>3. /\ u[i].do \in Enters <=> i < m /\ u[i + 1].do \in Inside
          /\ u[i].do = "load" => u[i + 1].do = "release"
          /\ i < m /\ u[i + 1].do \in Uses => u[i].do = "ensure" /\ u[i].kind = u[i + 1].kind
          /\ u[i].do = "generate" => u[i].kind = "chat"
      BY <3>1 DEF Whole, Proper
    <3> HIDE DEF m, n
    <3> QED
      BY <2>1, <3>1, <3>2, <3>3
  <2>2. CASE i = m
    <3>1. i \in 1 .. m /\ i <= m /\ ~(i < m)
      BY <1>1, <2>2
    <3>2. w[i] = u[i]
      BY <1>2, <3>1
    <3>3. /\ u[i].do \notin Enters
          /\ u[i].do = "generate" => u[i].kind = "chat"
      BY <3>1 DEF Whole, Proper
    <3>4. i < m + n => w[i + 1] = v[1] /\ v # <<>>
      <4> SUFFICES ASSUME i < m + n PROVE w[i + 1] = v[1] /\ v # <<>>
        OBVIOUS
      <4>1. n > 0 /\ i + 1 \in 1 .. m + n /\ ~(i + 1 <= m) /\ (i + 1) - m = 1
        BY <1>1, <2>2
      <4> HIDE DEF m, n
      <4> QED
        BY <1>2, <1>5, <4>1
    <3>5. i < m + n => w[i + 1].do \notin Inside
      BY <3>4 DEF Whole
    <3> HIDE DEF m, n
    <3> QED
      BY <3>2, <3>3, <3>5 DEF Enters, Inside, Uses
  <2>3. CASE i > m
    <3> DEFINE j == i - m
    <3>1. j \in 1 .. n /\ ~(i <= m)
      BY <1>1, <2>3
    <3>2. w[i] = v[j]
      BY <1>2, <3>1
    <3>3. i < m + n <=> j < n
      BY <1>1, <2>3
    <3>4. j < n => w[i + 1] = v[j + 1]
      <4> SUFFICES ASSUME j < n PROVE w[i + 1] = v[j + 1]
        OBVIOUS
      <4>1. i + 1 \in 1 .. m + n /\ ~(i + 1 <= m) /\ (i + 1) - m = j + 1
        BY <1>1, <2>3
      <4> HIDE DEF m, n, j
      <4> QED
        BY <1>2, <4>1
    <3>5. /\ v[j].do \in Enters <=> j < n /\ v[j + 1].do \in Inside
          /\ v[j].do = "load" => v[j + 1].do = "release"
          /\ j < n /\ v[j + 1].do \in Uses => v[j].do = "ensure" /\ v[j].kind = v[j + 1].kind
          /\ v[j].do = "generate" => v[j].kind = "chat"
      BY <3>1 DEF Whole, Proper
    <3>6. v[j].do = "load" => j < n
      BY <3>5 DEF Enters, Inside
    <3> HIDE DEF m, n, j
    <3> QED
      BY <3>2, <3>3, <3>4, <3>5, <3>6
  <2>4. i < m \/ i = m \/ i > m
    BY <1>1
  <2> QED
    BY <2>1, <2>2, <2>3, <2>4
<1>7. w # <<>> => w[1].do \notin Inside
  <2> SUFFICES ASSUME w # <<>> PROVE w[1].do \notin Inside
    OBVIOUS
  <2>1. 1 \in 1 .. m + n
    <3>1. Len(w) \in Nat \ {0}
      BY <1>2, EmptySeq
    <3> QED
      BY <1>1, <1>2, <3>1
  <2>2. CASE 1 <= m
    <3>1. u # <<>>
      <4>1. u = <<>> => m = 0
        BY EmptySeq
      <4> QED
        BY <2>2, <4>1
    <3>2. w[1] = u[1]
      BY <1>2, <2>1, <2>2
    <3> QED
      BY <3>1, <3>2 DEF Whole
  <2>3. CASE ~(1 <= m)
    <3>1. n > 0 /\ 1 - m = 1
      BY <1>1, <2>1, <2>3
    <3>2. w[1] = v[1]
      BY <1>2, <2>1, <2>3, <3>1
    <3> QED
      BY <1>5, <3>1, <3>2 DEF Whole
  <2> QED
    BY <2>2, <2>3
<1> HIDE DEF m, n
<1>8. \A do : Without(u, do) /\ Without(v, do) => Without(w, do)
  BY <1>2, <1>3, <1>4 DEF Without, m, n
<1>9. ASSUME Without(u, "claim"), Once(v, "claim") PROVE Once(w, "claim")
  <2> SUFFICES ASSUME NEW i \in 1 .. m + n, NEW j \in 1 .. m + n, w[i].do = "claim", w[j].do = "claim"
               PROVE  i = j
    BY <1>2 DEF Once
  <2>1. ~(i <= m) /\ ~(j <= m)
    BY <1>2, <1>4, <1>9 DEF Without, m
  <2>2. i - m = j - m
    BY <1>2, <1>3, <1>9, <2>1 DEF Once, n
  <2> QED
    BY <1>1, <2>2
<1>10. ASSUME Once(u, "claim"), Without(v, "claim") PROVE Once(w, "claim")
  <2> SUFFICES ASSUME NEW i \in 1 .. m + n, NEW j \in 1 .. m + n, w[i].do = "claim", w[j].do = "claim"
               PROVE  i = j
    BY <1>2 DEF Once
  <2>1. i <= m /\ j <= m
    BY <1>2, <1>3, <1>10 DEF Without, n
  <2> QED
    BY <1>2, <1>4, <1>10, <2>1 DEF Once, m
<1>11. Whole(w)
  BY <1>2, <1>6, <1>7 DEF Whole
<1> QED
  BY <1>8, <1>9, <1>10, <1>11 DEF w

\* The fields of a stage.
LEMMA StageTyped ==
  ASSUME NEW do \in Dos, NEW kind \in Kinds
  PROVE  Stage(do, kind) \in StageType /\ Stage(do, kind).do = do /\ Stage(do, kind).kind = kind
BY DEF Stage, StageType

\* The elements of short sequences.
LEMMA ShortSequences ==
  ASSUME NEW S, NEW a \in S, NEW b \in S, NEW c \in S, NEW d \in S, NEW e \in S
  PROVE  /\ LET s == <<a, b, c>>
            IN  s \in Seq(S) /\ Len(s) = 3 /\ s[1] = a /\ s[2] = b /\ s[3] = c
         /\ LET s == <<a, b, c, d>>
            IN  s \in Seq(S) /\ Len(s) = 4 /\ s[1] = a /\ s[2] = b /\ s[3] = c /\ s[4] = d
         /\ LET s == <<a, b, c, d, e>>
            IN  s \in Seq(S) /\ Len(s) = 5 /\ s[1] = a /\ s[2] = b /\ s[3] = c /\ s[4] = d /\ s[5] = e
OBVIOUS

\* One stage outside the mutex.
LEMMA OneStage ==
  ASSUME NEW do \in {"require", "rate", "play"}, NEW kind \in Kinds
  PROVE  LET todo == <<Stage(do, kind)>>
         IN  /\ Whole(todo) /\ Once(todo, "claim")
             /\ \A other : other # do => Without(todo, other)
<1> DEFINE todo == <<Stage(do, kind)>>
<1>1. todo \in Seq(StageType) /\ Len(todo) = 1 /\ todo[1].do = do
  <2>1. Stage(do, kind) \in StageType /\ Stage(do, kind).do = do
    BY StageTyped DEF Dos
  <2> QED
    BY <2>1
<1>2. \A i \in 1 .. Len(todo) : i = 1
  BY <1>1
<1> HIDE DEF todo
<1>3. Proper(todo)
  BY <1>1, <1>2 DEF Proper, Inside, Enters
<1>4. Once(todo, "claim") /\ \A other : other # do => Without(todo, other)
  BY <1>1, <1>2 DEF Once, Without
<1>5. Whole(todo)
  BY <1>1, <1>3 DEF Whole, Inside
<1> QED
  BY <1>4, <1>5 DEF todo

\* What was synthesized is played.
LEMMA PlaybackStages ==
  /\ Playback \in Seq(StageType) /\ Len(Playback) = 2
  /\ Playback[1].do = "rate" /\ Playback[1].kind = "tts"
  /\ Playback[2].do = "play" /\ Playback[2].kind = "tts"
  /\ Whole(Playback)
  /\ \A other : other \notin {"rate", "play"} => Without(Playback, other)
<1> DEFINE todo == Playback
           a == Stage("rate", "tts")
           b == Stage("play", "tts")
<1>1. /\ a \in StageType /\ b \in StageType /\ a.do = "rate" /\ b.do = "play"
      /\ a.kind = "tts" /\ b.kind = "tts"
  BY StageTyped DEF Dos, Kinds
<1>2. todo = <<a, b>>
  BY DEF Playback
<1> HIDE DEF todo, a, b
<1>3. todo \in Seq(StageType) /\ Len(todo) = 2 /\ todo[1] = a /\ todo[2] = b
  BY <1>1, <1>2
<1>4. \A i \in 1 .. Len(todo) : i \in {1, 2} /\ (i < Len(todo) <=> i # 2)
  BY <1>3
<1>5. Proper(todo)
  BY <1>1, <1>3, <1>4 DEF Proper, Inside, Enters, Uses
<1>6. \A other : other \notin {"rate", "play"} => Without(todo, other)
  BY <1>1, <1>3, <1>4 DEF Without
<1>7. Whole(todo)
  BY <1>1, <1>3, <1>5 DEF Whole, Inside
<1> QED
  BY <1>1, <1>3, <1>6, <1>7 DEF todo

\* A model is loaded by the stages that take and release the mutex.
LEMMA LoadStages ==
  ASSUME NEW kind \in Kinds
  PROVE  Whole(Load(kind)) /\ Without(Load(kind), "claim")
<1> DEFINE todo == Load(kind)
<1>1. /\ todo \in Seq(StageType) /\ Len(todo) = 5
      /\ todo[1].do = "prepare" /\ todo[2].do = "acquire" /\ todo[3].do = "load"
      /\ todo[4].do = "release" /\ todo[5].do = "flag"
  <2> DEFINE a == Stage("prepare", kind)
             b == Stage("acquire", kind)
             c == Stage("load", kind)
             d == Stage("release", kind)
             e == Stage("flag", kind)
  <2>1. /\ a \in StageType /\ b \in StageType /\ c \in StageType /\ d \in StageType /\ e \in StageType
        /\ a.do = "prepare" /\ b.do = "acquire" /\ c.do = "load" /\ d.do = "release" /\ e.do = "flag"
    BY StageTyped DEF Dos, Inside
  <2>2. todo = <<a, b, c, d, e>>
    BY DEF Load
  <2> HIDE DEF todo, a, b, c, d, e
  <2> QED
    BY <2>1, <2>2, ShortSequences
<1>2. \A i \in 1 .. Len(todo) : i \in {1, 2, 3, 4, 5} /\ (i < Len(todo) <=> i # 5)
  BY <1>1
<1> HIDE DEF todo
<1>3. Proper(todo)
  BY <1>1, <1>2 DEF Proper, Inside, Enters, Uses
<1>4. Without(todo, "claim")
  BY <1>1, <1>2 DEF Without
<1>5. Whole(todo)
  BY <1>1, <1>3 DEF Whole, Inside
<1> QED
  BY <1>4, <1>5 DEF todo

\* A model is used by the stages that take the mutex, ensure that it is
\* resident, and release the mutex.
LEMMA UseStages ==
  ASSUME NEW kind \in Kinds, NEW do \in Uses, do = "generate" => kind = "chat"
  PROVE  LET todo == Use(kind, do)
         IN  /\ Whole(todo) /\ Once(todo, "claim")
             /\ \A other \in {"load", "flag", "claim"} : Without(todo, other)
             /\ do = "transcribe" => \A i \in 1 .. Len(todo) : todo[i].do \in DraftStages
<1> DEFINE todo == Use(kind, do)
<1>1. /\ todo \in Seq(StageType) /\ Len(todo) = 4
      /\ todo[1].do = "acquire" /\ todo[2].do = "ensure" /\ todo[3].do = do
      /\ todo[4].do = "release" /\ todo[2].kind = todo[3].kind /\ todo[3].kind = kind
  <2> DEFINE a == Stage("acquire", kind)
             b == Stage("ensure", kind)
             c == Stage(do, kind)
             d == Stage("release", kind)
  <2>1. /\ a \in StageType /\ b \in StageType /\ c \in StageType /\ d \in StageType
        /\ a.do = "acquire" /\ b.do = "ensure" /\ c.do = do /\ d.do = "release"
        /\ b.kind = kind /\ c.kind = kind
    BY StageTyped DEF Dos, Inside, Uses
  <2>2. todo = <<a, b, c, d>>
    BY DEF Use
  <2> HIDE DEF todo, a, b, c, d
  <2> QED
    BY <2>1, <2>2, ShortSequences
<1>2. \A i \in 1 .. Len(todo) : i \in {1, 2, 3, 4} /\ (i < Len(todo) <=> i # 4)
  BY <1>1
<1> HIDE DEF todo
<1>3. Proper(todo)
  BY <1>1, <1>2 DEF Proper, Inside, Enters, Uses
<1>4. \A other \in {"load", "flag", "claim"} : Without(todo, other)
  BY <1>1, <1>2 DEF Without, Uses
<1>5. Once(todo, "claim")
  BY <1>4 DEF Once, Without
<1>6. do = "transcribe" => \A i \in 1 .. Len(todo) : todo[i].do \in DraftStages
  BY <1>1, <1>2 DEF DraftStages
<1>7. Whole(todo)
  BY <1>1, <1>3 DEF Whole, Inside
<1> QED
  BY <1>4, <1>5, <1>6, <1>7 DEF todo

\* So is it restored.
LEMMA RestoreStages ==
  /\ Whole(Restore)
  /\ \A other \in {"load", "flag", "claim"} : Without(Restore, other)
<1> DEFINE todo == Restore
<1>1. /\ todo \in Seq(StageType) /\ Len(todo) = 3
      /\ todo[1].do = "acquire" /\ todo[2].do = "ensure" /\ todo[3].do = "release"
  <2> DEFINE a == Stage("acquire", "chat")
             b == Stage("ensure", "chat")
             c == Stage("release", "chat")
  <2>1. /\ a \in StageType /\ b \in StageType /\ c \in StageType
        /\ a.do = "acquire" /\ b.do = "ensure" /\ c.do = "release"
    BY StageTyped DEF Dos, Inside, Kinds
  <2>2. todo = <<a, b, c>>
    BY DEF Restore
  <2> HIDE DEF todo, a, b, c
  <2> QED
    BY <2>1, <2>2, ShortSequences
<1>2. \A i \in 1 .. Len(todo) : i \in {1, 2, 3} /\ (i < Len(todo) <=> i # 3)
  BY <1>1
<1> HIDE DEF todo
<1>3. Proper(todo)
  BY <1>1, <1>2 DEF Proper, Inside, Enters, Uses
<1>4. \A other \in {"load", "flag", "claim"} : Without(todo, other)
  BY <1>1, <1>2 DEF Without
<1>5. Whole(todo)
  BY <1>1, <1>3 DEF Whole, Inside
<1> QED
  BY <1>4, <1>5 DEF todo

\* A dictation claims the microphone, and captures when its model is resident.
LEMMA CaptureStages ==
  LET todo == <<Stage("claim", "asr"), Stage("acquire", "asr"), Stage("ensure", "asr"),
                Stage("release", "asr"), Stage("capture", "asr")>>
  IN  Whole(todo) /\ Once(todo, "claim") /\ Without(todo, "load") /\ Without(todo, "flag")
<1> DEFINE todo == <<Stage("claim", "asr"), Stage("acquire", "asr"), Stage("ensure", "asr"),
                     Stage("release", "asr"), Stage("capture", "asr")>>
<1>1. /\ todo \in Seq(StageType) /\ Len(todo) = 5
      /\ todo[1].do = "claim" /\ todo[2].do = "acquire" /\ todo[3].do = "ensure"
      /\ todo[4].do = "release" /\ todo[5].do = "capture"
  <2> DEFINE a == Stage("claim", "asr")
             b == Stage("acquire", "asr")
             c == Stage("ensure", "asr")
             d == Stage("release", "asr")
             e == Stage("capture", "asr")
  <2>1. /\ a \in StageType /\ b \in StageType /\ c \in StageType /\ d \in StageType /\ e \in StageType
        /\ a.do = "claim" /\ b.do = "acquire" /\ c.do = "ensure" /\ d.do = "release" /\ e.do = "capture"
    BY StageTyped DEF Dos, Inside, Kinds
  <2>2. todo = <<a, b, c, d, e>>
    OBVIOUS
  <2> HIDE DEF todo, a, b, c, d, e
  <2> QED
    BY <2>1, <2>2, ShortSequences
<1>2. \A i \in 1 .. Len(todo) : i \in {1, 2, 3, 4, 5} /\ (i < Len(todo) <=> i # 5)
  BY <1>1
<1> HIDE DEF todo
<1>3. Proper(todo)
  BY <1>1, <1>2 DEF Proper, Inside, Enters, Uses
<1>4. Without(todo, "load") /\ Without(todo, "flag")
  BY <1>1, <1>2 DEF Without
<1>5. Once(todo, "claim")
  BY <1>1, <1>2 DEF Once
<1>6. Whole(todo)
  BY <1>1, <1>3 DEF Whole, Inside
<1> QED
  BY <1>4, <1>5, <1>6 DEF todo

\* Nothing to do.
LEMMA NoStages == Whole(<<>>) /\ Once(<<>>, "claim") /\ \A do : Without(<<>>, do)
BY EmptyPart, EmptySeq DEF Whole

\* A model that is missing is loaded.
LEMMA MissingStages ==
  ASSUME NEW kind \in Kinds
  PROVE  /\ Whole(LoadIfMissing(kind)) /\ Without(LoadIfMissing(kind), "claim")
         /\ kind \in available => LoadIfMissing(kind) = <<>>
BY NoStages, LoadStages DEF LoadIfMissing

\* What a request runs: every stage inside follows its acquire, a dictation
\* claims the microphone once and nobody else does, and on demand nothing is
\* loaded but by ensureResident.
LEMMA Programs ==
  ASSUME NEW method \in Methods
  PROVE  LET todo == Program(method)
         IN  /\ Whole(todo) /\ Once(todo, "claim")
             /\ method # "asr.start" => Without(todo, "claim")
             /\ available = Kinds /\ method \notin Preloads =>
                  Without(todo, "load") /\ Without(todo, "flag")
<1> DEFINE Fits(todo) ==
             /\ Whole(todo) /\ Once(todo, "claim")
             /\ method # "asr.start" => Without(todo, "claim")
             /\ available = Kinds /\ method \notin Preloads =>
                  Without(todo, "load") /\ Without(todo, "flag")
<1> SUFFICES Fits(Program(method))
  OBVIOUS
<1>0. \A todo : Without(todo, "claim") => Once(todo, "claim")
  BY DEF Once, Without
<1>1. ASSUME NEW kind \in Kinds, Program(method) = Load(kind), method \in Preloads PROVE Fits(Program(method))
  BY <1>0, <1>1, LoadStages
<1>2. CASE method = "runtime.restore"
  <2>1. Program(method) = IF "chat" \in available \ resident THEN Restore ELSE <<>>
    BY <1>2 DEF Program
  <2> QED
    BY <1>0, <2>1, RestoreStages, NoStages
<1>3. CASE method \in {"chat.start", "reader.translate"}
  <2> DEFINE u == <<Stage("require", "chat")>>
             v == Use("chat", "generate")
  <2>1. Program(method) = u \o v
    BY <1>3 DEF Program
  <2>2. "require" \in {"require", "rate", "play"} /\ "chat" \in Kinds /\ "generate" \in Uses
    BY DEF Kinds, Uses
  <2>3. Whole(u) /\ Without(u, "claim") /\ Without(u, "load") /\ Without(u, "flag")
    BY <2>2, OneStage
  <2>4. Whole(v) /\ Without(v, "claim") /\ Without(v, "load") /\ Without(v, "flag")
    BY <2>2, UseStages
  <2> HIDE DEF u, v
  <2>5. Whole(u \o v) /\ Without(u \o v, "claim") /\ Without(u \o v, "load") /\ Without(u \o v, "flag")
    BY <2>3, <2>4, WholeInSequence
  <2> QED
    BY <1>0, <2>1, <2>5
<1>4. CASE method = "tts.start"
  <2> DEFINE u == LoadIfMissing("tts")
             v == Use("tts", "synthesize")
             w == Playback
  <2>1. Program(method) = u \o v \o w
    BY <1>4 DEF Program
  <2>2. "tts" \in Kinds /\ "synthesize" \in Uses
    BY DEF Kinds, Uses
  <2>3. Whole(u) /\ Without(u, "claim")
    BY <2>2, MissingStages
  <2>4. available = Kinds => Without(u, "load") /\ Without(u, "flag")
    BY <2>2, MissingStages, NoStages
  <2>5. Whole(v) /\ Without(v, "claim") /\ Without(v, "load") /\ Without(v, "flag")
    BY <2>2, UseStages
  <2>6. Whole(w) /\ Without(w, "claim") /\ Without(w, "load") /\ Without(w, "flag")
    BY PlaybackStages
  <2> HIDE DEF u, v, w
  <2>7. /\ Whole(u \o v) /\ Without(u \o v, "claim")
        /\ available = Kinds => Without(u \o v, "load") /\ Without(u \o v, "flag")
    BY <2>3, <2>4, <2>5, WholeInSequence
  <2>8. /\ Whole(u \o v \o w) /\ Without(u \o v \o w, "claim")
        /\ available = Kinds => Without(u \o v \o w, "load") /\ Without(u \o v \o w, "flag")
    BY <2>6, <2>7, WholeInSequence
  <2> QED
    BY <1>0, <2>1, <2>8
<1>5. CASE method = "asr.start"
  <2> DEFINE u == LoadIfMissing("asr")
             v == <<Stage("claim", "asr"), Stage("acquire", "asr"), Stage("ensure", "asr"),
                    Stage("release", "asr"), Stage("capture", "asr")>>
             w == Use("asr", "transcribe")
  <2>1. Program(method) = u \o v \o w
    BY <1>5 DEF Program
  <2>2. "asr" \in Kinds /\ "transcribe" \in Uses
    BY DEF Kinds, Uses
  <2>3. Whole(u) /\ Without(u, "claim")
    BY <2>2, MissingStages
  <2>4. available = Kinds => Without(u, "load") /\ Without(u, "flag")
    BY <2>2, MissingStages, NoStages
  <2>5. Whole(v) /\ Once(v, "claim") /\ Without(v, "load") /\ Without(v, "flag")
    BY CaptureStages
  <2>6. Whole(w) /\ Without(w, "claim") /\ Without(w, "load") /\ Without(w, "flag")
    BY <2>2, UseStages
  <2> HIDE DEF u, v, w
  <2>7. /\ Whole(u \o v) /\ Once(u \o v, "claim")
        /\ available = Kinds => Without(u \o v, "load") /\ Without(u \o v, "flag")
    BY <2>3, <2>4, <2>5, WholeInSequence
  <2>8. /\ Whole(u \o v \o w) /\ Once(u \o v \o w, "claim")
        /\ available = Kinds => Without(u \o v \o w, "load") /\ Without(u \o v \o w, "flag")
    BY <2>6, <2>7, WholeInSequence
  <2> QED
    BY <1>5, <2>1, <2>8
<1>6. CASE method = "runtime.load"
  <2>1. Program(method) = Load("chat") /\ "chat" \in Kinds /\ method \in Preloads
    BY <1>6 DEF Program, Kinds, Preloads
  <2> QED
    BY <1>1, <2>1
<1>7. CASE method = "asr.preload"
  <2>1. Program(method) = Load("asr") /\ "asr" \in Kinds /\ method \in Preloads
    BY <1>7 DEF Program, Kinds, Preloads
  <2> QED
    BY <1>1, <2>1
<1>8. CASE method = "tts.preload"
  <2>1. Program(method) = Load("tts") /\ "tts" \in Kinds /\ method \in Preloads
    BY <1>8 DEF Program, Kinds, Preloads
  <2> QED
    BY <1>1, <2>1
<1> HIDE DEF Fits
<1> QED
  <2>1. method \in {"runtime.load", "asr.preload", "tts.preload", "runtime.restore", "chat.start",
                    "reader.translate", "tts.start", "asr.start"}
    BY DEF Methods, Preloads
  <2> QED
    BY <2>1, <1>2, <1>3, <1>4, <1>5, <1>6, <1>7, <1>8

-----------------------------------------------------------------------------
(* What a step does to the coroutines and the mutex. *)

\* One coroutine changes, and perhaps whether it holds the mutex.
Changes(id) ==
  /\ jobs' \in [Jobs -> JobType]
  /\ \A other \in Jobs \ {id} : jobs'[other] = jobs[other]
  /\ mutex' = mutex \/ (mutex \in {Nobody, id} /\ mutex' \in {Nobody, id})
  /\ scenario' = scenario

\* None is no coroutine, and the coroutine of drafts is no request.
LEMMA Distinct ==
  Nobody \notin Jobs /\ Draft \notin Requests /\ Draft \in Jobs /\ Requests \subseteq Jobs
BY HostAssumption DEF Jobs

\* What is known of a coroutine that is somewhere in a stage.
LEMMA AtStage ==
  ASSUME JobsOK, NEW id \in Jobs, NEW do, NEW at, InStage(id, do, at)
  PROVE  /\ jobs[id] \in JobType /\ jobs[id].todo \in Seq(StageType) /\ jobs[id].todo # <<>>
         /\ Len(jobs[id].todo) \in Nat \ {0} /\ 1 \in 1 .. Len(jobs[id].todo)
         /\ jobs[id].todo[1].do = do /\ Head(jobs[id].todo).do = do
         /\ Kind(id) = jobs[id].todo[1].kind /\ Kind(id) \in Kinds
         /\ Running(id) /\ jobs[id].status = "running" /\ jobs[id].at = at
         /\ do \in Inside <=> mutex = id
<1> DEFINE todo == jobs[id].todo
<1>1. /\ jobs[id] \in JobType /\ todo # <<>> /\ Head(todo).do = do
      /\ Running(id) /\ jobs[id].status = "running" /\ jobs[id].at = at
      /\ Kind(id) = Head(todo).kind
  BY DEF JobsOK, InStage, Running, Kind
<1>2. todo \in Seq(StageType)
  BY <1>1 DEF JobType
<1>3. do \in Inside <=> mutex = id
  BY <1>1 DEF JobsOK, Within
<1> HIDE DEF todo
<1>4. /\ Len(todo) \in Nat \ {0} /\ 1 \in 1 .. Len(todo) /\ Head(todo) = todo[1]
      /\ todo[1] \in StageType
  BY <1>1, <1>2, FirstStage
<1>5. todo[1].kind \in Kinds
  BY <1>4 DEF StageType
<1> QED
  BY <1>1, <1>2, <1>3, <1>4, <1>5 DEF todo

\* A coroutine that runs, or goes on with a part of its stages, or ends.
LEMMA PartJob ==
  ASSUME JobsOK, NEW id \in Jobs, Changes(id), jobs[id].status # "none",
         Part(jobs[id].todo, jobs'[id].todo),
         jobs'[id].status # "running" => jobs'[id].todo = <<>>,
         id = Draft => jobs'[id].status \in {"none", "running"}
  PROVE  JobOK(id)'
BY DEF JobsOK, JobOK, Part, Changes, Running, Method

\* The other coroutines are neither inside nor do they hold the mutex.
LEMMA JobsStep ==
  ASSUME JobsOK, NEW id \in Jobs, Changes(id), JobOK(id)', Within(id)' <=> mutex' = id
  PROVE  JobsOK'
<1>1. jobs' \in [Jobs -> JobType] /\ (mutex' # Nobody => mutex' \in Jobs)
  BY DEF JobsOK, Changes
<1>2. ASSUME NEW other \in Jobs
      PROVE  JobOK(other)' /\ (Within(other)' <=> mutex' = other)
  <2>1. CASE other = id
    BY <2>1
  <2>2. CASE other # id
    <3>1. jobs'[other] = jobs[other] /\ scenario' = scenario
      BY <2>2 DEF Changes
    <3>2. JobOK(other)' /\ (Within(other)' <=> Within(other))
      BY <3>1 DEF JobsOK, JobOK, Within, Running, Method
    <3>3. mutex' = other <=> mutex = other
      BY <2>2, Distinct DEF Changes
    <3> QED
      BY <3>2, <3>3 DEF JobsOK
  <2> QED
    BY <2>1, <2>2
<1> QED
  BY <1>1, <1>2 DEF JobsOK

\* A coroutine goes on within its stage.
LEMMA GotoJobs ==
  ASSUME JobsOK, NEW id \in Jobs, Running(id), NEW at \in Places, Proceed(id, at),
         mutex' = mutex, scenario' = scenario
  PROVE  /\ JobsOK' /\ Changes(id)
         /\ jobs'[id].todo = jobs[id].todo /\ jobs'[id].status = "running" /\ jobs'[id].at = at
         /\ Part(jobs[id].todo, jobs'[id].todo)
<1>1. jobs \in [Jobs -> JobType] /\ jobs[id].status = "running"
  BY DEF JobsOK, Running
<1>2. jobs' = [jobs EXCEPT ![id] = [@ EXCEPT !.at = at]]
  BY DEF Proceed
<1>3. [jobs[id] EXCEPT !.at = at] \in JobType
  BY <1>1 DEF JobType
<1>4. jobs' \in [Jobs -> JobType] /\ \A other \in Jobs \ {id} : jobs'[other] = jobs[other]
  BY <1>1, <1>2, <1>3
<1>5. /\ jobs'[id].todo = jobs[id].todo /\ jobs'[id].status = "running" /\ jobs'[id].at = at
  BY <1>1, <1>2 DEF JobType
<1>6. Changes(id)
  BY <1>4 DEF Changes
<1>7. Part(jobs[id].todo, jobs'[id].todo)
  BY <1>5 DEF Part
<1>8. JobOK(id)'
  <2>1. id = Draft => jobs'[id].status \in {"none", "running"}
    BY <1>5
  <2>2. jobs[id].status # "none" /\ (jobs'[id].status # "running" => jobs'[id].todo = <<>>)
    BY <1>1, <1>5
  <2> QED
    BY <1>6, <1>7, <2>1, <2>2, PartJob
<1>9. Within(id)' <=> mutex' = id
  BY <1>5 DEF JobsOK, Within
<1> QED
  BY <1>5, <1>6, <1>7, <1>8, <1>9, JobsStep

\* A coroutine goes on with its next stage: acquire and release take and give back the mutex.
LEMMA NextJobs ==
  ASSUME JobsOK, NEW id \in Jobs, NEW do, NEW at, InStage(id, do, at), Next1(id),
         do = "acquire" => mutex = Nobody /\ mutex' = id,
         do = "release" => mutex' = Nobody,
         do \notin {"acquire", "release"} => mutex' = mutex,
         scenario' = scenario
  PROVE  /\ JobsOK' /\ Changes(id)
         /\ jobs'[id].todo = Tail(jobs[id].todo) /\ jobs'[id].status = "running" /\ jobs'[id].at = "start"
         /\ Part(jobs[id].todo, jobs'[id].todo)
         /\ Within(id)' /\ Head(jobs'[id].todo).do \in Uses =>
              do = "ensure" /\ Head(jobs'[id].todo).kind = Kind(id)
<1> DEFINE todo == jobs[id].todo
           rest == Tail(todo)
<1>1. /\ jobs \in [Jobs -> JobType] /\ jobs[id] \in JobType /\ todo \in Seq(StageType) /\ todo # <<>>
      /\ 1 \in 1 .. Len(todo) /\ Len(todo) \in Nat \ {0} /\ todo[1].do = do /\ Kind(id) = todo[1].kind
      /\ jobs[id].status = "running" /\ (do \in Inside <=> mutex = id) /\ jobs[id].at = at
  BY AtStage DEF JobsOK
<1>3. /\ rest \in Seq(StageType) /\ Len(rest) \in Nat /\ Len(rest) + 1 = Len(todo)
      /\ \A i \in 1 .. Len(rest) : rest[i] = todo[i + 1] /\ i + 1 \in 1 .. Len(todo)
  BY <1>1, RestOfStages
<1>4. [jobs[id] EXCEPT !.todo = rest, !.at = "start"] \in JobType
  BY <1>1, <1>3 DEF JobType, Places
<1>5. jobs' = [jobs EXCEPT ![id] = [jobs[id] EXCEPT !.todo = rest, !.at = "start"]]
  BY <1>1 DEF Next1, JobType
<1>6. jobs' \in [Jobs -> JobType] /\ \A other \in Jobs \ {id} : jobs'[other] = jobs[other]
  BY <1>1, <1>4, <1>5
<1>7. jobs'[id].todo = rest /\ jobs'[id].status = "running" /\ jobs'[id].at = "start"
  BY <1>1, <1>5 DEF JobType
<1>8. /\ mutex' = mutex \/ (mutex \in {Nobody, id} /\ mutex' \in {Nobody, id})
      /\ mutex' = id <=> do \in Enters
  <2>1. CASE do = "acquire"
    BY <2>1 DEF Enters
  <2>2. CASE do = "release"
    BY <1>1, <2>2, Distinct DEF Enters, Inside
  <2>3. CASE do # "acquire" /\ do # "release"
    <3>1. mutex' = mutex
      BY <2>3
    <3>2. do \in Enters <=> do \in Inside
      BY <2>3 DEF Enters
    <3> QED
      BY <1>1, <3>1, <3>2
  <2> QED
    BY <2>1, <2>2, <2>3
<1>9. Changes(id)
  BY <1>6, <1>8 DEF Changes
<1>10. Part(todo, jobs'[id].todo)
  BY <1>1, <1>7, TailPart
<1>11. JobOK(id)'
  <2>1. id = Draft => jobs'[id].status \in {"none", "running"}
    BY <1>7
  <2>2. jobs[id].status # "none" /\ (jobs'[id].status # "running" => jobs'[id].todo = <<>>)
    BY <1>1, <1>7
  <2> QED
    BY <1>9, <1>10, <2>1, <2>2, PartJob
<1>12. /\ todo[1].do \in Enters <=> 1 < Len(todo) /\ todo[2].do \in Inside
       /\ 1 < Len(todo) /\ todo[2].do \in Uses => todo[1].do = "ensure" /\ todo[1].kind = todo[2].kind
  <2>1. Proper(todo)
    BY DEF JobsOK, JobOK
  <2>2. /\ todo[1].do \in Enters <=> 1 < Len(todo) /\ todo[1 + 1].do \in Inside
        /\ 1 < Len(todo) /\ todo[1 + 1].do \in Uses => todo[1].do = "ensure" /\ todo[1].kind = todo[1 + 1].kind
    BY <1>1, <2>1 DEF Proper
  <2>3. 1 + 1 = 2
    OBVIOUS
  <2> QED
    BY <2>2, <2>3
<1> HIDE DEF todo, rest
<1>13. /\ rest # <<>> <=> 1 < Len(todo)
       /\ rest # <<>> => Head(rest) = todo[2]
  <2>1. CASE rest = <<>>
    <3>1. Len(rest) = 0
      BY <2>1, EmptySeq
    <3> QED
      <4>1. ~(1 < Len(todo))
        <5>1. Len(todo) = 0 + 1
          BY <1>3, <3>1
        <5> QED
          BY <5>1
      <4> QED
        BY <2>1, <4>1
  <2>2. CASE rest # <<>>
    <3>1. Head(rest) = rest[1] /\ 1 \in 1 .. Len(rest) /\ Len(rest) \in Nat \ {0}
      BY <1>3, <2>2, FirstStage
    <3>2. rest[1] = todo[1 + 1] /\ 1 + 1 = 2
      BY <1>3, <3>1
    <3> QED
      BY <1>3, <2>2, <3>1, <3>2
  <2> QED
    BY <2>1, <2>2
<1>14. Within(id)' <=> mutex' = id
  BY <1>1, <1>7, <1>8, <1>12, <1>13 DEF Within
<1>15. Within(id)' /\ Head(rest).do \in Uses => do = "ensure" /\ Head(rest).kind = Kind(id)
  BY <1>1, <1>7, <1>12, <1>13 DEF Within
<1>16. JobsOK'
  BY <1>9, <1>11, <1>14, JobsStep
<1> QED
  BY <1>7, <1>9, <1>10, <1>15, <1>16 DEF todo, rest

\* A coroutine ends, and gives the mutex back.
LEMMA EndJobs ==
  ASSUME JobsOK, NEW id \in Jobs, Running(id), NEW outcome \in Outcomes, End(id, outcome),
         scenario' = scenario
  PROVE  /\ JobsOK' /\ Changes(id)
         /\ jobs'[id].todo = <<>> /\ jobs'[id].at = "start"
         /\ jobs'[id].status = IF id = Draft THEN "none" ELSE outcome
         /\ Part(jobs[id].todo, jobs'[id].todo)
<1> DEFINE new == [status |-> IF id = Draft THEN "none" ELSE outcome, todo |-> <<>>, at |-> "start"]
<1>1. jobs \in [Jobs -> JobType] /\ jobs[id].status = "running"
  BY DEF JobsOK, Running
<1>2. jobs' = [jobs EXCEPT ![id] = new]
  BY DEF End
<1>3. new \in JobType
  <2>1. <<>> \in Seq(StageType)
    BY EmptySeq
  <2> QED
    BY <2>1 DEF JobType, Places, Statuses
<1>4. jobs' \in [Jobs -> JobType] /\ \A other \in Jobs \ {id} : jobs'[other] = jobs[other]
  BY <1>1, <1>2, <1>3
<1>5. /\ jobs'[id].todo = <<>> /\ jobs'[id].at = "start"
      /\ jobs'[id].status = IF id = Draft THEN "none" ELSE outcome
  BY <1>1, <1>2
<1>6. mutex' = IF mutex = id THEN Nobody ELSE mutex
  BY DEF End, Release
<1>7. Changes(id)
  BY <1>4, <1>6 DEF Changes
<1>8. Part(jobs[id].todo, jobs'[id].todo)
  BY <1>5, EmptyPart
<1>9. JobOK(id)'
  <2>1. id = Draft => jobs'[id].status \in {"none", "running"}
    BY <1>5
  <2>2. jobs[id].status # "none" /\ (jobs'[id].status # "running" => jobs'[id].todo = <<>>)
    BY <1>1, <1>5
  <2> QED
    BY <1>7, <1>8, <2>1, <2>2, PartJob
<1>10. ~Within(id)' /\ mutex' # id
  BY <1>5, <1>6, Distinct DEF Within
<1>11. JobsOK'
  BY <1>7, <1>9, <1>10, JobsStep
<1> QED
  BY <1>5, <1>7, <1>8, <1>11

-----------------------------------------------------------------------------
(* What a step of one coroutine keeps. *)

\* Nobody takes the microphone, and who ends does not keep it.
LEMMA MicrophoneKept ==
  ASSUME JobsOK, MicrophoneOK, NEW id \in Jobs, Changes(id),
         Part(jobs[id].todo, jobs'[id].todo), asrInput' \in {asrInput, Nobody},
         asrInput' = id => jobs'[id].status = "running"
  PROVE  MicrophoneOK'
<1>1. ASSUME asrInput' # Nobody PROVE asrInput' \in Requests /\ Running(asrInput)'
  <2>1. asrInput' = asrInput /\ asrInput \in Requests /\ Running(asrInput)
    BY <1>1 DEF MicrophoneOK
  <2>2. CASE asrInput = id
    BY <2>1, <2>2 DEF Running
  <2>3. CASE asrInput # id
    <3>1. jobs'[asrInput] = jobs[asrInput]
      BY <2>1, <2>3, Distinct DEF Changes
    <3> QED
      BY <2>1, <3>1 DEF Running
  <2> QED
    BY <2>1, <2>2, <2>3
<1>2. ASSUME NEW other \in Jobs
      PROVE  /\ Once(jobs'[other].todo, "claim")
             /\ Without(jobs[other].todo, "claim") => Without(jobs'[other].todo, "claim")
  <2>1. CASE other = id
    BY <2>1 DEF Part, MicrophoneOK
  <2>2. CASE other # id
    BY <2>2 DEF Changes, MicrophoneOK
  <2> QED
    BY <2>1, <2>2
<1>3. \A other \in Jobs : asrInput' = other => asrInput = other
  BY Distinct
<1>4. scenario' = scenario
  BY DEF Changes
<1> QED
  BY <1>1, <1>2, <1>3, <1>4 DEF MicrophoneOK, Claims, Method

\* No coroutine gets a stage that it did not have.
LEMMA DemandKept ==
  ASSUME JobsOK, DemandOK, NEW id \in Jobs, Changes(id),
         Part(jobs[id].todo, jobs'[id].todo), available \subseteq available', available' \subseteq Kinds
  PROVE  DemandOK'
<1>1. ASSUME NEW other \in Jobs
      PROVE  /\ Without(jobs[other].todo, "load") => Without(jobs'[other].todo, "load")
             /\ Without(jobs[other].todo, "flag") => Without(jobs'[other].todo, "flag")
  <2>1. CASE other = id
    BY <2>1 DEF Part
  <2>2. CASE other # id
    BY <2>2 DEF Changes
  <2> QED
    BY <2>1, <2>2
<1>2. OnDemandOnly' = OnDemandOnly
  BY DEF Changes, OnDemandOnly, Preinstalled, Method
<1>3. available = Kinds => available' = Kinds
  OBVIOUS
<1> QED
  BY <1>1, <1>2, <1>3 DEF DemandOK

\* Native memory stays as it is.
LEMMA NativeKept ==
  ASSUME NativeOK, NEW id \in Jobs, Changes(id), native' = native,
         Generating(id)' => native["chat"] = "ready"
  PROVE  NativeOK'
<1>1. ASSUME NEW other \in Jobs, Generating(other)' PROVE native["chat"] = "ready"
  <2>1. CASE other = id
    BY <1>1, <2>1
  <2>2. CASE other # id
    <3>1. jobs'[other] = jobs[other]
      BY <2>2 DEF Changes
    <3>2. Generating(other)
      BY <1>1, <3>1 DEF Generating, InStage, Running
    <3> QED
      BY <3>2 DEF NativeOK
  <2> QED
    BY <2>1, <2>2
<1> QED
  BY <1>1 DEF NativeOK, TtsIsAlone

\* The coroutine was not about to set the flags, what it uses next is ready,
\* and it does not fail.
Calm(id) ==
  Undisturbed' =>
    /\ native' = native /\ resident' = resident
    /\ ~InStage(id, "ensure", "loaded")
    /\ jobs'[id].status = "running" => jobs'[id].at # "loaded"
    /\ Within(id)' /\ Head(jobs'[id].todo).do \in Uses => native[Head(jobs'[id].todo).kind] = "ready"
    /\ queue' \subseteq queue \cup {id}
    /\ id \in queue' => Generating(id)'
    /\ OneDictation => jobs'[id].status # "error"

\* Failures and cancellations are not forgotten.
LEMMA StaysUndisturbed ==
  ASSUME NEW id \in Jobs, Changes(id), SharedOK,
         failures' = failures \/ failures' = failures + 1, cancelled \subseteq cancelled'
  PROVE  Undisturbed' => Undisturbed /\ failures' = failures
<1>1. OnDemandOnly' = OnDemandOnly
  BY DEF Changes, OnDemandOnly, Preinstalled, Method
<1>2. failures \in Nat
  BY DEF SharedOK
<1>3. failures + 1 # 0
  BY <1>2
<1> QED
  BY <1>1, <1>2, <1>3 DEF Undisturbed

\* So the flags stay right, what is used ready, and nobody has failed.
LEMMA UndisturbedKept ==
  ASSUME JobsOK, UndisturbedOK, NEW id \in Jobs, Changes(id), Undisturbed' => Undisturbed, Calm(id)
  PROVE  UndisturbedOK'
<1> SUFFICES ASSUME Undisturbed' PROVE UndisturbedOK'
  BY DEF UndisturbedOK
<1>1. /\ Undisturbed /\ native' = native /\ resident' = resident
      /\ ~InStage(id, "ensure", "loaded")
      /\ jobs'[id].status = "running" => jobs'[id].at # "loaded"
      /\ Within(id)' /\ Head(jobs'[id].todo).do \in Uses => native[Head(jobs'[id].todo).kind] = "ready"
      /\ queue' \subseteq queue \cup {id}
      /\ id \in queue' => Generating(id)'
      /\ OneDictation => jobs'[id].status # "error"
  BY DEF Calm
<1>2. \A other \in Jobs \ {id} : jobs'[other] = jobs[other]
  BY DEF Changes
<1>3. OneDictation' = OneDictation
  BY DEF Changes, OneDictation, Method
<1>4. ~InStage(id, "ensure", "loaded")'
  BY <1>1 DEF InStage, Running
<1>5. \A other \in Jobs : InStage(other, "ensure", "loaded")' => InStage(other, "ensure", "loaded") /\ Settling(other)'
  <2> SUFFICES ASSUME NEW other \in Jobs, InStage(other, "ensure", "loaded")'
               PROVE  InStage(other, "ensure", "loaded") /\ Settling(other)'
    OBVIOUS
  <2>1. jobs'[other] = jobs[other]
    BY <1>2, <1>4
  <2>2. InStage(other, "ensure", "loaded")
    BY <2>1 DEF InStage, Running
  <2>3. Settling(other)
    BY <1>1, <2>2 DEF UndisturbedOK
  <2> QED
    BY <1>1, <2>1, <2>2, <2>3 DEF Settling, InStage, Running, Kind, FlagsOf
<1>6. (\A other \in Jobs : ~InStage(other, "ensure", "loaded")') => FlagsOf(resident)'
  <2> SUFFICES ASSUME \A other \in Jobs : ~InStage(other, "ensure", "loaded")' PROVE FlagsOf(resident)'
    OBVIOUS
  <2>1. ASSUME NEW other \in Jobs, InStage(other, "ensure", "loaded") PROVE FALSE
    <3>1. other # id
      BY <1>1, <2>1
    <3>2. jobs'[other] = jobs[other]
      BY <1>2, <3>1
    <3> QED
      BY <2>1, <3>2 DEF InStage, Running
  <2>2. FlagsOf(resident)
    BY <1>1, <2>1 DEF UndisturbedOK
  <2> QED
    BY <1>1, <2>2 DEF FlagsOf
<1>7. \A other \in Jobs :
        Within(other)' /\ Head(jobs'[other].todo).do \in Uses => native'[Head(jobs'[other].todo).kind] = "ready"
  <2> SUFFICES ASSUME NEW other \in Jobs, Within(other)', Head(jobs'[other].todo).do \in Uses
               PROVE  native'[Head(jobs'[other].todo).kind] = "ready"
    OBVIOUS
  <2>1. CASE other = id
    BY <1>1, <2>1
  <2>2. CASE other # id
    <3>1. jobs'[other] = jobs[other]
      BY <1>2, <2>2
    <3>2. Within(other)
      BY <3>1 DEF Within
    <3> QED
      BY <1>1, <3>1, <3>2 DEF UndisturbedOK, Kind
  <2> QED
    BY <2>1, <2>2
<1>8. \A r \in Jobs : r \in queue' => Generating(r)'
  <2> SUFFICES ASSUME NEW r \in Jobs, r \in queue' PROVE Generating(r)'
    OBVIOUS
  <2>1. CASE r = id
    BY <1>1, <2>1
  <2>2. CASE r # id
    <3>1. jobs'[r] = jobs[r] /\ r \in queue
      BY <1>1, <1>2, <2>2
    <3>2. Generating(r)
      BY <1>1, <3>1 DEF UndisturbedOK
    <3> QED
      BY <3>1, <3>2 DEF Generating, InStage, Running
  <2> QED
    BY <2>1, <2>2
<1>9. OneDictation => \A r \in Requests : r \in Jobs => jobs'[r].status # "error"
  BY <1>1, <1>2 DEF UndisturbedOK
<1>10. Requests \subseteq Jobs
  BY DEF Jobs
<1> QED
  BY <1>3, <1>5, <1>6, <1>7, <1>8, <1>9, <1>10 DEF UndisturbedOK, Kind

-----------------------------------------------------------------------------
(* Steps by their shape. *)

\* What no step of a coroutine does to the rest of the state.
Bounds ==
  /\ failures' = failures \/ failures' = failures + 1
  /\ cancelled \subseteq cancelled'
  /\ available \subseteq available' /\ available' \subseteq Kinds

\* A coroutine goes on within its stage, and loads nothing.
LEMMA GotoKeeps ==
  ASSUME IInv, NEW id \in Jobs, Running(id), NEW at \in Places, at # "loaded", Proceed(id, at),
         UNCHANGED <<mutex, scenario, native, resident, asrInput>>, SharedOK', Bounds,
         ~InStage(id, "ensure", "loaded"), Generating(id)' => native["chat"] = "ready",
         Undisturbed' /\ Within(id) /\ Head(jobs[id].todo).do \in Uses => native[Kind(id)] = "ready",
         queue' \subseteq queue \cup {id}, Undisturbed' /\ id \in queue' => Generating(id)'
  PROVE  IInv'
<1>1. /\ JobsOK' /\ Changes(id) /\ Part(jobs[id].todo, jobs'[id].todo)
      /\ jobs'[id].todo = jobs[id].todo /\ jobs'[id].status = "running" /\ jobs'[id].at = at
  BY GotoJobs DEF IInv
<1>2. MicrophoneOK'
  BY <1>1, MicrophoneKept DEF IInv
<1>3. DemandOK'
  BY <1>1, DemandKept DEF IInv, Bounds
<1>4. NativeOK'
  BY <1>1, NativeKept DEF IInv
<1>5. Undisturbed' => Undisturbed
  BY <1>1, StaysUndisturbed DEF IInv, Bounds
<1>6. Within(id)' <=> Within(id)
  BY <1>1 DEF Within
<1>7. Calm(id)
  BY <1>1, <1>6 DEF Calm, Kind
<1>8. UndisturbedOK'
  BY <1>1, <1>5, <1>7, UndisturbedKept DEF IInv
<1> QED
  BY <1>1, <1>2, <1>3, <1>4, <1>8 DEF IInv

\* A coroutine goes on with its next stage, and nothing was loaded.
LEMMA NextKeeps ==
  ASSUME IInv, NEW id \in Jobs, NEW do, NEW at, InStage(id, do, at), Next1(id),
         do = "acquire" => mutex = Nobody /\ mutex' = id,
         do = "release" => mutex' = Nobody,
         do \notin {"acquire", "release"} => mutex' = mutex,
         UNCHANGED <<scenario, native, resident, asrInput>>, SharedOK', Bounds,
         ~InStage(id, "ensure", "loaded"),
         Undisturbed /\ do = "ensure" => native[Kind(id)] = "ready",
         queue' \subseteq queue, Generating(id) => id \notin queue'
  PROVE  IInv'
<1>1. /\ JobsOK' /\ Changes(id) /\ Part(jobs[id].todo, jobs'[id].todo)
      /\ jobs'[id].status = "running" /\ jobs'[id].at = "start"
      /\ Within(id)' /\ Head(jobs'[id].todo).do \in Uses =>
           do = "ensure" /\ Head(jobs'[id].todo).kind = Kind(id)
  BY NextJobs DEF IInv
<1>2. MicrophoneOK'
  BY <1>1, MicrophoneKept DEF IInv
<1>3. DemandOK'
  BY <1>1, DemandKept DEF IInv, Bounds
<1>4. ~Generating(id)'
  BY <1>1 DEF Generating, InStage
<1>5. NativeOK'
  BY <1>1, <1>4, NativeKept DEF IInv
<1>6. Undisturbed' => Undisturbed
  BY <1>1, StaysUndisturbed DEF IInv, Bounds
<1>7. Undisturbed => id \notin queue'
  BY DEF IInv, UndisturbedOK
<1>8. Calm(id)
  <2>1. Undisturbed' /\ Within(id)' /\ Head(jobs'[id].todo).do \in Uses
          => native[Head(jobs'[id].todo).kind] = "ready"
    BY <1>1, <1>6
  <2>2. jobs'[id].at # "loaded" /\ jobs'[id].status # "error"
    BY <1>1
  <2> QED
    BY <1>6, <1>7, <2>1, <2>2 DEF Calm
<1>9. UndisturbedOK'
  BY <1>1, <1>6, <1>8, UndisturbedKept DEF IInv
<1> QED
  BY <1>1, <1>2, <1>3, <1>5, <1>9 DEF IInv

\* A coroutine ends; what it leaves in native memory, the synthesizer does not share.
LEMMA EndKeeps ==
  ASSUME IInv, NEW id \in Jobs, Running(id), NEW outcome \in Outcomes, End(id, outcome),
         UNCHANGED <<scenario, resident>>, SharedOK', Bounds,
         native' = native \/ (mutex = id /\ TtsIsAlone'),
         Undisturbed' => native' = native /\ ~InStage(id, "ensure", "loaded"),
         Undisturbed' /\ OneDictation => outcome # "error",
         queue' \subseteq queue, Undisturbed' /\ Generating(id) => id \notin queue'
  PROVE  IInv'
<1>1. /\ JobsOK' /\ Changes(id) /\ Part(jobs[id].todo, jobs'[id].todo)
      /\ jobs'[id].todo = <<>> /\ jobs'[id].at = "start"
      /\ jobs'[id].status = IF id = Draft THEN "none" ELSE outcome
  BY EndJobs DEF IInv
<1>2. asrInput' = IF asrInput = id THEN Nobody ELSE asrInput
  BY DEF End
<1>3. MicrophoneOK'
  <2>1. asrInput' \in {asrInput, Nobody} /\ (asrInput' = id => jobs'[id].status = "running")
    BY <1>2, Distinct
  <2> QED
    BY <1>1, <2>1, MicrophoneKept DEF IInv
<1>4. DemandOK'
  BY <1>1, DemandKept DEF IInv, Bounds
<1>5. ~Generating(id)' /\ ~Within(id)'
  BY <1>1 DEF Generating, InStage, Within
<1>6. NativeOK'
  <2>1. CASE native' = native
    BY <1>1, <1>5, <2>1, NativeKept DEF IInv
  <2>2. CASE mutex = id /\ TtsIsAlone'
    <3>1. ASSUME NEW other \in Jobs PROVE ~Generating(other)'
      <4>1. CASE other = id
        BY <1>5, <4>1
      <4>2. CASE other # id
        <5>1. ~Within(other)
          BY <2>2, <4>2 DEF IInv, JobsOK
        <5>2. ~Generating(other)
          BY <5>1 DEF Generating, InStage, Within, Inside
        <5>3. jobs'[other] = jobs[other]
          BY <1>1, <4>2 DEF Changes
        <5> QED
          BY <5>2, <5>3 DEF Generating, InStage, Running
      <4> QED
        BY <4>1, <4>2
    <3> QED
      BY <2>2, <3>1 DEF NativeOK
  <2> QED
    BY <2>1, <2>2
<1>7. Undisturbed' => Undisturbed
  BY <1>1, StaysUndisturbed DEF IInv, Bounds
<1>8. Calm(id)
  <2>1. Undisturbed' => id \notin queue'
    BY <1>7 DEF IInv, UndisturbedOK
  <2>2. Undisturbed' /\ OneDictation => jobs'[id].status # "error"
    BY <1>1
  <2>3. jobs'[id].at # "loaded"
    BY <1>1
  <2> QED
    BY <1>5, <2>1, <2>2, <2>3 DEF Calm
<1>9. UndisturbedOK'
  BY <1>1, <1>7, <1>8, UndisturbedKept DEF IInv
<1> QED
  BY <1>1, <1>3, <1>4, <1>6, <1>9 DEF IInv

-----------------------------------------------------------------------------
(* The steps of a coroutine. *)

\* What the coroutine of a draft has no stage for, only requests do.
LEMMA OnlyRequests ==
  ASSUME JobsOK, NEW id \in Jobs, NEW do, NEW at, InStage(id, do, at), do \notin DraftStages
  PROVE  id \in Requests
<1>1. id # Draft
  <2> SUFFICES ASSUME id = Draft PROVE FALSE
    OBVIOUS
  <2>1. jobs[id].todo[1].do = do /\ 1 \in 1 .. Len(jobs[id].todo)
    BY AtStage
  <2>2. jobs[id].todo[1].do \in DraftStages
    BY <2>1 DEF JobsOK, JobOK
  <2> QED
    BY <2>1, <2>2
<1> QED
  BY <1>1 DEF Jobs

\* What most steps leave alone.
LEMMA SharedKept ==
  ASSUME SharedOK, UNCHANGED <<scenario, cancelled, available, resident, cancels>>,
         native' \in [Kinds -> {"none", "ready", "failed"}],
         queue' \subseteq queue, registered' \subseteq Requests,
         ttsCancelled' \in BOOLEAN, ttsCancelled' => ttsCancelled,
         failures' \in 0 .. MaxFailures
  PROVE  SharedOK' /\ cancelled \subseteq cancelled' /\ available \subseteq available' /\ available' \subseteq Kinds
<1>1. queue' = {} \/ \E id \in Requests : queue' = {id}
  <2>1. CASE queue = {}
    BY <2>1
  <2>2. CASE \E id \in Requests : queue = {id}
    BY <2>2
  <2> QED
    BY <2>1, <2>2 DEF SharedOK
<1>2. cancelled' = {} => cancels' = {} /\ ~ttsCancelled'
  BY DEF SharedOK
<1>3. MaxFailures' = MaxFailures
  BY DEF MaxFailures
<1> QED
  BY <1>1, <1>2, <1>3 DEF SharedOK

\* The same, of steps that touch none of it.
LEMMA SharedSame ==
  ASSUME SharedOK,
         UNCHANGED <<scenario, cancelled, available, resident, native, queue, registered, cancels, ttsCancelled, failures>>
  PROVE  SharedOK' /\ Bounds
<1>1. MaxFailures' = MaxFailures
  BY DEF MaxFailures
<1> QED
  BY <1>1 DEF SharedOK, Bounds

\* An injected failure is counted.
LEMMA FailureCounted ==
  ASSUME SharedOK, Failing
  PROVE  /\ failures' = failures + 1 /\ failures' \in 0 .. MaxFailures
         /\ ~Undisturbed'
<1>1. failures \in Nat /\ MaxFailures \in Nat /\ failures < MaxFailures /\ failures' = failures + 1
  BY HostAssumption DEF SharedOK, Failing, MaxFailures
<1>2. failures' # 0 /\ failures' \in 0 .. MaxFailures
  BY <1>1
<1> QED
  BY <1>1, <1>2 DEF Undisturbed

\* The coroutines that end: cancelled at a suspension point, or at the end of their program.
LEMMA CancelledKeeps ==
  ASSUME IInv, NEW id \in Jobs, Cancelled(id), scenario' = scenario
  PROVE  IInv'
<1>1. /\ End(id, "cancelled") /\ IsCancelled(id)
      /\ UNCHANGED <<cancelled, available, resident, native, queue, cancels, ttsCancelled, failures>>
      /\ Running(id)
  BY DEF Cancelled, models, Suspends, InStage
<1>2. registered' \subseteq Requests /\ ttsCancelled' \in BOOLEAN /\ failures' \in 0 .. MaxFailures
      /\ native' \in [Kinds -> {"none", "ready", "failed"}]
  BY <1>1 DEF End, IInv, SharedOK
<1>3. SharedOK' /\ Bounds
  BY <1>1, <1>2, SharedKept DEF IInv, Bounds
<1>4. ~Undisturbed'
  BY <1>1 DEF Undisturbed, IsCancelled
<1>5. "cancelled" \in Outcomes
  BY DEF Outcomes
<1> QED
  BY <1>1, <1>3, <1>4, <1>5, EndKeeps

\* See above.
LEMMA CompleteKeeps ==
  ASSUME IInv, NEW id \in Jobs, CompleteRequest(id), scenario' = scenario
  PROVE  IInv'
<1>1. /\ End(id, "completed") /\ Running(id) /\ jobs[id].todo = <<>>
      /\ UNCHANGED <<cancelled, available, resident, native, queue, cancels, ttsCancelled, failures>>
  BY DEF CompleteRequest, models
<1>2. registered' \subseteq Requests /\ ttsCancelled' \in BOOLEAN /\ failures' \in 0 .. MaxFailures
      /\ native' \in [Kinds -> {"none", "ready", "failed"}]
  BY <1>1 DEF End, IInv, SharedOK
<1>3. SharedOK' /\ Bounds
  BY <1>1, <1>2, SharedKept DEF IInv, Bounds
<1>4. ~InStage(id, "ensure", "loaded") /\ ~Generating(id)
  BY <1>1 DEF Generating, InStage
<1>5. "completed" \in Outcomes /\ "completed" # "error"
  BY DEF Outcomes
<1> QED
  BY <1>1, <1>3, <1>4, <1>5, EndKeeps

\* A coroutine ends with an error where the code refuses to go on, which happens
\* to none that is undisturbed.
LEMMA RefusedKeeps ==
  ASSUME IInv, NEW id \in Jobs, NEW do, NEW at, InStage(id, do, at), do # "ensure", End(id, "error"),
         UNCHANGED <<scenario, cancelled, available, resident, native, queue, cancels, ttsCancelled, failures>>,
         ~(Undisturbed /\ OneDictation), ~Generating(id)
  PROVE  IInv'
<1>1. registered' \subseteq Requests /\ ttsCancelled' \in BOOLEAN /\ failures' \in 0 .. MaxFailures
      /\ native' \in [Kinds -> {"none", "ready", "failed"}]
  BY DEF End, IInv, SharedOK
<1>2. SharedOK' /\ Bounds
  BY <1>1, SharedKept DEF IInv, Bounds
<1>3. ~InStage(id, "ensure", "loaded") /\ Running(id)
  BY DEF InStage
<1>4. "error" \in Outcomes
  BY DEF Outcomes
<1>5. Undisturbed' => Undisturbed
  BY DEF Undisturbed, OnDemandOnly, Preinstalled, Method
<1> QED
  BY <1>2, <1>3, <1>4, <1>5, EndKeeps

\* The stages that only pass.
LEMMA PassKeeps ==
  ASSUME IInv, NEW id \in Jobs,
         PrepareModel(id) \/ EndCapture(id) \/ EndPlay(id) \/ Acquire(id) \/ ReleaseMutex(id), scenario' = scenario
  PROVE  IInv'
<1>1. PICK do, at :
        /\ InStage(id, do, at) /\ Next1(id) /\ do # "ensure" /\ do # "generate"
        /\ do = "acquire" => mutex = Nobody /\ mutex' = id
        /\ do = "release" => mutex' = Nobody
        /\ do \notin {"acquire", "release"} => mutex' = mutex
  BY DEF PrepareModel, EndCapture, EndPlay, Acquire, ReleaseMutex
<1>2. UNCHANGED <<cancelled, available, resident, native, queue, registered, cancels, ttsCancelled, asrInput, failures>>
  BY DEF PrepareModel, EndCapture, EndPlay, Acquire, ReleaseMutex, models, serving
<1>3. SharedOK' /\ Bounds
  BY <1>2, SharedSame DEF IInv
<1>4. ~InStage(id, "ensure", "loaded") /\ ~Generating(id)
  BY <1>1 DEF Generating, InStage
<1> QED
  BY <1>1, <1>2, <1>3, <1>4, NextKeeps

\* A stage begins something that uses no model.
LEMMA BeginsKeeps ==
  ASSUME IInv, NEW id \in Jobs, NEW do, InStage(id, do, "start"), do \notin Uses,
         NEW to \in {"recording", "playing", "loading"}, Proceed(id, to),
         UNCHANGED <<scenario, mutex, cancelled, available, resident, native, queue, registered, cancels,
                     ttsCancelled, asrInput, failures>>
  PROVE  IInv'
<1>3. SharedOK' /\ Bounds
  BY SharedSame DEF IInv
<1>4. Head(jobs[id].todo).do \notin Uses /\ ~InStage(id, "ensure", "loaded") /\ Running(id)
      /\ ~Generating(id)
  BY DEF InStage, Generating, Uses
<1>5. to \in Places /\ to # "loaded"
  BY DEF Places
<1>6. jobs'[id].todo = jobs[id].todo
  BY <1>4, <1>5, GotoJobs DEF IInv
<1>7. ~Generating(id)'
  BY <1>4, <1>6 DEF Generating, InStage, Uses
<1>8. Undisturbed' => id \notin queue'
  <2>1. Undisturbed' => Undisturbed
    BY DEF Undisturbed, OnDemandOnly, Preinstalled, Method
  <2> QED
    BY <1>4, <2>1 DEF IInv, UndisturbedOK
<1> QED
  BY <1>3, <1>4, <1>5, <1>7, <1>8, GotoKeeps

\* The stages that begin something.
LEMMA BeginKeeps ==
  ASSUME IInv, NEW id \in Jobs, Capture(id) \/ Play(id) \/ BeginLoad(id), scenario' = scenario
  PROVE  IInv'
<1>1. UNCHANGED <<mutex, cancelled, available, resident, native, queue, registered, cancels, ttsCancelled, asrInput, failures>>
  BY DEF Capture, Play, BeginLoad, models, serving
<1>2. CASE Capture(id)
  <2>1. InStage(id, "capture", "start") /\ Proceed(id, "recording") /\ "capture" \notin Uses
    BY <1>2 DEF Capture, Uses
  <2> QED
    BY <1>1, <2>1, BeginsKeeps
<1>3. CASE Play(id)
  <2>1. InStage(id, "play", "start") /\ Proceed(id, "playing") /\ "play" \notin Uses
    BY <1>3 DEF Play, Uses
  <2> QED
    BY <1>1, <2>1, BeginsKeeps
<1>4. CASE BeginLoad(id)
  <2>1. /\ InStage(id, "load", "start") \/ InStage(id, "ensure", "start")
        /\ Proceed(id, "loading") /\ "load" \notin Uses /\ "ensure" \notin Uses
    BY <1>4 DEF BeginLoad, Uses
  <2>2. CASE InStage(id, "load", "start")
    BY <1>1, <2>1, <2>2, BeginsKeeps
  <2>3. CASE InStage(id, "ensure", "start")
    BY <1>1, <2>1, <2>3, BeginsKeeps
  <2> QED
    BY <2>1, <2>2, <2>3
<1> QED
  BY <1>2, <1>3, <1>4

\* A model that is missing ends the request, which no undisturbed one does.
LEMMA RequireKeeps ==
  ASSUME IInv, NEW id \in Jobs, Require(id), scenario' = scenario
  PROVE  IInv'
<1>1. /\ InStage(id, "require", "start")
      /\ UNCHANGED <<cancelled, available, resident, native, queue, cancels, ttsCancelled, failures>>
      /\ \/ Next1(id) /\ UNCHANGED <<mutex, registered, asrInput>>
         \/ Kind(id) \notin available /\ End(id, "error")
  BY DEF Require, models
<1>2. ~Generating(id) /\ ~InStage(id, "ensure", "loaded")
  BY <1>1 DEF Generating, InStage
<1>3. CASE Next1(id) /\ UNCHANGED <<mutex, registered, asrInput>>
  <2>1. SharedOK' /\ Bounds
    BY <1>1, <1>3, SharedSame DEF IInv
  <2>2. "require" \notin {"acquire", "release"} /\ "require" # "ensure"
    OBVIOUS
  <2> QED
    BY <1>1, <1>2, <1>3, <2>1, <2>2, NextKeeps
<1>4. CASE Kind(id) \notin available /\ End(id, "error")
  <2>1. Kind(id) \in Kinds
    BY <1>1, AtStage DEF IInv
  <2>2. ~Undisturbed
    BY <1>4, <2>1 DEF IInv, DemandOK, Undisturbed
  <2> QED
    BY <1>1, <1>2, <1>4, <2>2, RefusedKeeps
<1> QED
  BY <1>1, <1>3, <1>4

\* A model whose flag says so is resident, unless something failed or was cancelled.
LEMMA EnsureKeeps ==
  ASSUME IInv, NEW id \in Jobs, Ensure(id), scenario' = scenario
  PROVE  IInv'
<1>1. /\ InStage(id, "ensure", "start") /\ Kind(id) \in resident /\ Next1(id)
      /\ UNCHANGED <<mutex, cancelled, available, resident, native, queue, registered, cancels, ttsCancelled,
                     asrInput, failures>>
  BY DEF Ensure, models, serving
<1>2. ~Generating(id) /\ ~InStage(id, "ensure", "loaded")
  BY <1>1 DEF Generating, InStage
<1>3. SharedOK' /\ Bounds
  BY <1>1, SharedSame DEF IInv
<1>4. Undisturbed => native[Kind(id)] = "ready"
  <2>1. mutex = id
    BY <1>1, AtStage DEF IInv, Inside
  <2>2. ASSUME NEW other \in Jobs, InStage(other, "ensure", "loaded") PROVE FALSE
    <3>1. other = id
      BY <2>1, <2>2, AtStage DEF IInv, Inside
    <3> QED
      BY <1>2, <2>2, <3>1
  <2> QED
    BY <1>1, <2>2 DEF IInv, UndisturbedOK, FlagsOf
<1>5. "ensure" \notin {"acquire", "release"} /\ "ensure" # "acquire" /\ "ensure" # "release"
  OBVIOUS
<1> QED
  BY <1>1, <1>2, <1>3, <1>4, <1>5, NextKeeps

\* A request comes to the generator, which is ready and idle if nothing failed or was cancelled.
LEMMA EnqueueKeeps ==
  ASSUME IInv, NEW id \in Jobs, Enqueue(id), scenario' = scenario
  PROVE  IInv'
<1>1. /\ InStage(id, "generate", "start")
      /\ UNCHANGED <<cancelled, available, resident, native, cancels, ttsCancelled, failures>>
      /\ \/ /\ native["chat"] = "ready" /\ queue = {} /\ queue' = queue \cup {id} /\ Proceed(id, "enqueued")
            /\ UNCHANGED <<mutex, registered, asrInput>>
         \/ ~(native["chat"] = "ready" /\ queue = {}) /\ queue' = queue /\ End(id, "error")
  BY DEF Enqueue, Accepts, models
<1>2. id \in Requests
  BY <1>1, OnlyRequests DEF IInv, DraftStages
<1>3. ~Generating(id) /\ ~InStage(id, "ensure", "loaded") /\ Running(id)
  BY <1>1 DEF Generating, InStage
<1>4. Undisturbed => native["chat"] = "ready" /\ queue = {}
  <2> SUFFICES ASSUME Undisturbed PROVE native["chat"] = "ready" /\ queue = {}
    OBVIOUS
  <2>1. /\ mutex = id /\ Within(id) /\ Head(jobs[id].todo).do = "generate"
        /\ Kind(id) = jobs[id].todo[1].kind /\ jobs[id].todo[1].do = "generate"
        /\ 1 \in 1 .. Len(jobs[id].todo)
    BY <1>1, AtStage DEF IInv, Inside, Within
  <2>2. Kind(id) = "chat"
    BY <2>1 DEF IInv, JobsOK, JobOK, Proper
  <2>3. native["chat"] = "ready"
    BY <2>1, <2>2 DEF IInv, UndisturbedOK, Uses
  <2>4. ASSUME NEW r \in Requests, r \in queue PROVE FALSE
    <3>1. r \in Jobs /\ Generating(r)
      BY <2>4, Distinct DEF IInv, UndisturbedOK
    <3>2. mutex = r
      BY <3>1, AtStage DEF IInv, Generating, Inside
    <3> QED
      BY <1>3, <2>1, <3>1, <3>2
  <2>5. queue = {}
    BY <2>4 DEF IInv, SharedOK
  <2> QED
    BY <2>3, <2>5
<1>5. CASE /\ native["chat"] = "ready" /\ queue = {} /\ queue' = queue \cup {id} /\ Proceed(id, "enqueued")
           /\ UNCHANGED <<mutex, registered, asrInput>>
  <2>1. MaxFailures' = MaxFailures
    BY DEF MaxFailures
  <2>2. SharedOK' /\ Bounds
    BY <1>1, <1>2, <1>5, <2>1 DEF IInv, SharedOK, Bounds
  <2>3. /\ jobs'[id].todo = jobs[id].todo /\ jobs'[id].status = "running" /\ jobs'[id].at = "enqueued"
        /\ JobsOK'
    BY <1>3, <1>5, GotoJobs DEF IInv, Places
  <2>4. Generating(id)'
    BY <1>1, <2>3 DEF Generating, InStage, Running
  <2>5. Head(jobs[id].todo).do = "generate" /\ Within(id) => Kind(id) = "chat"
    <3>1. /\ Kind(id) = jobs[id].todo[1].kind /\ jobs[id].todo[1].do = "generate"
          /\ 1 \in 1 .. Len(jobs[id].todo)
      BY <1>1, AtStage DEF IInv
    <3> QED
      BY <3>1 DEF IInv, JobsOK, JobOK, Proper
  <2>6. Within(id) /\ Head(jobs[id].todo).do \in Uses => native[Kind(id)] = "ready"
    BY <1>1, <1>5, <2>5 DEF InStage
  <2>7. "enqueued" \in Places /\ "enqueued" # "loaded"
    BY DEF Places
  <2> QED
    BY <1>1, <1>3, <1>5, <2>2, <2>4, <2>6, <2>7, GotoKeeps
<1>6. CASE ~(native["chat"] = "ready" /\ queue = {}) /\ queue' = queue /\ End(id, "error")
  BY <1>1, <1>3, <1>4, <1>6, RefusedKeeps
<1> QED
  BY <1>1, <1>5, <1>6

\* The request can be cancelled by its id from now on.
LEMMA RegisterKeeps ==
  ASSUME IInv, NEW id \in Jobs, Register(id), scenario' = scenario
  PROVE  IInv'
<1>1. /\ InStage(id, "generate", "enqueued") /\ registered' = registered \cup {id} /\ Proceed(id, "stepping")
      /\ UNCHANGED <<mutex, cancelled, available, resident, native, queue, cancels, ttsCancelled, asrInput, failures>>
  BY DEF Register, models
<1>2. id \in Requests
  BY <1>1, OnlyRequests DEF IInv, DraftStages
<1>3. Generating(id) /\ ~InStage(id, "ensure", "loaded") /\ Running(id)
  BY <1>1 DEF Generating, InStage
<1>4. MaxFailures' = MaxFailures
  BY DEF MaxFailures
<1>5. SharedOK' /\ Bounds
  BY <1>1, <1>2, <1>4 DEF IInv, SharedOK, Bounds
<1>6. /\ jobs'[id].todo = jobs[id].todo /\ jobs'[id].status = "running" /\ jobs'[id].at = "stepping"
  BY <1>1, <1>3, GotoJobs DEF IInv, Places
<1>7. Generating(id)'
  BY <1>1, <1>6 DEF Generating, InStage, Running
<1>8. native["chat"] = "ready"
  BY <1>3 DEF IInv, NativeOK
<1>9. Within(id) /\ Head(jobs[id].todo).do \in Uses => native[Kind(id)] = "ready"
  <2>1. /\ Kind(id) = jobs[id].todo[1].kind /\ jobs[id].todo[1].do = "generate"
        /\ 1 \in 1 .. Len(jobs[id].todo)
    BY <1>1, AtStage DEF IInv
  <2>2. Kind(id) = "chat"
    BY <2>1 DEF IInv, JobsOK, JobOK, Proper
  <2> QED
    BY <1>8, <2>2
<1>10. "stepping" \in Places /\ "stepping" # "loaded"
  BY DEF Places
<1> QED
  BY <1>1, <1>3, <1>5, <1>7, <1>8, <1>9, <1>10, GotoKeeps

\* The reply is complete.
LEMMA StepCompletesKeeps ==
  ASSUME IInv, NEW id \in Jobs, StepCompletes(id), scenario' = scenario
  PROVE  IInv'
<1>1. /\ InStage(id, "generate", "stepping") /\ queue' = queue \ {id} /\ registered' = registered \ {id} /\ Next1(id)
      /\ UNCHANGED <<mutex, cancelled, available, resident, native, cancels, ttsCancelled, asrInput, failures>>
  BY DEF StepCompletes, models
<1>2. ~InStage(id, "ensure", "loaded")
  BY <1>1 DEF InStage
<1>3. SharedOK' /\ Bounds
  <2>1. /\ registered' \subseteq Requests /\ ttsCancelled' \in BOOLEAN /\ failures' \in 0 .. MaxFailures
        /\ native' \in [Kinds -> {"none", "ready", "failed"}] /\ queue' \subseteq queue
    BY <1>1 DEF IInv, SharedOK
  <2> QED
    BY <1>1, <2>1, SharedKept DEF IInv, Bounds
<1>4. "generate" \notin {"acquire", "release"} /\ "generate" # "ensure"
  OBVIOUS
<1> QED
  BY <1>1, <1>2, <1>3, <1>4, NextKeeps

-----------------------------------------------------------------------------
(* The steps that load, fail, or take the microphone. *)

\* A model call begins; what an undisturbed one uses is ready.
LEMMA BeginWorkKeeps ==
  ASSUME IInv, NEW id \in Jobs, BeginWork(id), scenario' = scenario
  PROVE  IInv'
<1>1. /\ UNCHANGED <<cancelled, available, resident, native, queue, cancels, ttsCancelled, failures>>
      /\ \/ native[Kind(id)] = "ready" /\ Proceed(id, "working") /\ UNCHANGED <<mutex, registered, asrInput>>
         \/ native[Kind(id)] # "ready" /\ End(id, "error")
  BY DEF BeginWork, models
<1>2. InStage(id, "transcribe", "start") \/ InStage(id, "synthesize", "start")
  BY DEF BeginWork
<1>3. ~Generating(id) /\ ~InStage(id, "ensure", "loaded") /\ Running(id) /\ Head(jobs[id].todo).do \in Uses
      /\ Head(jobs[id].todo).do # "generate"
  BY <1>2 DEF Generating, InStage, Uses
<1>4. Within(id)
  BY <1>2 DEF InStage, Within, Inside
<1>5. CASE native[Kind(id)] = "ready" /\ Proceed(id, "working") /\ UNCHANGED <<mutex, registered, asrInput>>
  <2>1. SharedOK' /\ Bounds
    BY <1>1, <1>5, SharedSame DEF IInv
  <2>2. "working" \in Places /\ "working" # "loaded"
    BY DEF Places
  <2>3. jobs'[id].todo = jobs[id].todo
    BY <1>3, <1>5, <2>2, GotoJobs DEF IInv
  <2>4. ~Generating(id)'
    BY <1>3, <2>3 DEF Generating, InStage
  <2>5. Undisturbed' => id \notin queue'
    <3>1. Undisturbed' => Undisturbed
      BY <1>1 DEF Undisturbed, OnDemandOnly, Preinstalled, Method
    <3> QED
      BY <1>1, <1>3, <3>1 DEF IInv, UndisturbedOK
  <2> QED
    BY <1>1, <1>3, <1>5, <2>1, <2>2, <2>4, <2>5, GotoKeeps
<1>6. CASE native[Kind(id)] # "ready" /\ End(id, "error")
  <2>1. ~Undisturbed
    BY <1>3, <1>4, <1>6 DEF IInv, UndisturbedOK
  <2>2. CASE InStage(id, "transcribe", "start")
    BY <1>1, <1>3, <1>6, <2>1, <2>2, RefusedKeeps
  <2>3. CASE InStage(id, "synthesize", "start")
    BY <1>1, <1>3, <1>6, <2>1, <2>3, RefusedKeeps
  <2> QED
    BY <1>2, <2>2, <2>3
<1> QED
  BY <1>1, <1>5, <1>6

\* A model call ends, with an error only if some synthesis was cancelled.
LEMMA FinishWorkKeeps ==
  ASSUME IInv, NEW id \in Jobs, FinishWork(id), scenario' = scenario
  PROVE  IInv'
<1>1. /\ UNCHANGED <<cancelled, available, resident, native, queue, cancels, ttsCancelled, failures>>
      /\ \/ Next1(id) /\ UNCHANGED <<mutex, registered, asrInput>>
         \/ ttsCancelled /\ End(id, "error")
  BY DEF FinishWork, models, Interrupted
<1>2. InStage(id, "transcribe", "working") \/ InStage(id, "synthesize", "working")
  BY DEF FinishWork
<1>3. ~Generating(id) /\ ~InStage(id, "ensure", "loaded")
  BY <1>2 DEF Generating, InStage
<1>4. CASE Next1(id) /\ UNCHANGED <<mutex, registered, asrInput>>
  <2>1. SharedOK' /\ Bounds
    BY <1>1, <1>4, SharedSame DEF IInv
  <2>2. /\ "transcribe" \notin {"acquire", "release"} /\ "transcribe" # "ensure"
        /\ "synthesize" \notin {"acquire", "release"} /\ "synthesize" # "ensure"
    OBVIOUS
  <2>3. CASE InStage(id, "transcribe", "working")
    BY <1>1, <1>3, <1>4, <2>1, <2>2, <2>3, NextKeeps
  <2>4. CASE InStage(id, "synthesize", "working")
    BY <1>1, <1>3, <1>4, <2>1, <2>2, <2>4, NextKeeps
  <2> QED
    BY <1>2, <2>3, <2>4
<1>5. CASE ttsCancelled /\ End(id, "error")
  <2>1. ~Undisturbed
    BY <1>5 DEF IInv, SharedOK, Undisturbed
  <2>2. CASE InStage(id, "transcribe", "working")
    BY <1>1, <1>3, <1>5, <2>1, <2>2, RefusedKeeps
  <2>3. CASE InStage(id, "synthesize", "working")
    BY <1>1, <1>3, <1>5, <2>1, <2>3, RefusedKeeps
  <2> QED
    BY <1>2, <2>2, <2>3
<1> QED
  BY <1>1, <1>4, <1>5

\* A reading goes on, or ends without its sample rate.
LEMMA ReadRateKeeps ==
  ASSUME IInv, NEW id \in Jobs, ReadRate(id), scenario' = scenario
  PROVE  IInv'
<1>1. /\ InStage(id, "rate", "start")
      /\ UNCHANGED <<cancelled, available, resident, native, queue, cancels, ttsCancelled, failures>>
      /\ \/ Next1(id) /\ UNCHANGED <<mutex, registered, asrInput>>
         \/ End(id, "unrated")
  BY DEF ReadRate, models
<1>2. ~Generating(id) /\ ~InStage(id, "ensure", "loaded") /\ Running(id)
  BY <1>1 DEF Generating, InStage
<1>3. CASE Next1(id) /\ UNCHANGED <<mutex, registered, asrInput>>
  <2>1. SharedOK' /\ Bounds
    BY <1>1, <1>3, SharedSame DEF IInv
  <2>2. "rate" \notin {"acquire", "release"} /\ "rate" # "ensure"
    OBVIOUS
  <2> QED
    BY <1>1, <1>2, <1>3, <2>1, <2>2, NextKeeps
<1>4. CASE End(id, "unrated")
  <2>1. registered' \subseteq Requests /\ ttsCancelled' \in BOOLEAN /\ failures' \in 0 .. MaxFailures
        /\ native' \in [Kinds -> {"none", "ready", "failed"}]
    BY <1>1, <1>4 DEF End, IInv, SharedOK
  <2>2. SharedOK' /\ Bounds
    BY <1>1, <2>1, SharedKept DEF IInv, Bounds
  <2>3. "unrated" \in Outcomes /\ "unrated" # "error"
    BY DEF Outcomes
  <2> QED
    BY <1>1, <1>2, <1>4, <2>2, <2>3, EndKeeps
<1> QED
  BY <1>1, <1>3, <1>4

\* A coroutine fails: a generation leaves a failed generator and no synthesizer.
LEMMA FailsKeeps ==
  ASSUME IInv, NEW id \in Jobs, Fails(id), scenario' = scenario
  PROVE  IInv'
<1>1. /\ Failing /\ End(id, "error") /\ UNCHANGED <<cancelled, available, resident, cancels, ttsCancelled>>
      /\ Running(id)
  BY DEF Fails, InStage
<1>2. failures' = failures + 1 /\ failures' \in 0 .. MaxFailures /\ ~Undisturbed'
  BY <1>1, FailureCounted DEF IInv
<1>3. registered' \subseteq Requests /\ ttsCancelled' \in BOOLEAN /\ (ttsCancelled' => ttsCancelled)
      /\ native \in [Kinds -> {"none", "ready", "failed"}]
  BY <1>1 DEF End, IInv, SharedOK
<1>4. /\ native' \in [Kinds -> {"none", "ready", "failed"}] /\ queue' \subseteq queue
      /\ native' = native \/ (mutex = id /\ TtsIsAlone')
  <2>1. CASE InStage(id, "generate", "stepping")
    <3>1. native' = [native EXCEPT !["chat"] = "failed"] /\ queue' = {}
      BY <2>1 DEF Fails
    <3>2. native' \in [Kinds -> {"none", "ready", "failed"}] /\ native'["tts"] = native["tts"]
      BY <1>3, <3>1 DEF Kinds
    <3>3. native["tts"] # "ready"
      <4>1. native["chat"] = "ready"
        BY <2>1 DEF IInv, NativeOK, Generating
      <4> QED
        BY <4>1 DEF IInv, NativeOK, TtsIsAlone
    <3>4. mutex = id
      BY <2>1, AtStage DEF IInv, Inside
    <3> QED
      BY <3>1, <3>2, <3>3, <3>4 DEF TtsIsAlone
  <2>2. CASE ~InStage(id, "generate", "stepping")
    BY <1>3, <2>2 DEF Fails
  <2> QED
    BY <2>1, <2>2
<1>5. SharedOK' /\ Bounds
  <2>1. SharedOK' /\ cancelled \subseteq cancelled' /\ available \subseteq available' /\ available' \subseteq Kinds
    BY <1>1, <1>2, <1>3, <1>4, SharedKept DEF IInv
  <2> QED
    BY <1>2, <2>1 DEF Bounds
<1>6. "error" \in Outcomes
  BY DEF Outcomes
<1> QED
  BY <1>1, <1>2, <1>4, <1>5, <1>6, EndKeeps

\* Who loads is inside.
LEMMA LoadingInside ==
  ASSUME IInv, NEW id \in Jobs, Loading(id)
  PROVE  /\ mutex = id /\ Kind(id) \in Kinds /\ Running(id)
         /\ ~Generating(id) /\ ~InStage(id, "ensure", "loaded")
         /\ OnDemandOnly => InStage(id, "ensure", "loading")
         /\ jobs[id].todo # <<>>
<1>1. /\ Running(id) /\ ~Generating(id) /\ ~InStage(id, "ensure", "loaded") /\ jobs[id].todo # <<>>
  BY DEF Loading, InStage, Generating
<1>2. CASE InStage(id, "load", "loading")
  <2>1. mutex = id /\ Kind(id) \in Kinds /\ jobs[id].todo[1].do = "load" /\ 1 \in 1 .. Len(jobs[id].todo)
    BY <1>2, AtStage DEF IInv, Inside
  <2>2. ~OnDemandOnly
    BY <2>1 DEF IInv, DemandOK, Without
  <2> QED
    BY <1>1, <2>1, <2>2
<1>3. CASE InStage(id, "ensure", "loading")
  <2>1. mutex = id /\ Kind(id) \in Kinds
    BY <1>3, AtStage DEF IInv, Inside
  <2> QED
    BY <1>1, <1>3, <2>1
<1> QED
  BY <1>2, <1>3 DEF Loading

\* A load fails, before or after it unloaded the other models.
LEMMA NativeLoadFailsKeeps ==
  ASSUME IInv, NEW id \in Jobs, NativeLoadFails(id), scenario' = scenario
  PROVE  IInv'
<1>1. /\ Loading(id) /\ Failing /\ End(id, "error") /\ UNCHANGED <<cancelled, available, resident, cancels>>
  BY DEF NativeLoadFails
<1>2. PICK unloaded \in {{}, Resets(Kind(id))} :
       /\ native' = [k \in Kinds |-> IF k \in unloaded THEN "none" ELSE native[k]]
       /\ queue' = IF "chat" \in unloaded THEN {} ELSE queue
       /\ ttsCancelled' = (ttsCancelled /\ ~(Kind(id) = "tts" /\ unloaded # {}))
  BY DEF NativeLoadFails
<1>3. failures' = failures + 1 /\ failures' \in 0 .. MaxFailures /\ ~Undisturbed'
  BY <1>1, FailureCounted DEF IInv
<1>4. mutex = id /\ Running(id)
  BY <1>1, LoadingInside
<1>5. native \in [Kinds -> {"none", "ready", "failed"}] /\ TtsIsAlone
  BY DEF IInv, SharedOK, NativeOK
<1>6. native' \in [Kinds -> {"none", "ready", "failed"}] /\ queue' \subseteq queue
  BY <1>2, <1>5
<1>7. registered' \subseteq Requests /\ ttsCancelled' \in BOOLEAN /\ (ttsCancelled' => ttsCancelled)
  BY <1>1, <1>2 DEF End, IInv, SharedOK
<1>8. TtsIsAlone'
  <2>1. "tts" \in Kinds /\ "chat" \in Kinds /\ "asr" \in Kinds
    BY DEF Kinds
  <2>2. \A k \in Kinds : native'[k] = IF k \in unloaded THEN "none" ELSE native[k]
    BY <1>2
  <2> QED
    BY <1>5, <2>1, <2>2 DEF TtsIsAlone
<1>9. SharedOK' /\ Bounds
  <2>1. SharedOK' /\ cancelled \subseteq cancelled' /\ available \subseteq available' /\ available' \subseteq Kinds
    BY <1>1, <1>3, <1>6, <1>7, SharedKept DEF IInv
  <2> QED
    BY <1>3, <2>1 DEF Bounds
<1>10. "error" \in Outcomes
  BY DEF Outcomes
<1> QED
  BY <1>1, <1>3, <1>4, <1>6, <1>8, <1>9, <1>10, EndKeeps

\* The holder of the mutex is the only one to be anywhere inside.
LEMMA OthersOutside ==
  ASSUME JobsOK, NEW id \in Jobs, mutex = id, Changes(id), NEW other \in Jobs, other # id
  PROVE  ~Within(other)' /\ ~Generating(other)' /\ ~InStage(other, "ensure", "loaded")'
         /\ ~Within(other) /\ ~Generating(other) /\ ~InStage(other, "ensure", "loaded")
<1>1. ~Within(other)
  BY DEF JobsOK
<1>2. jobs'[other] = jobs[other]
  BY DEF Changes
<1> QED
  BY <1>1, <1>2 DEF Within, Generating, InStage, Inside

\* A model is loaded, others are unloaded: what the flags still say is
\* right once those of the models that were evicted are cleared.
LEMMA NativeLoadKeeps ==
  ASSUME IInv, NEW id \in Jobs, NativeLoad(id), scenario' = scenario
  PROVE  IInv'
<1>1. /\ Loading(id) /\ Proceed(id, "loaded")
      /\ native' = [k \in Kinds |-> IF k = Kind(id) THEN "ready"
                                    ELSE IF k \in Resets(Kind(id)) THEN "none" ELSE native[k]]
      /\ queue' = IF "chat" \in Resets(Kind(id)) THEN {} ELSE queue
      /\ ttsCancelled' = (ttsCancelled /\ Kind(id) # "tts")
      /\ UNCHANGED <<cancelled, mutex, available, resident, registered, cancels, asrInput, failures>>
  BY DEF NativeLoad
<1>2. /\ mutex = id /\ Kind(id) \in Kinds /\ Running(id)
      /\ ~Generating(id) /\ ~InStage(id, "ensure", "loaded")
      /\ OnDemandOnly => InStage(id, "ensure", "loading")
      /\ jobs[id].todo # <<>>
  BY <1>1, LoadingInside
<1>3. "loaded" \in Places
  BY DEF Places
<1>4. /\ JobsOK' /\ Changes(id) /\ Part(jobs[id].todo, jobs'[id].todo)
      /\ jobs'[id].todo = jobs[id].todo /\ jobs'[id].status = "running" /\ jobs'[id].at = "loaded"
  BY <1>1, <1>2, <1>3, GotoJobs DEF IInv
<1>5. /\ native \in [Kinds -> {"none", "ready", "failed"}]
      /\ \A k \in Kinds : native'[k] = IF k = Kind(id) THEN "ready"
                                       ELSE IF k \in Resets(Kind(id)) THEN "none" ELSE native[k]
      /\ native' \in [Kinds -> {"none", "ready", "failed"}]
      /\ resident \subseteq Kinds
  <2>1. native \in [Kinds -> {"none", "ready", "failed"}] /\ resident \subseteq Kinds
    BY DEF IInv, SharedOK
  <2> QED
    BY <1>1, <2>1
<1>6. SharedOK' /\ Bounds
  <2>1. /\ queue' \subseteq queue /\ registered' \subseteq Requests
        /\ ttsCancelled' \in BOOLEAN /\ (ttsCancelled' => ttsCancelled) /\ failures' \in 0 .. MaxFailures
    BY <1>1 DEF IInv, SharedOK
  <2> QED
    BY <1>1, <1>5, <2>1, SharedKept DEF IInv, Bounds
<1>7. MicrophoneOK'
  <2>1. asrInput' \in {asrInput, Nobody}
    BY <1>1
  <2> QED
    BY <1>4, <2>1, MicrophoneKept DEF IInv
<1>8. DemandOK'
  BY <1>4, <1>6, DemandKept DEF IInv, Bounds
<1>9. \A other \in Jobs : ~Generating(other)' /\ ~Generating(other)
  <2>1. ~Generating(id)'
    BY <1>4 DEF Generating, InStage
  <2> QED
    BY <1>2, <1>4, <2>1, OthersOutside DEF IInv
<1>10. NativeOK'
  <2>1. "tts" \in Kinds /\ "chat" \in Kinds /\ "asr" \in Kinds
    BY DEF Kinds
  <2>2. Kind(id) = "tts" => Resets(Kind(id)) = Kinds
    BY DEF Resets
  <2>3. "tts" \in Resets(Kind(id))
    BY <2>1 DEF Resets
  <2>4. "chat" # "tts" /\ "asr" # "tts"
    OBVIOUS
  <2>5. TtsIsAlone'
    BY <1>5, <2>1, <2>2, <2>3, <2>4 DEF TtsIsAlone
  <2> QED
    BY <1>9, <2>5 DEF NativeOK
<1>11. UndisturbedOK'
  <2> SUFFICES ASSUME Undisturbed' PROVE UndisturbedOK'
    BY DEF UndisturbedOK
  <2>1. Undisturbed
    BY <1>1, <1>4, StaysUndisturbed DEF IInv
  <2>2. InStage(id, "ensure", "loading")
    BY <1>2, <2>1 DEF Undisturbed
  <2>3. InStage(id, "ensure", "loaded")'
    BY <1>4, <2>2 DEF InStage, Running
  <2>4. Kind(id)' = Kind(id)
    BY <1>4 DEF Kind
  <2>5. FlagsOf(resident)
    <3>1. \A other \in Jobs : ~InStage(other, "ensure", "loaded")
      BY <1>2, <1>4, OthersOutside DEF IInv
    <3> QED
      BY <2>1, <3>1 DEF IInv, UndisturbedOK
  <2>6. Settling(id)'
    <3>1. native'[Kind(id)] = "ready"
      BY <1>2, <1>5
    <3>2. ASSUME NEW k \in resident \ Evicted(Kind(id)) PROVE native'[k] = "ready"
      <4>1. k \in Kinds /\ native[k] = "ready"
        BY <1>5, <2>5, <3>2 DEF FlagsOf
      <4>2. k = Kind(id) \/ k \notin Resets(Kind(id))
        BY <1>2, <3>2, <4>1 DEF Evicted, Resets, Kinds
      <4> QED
        BY <1>5, <4>1, <4>2
    <3> QED
      BY <1>1, <2>4, <3>1, <3>2 DEF Settling, FlagsOf
  <2>7. \A other \in Jobs : InStage(other, "ensure", "loaded")' => Settling(other)'
    BY <1>2, <1>4, <2>6, OthersOutside DEF IInv
  <2>8. \A other \in Jobs :
          Within(other)' /\ Head(jobs'[other].todo).do \in Uses => native'[Head(jobs'[other].todo).kind] = "ready"
    <3>1. Head(jobs'[id].todo).do \notin Uses
      BY <1>4, <2>2 DEF InStage, Uses
    <3> QED
      BY <1>2, <1>4, <3>1, OthersOutside DEF IInv
  <2>9. \A r \in Jobs : r \notin queue'
    <3>1. \A r \in Jobs : r \notin queue
      BY <1>9, <2>1 DEF IInv, UndisturbedOK
    <3> QED
      BY <1>1, <3>1
  <2>10. OneDictation' => \A r \in Requests : jobs'[r].status # "error"
    <3>1. OneDictation' = OneDictation
      BY DEF OneDictation, Method
    <3>2. \A other \in Jobs \ {id} : jobs'[other] = jobs[other]
      BY <1>4 DEF Changes
    <3> QED
      BY <1>4, <2>1, <3>1, <3>2, Distinct DEF IInv, UndisturbedOK
  <2> QED
    BY <2>3, <2>7, <2>8, <2>9, <2>10, <1>2 DEF UndisturbedOK, Kind
<1> QED
  BY <1>4, <1>6, <1>7, <1>8, <1>10, <1>11 DEF IInv

\* The mutex is given back with the result of the load.
LEMMA LoadReturnsKeeps ==
  ASSUME IInv, NEW id \in Jobs, LoadReturns(id), scenario' = scenario
  PROVE  IInv'
<1> DEFINE todo == jobs[id].todo
           rest == Tail(todo)
<1>1. /\ InStage(id, "load", "loaded") /\ mutex' = Nobody
      /\ jobs' = [jobs EXCEPT ![id].todo = Tail(Tail(@)), ![id].at = "start"]
      /\ UNCHANGED <<cancelled, available, resident, native, queue, registered, cancels, ttsCancelled, asrInput, failures>>
  BY DEF LoadReturns, models, serving
<1>2. /\ jobs \in [Jobs -> JobType] /\ jobs[id] \in JobType /\ todo \in Seq(StageType) /\ todo # <<>>
      /\ 1 \in 1 .. Len(todo) /\ Len(todo) \in Nat \ {0} /\ todo[1].do = "load"
      /\ jobs[id].status = "running" /\ mutex = id /\ Running(id)
  BY <1>1, AtStage DEF IInv, JobsOK, Inside
<1>3. /\ rest \in Seq(StageType) /\ Len(rest) \in Nat /\ Len(rest) + 1 = Len(todo)
      /\ \A i \in 1 .. Len(rest) : rest[i] = todo[i + 1] /\ i + 1 \in 1 .. Len(todo)
      /\ Part(todo, rest)
  BY <1>2, RestOfStages, TailPart
<1>4. 1 < Len(todo) /\ todo[2].do = "release" /\ Proper(todo)
  <2>1. Proper(todo)
    BY DEF IInv, JobsOK, JobOK
  <2>2. /\ todo[1].do \in Enters <=> 1 < Len(todo) /\ todo[1 + 1].do \in Inside
        /\ todo[1].do = "load" => todo[1 + 1].do = "release"
    BY <1>2, <2>1 DEF Proper
  <2>3. 1 + 1 = 2 /\ todo[1].do \in Enters
    BY <1>2 DEF Enters, Inside
  <2> QED
    BY <1>2, <2>1, <2>2, <2>3
<1> HIDE DEF todo
<1>5. rest # <<>> /\ rest[1] = todo[2] /\ Proper(rest)
  <2>1. 1 \in 1 .. Len(rest)
    BY <1>2, <1>3, <1>4
  <2>2. rest # <<>>
    <3>1. Len(<<>>) = 0
      OBVIOUS
    <3> HIDE DEF rest
    <3> QED
      BY <2>1, <3>1
  <2>3. rest[1] = todo[1 + 1] /\ 1 + 1 = 2
    BY <1>3, <2>1
  <2> HIDE DEF rest
  <2> QED
    BY <1>3, <1>4, <2>2, <2>3 DEF Part
<1> HIDE DEF rest
<1> DEFINE more == Tail(rest)
<1>6. /\ more \in Seq(StageType) /\ Len(more) \in Nat /\ Len(more) + 1 = Len(rest)
      /\ \A i \in 1 .. Len(more) : more[i] = rest[i + 1] /\ i + 1 \in 1 .. Len(rest)
      /\ Part(rest, more)
  BY <1>3, <1>5, RestOfStages, TailPart
<1>7. more = <<>> \/ Head(more).do \notin Inside
  <2> SUFFICES ASSUME more # <<>> PROVE Head(more).do \notin Inside
    OBVIOUS
  <2>1. Head(more) = more[1] /\ 1 \in 1 .. Len(more) /\ Len(more) \in Nat \ {0}
    BY <1>6, FirstStage
  <2>2. more[1] = rest[1 + 1] /\ 1 < Len(rest) /\ 1 \in 1 .. Len(rest)
    BY <1>6, <2>1
  <2>3. rest[1].do \in Enters <=> 1 < Len(rest) /\ rest[1 + 1].do \in Inside
    BY <1>5, <2>2 DEF Proper
  <2>4. rest[1].do \notin Enters
    BY <1>4, <1>5 DEF Enters
  <2> HIDE DEF more
  <2> QED
    BY <2>1, <2>2, <2>3, <2>4
<1>8. jobs' = [jobs EXCEPT ![id] = [jobs[id] EXCEPT !.todo = more, !.at = "start"]]
  BY <1>1, <1>2 DEF todo, rest, JobType
<1> HIDE DEF more
<1>9. [jobs[id] EXCEPT !.todo = more, !.at = "start"] \in JobType
  BY <1>2, <1>6 DEF JobType, Places
<1>10. jobs' \in [Jobs -> JobType] /\ \A other \in Jobs \ {id} : jobs'[other] = jobs[other]
  BY <1>2, <1>8, <1>9
<1>11. jobs'[id].todo = more /\ jobs'[id].status = "running" /\ jobs'[id].at = "start"
  BY <1>2, <1>8 DEF JobType
<1>12. Changes(id)
  BY <1>1, <1>2, <1>10 DEF Changes
<1>13. Part(jobs[id].todo, jobs'[id].todo)
  <2>1. Part(todo, more)
    BY <1>3, <1>6, PartOfPart
  <2> QED
    BY <1>11, <2>1 DEF todo
<1>14. JobOK(id)'
  <2>1. id = Draft => jobs'[id].status \in {"none", "running"}
    BY <1>11
  <2>2. jobs[id].status # "none" /\ (jobs'[id].status # "running" => jobs'[id].todo = <<>>)
    BY <1>2, <1>11
  <2> QED
    BY <1>12, <1>13, <2>1, <2>2, PartJob DEF IInv
<1>15. ~Within(id)' /\ mutex' # id
  BY <1>1, <1>7, <1>11, Distinct DEF Within
<1>16. JobsOK'
  BY <1>12, <1>14, <1>15, JobsStep DEF IInv
<1>17. SharedOK' /\ Bounds
  BY <1>1, SharedSame DEF IInv
<1>18. MicrophoneOK'
  <2>1. asrInput' \in {asrInput, Nobody} /\ (asrInput' = id => jobs'[id].status = "running")
    BY <1>1, <1>11
  <2> QED
    BY <1>12, <1>13, <2>1, MicrophoneKept DEF IInv
<1>19. DemandOK'
  BY <1>12, <1>13, <1>17, DemandKept DEF IInv, Bounds
<1>20. NativeOK'
  <2>1. ~Generating(id)'
    BY <1>11 DEF Generating, InStage
  <2> QED
    BY <1>1, <1>12, <2>1, NativeKept DEF IInv
<1>21. ~Undisturbed'
  <2>1. ~OnDemandOnly
    <3>1. todo[1].do = "load" /\ 1 \in 1 .. Len(todo)
      BY <1>2
    <3> QED
      BY <3>1 DEF IInv, DemandOK, Without, todo
  <2>2. Undisturbed' => Undisturbed
    BY <1>1, <1>12, StaysUndisturbed DEF IInv
  <2> QED
    BY <2>1, <2>2 DEF Undisturbed
<1>22. UndisturbedOK'
  BY <1>21 DEF UndisturbedOK
<1> QED
  BY <1>16, <1>17, <1>18, <1>19, <1>20, <1>22 DEF IInv

\* The resident flags are set: by ensureResident while it holds the mutex, and
\* then they are right; after a preload when it was given back.
LEMMA SetFlagsKeeps ==
  ASSUME IInv, NEW id \in Jobs, SetFlags(id), scenario' = scenario
  PROVE  IInv'
<1>1. /\ InStage(id, "flag", "start") \/ InStage(id, "ensure", "loaded")
      /\ resident' = (resident \cup {Kind(id)}) \ Evicted(Kind(id))
      /\ available' = available \cup {Kind(id)}
      /\ Next1(id)
      /\ UNCHANGED <<cancelled, mutex, native, queue, registered, cancels, ttsCancelled, asrInput, failures>>
  BY DEF SetFlags, serving
<1>2. Kind(id) \in Kinds /\ ~Generating(id) /\ Running(id)
  <2>1. CASE InStage(id, "flag", "start")
    BY <2>1, AtStage DEF IInv, Generating, InStage
  <2>2. CASE InStage(id, "ensure", "loaded")
    BY <2>2, AtStage DEF IInv, Generating, InStage
  <2> QED
    BY <1>1, <2>1, <2>2
<1>3. /\ JobsOK' /\ Changes(id) /\ Part(jobs[id].todo, jobs'[id].todo)
      /\ jobs'[id].todo = Tail(jobs[id].todo)
      /\ jobs'[id].status = "running" /\ jobs'[id].at = "start"
      /\ Within(id)' /\ Head(jobs'[id].todo).do \in Uses => Head(jobs'[id].todo).kind = Kind(id)
  <2>1. "flag" \notin {"acquire", "release"} /\ "ensure" \notin {"acquire", "release"}
    OBVIOUS
  <2>2. CASE InStage(id, "flag", "start")
    BY <1>1, <2>1, <2>2, NextJobs DEF IInv
  <2>3. CASE InStage(id, "ensure", "loaded")
    BY <1>1, <2>1, <2>3, NextJobs DEF IInv
  <2> QED
    BY <1>1, <2>2, <2>3
<1>4. SharedOK'
  <2>1. MaxFailures' = MaxFailures
    BY DEF MaxFailures
  <2>2. available' \subseteq Kinds /\ resident' \subseteq Kinds
    BY <1>1, <1>2 DEF IInv, SharedOK
  <2> QED
    BY <1>1, <2>1, <2>2 DEF IInv, SharedOK
<1>5. MicrophoneOK'
  <2>1. asrInput' \in {asrInput, Nobody} /\ (asrInput' = id => jobs'[id].status = "running")
    BY <1>1, <1>3
  <2> QED
    BY <1>3, <2>1, MicrophoneKept DEF IInv
<1>6. DemandOK'
  <2>1. available \subseteq available' /\ available' \subseteq Kinds
    BY <1>1, <1>4 DEF SharedOK
  <2> QED
    BY <1>3, <2>1, DemandKept DEF IInv
<1>7. ~Generating(id)' /\ ~InStage(id, "ensure", "loaded")'
  BY <1>3 DEF Generating, InStage
<1>8. NativeOK'
  BY <1>1, <1>3, <1>7, NativeKept DEF IInv
<1>9. UndisturbedOK'
  <2> SUFFICES ASSUME Undisturbed' PROVE UndisturbedOK'
    BY DEF UndisturbedOK
  <2>1. Undisturbed
    BY <1>1, <1>3, StaysUndisturbed DEF IInv
  <2>2. InStage(id, "ensure", "loaded")
    <3>1. ASSUME InStage(id, "flag", "start") PROVE FALSE
      <4>1. jobs[id].todo[1].do = "flag" /\ 1 \in 1 .. Len(jobs[id].todo)
        BY <3>1, AtStage DEF IInv
      <4> QED
        BY <2>1, <4>1 DEF IInv, DemandOK, Without, Undisturbed
    <3> QED
      BY <1>1, <3>1
  <2>3. mutex = id
    BY <2>2, AtStage DEF IInv, Inside
  <2>4. Settling(id)
    BY <2>1, <2>2 DEF IInv, UndisturbedOK
  <2>5. FlagsOf(resident)'
    BY <1>1, <2>4 DEF Settling, FlagsOf
  <2>6. \A other \in Jobs : ~InStage(other, "ensure", "loaded")'
    BY <1>3, <1>7, <2>3, OthersOutside DEF IInv
  <2>7. \A other \in Jobs :
          Within(other)' /\ Head(jobs'[other].todo).do \in Uses => native'[Head(jobs'[other].todo).kind] = "ready"
    <3>1. ASSUME Within(id)', Head(jobs'[id].todo).do \in Uses PROVE native'[Head(jobs'[id].todo).kind] = "ready"
      BY <1>1, <1>3, <2>4, <3>1 DEF Settling
    <3> QED
      BY <1>3, <2>3, <3>1, OthersOutside DEF IInv
  <2>8. \A r \in Jobs : r \notin queue'
    <3>1. ASSUME NEW r \in Jobs, r \in queue PROVE FALSE
      <4>1. Generating(r)
        BY <2>1, <3>1 DEF IInv, UndisturbedOK
      <4>2. r # id
        BY <1>2, <4>1
      <4> QED
        BY <1>3, <2>3, <4>1, <4>2, OthersOutside DEF IInv
    <3> QED
      BY <1>1, <3>1
  <2>9. OneDictation' => \A r \in Requests : jobs'[r].status # "error"
    <3>1. OneDictation' = OneDictation
      BY DEF OneDictation, Method
    <3>2. \A other \in Jobs \ {id} : jobs'[other] = jobs[other]
      BY <1>3 DEF Changes
    <3> QED
      BY <1>3, <2>1, <3>1, <3>2, Distinct DEF IInv, UndisturbedOK
  <2> QED
    BY <2>5, <2>6, <2>7, <2>8, <2>9 DEF UndisturbedOK, Kind
<1> QED
  BY <1>3, <1>4, <1>5, <1>6, <1>8, <1>9 DEF IInv

\* The first dictation to come takes the microphone, another one is refused.
LEMMA ClaimKeeps ==
  ASSUME IInv, NEW id \in Jobs, Claim(id), scenario' = scenario
  PROVE  IInv'
<1>1. /\ InStage(id, "claim", "start")
      /\ UNCHANGED <<cancelled, available, resident, native, queue, cancels, ttsCancelled, failures>>
      /\ \/ asrInput = Nobody /\ asrInput' = id /\ Next1(id) /\ UNCHANGED <<mutex, registered>>
         \/ asrInput # Nobody /\ End(id, "error")
  BY DEF Claim, models
<1>2. id \in Requests /\ ~Generating(id) /\ ~InStage(id, "ensure", "loaded")
  <2>1. id \in Requests
    BY <1>1, OnlyRequests DEF IInv, DraftStages
  <2> QED
    BY <1>1, <2>1 DEF Generating, InStage
<1>3. /\ jobs[id].todo[1].do = "claim" /\ 1 \in 1 .. Len(jobs[id].todo) /\ Claims(id)
      /\ jobs[id].todo \in Seq(StageType) /\ jobs[id].todo # <<>>
  <2>1. /\ jobs[id].todo[1].do = "claim" /\ 1 \in 1 .. Len(jobs[id].todo)
        /\ jobs[id].todo \in Seq(StageType) /\ jobs[id].todo # <<>>
    BY <1>1, AtStage DEF IInv
  <2> QED
    BY <2>1 DEF Claims, Without
<1>4. id \in DOMAIN Method /\ Method[id] = "asr.start" /\ asrInput # id /\ Once(jobs[id].todo, "claim")
  BY <1>3 DEF IInv, MicrophoneOK
<1>5. CASE asrInput = Nobody /\ asrInput' = id /\ Next1(id) /\ UNCHANGED <<mutex, registered>>
  <2>1. SharedOK' /\ Bounds
    BY <1>1, <1>5, SharedSame DEF IInv
  <2>2. "claim" \notin {"acquire", "release"}
    OBVIOUS
  <2>3. /\ JobsOK' /\ Changes(id) /\ Part(jobs[id].todo, jobs'[id].todo)
        /\ jobs'[id].todo = Tail(jobs[id].todo) /\ jobs'[id].status = "running" /\ jobs'[id].at = "start"
        /\ Within(id)' /\ Head(jobs'[id].todo).do \in Uses => "claim" = "ensure"
    BY <1>1, <1>5, <2>2, NextJobs DEF IInv
  <2>4. ~Generating(id)'
    BY <2>3 DEF Generating, InStage
  <2>5. Without(jobs'[id].todo, "claim")
    <3>1. \A i \in 1 .. Len(Tail(jobs[id].todo)) :
            Tail(jobs[id].todo)[i] = jobs[id].todo[i + 1] /\ i + 1 \in 1 .. Len(jobs[id].todo) /\ i + 1 # 1
      <4>1. \A i \in 1 .. Len(Tail(jobs[id].todo)) : i + 1 # 1
        OBVIOUS
      <4> QED
        BY <1>3, <4>1, RestOfStages
    <3> QED
      BY <1>3, <1>4, <2>3, <3>1 DEF Once, Without
  <2>6. MicrophoneOK'
    <3>1. scenario' = scenario /\ \A other \in Jobs \ {id} : jobs'[other] = jobs[other]
      BY <2>3 DEF Changes
    <3>2. ASSUME NEW other \in Jobs
          PROVE  /\ Once(jobs'[other].todo, "claim")
                 /\ Claims(other)' => asrInput' # other
                 /\ Claims(other)' \/ asrInput' = other =>
                      other \in DOMAIN Method /\ Method[other] = "asr.start"
      <4>1. CASE other = id
        BY <1>4, <2>3, <2>5, <4>1 DEF Claims, Part
      <4>2. CASE other # id
        BY <1>5, <3>1, <4>2 DEF IInv, MicrophoneOK, Claims
      <4> QED
        BY <4>1, <4>2
    <3>3. Running(asrInput)'
      BY <1>5, <2>3 DEF Running
    <3> QED
      BY <1>2, <1>5, <3>1, <3>2, <3>3 DEF MicrophoneOK, Method, Claims
  <2>7. DemandOK'
    BY <2>1, <2>3, DemandKept DEF IInv, Bounds
  <2>8. NativeOK'
    BY <1>1, <2>3, <2>4, NativeKept DEF IInv
  <2>9. Undisturbed' => Undisturbed
    BY <2>1, <2>3, StaysUndisturbed DEF IInv, Bounds
  <2>10. Calm(id)
    <3>1. Undisturbed' => id \notin queue'
      BY <1>1, <1>2, <2>9 DEF IInv, UndisturbedOK
    <3>2. jobs'[id].at # "loaded" /\ jobs'[id].status # "error"
      BY <2>3
    <3>3. ~(Within(id)' /\ Head(jobs'[id].todo).do \in Uses)
      BY <2>3
    <3> QED
      BY <1>1, <1>2, <3>1, <3>2, <3>3 DEF Calm
  <2>11. UndisturbedOK'
    BY <2>3, <2>9, <2>10, UndisturbedKept DEF IInv
  <2> QED
    BY <2>1, <2>3, <2>6, <2>7, <2>8, <2>11 DEF IInv
<1>6. CASE asrInput # Nobody /\ End(id, "error")
  <2>1. asrInput \in Jobs /\ asrInput \in DOMAIN Method /\ Method[asrInput] = "asr.start"
    BY <1>6, Distinct DEF IInv, MicrophoneOK
  <2>2. ~OneDictation
    BY <1>4, <2>1 DEF OneDictation
  <2>3. "claim" # "ensure" /\ ~(Undisturbed /\ OneDictation)
    BY <2>2
  <2> QED
    BY <1>1, <1>2, <1>6, <2>3, RefusedKeeps
<1> QED
  BY <1>1, <1>5, <1>6

-----------------------------------------------------------------------------
(* The steps of the user and of the dispatchers. *)

\* What a step that starts a coroutine, or ends one that did not run, leaves alone.
LEMMA StartKeeps ==
  ASSUME IInv, NEW id \in Jobs, jobs[id].status \in {"none", "posted"},
         jobs' \in [Jobs -> JobType], \A other \in Jobs \ {id} : jobs'[other] = jobs[other],
         jobs'[id].status = "running" => jobs'[id].at = "start", jobs'[id].status # "error",
         JobOK(id)', ~Within(id)',
         Once(jobs'[id].todo, "claim"),
         ~Without(jobs'[id].todo, "claim") => id \in DOMAIN Method /\ Method[id] = "asr.start",
         OnDemandOnly => Without(jobs'[id].todo, "load") /\ Without(jobs'[id].todo, "flag"),
         UNCHANGED <<scenario, mutex, cancelled, available, resident, native, queue, registered, cancels,
                     ttsCancelled, asrInput, failures>>
  PROVE  IInv'
<1>1. jobs[id].todo = <<>> /\ ~Running(id)
  BY DEF IInv, JobsOK, JobOK, Running
<1>2. mutex # id /\ asrInput # id
  <2>1. ~Within(id)
    BY <1>1 DEF Within
  <2>2. asrInput # id
    BY <1>1, Distinct DEF IInv, MicrophoneOK
  <2> QED
    BY <2>1, <2>2 DEF IInv, JobsOK
<1>3. Changes(id)
  BY DEF Changes
<1>4. JobsOK'
  BY <1>2, <1>3, JobsStep DEF IInv
<1>5. SharedOK'
  BY SharedSame DEF IInv
<1>6. MicrophoneOK'
  <2>1. ASSUME NEW other \in Jobs
        PROVE  /\ Once(jobs'[other].todo, "claim")
               /\ Claims(other)' => asrInput' # other
               /\ Claims(other)' \/ asrInput' = other =>
                    other \in DOMAIN Method /\ Method[other] = "asr.start"
    <3>1. CASE other = id
      BY <1>2, <3>1 DEF Claims
    <3>2. CASE other # id
      BY <3>2 DEF IInv, MicrophoneOK, Claims
    <3> QED
      BY <3>1, <3>2
  <2>2. asrInput' # Nobody => asrInput' \in Requests /\ Running(asrInput)'
    <3> SUFFICES ASSUME asrInput # Nobody PROVE asrInput \in Requests /\ Running(asrInput)'
      OBVIOUS
    <3>1. asrInput \in Requests /\ Running(asrInput) /\ asrInput # id
      BY <1>2 DEF IInv, MicrophoneOK
    <3>2. asrInput \in Jobs \ {id}
      BY <3>1, Distinct
    <3> QED
      BY <3>1, <3>2 DEF Running
  <2> QED
    BY <2>1, <2>2 DEF MicrophoneOK, Method, Claims
<1>7. DemandOK'
  <2> SUFFICES ASSUME OnDemandOnly'
               PROVE  available' = Kinds /\ \A other \in Jobs :
                        Without(jobs'[other].todo, "load") /\ Without(jobs'[other].todo, "flag")
    BY DEF DemandOK
  <2>1. OnDemandOnly
    BY DEF OnDemandOnly, Preinstalled, Method
  <2>2. ASSUME NEW other \in Jobs
        PROVE  Without(jobs'[other].todo, "load") /\ Without(jobs'[other].todo, "flag")
    <3>1. CASE other = id
      BY <2>1, <3>1
    <3>2. CASE other # id
      BY <2>1, <3>2 DEF IInv, DemandOK
    <3> QED
      BY <3>1, <3>2
  <2> QED
    BY <2>1, <2>2 DEF IInv, DemandOK
<1>8. ~Generating(id)' /\ ~InStage(id, "ensure", "loaded")
  BY <1>1 DEF Generating, InStage, Running
<1>9. NativeOK'
  BY <1>3, <1>8, NativeKept DEF IInv
<1>10. Undisturbed' => Undisturbed
  BY <1>3, StaysUndisturbed DEF IInv
<1>11. Calm(id)
  <2>1. Undisturbed' => id \notin queue'
    <3>1. ~Generating(id)
      BY <1>1 DEF Generating, InStage
    <3> QED
      BY <1>10, <3>1 DEF IInv, UndisturbedOK
  <2>2. jobs'[id].status = "running" => jobs'[id].at # "loaded"
    OBVIOUS
  <2> QED
    BY <1>8, <2>1, <2>2 DEF Calm
<1>12. UndisturbedOK'
  BY <1>3, <1>10, <1>11, UndisturbedKept DEF IInv
<1> QED
  BY <1>4, <1>5, <1>6, <1>7, <1>9, <1>12 DEF IInv

\* A request that is posted has not started.
LEMMA PostKeeps ==
  ASSUME IInv, NEW id \in Requests, Post(id), scenario' = scenario
  PROVE  IInv'
<1>1. /\ id \in Jobs /\ id # Draft /\ id \in DOMAIN Method /\ jobs[id].status = "none"
      /\ jobs' = [jobs EXCEPT ![id].status = "posted"]
      /\ UNCHANGED <<mutex, cancelled, available, resident, native, queue, registered, cancels, ttsCancelled,
                     asrInput, failures>>
  BY Distinct DEF Post, models, serving
<1>2. /\ jobs \in [Jobs -> JobType] /\ jobs[id] \in JobType /\ jobs[id].todo = <<>> /\ Proper(jobs[id].todo)
  BY <1>1 DEF IInv, JobsOK, JobOK, Running
<1>3. /\ jobs' = [jobs EXCEPT ![id] = [jobs[id] EXCEPT !.status = "posted"]]
      /\ [jobs[id] EXCEPT !.status = "posted"] \in JobType
  BY <1>1, <1>2 DEF JobType, Statuses
<1>4. jobs' \in [Jobs -> JobType] /\ \A other \in Jobs \ {id} : jobs'[other] = jobs[other]
  BY <1>1, <1>2, <1>3
<1>5. jobs'[id].todo = <<>> /\ jobs'[id].status = "posted"
  BY <1>1, <1>2, <1>3 DEF JobType
<1>7. JobOK(id)'
  BY <1>1, <1>2, <1>5 DEF JobOK, Running, Method
<1>8. ~Within(id)'
  BY <1>5 DEF Within
<1> QED
  BY <1>1, <1>4, <1>5, <1>7, <1>8, EmptyPart, StartKeeps

\* The program of a request begins outside, and one that was cancelled before is dropped.
LEMMA BeginRequestKeeps ==
  ASSUME IInv, NEW id \in Requests, Begin(id), scenario' = scenario
  PROVE  IInv'
<1>1. /\ id \in Jobs /\ id # Draft /\ jobs[id].status = "posted"
      /\ UNCHANGED <<mutex, cancelled, available, resident, native, queue, registered, cancels, ttsCancelled,
                     asrInput, failures>>
      /\ \/ jobs' = [jobs EXCEPT ![id] = [status |-> "dropped", todo |-> <<>>, at |-> "start"]]
         \/ jobs' = [jobs EXCEPT ![id] = [status |-> "running", todo |-> Program(Method[id]), at |-> "start"]]
  BY Distinct DEF Begin, models, serving
<1>2. jobs \in [Jobs -> JobType] /\ id \in DOMAIN Method /\ Method[id] \in Methods
  <2>1. jobs \in [Jobs -> JobType] /\ id \in DOMAIN Method /\ scenario \in Scenarios
    BY <1>1 DEF IInv, JobsOK, JobOK, SharedOK
  <2> QED
    BY <2>1, HostAssumption DEF Method
<1>3. CASE jobs' = [jobs EXCEPT ![id] = [status |-> "dropped", todo |-> <<>>, at |-> "start"]]
  <2> DEFINE new == [status |-> "dropped", todo |-> <<>>, at |-> "start"]
  <2>1. new \in JobType
    <3>1. <<>> \in Seq(StageType)
      BY EmptySeq
    <3> QED
      BY <3>1 DEF JobType, Places, Statuses
  <2>2. jobs' \in [Jobs -> JobType] /\ \A other \in Jobs \ {id} : jobs'[other] = jobs[other]
    BY <1>1, <1>2, <1>3, <2>1
  <2>3. jobs'[id].todo = <<>> /\ jobs'[id].status = "dropped" /\ jobs'[id].at = "start"
    BY <1>1, <1>2, <1>3
  <2>4. JobOK(id)'
    BY <1>1, <1>2, <2>3, EmptyPart DEF JobOK, Running, Method
  <2>5. ~Within(id)'
    BY <2>3 DEF Within
  <2> QED
    BY <1>1, <2>2, <2>3, <2>4, <2>5, EmptyPart, StartKeeps
<1>4. CASE jobs' = [jobs EXCEPT ![id] = [status |-> "running", todo |-> Program(Method[id]), at |-> "start"]]
  <2> DEFINE todo == Program(Method[id])
             new == [status |-> "running", todo |-> todo, at |-> "start"]
  <2>1. /\ Whole(todo) /\ Once(todo, "claim")
        /\ Method[id] # "asr.start" => Without(todo, "claim")
        /\ available = Kinds /\ Method[id] \notin Preloads => Without(todo, "load") /\ Without(todo, "flag")
    BY <1>2, Programs
  <2> HIDE DEF todo
  <2>2. todo \in Seq(StageType) /\ Proper(todo)
    BY <2>1 DEF Whole
  <2>3. new \in JobType
    BY <2>2 DEF JobType, Places, Statuses
  <2>4. jobs' = [jobs EXCEPT ![id] = new]
    BY <1>4 DEF todo
  <2>5. jobs' \in [Jobs -> JobType] /\ \A other \in Jobs \ {id} : jobs'[other] = jobs[other]
    BY <1>1, <1>2, <2>3, <2>4
  <2>6. jobs'[id].todo = todo /\ jobs'[id].status = "running" /\ jobs'[id].at = "start"
    BY <1>1, <1>2, <2>4
  <2>7. JobOK(id)'
    BY <1>1, <1>2, <2>2, <2>6 DEF JobOK, Running, Method
  <2>8. ~Within(id)'
    <3>1. todo # <<>> => Head(todo) = todo[1]
      BY <2>2, FirstStage
    <3> QED
      BY <2>1, <2>6, <3>1 DEF Within, Whole
  <2>9. OnDemandOnly => Without(todo, "load") /\ Without(todo, "flag")
    <3>1. OnDemandOnly => available = Kinds /\ Method[id] \notin Preloads
      BY <1>2 DEF OnDemandOnly, IInv, DemandOK
    <3> QED
      BY <2>1, <3>1
  <2> QED
    BY <1>1, <1>2, <2>1, <2>5, <2>6, <2>7, <2>8, <2>9, StartKeeps
<1> QED
  BY <1>1, <1>3, <1>4

\* The coroutine of a draft has what a transcription has.
LEMMA PublishSnapshotKeeps ==
  ASSUME IInv, PublishSnapshot, scenario' = scenario
  PROVE  IInv'
<1> DEFINE todo == Use("asr", "transcribe")
           new == [status |-> "running", todo |-> todo, at |-> "start"]
<1>1. /\ Draft \in Jobs /\ jobs[Draft].status = "none" /\ jobs' = [jobs EXCEPT ![Draft] = new]
      /\ UNCHANGED <<mutex, cancelled, available, resident, native, queue, registered, cancels, ttsCancelled,
                     asrInput, failures>>
  BY Distinct DEF PublishSnapshot, models, serving
<1>2. /\ Whole(todo) /\ Once(todo, "claim") /\ Without(todo, "load") /\ Without(todo, "flag")
      /\ Without(todo, "claim") /\ \A i \in 1 .. Len(todo) : todo[i].do \in DraftStages
  <2>1. "asr" \in Kinds /\ "transcribe" \in Uses /\ "transcribe" # "generate"
    BY DEF Kinds, Uses
  <2> QED
    BY <2>1, UseStages
<1> HIDE DEF todo
<1>3. todo \in Seq(StageType) /\ Proper(todo) /\ jobs \in [Jobs -> JobType]
  BY <1>2 DEF Whole, IInv, JobsOK
<1>4. new \in JobType
  BY <1>3 DEF JobType, Places, Statuses
<1>5. jobs' \in [Jobs -> JobType] /\ \A other \in Jobs \ {Draft} : jobs'[other] = jobs[other]
  BY <1>1, <1>3, <1>4
<1>6. jobs'[Draft].todo = todo /\ jobs'[Draft].status = "running" /\ jobs'[Draft].at = "start"
  BY <1>1, <1>3
<1>7. JobOK(Draft)'
  BY <1>2, <1>3, <1>6 DEF JobOK, Running
<1>8. ~Within(Draft)'
  <2>1. todo # <<>> => Head(todo) = todo[1]
    BY <1>3, FirstStage
  <2> QED
    BY <1>2, <1>6, <2>1 DEF Within, Whole
<1> QED
  BY <1>1, <1>2, <1>5, <1>6, <1>7, <1>8, StartKeeps

\* The coroutines and the mutex stay as they are.
LEMMA JobsSame ==
  ASSUME UNCHANGED <<jobs, mutex, scenario>>
  PROVE  /\ JobsOK => JobsOK'
         /\ MicrophoneOK /\ asrInput' = asrInput => MicrophoneOK'
         /\ DemandOK /\ available' = available => DemandOK'
         /\ NativeOK /\ native' = native => NativeOK'
<1>1. \A id : Running(id)' = Running(id) /\ Within(id)' = Within(id) /\ JobOK(id)' = JobOK(id) /\ Claims(id)' = Claims(id)
              /\ Generating(id)' = Generating(id)
  BY DEF Running, Within, JobOK, Claims, Generating, InStage, Method
<1>2. JobsOK => JobsOK'
  BY <1>1 DEF JobsOK
<1>3. MicrophoneOK /\ asrInput' = asrInput => MicrophoneOK'
  BY <1>1 DEF MicrophoneOK, Method
<1>4. DemandOK /\ available' = available => DemandOK'
  BY DEF DemandOK, OnDemandOnly, Preinstalled, Method
<1>5. NativeOK /\ native' = native => NativeOK'
  BY <1>1 DEF NativeOK, TtsIsAlone
<1> QED
  BY <1>2, <1>3, <1>4, <1>5

\* A cancellation is remembered, and sets the native flags.
LEMMA CancelKeeps ==
  ASSUME IInv, NEW id \in Requests, CancelRequest(id), scenario' = scenario
  PROVE  IInv'
<1>1. /\ cancelled' = cancelled \cup {id}
      /\ cancels' = IF id \in registered THEN cancels \cup {id} ELSE cancels
      /\ ttsCancelled' = (ttsCancelled \/ Method[id] = "tts.start")
      /\ UNCHANGED <<jobs, mutex, available, resident, native, queue, registered, asrInput, failures>>
  BY DEF CancelRequest, models
<1>2. JobsOK' /\ MicrophoneOK' /\ DemandOK' /\ NativeOK'
  BY <1>1, JobsSame DEF IInv
<1>3. SharedOK'
  <2>1. MaxFailures' = MaxFailures
    BY DEF MaxFailures
  <2>2. cancelled' \subseteq Requests /\ cancels' \subseteq Requests /\ ttsCancelled' \in BOOLEAN /\ cancelled' # {}
    BY <1>1 DEF IInv, SharedOK
  <2> QED
    BY <1>1, <2>1, <2>2 DEF IInv, SharedOK
<1>4. UndisturbedOK'
  BY <1>1 DEF UndisturbedOK, Undisturbed
<1> QED
  BY <1>2, <1>3, <1>4 DEF IInv

\* The generator comes to a cancellation.
LEMMA NativeCancelKeeps ==
  ASSUME IInv, NEW id \in Requests, NativeCancel(id), scenario' = scenario
  PROVE  IInv'
<1>1. /\ id \in cancels /\ cancels' = cancels \ {id} /\ queue' = queue \ {id}
      /\ UNCHANGED <<jobs, cancelled, mutex, available, resident, native, registered, ttsCancelled, asrInput, failures>>
  BY DEF NativeCancel, models
<1>2. JobsOK' /\ MicrophoneOK' /\ DemandOK' /\ NativeOK'
  BY <1>1, JobsSame DEF IInv
<1>3. cancelled # {}
  BY <1>1 DEF IInv, SharedOK
<1>4. SharedOK'
  <2>1. MaxFailures' = MaxFailures
    BY DEF MaxFailures
  <2>2. cancels' \subseteq Requests /\ (queue' = {} \/ \E r \in Requests : queue' = {r})
    <3>1. CASE queue = {}
      BY <1>1, <3>1 DEF IInv, SharedOK
    <3>2. CASE \E r \in Requests : queue = {r}
      BY <1>1, <3>2 DEF IInv, SharedOK
    <3> QED
      BY <3>1, <3>2 DEF IInv, SharedOK
  <2> QED
    BY <1>1, <1>3, <2>1, <2>2 DEF IInv, SharedOK
<1>5. UndisturbedOK'
  BY <1>1, <1>3 DEF UndisturbedOK, Undisturbed
<1> QED
  BY <1>2, <1>4, <1>5 DEF IInv

-----------------------------------------------------------------------------
(* The invariant *)

\* Nothing runs, nothing is resident.
LEMMA InitKeeps ==
  ASSUME HostInit
  PROVE  IInv
<1> DEFINE job == [status |-> "none", todo |-> <<>>, at |-> "start"]
<1>1. /\ scenario \in Scenarios
      /\ jobs = [id \in Jobs |-> job]
      /\ cancelled = {} /\ mutex = Nobody
      /\ available = Preinstalled /\ resident = {} /\ native = [k \in Kinds |-> "none"]
      /\ queue = {} /\ registered = {} /\ cancels = {}
      /\ ttsCancelled = FALSE /\ asrInput = Nobody /\ failures = 0
  BY DEF HostInit, InitWith
<1>2. job \in JobType
  <2>1. <<>> \in Seq(StageType)
    BY EmptySeq
  <2> QED
    BY <2>1 DEF JobType, Places, Statuses
<1>3. /\ jobs \in [Jobs -> JobType]
      /\ \A id \in Jobs : jobs[id].todo = <<>> /\ jobs[id].status = "none" /\ jobs[id].at = "start"
  BY <1>1, <1>2
<1>4. \A id \in Jobs : ~Running(id) /\ ~Within(id) /\ ~Generating(id) /\ ~InStage(id, "ensure", "loaded") /\ ~Claims(id)
  BY <1>3, EmptyPart DEF Running, Within, Generating, InStage, Claims
<1>5. JobsOK
  <2>1. \A id \in Jobs : JobOK(id)
    BY <1>3, <1>4, EmptyPart DEF JobOK, Running
  <2> QED
    BY <1>1, <1>3, <1>4, <2>1, Distinct DEF JobsOK
<1>6. SharedOK
  <2>1. Preinstalled \subseteq Kinds /\ 0 \in 0 .. MaxFailures
    BY <1>1, HostAssumption DEF Preinstalled, MaxFailures
  <2> QED
    BY <1>1, <2>1 DEF SharedOK
<1>7. MicrophoneOK
  BY <1>1, <1>3, <1>4, Distinct, EmptyPart DEF MicrophoneOK
<1>8. NativeOK
  BY <1>1, <1>4 DEF NativeOK, TtsIsAlone, Kinds
<1>9. DemandOK
  BY <1>1, <1>3, EmptyPart DEF DemandOK, OnDemandOnly
<1>10. UndisturbedOK
  BY <1>1, <1>3, <1>4, Distinct DEF UndisturbedOK, FlagsOf
<1> QED
  BY <1>5, <1>6, <1>7, <1>8, <1>9, <1>10 DEF IInv

\* What a coroutine does by itself.
LEMMA WorkKeeps ==
  ASSUME IInv, NEW id \in Jobs, Work(id), scenario' = scenario
  PROVE  IInv'
<1>1. CASE Cancelled(id) \/ CompleteRequest(id)
  BY <1>1, CancelledKeeps, CompleteKeeps
<1>2. CASE PrepareModel(id) \/ EndCapture(id) \/ EndPlay(id) \/ Acquire(id) \/ ReleaseMutex(id)
  BY <1>2, PassKeeps
<1>3. CASE Capture(id) \/ Play(id) \/ BeginLoad(id)
  BY <1>3, BeginKeeps
<1>4. CASE Require(id) \/ Ensure(id)
  BY <1>4, RequireKeeps, EnsureKeeps
<1>5. CASE NativeLoad(id) \/ LoadReturns(id) \/ SetFlags(id)
  BY <1>5, NativeLoadKeeps, LoadReturnsKeeps, SetFlagsKeeps
<1>6. CASE Enqueue(id) \/ Register(id) \/ StepCompletes(id)
  BY <1>6, EnqueueKeeps, RegisterKeeps, StepCompletesKeeps
<1>7. CASE Claim(id) \/ BeginWork(id) \/ FinishWork(id) \/ ReadRate(id)
  BY <1>7, ClaimKeeps, BeginWorkKeeps, FinishWorkKeeps, ReadRateKeeps
<1> QED
  BY <1>1, <1>2, <1>3, <1>4, <1>5, <1>6, <1>7 DEF Work

\* Every step keeps the invariant.
LEMMA StepKeeps ==
  ASSUME IInv, [HostNext /\ UNCHANGED scenario]_<<hostVars, scenario>>
  PROVE  IInv'
<1>1. CASE UNCHANGED <<hostVars, scenario>>
  <2>1. UNCHANGED <<jobs, mutex, scenario, cancelled, available, resident, native, queue, registered, cancels,
                    ttsCancelled, asrInput, failures>>
    BY <1>1 DEF hostVars, models, serving
  <2>2. JobsOK' /\ MicrophoneOK' /\ DemandOK' /\ NativeOK'
    BY <2>1, JobsSame DEF IInv
  <2>3. SharedOK'
    BY <2>1, SharedSame DEF IInv
  <2>4. UndisturbedOK'
    <3>1. Undisturbed' = Undisturbed /\ OneDictation' = OneDictation /\ FlagsOf(resident)' = FlagsOf(resident)
      BY <2>1 DEF Undisturbed, OnDemandOnly, OneDictation, Preinstalled, Method, FlagsOf
    <3>2. \A id : /\ InStage(id, "ensure", "loaded")' = InStage(id, "ensure", "loaded")
                  /\ Settling(id)' = Settling(id) /\ Within(id)' = Within(id) /\ Generating(id)' = Generating(id)
                  /\ native'[Kind(id)'] = native[Kind(id)]
      BY <2>1 DEF InStage, Running, Settling, Within, Generating, Kind, FlagsOf
    <3> QED
      BY <2>1, <3>1, <3>2 DEF IInv, UndisturbedOK
  <2> QED
    BY <2>2, <2>3, <2>4 DEF IInv
<1>2. CASE HostNext /\ UNCHANGED scenario
  <2>1. ASSUME NEW id \in Requests, Post(id) \/ Begin(id) \/ CancelRequest(id) \/ NativeCancel(id) PROVE IInv'
    BY <1>2, <2>1, PostKeeps, BeginRequestKeeps, CancelKeeps, NativeCancelKeeps
  <2>2. ASSUME NEW id \in Jobs, Work(id) \/ Fails(id) \/ NativeLoadFails(id) PROVE IInv'
    BY <1>2, <2>2, WorkKeeps, FailsKeeps, NativeLoadFailsKeeps
  <2>3. CASE PublishSnapshot
    BY <1>2, <2>3, PublishSnapshotKeeps
  <2> QED
    BY <1>2, <2>1, <2>2, <2>3 DEF HostNext
<1> QED
  BY <1>1, <1>2

-----------------------------------------------------------------------------
(* The sample rate *)

\* What is left of a reading that finds its model installed.
ReadingDos == <<"acquire", "ensure", "synthesize", "release", "rate", "play">>
OfReading(todo) ==
  /\ Len(todo) <= 6
  /\ \A i \in 1 .. Len(todo) :
       todo[i].do = ReadingDos[i + 6 - Len(todo)] /\ todo[i].kind = "tts"

\* From its synthesis on a reading has the synthesizer, from the end of the synthesis its rate.
ReadingOK(id) ==
  /\ jobs[id].status # "unrated"
  /\ Running(id) =>
       /\ id # Draft /\ OfReading(jobs[id].todo)
       /\ Len(jobs[id].todo) \in 1 .. 4 => "tts" \in resident
       /\ Len(jobs[id].todo) \in 2 .. 3 => sampleRate
  /\ Loading(id) => "tts" \notin resident
RateOK ==
  /\ sampleRate \in BOOLEAN
  /\ Undisturbed /\ ~EvictorsRan => \A id \in Jobs : ReadingOK(id)

\* Nobody disturbs, and only readings ran.
Alone == Undisturbed /\ ~EvictorsRan

\* Where a reading is tells how much of it is left.
LEMMA ReadingStage ==
  ASSUME JobsOK, NEW id \in Jobs, NEW do, NEW at, InStage(id, do, at), ReadingOK(id)
  PROVE  LET todo == jobs[id].todo
         IN  /\ id # Draft /\ Kind(id) = "tts"
             /\ Len(todo) \in 1 .. 6 /\ do = ReadingDos[7 - Len(todo)]
             /\ Tail(todo) \in Seq(StageType) /\ Len(Tail(todo)) = Len(todo) - 1 /\ OfReading(Tail(todo))
<1> DEFINE todo == jobs[id].todo
           rest == Tail(todo)
<1>1. /\ todo \in Seq(StageType) /\ todo # <<>> /\ Len(todo) \in Nat \ {0} /\ 1 \in 1 .. Len(todo)
      /\ todo[1].do = do /\ Kind(id) = todo[1].kind /\ Running(id)
  BY AtStage
<1>2. id # Draft /\ OfReading(todo)
  BY <1>1 DEF ReadingOK
<1>3. /\ rest \in Seq(StageType) /\ Len(rest) \in Nat /\ Len(rest) + 1 = Len(todo)
      /\ \A i \in 1 .. Len(rest) : rest[i] = todo[i + 1] /\ i + 1 \in 1 .. Len(todo)
  BY <1>1, RestOfStages
<1> HIDE DEF todo, rest
<1>4. Len(todo) \in 1 .. 6
  <2>1. Len(todo) <= 6
    BY <1>2 DEF OfReading
  <2>2. Len(todo) \in Nat /\ Len(todo) # 0
    BY <1>1
  <2>3. \A n \in Nat : n # 0 /\ n <= 6 => n \in 1 .. 6
    OBVIOUS
  <2> QED
    BY <2>1, <2>2, <2>3
<1>5. todo[1].do = ReadingDos[1 + 6 - Len(todo)] /\ todo[1].kind = "tts"
  BY <1>1, <1>2 DEF OfReading
<1>6. 1 + 6 - Len(todo) = 7 - Len(todo) /\ Len(rest) = Len(todo) - 1 /\ Len(rest) <= 6
  BY <1>3, <1>4
<1>7. OfReading(rest)
  <2> SUFFICES ASSUME NEW i \in 1 .. Len(rest)
               PROVE  rest[i].do = ReadingDos[i + 6 - Len(rest)] /\ rest[i].kind = "tts"
    BY <1>6 DEF OfReading
  <2>1. rest[i] = todo[i + 1] /\ i + 1 \in 1 .. Len(todo)
    BY <1>3
  <2>2. todo[i + 1].do = ReadingDos[(i + 1) + 6 - Len(todo)] /\ todo[i + 1].kind = "tts"
    BY <1>2, <2>1 DEF OfReading
  <2>3. (i + 1) + 6 - Len(todo) = i + 6 - Len(rest)
    BY <1>3, <1>4
  <2> QED
    BY <2>1, <2>2, <2>3
<1> QED
  BY <1>1, <1>2, <1>3, <1>4, <1>5, <1>6, <1>7 DEF todo, rest

\* The six stages, by what is left.
LEMMA ReadingSix ==
  ASSUME NEW n \in 1 .. 6, NEW do, do = ReadingDos[7 - n]
  PROVE  /\ do \in {"acquire", "ensure", "synthesize", "release", "rate", "play"}
         /\ do = "acquire" <=> n = 6
         /\ do = "ensure" <=> n = 5
         /\ do = "synthesize" <=> n = 4
         /\ do = "release" <=> n = 3
         /\ do = "rate" <=> n = 2
<1>1. n = 1 \/ n = 2 \/ n = 3 \/ n = 4 \/ n = 5 \/ n = 6
  OBVIOUS
<1>2. /\ ReadingDos[1] = "acquire" /\ ReadingDos[2] = "ensure" /\ ReadingDos[3] = "synthesize"
      /\ ReadingDos[4] = "release" /\ ReadingDos[5] = "rate" /\ ReadingDos[6] = "play"
  BY DEF ReadingDos
<1> QED
  BY <1>1, <1>2

\* With the models installed a reading has nothing to load.
LEMMA ReadingProgram ==
  ASSUME available = Kinds
  PROVE  OfReading(Program("tts.start")) /\ Len(Program("tts.start")) = 6
<1> DEFINE u == LoadIfMissing("tts")
           v == Use("tts", "synthesize")
           w == Playback
           a == Stage("acquire", "tts")
           b == Stage("ensure", "tts")
           c == Stage("synthesize", "tts")
           d == Stage("release", "tts")
<1>1. Program("tts.start") = u \o v \o w /\ u = <<>>
  BY DEF Program, LoadIfMissing, Kinds
<1>2. /\ v \in Seq(StageType) /\ Len(v) = 4
      /\ v[1] = a /\ v[2] = b /\ v[3] = c /\ v[4] = d
  <2>1. a \in StageType /\ b \in StageType /\ c \in StageType /\ d \in StageType
    BY StageTyped DEF Dos, Inside, Kinds
  <2>2. v = <<a, b, c, d>>
    BY DEF Use
  <2> HIDE DEF v, a, b, c, d
  <2> QED
    BY <2>1, <2>2, ShortSequences
<1>3. /\ a.do = "acquire" /\ b.do = "ensure" /\ c.do = "synthesize" /\ d.do = "release"
      /\ a.kind = "tts" /\ b.kind = "tts" /\ c.kind = "tts" /\ d.kind = "tts"
  BY DEF Stage
<1>4. /\ w \in Seq(StageType) /\ Len(w) = 2
      /\ w[1].do = "rate" /\ w[1].kind = "tts" /\ w[2].do = "play" /\ w[2].kind = "tts"
  BY PlaybackStages
<1> HIDE DEF u, v, w, a, b, c, d
<1>5. u \o v = v
  BY <1>1, <1>2, ConcatEmptySeq
<1> DEFINE all == v \o w
<1>6. /\ all \in Seq(StageType) /\ Len(all) = 6
      /\ \A i \in 1 .. 6 : all[i] = IF i <= 4 THEN v[i] ELSE w[i - 4]
  <2>1. /\ all \in Seq(StageType) /\ Len(all) = Len(v) + Len(w)
        /\ \A i \in 1 .. Len(v) + Len(w) : all[i] = IF i <= Len(v) THEN v[i] ELSE w[i - Len(v)]
    BY <1>2, <1>4, ConcatProperties
  <2> HIDE DEF all
  <2>2. Len(v) + Len(w) = 6
    BY <1>2, <1>4
  <2> QED
    BY <1>2, <2>1, <2>2
<1> HIDE DEF all
<1>7. OfReading(all)
  <2>1. ASSUME NEW i \in 1 .. 6 PROVE all[i].do = ReadingDos[i + 6 - 6] /\ all[i].kind = "tts"
    <3>1. i + 6 - 6 = i
      OBVIOUS
    <3>2. i = 1 \/ i = 2 \/ i = 3 \/ i = 4 \/ i = 5 \/ i = 6
      OBVIOUS
    <3>3. /\ all[1] = v[1] /\ all[2] = v[2] /\ all[3] = v[3] /\ all[4] = v[4]
          /\ all[5] = w[1] /\ all[6] = w[2]
      BY <1>6
    <3>4. /\ ReadingDos[1] = "acquire" /\ ReadingDos[2] = "ensure" /\ ReadingDos[3] = "synthesize"
          /\ ReadingDos[4] = "release" /\ ReadingDos[5] = "rate" /\ ReadingDos[6] = "play"
      BY DEF ReadingDos
    <3> QED
      BY <1>2, <1>3, <1>4, <3>1, <3>2, <3>3, <3>4
  <2> QED
    BY <1>6, <2>1 DEF OfReading
<1> QED
  BY <1>1, <1>5, <1>6, <1>7 DEF all

\* The other coroutines stay what they are.
LEMMA OthersRead ==
  ASSUME NEW id \in Jobs, \A other \in Jobs \ {id} : jobs'[other] = jobs[other],
         \A other \in Jobs : ReadingOK(other),
         "tts" \in resident => "tts" \in resident',
         sampleRate => sampleRate',
         "tts" \in resident' /\ "tts" \notin resident => \A other \in Jobs \ {id} : ~Loading(other),
         ReadingOK(id)'
  PROVE  \A other \in Jobs : ReadingOK(other)'
<1> SUFFICES ASSUME NEW other \in Jobs, other # id PROVE ReadingOK(other)'
  OBVIOUS
<1>1. jobs'[other] = jobs[other] /\ ReadingOK(other)
  OBVIOUS
<1>2. Running(other)' = Running(other) /\ Loading(other)' = Loading(other)
  BY <1>1 DEF Running, Loading, InStage
<1> QED
  BY <1>1, <1>2 DEF ReadingOK

\* A reading ends.
LEMMA ReadingEnds ==
  ASSUME JobsOK, NEW id \in Jobs, Running(id), NEW outcome \in Outcomes \ {"unrated"}, End(id, outcome),
         UNCHANGED <<scenario, resident, sampleRate>>, \A other \in Jobs : ReadingOK(other)
  PROVE  \A other \in Jobs : ReadingOK(other)'
<1>1. /\ \A other \in Jobs \ {id} : jobs'[other] = jobs[other]
      /\ jobs'[id].status \notin {"unrated", "running"} /\ jobs'[id].todo = <<>>
  <2>1. Changes(id) /\ jobs'[id].todo = <<>> /\ jobs'[id].status = IF id = Draft THEN "none" ELSE outcome
    BY EndJobs
  <2> QED
    BY <2>1 DEF Changes, Outcomes
<1>2. ReadingOK(id)'
  BY <1>1 DEF ReadingOK, Running, Loading, InStage
<1> QED
  BY <1>1, <1>2, OthersRead

\* A reading goes on within a stage, and loads only what is not resident.
LEMMA ReadingGoes ==
  ASSUME JobsOK, NEW id \in Jobs, Running(id), NEW at \in Places, Proceed(id, at), mutex' = mutex,
         UNCHANGED <<scenario, resident, sampleRate>>, \A other \in Jobs : ReadingOK(other),
         at = "loading" => "tts" \notin resident
  PROVE  \A other \in Jobs : ReadingOK(other)'
<1>1. /\ \A other \in Jobs \ {id} : jobs'[other] = jobs[other]
      /\ jobs'[id].status = "running" /\ jobs'[id].todo = jobs[id].todo /\ jobs'[id].at = at
  <2>1. Changes(id) /\ jobs'[id].status = "running" /\ jobs'[id].todo = jobs[id].todo /\ jobs'[id].at = at
    BY GotoJobs
  <2> QED
    BY <2>1 DEF Changes
<1>2. Loading(id)' => "tts" \notin resident'
  BY <1>1 DEF Loading, InStage
<1>3. ReadingOK(id)'
  BY <1>1, <1>2 DEF ReadingOK, Running
<1> QED
  BY <1>1, <1>3, OthersRead

\* A reading goes on with its next stage.
LEMMA ReadingGoesOn ==
  ASSUME JobsOK, NEW id \in Jobs, NEW do, NEW at, InStage(id, do, at), Next1(id),
         do = "acquire" => mutex = Nobody /\ mutex' = id,
         do = "release" => mutex' = Nobody,
         do \notin {"acquire", "release"} => mutex' = mutex,
         scenario' = scenario, \A other \in Jobs : ReadingOK(other),
         "tts" \in resident => "tts" \in resident',
         sampleRate => sampleRate',
         "tts" \in resident' /\ "tts" \notin resident => \A other \in Jobs \ {id} : ~Loading(other),
         do = "ensure" => "tts" \in resident', do = "synthesize" => sampleRate'
  PROVE  \A other \in Jobs : ReadingOK(other)'
<1> DEFINE todo == jobs[id].todo
           rest == Tail(todo)
<1>1. /\ \A other \in Jobs \ {id} : jobs'[other] = jobs[other]
      /\ jobs'[id].status = "running" /\ jobs'[id].todo = rest /\ jobs'[id].at = "start"
  <2>1. Changes(id) /\ jobs'[id].status = "running" /\ jobs'[id].todo = rest /\ jobs'[id].at = "start"
    BY NextJobs
  <2> QED
    BY <2>1 DEF Changes
<1>2. /\ id # Draft /\ Len(todo) \in 1 .. 6 /\ do = ReadingDos[7 - Len(todo)]
      /\ Len(rest) = Len(todo) - 1 /\ OfReading(rest)
  BY ReadingStage
<1>3. Running(id)
  BY DEF InStage
<1>4. /\ Len(todo) \in 1 .. 4 => "tts" \in resident
      /\ Len(todo) \in 2 .. 3 => sampleRate
  BY <1>3 DEF ReadingOK
<1> HIDE DEF todo, rest
<1>5. /\ do = "ensure" <=> Len(todo) = 5
      /\ do = "synthesize" <=> Len(todo) = 4
  BY <1>2, ReadingSix
<1>6. Len(rest) \in 1 .. 4 => "tts" \in resident'
  <2>1. Len(rest) \in 1 .. 4 => Len(todo) = 5 \/ Len(todo) \in 1 .. 4
    BY <1>2
  <2> QED
    BY <1>4, <1>5, <2>1
<1>7. Len(rest) \in 2 .. 3 => sampleRate'
  <2>1. Len(rest) \in 2 .. 3 => Len(todo) = 4 \/ Len(todo) \in 2 .. 3
    BY <1>2
  <2> QED
    BY <1>4, <1>5, <2>1
<1>8. ReadingOK(id)'
  <2>1. ~Loading(id)'
    BY <1>1 DEF Loading, InStage
  <2>2. jobs'[id].status # "unrated"
    BY <1>1
  <2> QED
    BY <1>1, <1>2, <1>6, <1>7, <2>1, <2>2 DEF ReadingOK, Running
<1> QED
  BY <1>1, <1>8, OthersRead

\* What a coroutine does by itself, when only readings run.
LEMMA WorkReads ==
  ASSUME IInv, Alone, NEW id \in Jobs, Work(id), scenario' = scenario,
         \A other \in Jobs : ReadingOK(other), sampleRate \in BOOLEAN
  PROVE  \A other \in Jobs : ReadingOK(other)'
<1>0. JobsOK /\ cancelled = {} /\ ReadingOK(id)
  BY DEF IInv, Alone, Undisturbed
<1>1. ASSUME NEW do, NEW at, InStage(id, do, at)
      PROVE  /\ do \in {"acquire", "ensure", "synthesize", "release", "rate", "play"}
             /\ Kind(id) = "tts" /\ Running(id)
             /\ do = "rate" => sampleRate
  <2>1. Len(jobs[id].todo) \in 1 .. 6 /\ do = ReadingDos[7 - Len(jobs[id].todo)] /\ Kind(id) = "tts" /\ Running(id)
    BY <1>0, <1>1, ReadingStage DEF InStage
  <2>2. /\ do \in {"acquire", "ensure", "synthesize", "release", "rate", "play"}
        /\ do = "rate" => Len(jobs[id].todo) = 2
    BY <2>1, ReadingSix
  <2>3. do = "rate" => sampleRate
    <3>1. 2 \in 2 .. 3
      OBVIOUS
    <3> QED
      BY <1>0, <2>1, <2>2, <3>1 DEF ReadingOK
  <2> QED
    BY <2>1, <2>2, <2>3
<1>2. CASE CompleteRequest(id)
  <2>1. Running(id) /\ End(id, "completed") /\ UNCHANGED <<resident, sampleRate>>
    BY <1>2 DEF CompleteRequest, models
  <2>2. "completed" \in Outcomes \ {"unrated"}
    BY DEF Outcomes
  <2> QED
    BY <1>0, <2>1, <2>2, ReadingEnds
<1>3. CASE Acquire(id) \/ ReleaseMutex(id) \/ EndPlay(id)
  <2>1. PICK do, at :
          /\ InStage(id, do, at) /\ Next1(id) /\ do # "ensure" /\ do # "synthesize"
          /\ do = "acquire" => mutex = Nobody /\ mutex' = id
          /\ do = "release" => mutex' = Nobody
          /\ do \notin {"acquire", "release"} => mutex' = mutex
    BY <1>3 DEF Acquire, ReleaseMutex, EndPlay
  <2>2. UNCHANGED <<resident, sampleRate>>
    BY <1>3 DEF Acquire, ReleaseMutex, EndPlay, models
  <2> QED
    BY <1>0, <2>1, <2>2, ReadingGoesOn
<1>4. CASE Ensure(id)
  <2>1. /\ InStage(id, "ensure", "start") /\ Next1(id) /\ Kind(id) \in resident
        /\ UNCHANGED <<mutex, resident, sampleRate>>
    BY <1>4 DEF Ensure, models
  <2>2. "tts" \in resident
    BY <1>1, <2>1
  <2>3. "ensure" \notin {"acquire", "release"} /\ "ensure" # "synthesize"
    OBVIOUS
  <2> QED
    BY <1>0, <2>1, <2>2, <2>3, ReadingGoesOn
<1>5. CASE ReadRate(id)
  <2>1. /\ InStage(id, "rate", "start") /\ UNCHANGED <<resident, sampleRate>>
        /\ sampleRate => Next1(id) /\ mutex' = mutex
    BY <1>5 DEF ReadRate, models
  <2>2. Next1(id) /\ mutex' = mutex
    BY <1>1, <2>1
  <2>3. "rate" \notin {"acquire", "release"} /\ "rate" # "synthesize" /\ "rate" # "ensure"
    OBVIOUS
  <2> QED
    BY <1>0, <2>1, <2>2, <2>3, ReadingGoesOn
<1>6. CASE BeginLoad(id)
  <2>1. /\ InStage(id, "load", "start") \/ (InStage(id, "ensure", "start") /\ Kind(id) \notin resident)
        /\ Proceed(id, "loading") /\ UNCHANGED <<mutex, resident, sampleRate>>
    BY <1>6 DEF BeginLoad, models
  <2>2. "tts" \notin resident /\ Running(id)
    BY <1>1, <2>1
  <2>3. "loading" \in Places
    BY DEF Places
  <2> QED
    BY <1>0, <2>1, <2>2, <2>3, ReadingGoes
<1>7. CASE Play(id)
  <2>1. Running(id) /\ Proceed(id, "playing") /\ UNCHANGED <<mutex, resident, sampleRate>>
    BY <1>7 DEF Play, models, InStage
  <2>2. "playing" \in Places /\ "playing" # "loading"
    BY DEF Places
  <2> QED
    BY <1>0, <2>1, <2>2, ReadingGoes
<1>8. CASE BeginWork(id)
  <2>1. /\ Running(id) /\ UNCHANGED <<resident, sampleRate>>
        /\ \/ Proceed(id, "working") /\ mutex' = mutex
           \/ End(id, "error")
    BY <1>8 DEF BeginWork, models, InStage
  <2>2. /\ "working" \in Places /\ "working" # "loading" /\ "error" \in Outcomes \ {"unrated"}
    BY DEF Places, Outcomes
  <2>3. CASE Proceed(id, "working") /\ mutex' = mutex
    BY <1>0, <2>1, <2>2, <2>3, ReadingGoes
  <2>4. CASE End(id, "error")
    BY <1>0, <2>1, <2>2, <2>4, ReadingEnds
  <2> QED
    BY <2>1, <2>3, <2>4
<1>9. CASE FinishWork(id)
  <2>1. InStage(id, "transcribe", "working") \/ InStage(id, "synthesize", "working")
    BY <1>9 DEF FinishWork
  <2>2. InStage(id, "synthesize", "working") /\ Kind(id) = "tts" /\ Running(id)
    BY <1>1, <2>1
  <2>3. resident' = resident
        /\ \/ End(id, "error") /\ sampleRate' = sampleRate
           \/ Next1(id) /\ mutex' = mutex /\ sampleRate' = (sampleRate \/ Kind(id) = "tts")
    BY <1>9 DEF FinishWork
  <2>4. CASE End(id, "error") /\ sampleRate' = sampleRate
    <3>1. "error" \in Outcomes \ {"unrated"}
      BY DEF Outcomes
    <3> QED
      BY <1>0, <2>2, <2>3, <2>4, <3>1, ReadingEnds
  <2>5. CASE Next1(id) /\ mutex' = mutex /\ sampleRate' = (sampleRate \/ Kind(id) = "tts")
    <3>1. sampleRate' = TRUE
      BY <2>2, <2>5
    <3>2. "synthesize" \notin {"acquire", "release"} /\ "synthesize" # "ensure"
      OBVIOUS
    <3> QED
      BY <1>0, <2>2, <2>3, <2>5, <3>1, <3>2, ReadingGoesOn
  <2> QED
    BY <2>3, <2>4, <2>5
<1>10. CASE NativeLoad(id)
  <2>1. /\ Loading(id) /\ Proceed(id, "loaded") /\ UNCHANGED <<mutex, resident>>
    BY <1>10 DEF NativeLoad
  <2>2. "tts" \notin resident /\ Running(id) /\ "loaded" \in Places
    BY <1>0, <2>1 DEF ReadingOK, Loading, InStage, Places
  <2>3. /\ \A other \in Jobs \ {id} : jobs'[other] = jobs[other]
        /\ jobs'[id].status = "running" /\ jobs'[id].todo = jobs[id].todo /\ jobs'[id].at = "loaded"
    BY <1>0, <2>1, <2>2, GotoJobs DEF Changes
  <2>4. ASSUME NEW other \in Jobs PROVE ReadingOK(other)'
    <3>1. /\ Running(other)' = Running(other) /\ jobs'[other].todo = jobs[other].todo
          /\ jobs'[other].status # "unrated" /\ (Loading(other)' => Loading(other))
      <4>1. CASE other = id
        BY <2>1, <2>2, <2>3, <4>1 DEF Running
      <4>2. CASE other # id
        BY <2>3, <4>2 DEF Running, Loading, InStage, ReadingOK
      <4> QED
        BY <4>1, <4>2
    <3>2. Running(other) => id # Draft /\ ~(Len(jobs[other].todo) \in 1 .. 4)
      BY <1>0, <2>2 DEF ReadingOK
    <3>3. Len(jobs[other].todo) \in 2 .. 3 => Len(jobs[other].todo) \in 1 .. 4
      OBVIOUS
    <3> QED
      BY <2>1, <2>2, <3>1, <3>2, <3>3 DEF ReadingOK
  <2> QED
    BY <2>4
<1>11. CASE SetFlags(id)
  <2>1. /\ InStage(id, "flag", "start") \/ InStage(id, "ensure", "loaded")
        /\ resident' = (resident \cup {Kind(id)}) \ Evicted(Kind(id)) /\ Next1(id)
        /\ UNCHANGED <<mutex, sampleRate>>
    BY <1>11 DEF SetFlags
  <2>2. InStage(id, "ensure", "loaded") /\ Kind(id) = "tts"
    BY <1>1, <2>1
  <2>3. "tts" \in resident'
    BY <2>1, <2>2 DEF Evicted
  <2>4. \A other \in Jobs \ {id} : ~Loading(other)
    <3>1. mutex = id
      BY <1>0, <2>2, AtStage DEF Inside
    <3> QED
      BY <1>0, <3>1 DEF JobsOK, Within, Loading, InStage, Inside
  <2>5. "ensure" \notin {"acquire", "release"} /\ "ensure" # "synthesize"
    OBVIOUS
  <2> QED
    BY <1>0, <2>1, <2>2, <2>3, <2>4, <2>5, ReadingGoesOn
<1>12. CASE Cancelled(id)
  BY <1>0, <1>12 DEF Cancelled, IsCancelled
<1>13. CASE \/ PrepareModel(id) \/ Require(id) \/ LoadReturns(id)
            \/ Enqueue(id) \/ Register(id) \/ StepCompletes(id)
            \/ Claim(id) \/ Capture(id) \/ EndCapture(id)
  <2>1. \E do \in {"prepare", "require", "load", "generate", "claim", "capture"} : \E at : InStage(id, do, at)
    BY <1>13 DEF PrepareModel, Require, LoadReturns, Enqueue, Register, StepCompletes, Claim, Capture, EndCapture
  <2> QED
    BY <1>1, <2>1
<1> QED
  BY <1>2, <1>3, <1>4, <1>5, <1>6, <1>7, <1>8, <1>9, <1>10, <1>11, <1>12, <1>13 DEF Work

\* Nothing a step does is forgotten: failures, cancellations, and who was dispatched.
LEMMA StaysAlone ==
  ASSUME JobsOK, scenario \in Scenarios, NEW id \in Jobs, scenario' = scenario,
         \A other \in Jobs \ {id} : jobs'[other] = jobs[other],
         id # Draft /\ Dispatched(id) => Dispatched(id)',
         Undisturbed' => Undisturbed, Alone'
  PROVE  Alone
<1>1. Method' = Method /\ DOMAIN Method \subseteq Requests
  BY HostAssumption DEF Method
<1>2. ASSUME NEW other \in DOMAIN Method, Method[other] # "tts.start", Dispatched(other) PROVE FALSE
  <2>1. other \in Jobs /\ other # Draft
    BY <1>1, <1>2, Distinct
  <2>2. Dispatched(other)'
    BY <1>2, <2>1 DEF Dispatched
  <2> QED
    BY <1>1, <1>2, <2>2 DEF Alone, EvictorsRan
<1> QED
  BY <1>2 DEF Alone, EvictorsRan

\* What a coroutine does by itself does not change its failures or cancellations.
LEMMA WorkStays ==
  ASSUME JobsOK, scenario \in Scenarios, NEW id \in Jobs, Work(id), scenario' = scenario, Alone'
  PROVE  Alone
<1>1. UNCHANGED <<cancelled, failures>> /\ Running(id)
  BY DEF Work, Cancelled, Suspends, CompleteRequest, PrepareModel, Require, Acquire, ReleaseMutex, Ensure,
         BeginLoad, NativeLoad, Loading, LoadReturns, SetFlags, Enqueue, Register, StepCompletes, Claim, Capture,
         EndCapture, BeginWork, FinishWork, ReadRate, Play, EndPlay, InStage
<1>2. \/ \E outcome \in Outcomes : End(id, outcome)
      \/ \E at : Proceed(id, at)
      \/ Next1(id)
      \/ LoadReturns(id)
  BY DEF Work, Cancelled, CompleteRequest, PrepareModel, Require, Acquire, ReleaseMutex, Ensure,
         BeginLoad, NativeLoad, SetFlags, Enqueue, Register, StepCompletes, Claim, Capture,
         EndCapture, BeginWork, FinishWork, ReadRate, Play, EndPlay, Outcomes
<1>3. jobs \in [Jobs -> JobType] /\ jobs[id] \in JobType
  BY DEF JobsOK
<1>4. /\ \A other \in Jobs \ {id} : jobs'[other] = jobs[other]
      /\ id # Draft => Dispatched(id)'
  <2>1. CASE \E outcome \in Outcomes : End(id, outcome)
    BY <1>3, <2>1 DEF End, Dispatched, Outcomes
  <2>2. CASE \E at : Proceed(id, at)
    BY <1>1, <1>3, <2>2 DEF Proceed, Dispatched, Running, JobType
  <2>3. CASE Next1(id)
    BY <1>1, <1>3, <2>3 DEF Next1, Dispatched, Running, JobType
  <2>4. CASE LoadReturns(id)
    BY <1>1, <1>3, <2>4 DEF LoadReturns, Dispatched, Running, JobType
  <2> QED
    BY <1>2, <2>1, <2>2, <2>3, <2>4
<1>5. Undisturbed' => Undisturbed
  BY <1>1 DEF Undisturbed, OnDemandOnly, Preinstalled, Method
<1> QED
  BY <1>4, <1>5, StaysAlone

\* A coroutine that was not dispatched yet.
LEMMA StartReads ==
  ASSUME NEW id \in Jobs, Alone, \A other \in Jobs : ReadingOK(other),
         \A other \in Jobs \ {id} : jobs'[other] = jobs[other], UNCHANGED <<resident, sampleRate>>,
         jobs'[id].status \notin {"running", "unrated"}
  PROVE  \A other \in Jobs : ReadingOK(other)'
<1>1. ReadingOK(id)'
  BY DEF ReadingOK, Running, Loading, InStage
<1> QED
  BY <1>1, OthersRead

\* The rate is there or not.
LEMMA RateTyped ==
  ASSUME sampleRate \in BOOLEAN, HostNext \/ UNCHANGED sampleRate
  PROVE  sampleRate' \in BOOLEAN
<1>1. ASSUME NEW id \in Jobs, Work(id) \/ Fails(id) \/ NativeLoadFails(id) PROVE sampleRate' \in BOOLEAN
  <2>1. CASE NativeLoad(id)
    BY <2>1 DEF NativeLoad
  <2>2. CASE NativeLoadFails(id)
    BY <2>2 DEF NativeLoadFails
  <2>3. CASE FinishWork(id)
    BY <2>3 DEF FinishWork
  <2>4. CASE ~NativeLoad(id) /\ ~NativeLoadFails(id) /\ ~FinishWork(id)
    <3>1. sampleRate' = sampleRate
      BY <1>1, <2>4 DEF Work, Fails, Cancelled, CompleteRequest, PrepareModel, Require, Acquire, ReleaseMutex,
             Ensure, BeginLoad, LoadReturns, SetFlags, Enqueue, Register, StepCompletes, Claim, Capture,
             EndCapture, BeginWork, ReadRate, Play, EndPlay, models
    <3> QED
      BY <3>1
  <2> QED
    BY <2>1, <2>2, <2>3, <2>4
<1>2. ASSUME NEW id \in Requests, Post(id) \/ Begin(id) \/ CancelRequest(id) \/ NativeCancel(id)
      PROVE  sampleRate' \in BOOLEAN
  BY <1>2 DEF Post, Begin, CancelRequest, NativeCancel, models
<1>3. CASE PublishSnapshot
  BY <1>3 DEF PublishSnapshot, models
<1>4. CASE UNCHANGED sampleRate
  BY <1>4
<1> QED
  BY <1>1, <1>2, <1>3, <1>4 DEF HostNext

\* The requests come one by one: a reading, or somebody that may evict its model.
LEMMA BeginReads ==
  ASSUME IInv, RateOK, NEW id \in Requests, Begin(id), scenario' = scenario, Alone'
  PROVE  \A other \in Jobs : ReadingOK(other)'
<1>1. /\ id \in Jobs /\ id # Draft /\ jobs[id].status = "posted"
      /\ UNCHANGED <<available, resident, sampleRate, cancelled, failures>>
  BY Distinct DEF Begin, models
<1>2. JobsOK /\ jobs \in [Jobs -> JobType] /\ id \in DOMAIN Method
  BY <1>1 DEF IInv, JobsOK, JobOK
<1>3. Undisturbed /\ scenario \in Scenarios /\ available = Kinds
  BY <1>1 DEF Alone, Undisturbed, OnDemandOnly, Preinstalled, Method, IInv, SharedOK, DemandOK
<1>4. ~IsCancelled(id)
  BY <1>3 DEF Undisturbed, IsCancelled
<1> DEFINE new == [status |-> "running", todo |-> Program(Method[id]), at |-> "start"]
<1>5. jobs' = [jobs EXCEPT ![id] = new]
  BY <1>4 DEF Begin
<1>6. /\ \A other \in Jobs \ {id} : jobs'[other] = jobs[other]
      /\ jobs'[id].status = "running" /\ jobs'[id].at = "start" /\ jobs'[id].todo = Program(Method[id])
  BY <1>1, <1>2, <1>5
<1>7. Alone
  <2>1. Dispatched(id)'
    BY <1>6 DEF Dispatched
  <2> QED
    BY <1>1, <1>2, <1>3, <1>6, <2>1, StaysAlone
<1>8. Method[id] = "tts.start"
  <2>1. Dispatched(id)' /\ Method' = Method
    BY <1>6 DEF Dispatched, Method
  <2> QED
    BY <1>2, <2>1 DEF Alone, EvictorsRan
<1>9. ReadingOK(id)'
  <2>1. OfReading(jobs'[id].todo) /\ Len(jobs'[id].todo) = 6
    BY <1>3, <1>6, <1>8, ReadingProgram
  <2>2. ~(Len(jobs'[id].todo) \in 1 .. 4) /\ ~(Len(jobs'[id].todo) \in 2 .. 3)
    BY <2>1
  <2>3. ~Loading(id)'
    BY <1>6 DEF Loading, InStage
  <2> QED
    BY <1>1, <1>6, <2>1, <2>2, <2>3 DEF ReadingOK, Running
<1>10. \A other \in Jobs : ReadingOK(other)
  BY <1>7 DEF RateOK, Alone
<1> QED
  BY <1>1, <1>6, <1>9, <1>10, OthersRead

\* Every step keeps the rates of the readings.
LEMMA RateKeeps ==
  ASSUME IInv, RateOK, [HostNext /\ UNCHANGED scenario]_<<hostVars, scenario>>
  PROVE  RateOK'
<1>1. sampleRate' \in BOOLEAN
  BY RateTyped DEF RateOK, hostVars, models
<1> SUFFICES ASSUME Alone' PROVE \A id \in Jobs : ReadingOK(id)'
  BY <1>1 DEF RateOK, Alone
<1>2. JobsOK /\ scenario \in Scenarios /\ (Alone => \A id \in Jobs : ReadingOK(id))
  BY DEF IInv, SharedOK, RateOK, Alone
<1>3. CASE UNCHANGED <<hostVars, scenario>>
  <2>1. UNCHANGED <<jobs, scenario, cancelled, failures, resident, sampleRate>>
    BY <1>3 DEF hostVars, models
  <2>2. Alone
    BY <2>1 DEF Alone, Undisturbed, OnDemandOnly, Preinstalled, Method, EvictorsRan, Dispatched
  <2>3. \A id \in Jobs : ReadingOK(id)' = ReadingOK(id)
    BY <2>1 DEF ReadingOK, Running, Loading, InStage
  <2> QED
    BY <1>2, <2>2, <2>3
<1>4. CASE HostNext /\ UNCHANGED scenario
  <2>0. scenario' = scenario
    BY <1>4
  <2>1. ASSUME NEW id \in Jobs, Work(id) PROVE \A other \in Jobs : ReadingOK(other)'
    <3>1. Alone
      BY <1>2, <2>0, <2>1, WorkStays
    <3> QED
      BY <1>2, <2>0, <2>1, <3>1, WorkReads DEF RateOK
  <2>2. ASSUME NEW id \in Jobs, Fails(id) \/ NativeLoadFails(id) PROVE FALSE
    <3>1. SharedOK /\ Failing
      BY <2>2 DEF IInv, Fails, NativeLoadFails
    <3> QED
      BY <3>1, FailureCounted DEF Alone
  <2>3. ASSUME NEW id \in Requests, Post(id) PROVE \A other \in Jobs : ReadingOK(other)'
    <3>1. /\ id \in Jobs /\ jobs[id].status = "none" /\ jobs' = [jobs EXCEPT ![id].status = "posted"]
          /\ UNCHANGED <<cancelled, failures, resident, sampleRate>>
      BY <2>3, Distinct DEF Post, models
    <3>2. jobs \in [Jobs -> JobType] /\ jobs[id] \in JobType
      BY <1>2, <3>1 DEF JobsOK
    <3>3. (\A other \in Jobs \ {id} : jobs'[other] = jobs[other]) /\ jobs'[id].status = "posted"
      BY <3>1, <3>2 DEF JobType
    <3>4. ~Dispatched(id)
      BY <3>1 DEF Dispatched
    <3>5. Undisturbed' => Undisturbed
      BY <2>0, <3>1 DEF Undisturbed, OnDemandOnly, Preinstalled, Method
    <3>6. Alone
      BY <1>2, <2>0, <3>1, <3>3, <3>4, <3>5, StaysAlone
    <3> QED
      BY <1>2, <3>1, <3>3, <3>6, StartReads
  <2>4. ASSUME NEW id \in Requests, Begin(id) PROVE \A other \in Jobs : ReadingOK(other)'
    BY <2>0, <2>4, BeginReads
  <2>5. ASSUME NEW id \in Requests, CancelRequest(id) PROVE FALSE
    <3>1. cancelled' # {}
      BY <2>5 DEF CancelRequest
    <3> QED
      BY <3>1 DEF Alone, Undisturbed
  <2>6. ASSUME NEW id \in Requests, NativeCancel(id) PROVE FALSE
    <3>1. id \in cancels /\ cancelled' = cancelled
      BY <2>6 DEF NativeCancel
    <3>2. cancelled # {}
      BY <3>1 DEF IInv, SharedOK
    <3> QED
      BY <3>1, <3>2 DEF Alone, Undisturbed
  <2>7. CASE PublishSnapshot
    <3>1. /\ jobs' = [jobs EXCEPT ![Draft] = [status |-> "running", todo |-> Use("asr", "transcribe"), at |-> "start"]]
          /\ UNCHANGED <<cancelled, failures>>
      BY <2>7 DEF PublishSnapshot
    <3>2. PICK id \in Requests : InStage(id, "capture", "recording")
      BY <2>7 DEF PublishSnapshot
    <3>3. \A other \in Jobs \ {Draft} : jobs'[other] = jobs[other]
      BY <1>2, <3>1 DEF JobsOK
    <3>4. Undisturbed' => Undisturbed
      BY <2>0, <3>1 DEF Undisturbed, OnDemandOnly, Preinstalled, Method
    <3>5. Alone
      BY <1>2, <2>0, <3>3, <3>4, Distinct, StaysAlone
    <3>6. id \in Jobs /\ ReadingOK(id)
      BY <1>2, <3>5, Distinct
    <3>7. Len(jobs[id].todo) \in 1 .. 6 /\ "capture" = ReadingDos[7 - Len(jobs[id].todo)]
      BY <1>2, <3>2, <3>6, ReadingStage
    <3>8. "capture" \in {"acquire", "ensure", "synthesize", "release", "rate", "play"}
      BY <3>7, ReadingSix
    <3> QED
      BY <3>8
  <2> QED
    BY <1>4, <2>1, <2>2, <2>3, <2>4, <2>5, <2>6, <2>7 DEF HostNext
<1> QED
  BY <1>3, <1>4

\* Nothing runs at first.
LEMMA InitRates ==
  ASSUME HostInit
  PROVE  RateOK
<1>1. /\ sampleRate = FALSE
      /\ \A id \in Jobs : jobs[id].status = "none"
  BY DEF HostInit, InitWith
<1>2. \A id \in Jobs : ReadingOK(id)
  BY <1>1 DEF ReadingOK, Running, Loading, InStage
<1> QED
  BY <1>1, <1>2 DEF RateOK


\* The invariant says what the properties say.
LEMMA InvariantIsSound ==
  ASSUME IInv, RateOK
  PROVE  HostIsSound /\ OthersSucceed
<1>1. HostTypeOK
  <2>1. \A id \in Jobs : jobs[id].status \in {"none", "posted", "running", "dropped"} \cup Outcomes
    BY DEF IInv, JobsOK, JobType, Statuses
  <2>2. queue \subseteq Requests /\ Cardinality(queue) <= 1
    <3>1. CASE queue = {}
      BY <3>1, FS_EmptySet
    <3>2. CASE \E id \in Requests : queue = {id}
      <4>1. PICK id \in Requests : queue = {id}
        BY <3>2
      <4>2. Cardinality({id}) = 1
        BY FS_Singleton
      <4> QED
        BY <4>1, <4>2
    <3> QED
      BY <3>1, <3>2 DEF IInv, SharedOK
  <2>3. mutex \in Jobs \cup {Nobody} /\ asrInput \in Requests \cup {Nobody}
    BY DEF IInv, JobsOK, MicrophoneOK
  <2> QED
    BY <2>1, <2>2, <2>3 DEF HostTypeOK, IInv, SharedOK, RateOK
<1>2. OwnersRun
  <2>1. ASSUME mutex # Nobody PROVE Running(mutex)
    <3>1. mutex \in Jobs /\ Within(mutex)
      BY <2>1 DEF IInv, JobsOK
    <3> QED
      BY <3>1 DEF IInv, JobsOK, JobOK, Within
  <2>2. asrInput # Nobody => Running(asrInput)
    BY DEF IInv, MicrophoneOK
  <2> QED
    BY <2>1, <2>2 DEF OwnersRun
<1>3. ResidentIsLoaded
  <2> SUFFICES ASSUME Undisturbed, mutex = Nobody PROVE \A k \in resident : native[k] = "ready"
    BY DEF ResidentIsLoaded
  <2>1. \A id \in Jobs : ~InStage(id, "ensure", "loaded")
    BY Distinct DEF IInv, JobsOK, Within, InStage, Inside
  <2> QED
    BY <2>1 DEF IInv, UndisturbedOK, FlagsOf
<1>4. OthersSucceed
  BY Distinct DEF OthersSucceed, IInv, UndisturbedOK, RateOK, ReadingOK
<1> QED
  BY <1>1, <1>2, <1>3, <1>4 DEF HostIsSound, FlagsAreSound, IInv, NativeOK

\* The inductive invariant: inferenceMutex is held by the one coroutine that is
\* between its acquire and its release, what is used is ready while nobody
\* disturbs, and a reading keeps the rate of its synthesis while only readings ran.
THEOREM HostInvariant == HostSpec => [](IInv /\ RateOK)
<1>1. HostInit => IInv /\ RateOK
  BY InitKeeps, InitRates
<1>2. IInv /\ RateOK /\ [HostNext /\ UNCHANGED scenario]_<<hostVars, scenario>> => IInv' /\ RateOK'
  BY StepKeeps, RateKeeps
<1> QED
  BY <1>1, <1>2, PTL DEF HostSpec

\* For any requests, scenarios, failures and cancellations: types, a mutex and a
\* microphone that only running coroutines hold, flags that tell the truth
\* while nobody disturbs, and a synthesizer that is alone in native memory.
THEOREM HostSound == HostSpec => []HostIsSound
<1>1. HostSpec => [](IInv /\ RateOK)
  BY HostInvariant
<1>2. IInv /\ RateOK => HostIsSound
  BY InvariantIsSound
<1> QED
  BY <1>1, <1>2, PTL

\* However the coroutines of any number of requests interleave: without injected
\* failures and cancellations none makes another one fail, except that a reading
\* may lose its sample rate, which readings alone never do to each other.
THEOREM UndisturbedSucceed == HostSpec => []OthersSucceed
<1>1. HostSpec => [](IInv /\ RateOK)
  BY HostInvariant
<1>2. IInv /\ RateOK => OthersSucceed
  BY InvariantIsSound
<1> QED
  BY <1>1, <1>2, PTL
=============================================================================
