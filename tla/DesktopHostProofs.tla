------------------------- MODULE DesktopHostProofs -------------------------
(***************************************************************************)
(* Proofs about the desktop application: its gates, what a thread that     *)
(* uses a model relies on, and that final transcripts are complete, for    *)
(* any sessions, requests, recordings, images and failures.                *)
(***************************************************************************)
EXTENDS DesktopHost, TLAPS

Places ==
  {"none", "session", "backend", "prepare", "loading", "open", "listen", "use", "using", "clear", "join",
   "close", "unwind", "leaving", "left", "done"}
ThreadType ==
  [pc : Places, kind : Kinds \cup {None}, snapshot : Nat, final : BOOLEAN, outcome : Outcomes \cup {None}]
AudioType ==
  [owner : Requests \cup {None}, samples : Nat, processed : Nat, final : BOOLEAN, error : BOOLEAN]

UploadType == [state : {"none", "open", "stored", "removed"}, frames : 0 .. UploadFrames]

ThreadTypes == thread \in [Threads -> ThreadType]
GateTypes == active \subseteq Kinds /\ busy \subseteq Sessions /\ scenario \in Scenarios
ModelTypes ==
  /\ holder \in [Kinds -> Threads \cup {None}] /\ loaded \subseteq Speech /\ lastUse \in [Speech -> 0 .. MaxTime]
  /\ clock \in 1 .. MaxTime /\ reaper.kind \in Speech
MediaTypes ==
  /\ audio \in [Sessions -> AudioType] /\ \A s \in Sessions : audio[s].samples <= MaxSamples
  /\ upload \in [Uploads -> UploadType]
  /\ sent \in [Requests -> Nat]
Types == ThreadTypes /\ GateTypes /\ ModelTypes /\ MediaTypes

\* Where a thread can be says for which model it works.
KindsOK ==
  /\ \A r \in Requests :
       /\ thread[r].pc \notin {"none", "done"} => Kind(r) = ModelOf(r)
       /\ At(r, "clear") => Method[r] = "chat" /\ thread[r].outcome \in {"result", "cancelled", "error"}
       /\ thread[r].pc \in {"prepare", "loading"} => Method[r] \in Speech
       /\ thread[r].pc \in {"open", "listen", "join", "close", "unwind"} => Method[r] = "asr"
  /\ \A t \in Threads \ Requests :
       /\ thread[t].pc \in {"none", "use", "using", "done"}
       /\ ~At(t, "none") => Kind(t) \in Speech

\* The gate of a session is kept from before that of the kind until after it.
Occupies(r) == Inside(r) \/ thread[r].pc \in {"backend", "left"}
GatesOK ==
  /\ GatesFollowRequests
  /\ \A q, r \in Requests : q # r /\ Occupies(q) /\ Occupies(r) => Session(q) # Session(r)

\* The helper of a recording starts when the recording is admitted.
HelpersOK ==
  \A r \in DOMAIN HelperOf :
    thread[r].pc \in {"none", "session", "backend"} => At(HelperOf[r], "none")

LocksOK ==
  \A t \in Threads :
    /\ thread[t].pc \in {"loading", "using"} => holder[Kind(t)] = t
    /\ At(t, "using") /\ Kind(t) \in Speech => Kind(t) \in loaded

\* A recording that is open has counted every frame unless it failed, and is final when it was stopped;
\* a snapshot that is final has all of them.
RecordingsOK ==
  \A r \in Requests : Method[r] = "asr" =>
    /\ thread[r].pc \in {"none", "session", "backend", "prepare", "loading", "open"} =>
         sent[r] = 0 /\ r \notin stopped
    /\ thread[r].pc \in {"listen", "use", "using"} =>
         /\ Recording(r)
         /\ ~audio[Session(r)].error => audio[Session(r)].samples = sent[r]
         /\ audio[Session(r)].final => r \in stopped
    /\ thread[r].final => r \in stopped /\ thread[r].snapshot = sent[r]
    /\ thread[r].outcome = "result" => thread[r].final

ImagesOK ==
  \A r \in Requests : thread[r].pc \in {"session", "backend", "use", "using"} =>
    OtherChatEnded(r) \/ \A u \in Images(r) : upload[u].state = "stored"

IInv == Types /\ KindsOK /\ GatesOK /\ HelpersOK /\ LocksOK /\ RecordingsOK /\ ImagesOK

-----------------------------------------------------------------------------
(* The steps *)

LEMMA ModelIs ==
  /\ \A r \in Requests : ModelOf(r) \in Kinds /\ SessionOf[r] \in Sessions /\ r \in Threads
  /\ \A r \in Requests : Method[r] \in Speech => ModelOf(r) = Method[r]
  /\ \A r \in Requests : ModelOf(r) = "asr" <=> Method[r] = "asr"
  /\ \A r \in DOMAIN HelperOf : r \in Requests /\ HelperOf[r] \in Threads \ Requests
BY DesktopAssumption DEF ModelOf, Kinds, Speech, Threads, MaxTime, MaxSamples

LEMMA AudioChanges ==
  ASSUME NEW a \in AudioType
  PROVE  /\ \A b \in BOOLEAN : [a EXCEPT !.error = b] \in AudioType /\ [a EXCEPT !.final = b] \in AudioType
         /\ \A n \in Nat : [a EXCEPT !.processed = n] \in AudioType /\ [a EXCEPT !.samples = n] \in AudioType
<1>1. \A b \in BOOLEAN : [a EXCEPT !.error = b] \in AudioType
  BY DEF AudioType
<1>2. \A b \in BOOLEAN : [a EXCEPT !.final = b] \in AudioType
  BY DEF AudioType
<1>3. \A n \in Nat : [a EXCEPT !.processed = n] \in AudioType
  BY DEF AudioType
<1>4. \A n \in Nat : [a EXCEPT !.samples = n] \in AudioType
  BY DEF AudioType
<1> QED
  BY <1>1, <1>2, <1>3, <1>4

LEMMA AudioMarked ==
  ASSUME NEW a \in AudioType
  PROVE  /\ [a EXCEPT !.error = TRUE] \in AudioType /\ [a EXCEPT !.final = TRUE] \in AudioType
         /\ [a EXCEPT !.samples = @ + 1] \in AudioType
<1>1. [a EXCEPT !.error = TRUE] \in AudioType /\ [a EXCEPT !.final = TRUE] \in AudioType
  BY AudioChanges
<1>2. a.samples + 1 \in Nat /\ [a EXCEPT !.samples = @ + 1] = [a EXCEPT !.samples = a.samples + 1]
  BY DEF AudioType
<1>3. [a EXCEPT !.samples = @ + 1] \in AudioType
  BY <1>2, AudioChanges
<1> QED
  BY <1>1, <1>3
LEMMA AudioStarts == NoAudio \in AudioType /\ \A r \in Requests : [NoAudio EXCEPT !.owner = r] \in AudioType
BY DEF AudioType, NoAudio

LEMMA ThreadChanges ==
  ASSUME NEW f \in ThreadType
  PROVE  /\ \A pc \in Places : [f EXCEPT !.pc = pc] \in ThreadType
         /\ \A pc \in Places, o \in Outcomes : [f EXCEPT !.pc = pc, !.outcome = o] \in ThreadType
         /\ \A pc \in Places, k \in Kinds : [Idle EXCEPT !.pc = pc, !.kind = k] \in ThreadType
         /\ \A pc \in Places, k \in Kinds \cup {None}, o \in Outcomes \cup {None} :
              [f EXCEPT !.pc = pc, !.kind = k, !.outcome = o] \in ThreadType
         /\ \A pc \in Places, n \in Nat, b \in BOOLEAN : [f EXCEPT !.pc = pc, !.snapshot = n, !.final = b] \in ThreadType
<1>1. \A pc \in Places : [f EXCEPT !.pc = pc] \in ThreadType
  BY DEF ThreadType
<1>2. \A pc \in Places, o \in Outcomes : [f EXCEPT !.pc = pc, !.outcome = o] \in ThreadType
  BY DEF ThreadType
<1>3. \A pc \in Places, k \in Kinds : [Idle EXCEPT !.pc = pc, !.kind = k] \in ThreadType
  BY DEF ThreadType, Idle
<1>4. \A pc \in Places, k \in Kinds \cup {None}, o \in Outcomes \cup {None} :
        [f EXCEPT !.pc = pc, !.kind = k, !.outcome = o] \in ThreadType
  BY DEF ThreadType
<1>5. \A pc \in Places, n \in Nat, b \in BOOLEAN : [f EXCEPT !.pc = pc, !.snapshot = n, !.final = b] \in ThreadType
  BY DEF ThreadType
<1> QED
  BY <1>1, <1>2, <1>3, <1>4, <1>5, Zenon
LEMMA UploadChanges ==
  ASSUME NEW a \in UploadType
  PROVE  \A s \in {"none", "open", "stored", "removed"} : [a EXCEPT !.state = s] \in UploadType
BY DEF UploadType

LEMMA AudioChanged ==
  ASSUME Types, NEW s \in Sessions, NEW a \in AudioType, a.samples <= MaxSamples, audio' = [audio EXCEPT ![s] = a]
  PROVE  audio' \in [Sessions -> AudioType] /\ \A v \in Sessions : audio'[v].samples <= MaxSamples
<1>1. audio' \in [Sessions -> AudioType] /\ audio'[s] = a /\ \A v \in Sessions \ {s} : audio'[v] = audio[v]
  BY DEF Types, MediaTypes
<1>2. \A v \in Sessions : audio'[v].samples <= MaxSamples
  BY <1>1 DEF Types, MediaTypes
<1> QED
  BY <1>1, <1>2

LEMMA AudioIs ==
  ASSUME Types, NEW s \in Sessions, NEW a \in AudioType, a.samples <= MaxSamples, UNCHANGED <<scenario, upload, sent>>,
         audio' = [audio EXCEPT ![s] = a]
  PROVE  MediaTypes'
BY AudioChanged DEF Types, MediaTypes, MaxSamples

LEMMA ThreadIs ==
  ASSUME Types, NEW t \in Threads, NEW f \in ThreadType, thread' = [thread EXCEPT ![t] = f]
  PROVE  ThreadTypes' /\ thread'[t] = f /\ \A u \in Threads \ {t} : thread'[u] = thread[u]
BY DEF Types, ThreadTypes

LEMMA GatesKeep ==
  ASSUME GatesOK, UNCHANGED <<active, busy>>,
         \A r \in Requests : /\ Inside(r)' <=> Inside(r)
                             /\ Inside(r) => Kind(r)' = Kind(r)
                             /\ (thread[r].pc \in {"backend", "left"})' <=> thread[r].pc \in {"backend", "left"}
  PROVE  GatesOK'
<1>1. \A r \in Requests : Occupies(r)' <=> Occupies(r)
  BY DEF Occupies
<1>2. {r \in Requests : Inside(r)}' = {r \in Requests : Inside(r)}
  OBVIOUS
<1>3. {Kind(r) : r \in {q \in Requests : Inside(q)}}' = {Kind(r) : r \in {q \in Requests : Inside(q)}}
  BY <1>2
<1>4. {r \in Requests : Inside(r) \/ thread[r].pc \in {"backend", "left"}}'
        = {r \in Requests : Inside(r) \/ thread[r].pc \in {"backend", "left"}}
  OBVIOUS
<1>5. {Session(r) : r \in {q \in Requests : Inside(q) \/ thread[q].pc \in {"backend", "left"}}}'
        = {Session(r) : r \in {q \in Requests : Inside(q) \/ thread[q].pc \in {"backend", "left"}}}
  BY <1>4 DEF Session
<1> QED
  BY <1>1, <1>3, <1>5 DEF GatesOK, GatesFollowRequests, Session

Ended(q) == Removed(q) /\ thread[q].outcome \notin {"busy", "invalid"}

LEMMA ImagesKeep ==
  ASSUME ImagesOK, UNCHANGED <<upload, scenario>>,
         \A r \in Requests : Method[r] = "chat" =>
           /\ Ended(r) => Ended(r)'
           /\ thread'[r].pc \in {"session", "backend", "use", "using"}
                => thread[r].pc \in {"session", "backend", "use", "using"}
  PROVE  ImagesOK'
<1>1. \A r \in Requests : OtherChatEnded(r) => OtherChatEnded(r)'
  BY DEF OtherChatEnded, Ended, Session
<1>2. \A r \in Requests : Images(r)' = Images(r) /\ (Method[r] # "chat" => Images(r) = {})
  BY DEF Images
<1> QED
  BY <1>1, <1>2 DEF ImagesOK

\* A request that enters the gate of its session.
LEMMA EnterKeeps ==
  ASSUME GatesOK, NEW r \in Requests, Session(r) \notin busy, busy' = busy \cup {Session(r)}, UNCHANGED active,
         \A q \in Requests : (Inside(q)' <=> Inside(q)) /\ (Inside(q) => Kind(q)' = Kind(q)),
         \A q \in Requests : Occupies(q)' <=> (Occupies(q) \/ q = r)
  PROVE  GatesOK'
<1>1. busy = {Session(q) : q \in {p \in Requests : Occupies(p)}}
  BY DEF GatesOK, GatesFollowRequests, Occupies
<1>2. {p \in Requests : Occupies(p)}' = {p \in Requests : Occupies(p)} \cup {r}
  OBVIOUS
<1>3. busy' = {Session(q) : q \in {p \in Requests : Occupies(p)}}'
  BY <1>1, <1>2 DEF Session
<1>4. \A q \in Requests : Occupies(q) => Session(q) # Session(r)
  BY <1>1
<1>5. {Kind(q) : q \in {p \in Requests : Inside(p)}}' = {Kind(q) : q \in {p \in Requests : Inside(p)}}
  OBVIOUS
<1>6. (busy = {Session(q) : q \in {p \in Requests : Inside(p) \/ thread[p].pc \in {"backend", "left"}}})'
  BY <1>3 DEF Occupies
<1>7. (\A p, q \in Requests : p # q /\ Occupies(p) /\ Occupies(q) => Session(p) # Session(q))'
  BY <1>4 DEF GatesOK, Session
<1>8. (\A p, q \in Requests : p # q /\ Inside(p) /\ Inside(q) => Kind(p) # Kind(q) /\ Session(p) # Session(q))'
  BY DEF GatesOK, GatesFollowRequests, Session
<1> QED
  BY <1>5, <1>6, <1>7, <1>8 DEF GatesOK, GatesFollowRequests


LEMMA EndGives ==
  ASSUME Types, NEW t \in Threads, NEW pc \in Places, NEW o \in Outcomes, End(t, pc, o)
  PROVE  \E f \in ThreadType :
           /\ thread' = [thread EXCEPT ![t] = f] /\ f.pc = pc /\ f.outcome = o
           /\ f.kind = thread[t].kind /\ f.final = thread[t].final /\ f.snapshot = thread[t].snapshot
<1> DEFINE f == [thread[t] EXCEPT !.pc = pc, !.outcome = o]
<1>1. thread[t] \in ThreadType
  BY DEF Types, ThreadTypes
<1>2. f \in ThreadType
  BY <1>1, ThreadChanges
<1>3. thread' = [thread EXCEPT ![t] = f]
  BY <1>1 DEF Types, ThreadTypes, ThreadType, End
<1>4. /\ f.pc = pc /\ f.outcome = o
      /\ f.kind = thread[t].kind /\ f.final = thread[t].final /\ f.snapshot = thread[t].snapshot
  BY DEF Types, ThreadTypes, ThreadType
<1> HIDE DEF f
<1> QED
  BY <1>2, <1>3, <1>4

\* A request that enters the gate of its kind.
LEMMA AdmitKeeps ==
  ASSUME GatesOK, NEW r \in Requests, Kind(r) \notin active, active' = active \cup {Kind(r)}, UNCHANGED busy, Occupies(r),
         \A q \in Requests : (Inside(q)' <=> Inside(q) \/ q = r) /\ Kind(q)' = Kind(q) /\ (Occupies(q)' <=> Occupies(q))
  PROVE  GatesOK'
<1>1. active = {Kind(q) : q \in {p \in Requests : Inside(p)}}
  BY DEF GatesOK, GatesFollowRequests
<1>2. {p \in Requests : Inside(p)}' = {p \in Requests : Inside(p)} \cup {r}
  OBVIOUS
<1>3. active' = {Kind(q) : q \in {p \in Requests : Inside(p)}}'
  BY <1>1, <1>2
<1>4. {p \in Requests : Occupies(p)}' = {p \in Requests : Occupies(p)}
  OBVIOUS
<1>5. {Session(q) : q \in {p \in Requests : Occupies(p)}}' = {Session(q) : q \in {p \in Requests : Occupies(p)}}
  BY <1>4 DEF Session
<1>6. (busy = {Session(q) : q \in {p \in Requests : Inside(p) \/ thread[p].pc \in {"backend", "left"}}})'
  BY <1>5 DEF GatesOK, GatesFollowRequests, Occupies
<1>7. (\A p, q \in Requests : p # q /\ Occupies(p) /\ Occupies(q) => Session(p) # Session(q))'
  BY DEF GatesOK, Session
<1>8. \A q \in Requests : Inside(q) => Kind(q) # Kind(r)
  BY <1>1
<1>9. (\A p, q \in Requests : p # q /\ Inside(p) /\ Inside(q) => Kind(p) # Kind(q))'
  BY <1>8 DEF GatesOK, GatesFollowRequests
<1>10. (\A p, q \in Requests : p # q /\ Inside(p) /\ Inside(q) => Session(p) # Session(q))'
  BY <1>7 DEF Occupies
<1> QED
  BY <1>3, <1>6, <1>7, <1>9, <1>10 DEF GatesOK, GatesFollowRequests

\* A request that is refused by the gate of its kind returns that of its session.
LEMMA RefuseKeeps ==
  ASSUME GatesOK, NEW r \in Requests, busy' = busy \ {Session(r)}, UNCHANGED active, Occupies(r),
         \A q \in Requests : (Inside(q)' <=> Inside(q)) /\ (Inside(q) => Kind(q)' = Kind(q)),
         \A q \in Requests : Occupies(q)' <=> Occupies(q) /\ q # r
  PROVE  GatesOK'
<1>1. busy = {Session(q) : q \in {p \in Requests : Occupies(p)}}
  BY DEF GatesOK, GatesFollowRequests, Occupies
<1>2. {p \in Requests : Occupies(p)}' = {p \in Requests : Occupies(p)} \ {r}
  OBVIOUS
<1>3. \A q \in Requests \ {r} : Occupies(q) => Session(q) # Session(r)
  BY DEF GatesOK
<1>4. busy' = {Session(q) : q \in {p \in Requests : Occupies(p)}}'
  BY <1>1, <1>2, <1>3 DEF Session
<1>5. {Kind(q) : q \in {p \in Requests : Inside(p)}}' = {Kind(q) : q \in {p \in Requests : Inside(p)}}
  OBVIOUS
<1>6. (busy = {Session(q) : q \in {p \in Requests : Inside(p) \/ thread[p].pc \in {"backend", "left"}}})'
  BY <1>4 DEF Occupies
<1>7. (\A p, q \in Requests : p # q /\ Occupies(p) /\ Occupies(q) => Session(p) # Session(q))'
  BY DEF GatesOK, Session
<1>8. (\A p, q \in Requests : p # q /\ Inside(p) /\ Inside(q) => Kind(p) # Kind(q) /\ Session(p) # Session(q))'
  BY DEF GatesOK, GatesFollowRequests, Session
<1> QED
  BY <1>5, <1>6, <1>7, <1>8 DEF GatesOK, GatesFollowRequests

LEMMA GotoTypes ==
  ASSUME Types, NEW t \in Threads, NEW pc \in Places, Goto(t, pc)
  PROVE  ThreadTypes'
<1>1. [thread[t] EXCEPT !.pc = pc] \in ThreadType
  BY ThreadChanges DEF Types, ThreadTypes
<1>2. thread' = [thread EXCEPT ![t] = [thread[t] EXCEPT !.pc = pc]]
  BY DEF Goto
<1> QED
  BY <1>1, <1>2, ThreadIs

LEMMA ReceiveKeeps == ASSUME IInv, NEW r \in Requests, Receive(r), UNCHANGED scenario PROVE IInv'
<1> USE DesktopAssumption, ModelIs DEF IInv, Types, Receive, At, Kind, Session, Recording, Images, media, models
<1>a. PICK f \in ThreadType :
        /\ thread' = [thread EXCEPT ![r] = f]
        /\ \/ f.pc = "session" /\ f.kind = ModelOf(r) /\ f.outcome = None /\ f.final = FALSE
              /\ \A u \in Images(r) : upload[u].state = "stored"
           \/ f.pc = "done" /\ f.outcome = "invalid" /\ f.final = thread[r].final /\ f.snapshot = thread[r].snapshot
  <2>1. CASE \A u \in Images(r) : upload[u].state = "stored"
    <3> DEFINE f == [Idle EXCEPT !.pc = "session", !.kind = ModelOf(r)]
    <3>1. f \in ThreadType
      BY ThreadChanges DEF ThreadTypes, Places
    <3>2. f.pc = "session" /\ f.kind = ModelOf(r) /\ f.outcome = None /\ f.final = FALSE /\ thread' = [thread EXCEPT ![r] = f]
      BY <2>1 DEF Idle
    <3> QED
      BY <2>1, <3>1, <3>2
  <2>2. CASE ~\A u \in Images(r) : upload[u].state = "stored"
    <3>1. Types /\ r \in Threads /\ End(r, "done", "invalid") /\ "done" \in Places /\ "invalid" \in Outcomes
      BY <2>2 DEF Places, Outcomes
    <3> QED
      BY <3>1, EndGives
  <2> QED
    BY <2>1, <2>2
<1>b. ThreadTypes' /\ thread'[r] = f /\ \A q \in Threads \ {r} : thread'[q] = thread[q]
  BY <1>a, ThreadIs
<1>c. At(r, "none") /\ UNCHANGED <<active, busy, holder, loaded, lastUse, reaper, audio, sent, stopped, upload, clock, scenario>>
  OBVIOUS
<1> HIDE DEF Receive
<1>1. ThreadTypes'
  BY <1>b
<1>2. GateTypes'
  BY <1>c DEF GateTypes, MaxTime, MaxSamples
<1>3. ModelTypes'
  BY <1>c DEF ModelTypes, MaxTime, MaxSamples
<1>4. MediaTypes'
  BY <1>c DEF MediaTypes, MaxTime, MaxSamples
<1>5. KindsOK'
  BY <1>a, <1>b, <1>c DEF KindsOK
<1>6. GatesOK'
  <2>1. \A q \in Requests : /\ Inside(q)' <=> Inside(q)
                            /\ Inside(q) => Kind(q)' = Kind(q)
                            /\ (thread[q].pc \in {"backend", "left"})' <=> thread[q].pc \in {"backend", "left"}
    BY <1>a, <1>b, <1>c DEF Inside
  <2> QED
    BY <1>c, <2>1, GatesKeep
<1>7. HelpersOK'
  BY <1>a, <1>b, <1>c DEF HelpersOK
<1>8. LocksOK'
  BY <1>a, <1>b, <1>c DEF LocksOK
<1>9. RecordingsOK'
  BY <1>a, <1>b, <1>c DEF RecordingsOK, Outcomes
<1>10. ImagesOK'
  <2>1. \A q \in Requests : (Ended(q) => Ended(q)') /\ Images(q)' = Images(q)
    BY <1>b, <1>c DEF Ended, Removed
  <2>2. \A q \in Requests : OtherChatEnded(q) => OtherChatEnded(q)'
    BY <2>1 DEF OtherChatEnded, Ended
  <2>3. ASSUME NEW q \in Requests, thread'[q].pc \in {"session", "backend", "use", "using"}
        PROVE  OtherChatEnded(q)' \/ \A u \in Images(q)' : upload'[u].state = "stored"
    <3>1. CASE q = r
      BY <1>a, <1>b, <1>c, <2>1, <2>3, <3>1
    <3>2. CASE q # r
      BY <1>b, <1>c, <2>1, <2>2, <2>3, <3>2 DEF ImagesOK
    <3> QED
      BY <3>1, <3>2
  <2> QED
    BY <2>3 DEF ImagesOK
<1> QED
  BY <1>1, <1>2, <1>3, <1>4, <1>5, <1>6, <1>7, <1>8, <1>9, <1>10

LEMMA EnterSessionKeeps == ASSUME IInv, NEW r \in Requests, EnterSession(r), UNCHANGED scenario PROVE IInv'
<1> USE DesktopAssumption, ModelIs DEF IInv, Types, EnterSession, Goto, At, Kind, Session, Recording, Images,
  media, models
<1>a. PICK f \in ThreadType :
        /\ thread' = [thread EXCEPT ![r] = f]
        /\ f.kind = Kind(r) /\ f.final = thread[r].final /\ f.snapshot = thread[r].snapshot
        /\ \/ f.pc = "done" /\ f.outcome = "busy" /\ busy' = busy
           \/ f.pc = "backend" /\ f.outcome = thread[r].outcome /\ Session(r) \notin busy /\ busy' = busy \cup {Session(r)}
  <2>1. CASE Session(r) \in busy
    <3>1. Types /\ r \in Threads /\ End(r, "done", "busy") /\ busy' = busy /\ "done" \in Places /\ "busy" \in Outcomes
      BY <2>1 DEF Places, Outcomes
    <3> QED
      BY <3>1, EndGives
  <2>2. CASE Session(r) \notin busy
    <3> DEFINE f == [thread[r] EXCEPT !.pc = "backend"]
    <3>1. f \in ThreadType
      BY ThreadChanges DEF ThreadTypes, Places
    <3>2. f.pc = "backend" /\ f.outcome = thread[r].outcome /\ f.kind = Kind(r) /\ f.final = thread[r].final
          /\ f.snapshot = thread[r].snapshot /\ thread' = [thread EXCEPT ![r] = f] /\ busy' = busy \cup {Session(r)}
      BY <2>2 DEF ThreadTypes, ThreadType
    <3> QED
      BY <2>2, <3>1, <3>2
  <2> QED
    BY <2>1, <2>2
<1>b. ThreadTypes' /\ thread'[r] = f /\ \A q \in Threads \ {r} : thread'[q] = thread[q]
  BY <1>a, ThreadIs
<1>c. At(r, "session") /\ UNCHANGED <<active, holder, loaded, lastUse, reaper, audio, sent, stopped, upload, clock, scenario>>
  OBVIOUS
<1> HIDE DEF EnterSession
<1>1. ThreadTypes'
  BY <1>b
<1>2. GateTypes'
  BY <1>a, <1>c DEF GateTypes
<1>3. ModelTypes'
  BY <1>c DEF ModelTypes, MaxTime, MaxSamples
<1>4. MediaTypes'
  BY <1>c DEF MediaTypes, MaxTime, MaxSamples
<1>5. KindsOK'
  BY <1>a, <1>b, <1>c DEF KindsOK
<1>6. GatesOK'
  <2>1. CASE f.pc = "done"
    <3>1. \A q \in Requests : /\ Inside(q)' <=> Inside(q)
                              /\ Inside(q) => Kind(q)' = Kind(q)
                              /\ (thread[q].pc \in {"backend", "left"})' <=> thread[q].pc \in {"backend", "left"}
      BY <1>b, <1>c, <2>1 DEF Inside
    <3>2. busy' = busy
      BY <1>a, <2>1
    <3> QED
      BY <1>c, <3>1, <3>2, GatesKeep
  <2>2. CASE f.pc = "backend"
    <3>1. /\ \A q \in Requests : (Inside(q)' <=> Inside(q)) /\ (Inside(q) => Kind(q)' = Kind(q))
          /\ \A q \in Requests : Occupies(q)' <=> (Occupies(q) \/ q = r)
      BY <1>b, <1>c, <2>2 DEF Inside, Occupies
    <3> QED
      BY <1>c, <3>1, EnterKeeps, <1>a, <2>2
  <2> QED
    BY <1>a, <2>1, <2>2
<1>7. HelpersOK'
  BY <1>a, <1>b, <1>c DEF HelpersOK
<1>8. LocksOK'
  BY <1>a, <1>b, <1>c DEF LocksOK
<1>9. RecordingsOK'
  BY <1>a, <1>b, <1>c DEF RecordingsOK, Outcomes
<1>10. ImagesOK'
  <2>1. \A q \in Requests : Method[q] = "chat" =>
           /\ Ended(q) => Ended(q)'
           /\ thread'[q].pc \in {"session", "backend", "use", "using"}
                => thread[q].pc \in {"session", "backend", "use", "using"}
    BY <1>a, <1>b, <1>c DEF Ended, Removed
  <2> QED
    BY <1>c, <2>1, ImagesKeep
<1> QED
  BY <1>1, <1>2, <1>3, <1>4, <1>5, <1>6, <1>7, <1>8, <1>9, <1>10

LEMMA RefuseStepKeeps == ASSUME IInv, NEW r \in Requests, At(r, "backend"), RefuseKind(r),
  UNCHANGED <<models, media, cancelled, closed, clock, faults>>, UNCHANGED scenario PROVE IInv'
<1> USE DesktopAssumption, ModelIs DEF IInv, Types, RefuseKind, Refused, At, Kind, Session, Recording,
  Images, media, models
<1>a. PICK f \in ThreadType :
        /\ thread' = [thread EXCEPT ![r] = f]
        /\ f.kind = Kind(r) /\ f.final = thread[r].final /\ f.snapshot = thread[r].snapshot
        /\ f.pc = "done" /\ f.outcome = "busy"
  <2>1. Types /\ r \in Threads /\ End(r, "done", "busy") /\ "done" \in Places /\ "busy" \in Outcomes
    BY DEF Places, Outcomes
  <2> QED
    BY <2>1, EndGives
<1>b. ThreadTypes' /\ thread'[r] = f /\ \A q \in Threads \ {r} : thread'[q] = thread[q]
  BY <1>a, ThreadIs
<1>c. /\ At(r, "backend") /\ busy' = busy \ {Session(r)}
      /\ UNCHANGED <<active, holder, loaded, lastUse, reaper, audio, sent, stopped, upload, clock, scenario>>
  OBVIOUS
<1> HIDE DEF RefuseKind
<1>1. ThreadTypes'
  BY <1>b
<1>2. GateTypes'
  BY <1>c DEF GateTypes, MaxTime, MaxSamples
<1>3. ModelTypes'
  BY <1>c DEF ModelTypes, MaxTime, MaxSamples
<1>4. MediaTypes'
  BY <1>c DEF MediaTypes, MaxTime, MaxSamples
<1>5. KindsOK'
  BY <1>a, <1>b, <1>c DEF KindsOK
<1>6. GatesOK'
  <2>1. /\ \A q \in Requests : (Inside(q)' <=> Inside(q)) /\ (Inside(q) => Kind(q)' = Kind(q))
        /\ \A q \in Requests : Occupies(q)' <=> Occupies(q) /\ q # r
        /\ Occupies(r)
    BY <1>a, <1>b, <1>c DEF Inside, Occupies
  <2> QED
    BY <1>c, <2>1, RefuseKeeps
<1>7. HelpersOK'
  BY <1>a, <1>b, <1>c DEF HelpersOK
<1>8. LocksOK'
  BY <1>a, <1>b, <1>c DEF LocksOK
<1>9. RecordingsOK'
  BY <1>a, <1>b, <1>c DEF RecordingsOK, Outcomes
<1>10. ImagesOK'
  <2>1. \A q \in Requests : Method[q] = "chat" =>
           /\ Ended(q) => Ended(q)'
           /\ thread'[q].pc \in {"session", "backend", "use", "using"}
                => thread[q].pc \in {"session", "backend", "use", "using"}
    BY <1>a, <1>b, <1>c DEF Ended, Removed
  <2> QED
    BY <1>c, <2>1, ImagesKeep
<1> QED
  BY <1>1, <1>2, <1>3, <1>4, <1>5, <1>6, <1>7, <1>8, <1>9, <1>10

LEMMA AdmitStepKeeps == ASSUME IInv, NEW r \in Requests, At(r, "backend"), AdmitKind(r), UNCHANGED <<models,
  media, cancelled, closed, clock, faults>>, UNCHANGED scenario PROVE IInv'
<1> USE DesktopAssumption, ModelIs DEF IInv, Types, AdmitKind, FirstStep, At, Kind, Session, Recording,
  Images, media, models
<1>a. /\ thread'[r] = [thread[r] EXCEPT !.pc = FirstStep(r)]
      /\ \A q \in Requests \ {r} : thread'[q] = thread[q]
      /\ r \in DOMAIN HelperOf => thread'[HelperOf[r]] = [Idle EXCEPT !.pc = "use", !.kind = "tts"]
      /\ \A t \in Threads : t = r \/ (r \in DOMAIN HelperOf /\ t = HelperOf[r]) \/ thread'[t] = thread[t]
  OBVIOUS
<1>b. /\ thread'[r] \in ThreadType /\ thread'[r].pc = FirstStep(r) /\ Kind(r)' = Kind(r)
      /\ thread'[r].final = thread[r].final /\ thread'[r].snapshot = thread[r].snapshot
      /\ thread'[r].outcome = thread[r].outcome
  <2>1. thread[r] \in ThreadType /\ FirstStep(r) \in Places
    BY DEF ThreadTypes, Places
  <2> HIDE DEF FirstStep
  <2>2. thread'[r] \in ThreadType
    BY <1>a, <2>1, ThreadChanges
  <2> QED
    BY <1>a, <2>1, <2>2 DEF ThreadType
<1>c. /\ At(r, "backend") /\ active' = active \cup {Kind(r)} /\ Kind(r) \notin active
      /\ UNCHANGED <<busy, holder, loaded, lastUse, reaper, audio, sent, stopped, upload, clock, scenario>>
  OBVIOUS
<1>d. FirstStep(r) \in {"use", "prepare"} /\ Kind(r) = ModelOf(r)
      /\ (FirstStep(r) = "prepare" <=> Method[r] \in Speech)
  BY <1>c DEF KindsOK, ModelOf, Speech
<1>e. thread'\in [Threads -> ThreadType]
  <2>1. "use" \in Places /\ "tts" \in Kinds
    BY DEF Places, Kinds
  <2>2. [Idle EXCEPT !.pc = "use", !.kind = "tts"] \in ThreadType
    BY <2>1, <1>b, ThreadChanges
  <2>3. \A t \in Threads : thread'[t] \in ThreadType
    BY <1>a, <1>b, <2>2 DEF ThreadTypes
  <2> QED
    BY <2>3
<1>f. r \in DOMAIN HelperOf => thread'[HelperOf[r]].pc = "use" /\ thread'[HelperOf[r]].kind = "tts"
  BY <1>a DEF Idle
<1>g. /\ \A q \in Requests \ {r} : thread'[q] = thread[q]
      /\ \A t \in Threads \ Requests : (r \in DOMAIN HelperOf /\ t = HelperOf[r]) \/ thread'[t] = thread[t]
  BY <1>a
<1> HIDE DEF AdmitKind, FirstStep
<1>1. ThreadTypes'
  BY <1>e DEF ThreadTypes
<1>2. GateTypes'
  BY <1>c, <1>d DEF GateTypes
<1>3. ModelTypes'
  BY <1>c DEF ModelTypes, MaxTime, MaxSamples
<1>4. MediaTypes'
  BY <1>c DEF MediaTypes, MaxTime, MaxSamples
<1>5. KindsOK'
  <2>1. ASSUME NEW q \in Requests
        PROVE  /\ thread'[q].pc \notin {"none", "done"} => Kind(q)' = ModelOf(q)
               /\ At(q, "clear")' => Method[q] = "chat" /\ thread'[q].outcome \in {"result", "cancelled", "error"}
               /\ thread'[q].pc \in {"prepare", "loading"} => Method[q] \in Speech
               /\ thread'[q].pc \in {"open", "listen", "join", "close", "unwind"} => Method[q] = "asr"
    BY <1>g, <1>b, <1>c, <1>d DEF KindsOK
  <2>2. ASSUME NEW t \in Threads \ Requests
        PROVE  /\ thread'[t].pc \in {"none", "use", "using", "done"}
               /\ ~At(t, "none")' => Kind(t)' \in Speech
    <3>1. CASE thread'[t] = thread[t]
      BY <3>1 DEF KindsOK
    <3>2. CASE r \in DOMAIN HelperOf /\ t = HelperOf[r]
      BY <1>f, <3>2 DEF Speech
    <3> QED
      BY <1>g, <3>1, <3>2
  <2> QED
    BY <2>1, <2>2 DEF KindsOK
<1>6. GatesOK'
  <2>1. /\ Occupies(r)
        /\ \A q \in Requests : (Inside(q)' <=> Inside(q) \/ q = r) /\ Kind(q)' = Kind(q) /\ (Occupies(q)' <=> Occupies(q))
    BY <1>g, <1>b, <1>c, <1>d DEF Inside, Occupies
  <2> QED
    BY <1>c, <2>1, AdmitKeeps
<1>7. HelpersOK'
  <2>1. ASSUME NEW q \in DOMAIN HelperOf, thread'[q].pc \in {"none", "session", "backend"}
        PROVE  thread'[HelperOf[q]].pc = "none"
    <3>1. q # r /\ thread'[q] = thread[q]
      BY <1>b, <1>d, <1>g, <2>1
    <3>2. HelperOf[q] \in Threads \ Requests /\ ~(r \in DOMAIN HelperOf /\ HelperOf[q] = HelperOf[r])
      BY <3>1
    <3>3. thread'[HelperOf[q]] = thread[HelperOf[q]]
      BY <1>g, <3>2
    <3> QED
      BY <2>1, <3>1, <3>3 DEF HelpersOK
  <2> QED
    BY <2>1 DEF HelpersOK
<1>8. LocksOK'
  <2>1. ASSUME NEW t \in Threads
        PROVE  thread'[t] = thread[t] \/ thread'[t].pc \in {"use", "prepare"}
    BY <1>b, <1>d, <1>f, <1>g
  <2> QED
    BY <1>c, <2>1 DEF LocksOK
<1>9. RecordingsOK'
  BY <1>g, <1>b, <1>c, <1>d DEF RecordingsOK, Outcomes, Speech
<1>10. ImagesOK'
  <2>1. \A q \in Requests : Method[q] = "chat" =>
           /\ Ended(q) => Ended(q)'
           /\ thread'[q].pc \in {"session", "backend", "use", "using"}
                => thread[q].pc \in {"session", "backend", "use", "using"}
    BY <1>a, <1>b, <1>c DEF Ended, Removed
  <2> QED
    BY <1>c, <2>1, ImagesKeep
<1> QED
  BY <1>1, <1>2, <1>3, <1>4, <1>5, <1>6, <1>7, <1>8, <1>9, <1>10

LEMMA LeaveBackendKeeps == ASSUME IInv, NEW r \in Requests, LeaveBackend(r), UNCHANGED scenario PROVE IInv'
<1> USE DesktopAssumption, ModelIs DEF IInv, Types, LeaveBackend, Leaving, Goto, At, Kind, Session,
  Recording, Images, media, models
<1>1. ThreadTypes'
  <2>1. Types /\ r \in Threads /\ Goto(r, "left") /\ "left" \in Places
    BY DEF Places
  <2> HIDE DEF LeaveBackend, Goto
  <2> QED
    BY <2>1, GotoTypes
<1>2. GateTypes'
  BY DEF ThreadTypes, GateTypes, KindsOK, ThreadType
<1>3. ModelTypes'
  BY DEF ThreadTypes, ModelTypes, KindsOK, MaxTime, Kinds, Speech, ThreadType, Threads
<1>4. MediaTypes'
  BY DEF MediaTypes, ThreadTypes, ThreadType, AudioType, UploadType, MaxSamples
<1>5. KindsOK'
  BY DEF ThreadTypes, KindsOK, ThreadType, Places
<1>6. GatesOK'
  BY DEF ThreadTypes, KindsOK, GatesOK, GatesFollowRequests, Occupies, Inside, ThreadType
<1>7. HelpersOK'
  BY DEF ThreadTypes, HelpersOK, ThreadType
<1>8. LocksOK'
  BY DEF ThreadTypes, ModelTypes, KindsOK, HelpersOK, LocksOK, ThreadType
<1>9. RecordingsOK'
  BY DEF ThreadTypes, MediaTypes, KindsOK, GatesOK, Occupies, Inside, RecordingsOK, ThreadType, AudioType
<1>10. ImagesOK'
  BY DEF ThreadTypes, MediaTypes, KindsOK, GatesOK, Occupies, Inside, ImagesOK, OtherChatEnded, Removed, ThreadType
<1> QED
  BY <1>1, <1>2, <1>3, <1>4, <1>5, <1>6, <1>7, <1>8, <1>9, <1>10

LEMMA LeaveSessionKeeps == ASSUME IInv, NEW r \in Requests, LeaveSession(r), UNCHANGED scenario PROVE IInv'
<1> USE DesktopAssumption, ModelIs DEF IInv, Types, LeaveSession, Goto, At, Kind, Session, Recording, Images,
  media, models
<1>1. ThreadTypes'
  <2>1. Types /\ r \in Threads /\ Goto(r, "done") /\ "done" \in Places
    BY DEF Places
  <2> HIDE DEF LeaveSession, Goto
  <2> QED
    BY <2>1, GotoTypes
<1>2. GateTypes'
  BY DEF ThreadTypes, GateTypes, KindsOK, ThreadType
<1>3. ModelTypes'
  BY DEF ThreadTypes, ModelTypes, KindsOK, MaxTime, Kinds, Speech, ThreadType, Threads
<1>4. MediaTypes'
  BY DEF MediaTypes, ThreadTypes, ThreadType, AudioType, UploadType, MaxSamples
<1>5. KindsOK'
  BY DEF ThreadTypes, KindsOK, ThreadType, Places
<1>6. GatesOK'
  BY DEF ThreadTypes, KindsOK, GatesOK, GatesFollowRequests, Occupies, Inside, ThreadType
<1>7. HelpersOK'
  BY DEF ThreadTypes, HelpersOK, ThreadType
<1>8. LocksOK'
  BY DEF ThreadTypes, ModelTypes, KindsOK, HelpersOK, LocksOK, ThreadType
<1>9. RecordingsOK'
  BY DEF ThreadTypes, MediaTypes, KindsOK, GatesOK, Occupies, Inside, RecordingsOK, ThreadType, AudioType
<1>10. ImagesOK'
  BY DEF ThreadTypes, MediaTypes, KindsOK, GatesOK, Occupies, Inside, ImagesOK, OtherChatEnded, Removed, ThreadType
<1> QED
  BY <1>1, <1>2, <1>3, <1>4, <1>5, <1>6, <1>7, <1>8, <1>9, <1>10

LEMMA PrepareKeeps == ASSUME IInv, NEW t \in Threads, Prepare(t), UNCHANGED scenario PROVE IInv'
<1> USE DesktopAssumption, ModelIs DEF IInv, Types, Prepare, Locks, Touch, Goto, At, Kind, Session,
  Recording, Images, media, models
<1>1. ThreadTypes'
  <2>1. Types /\ t \in Threads /\ Goto(t, "loading") /\ "loading" \in Places
    BY DEF Places
  <2> HIDE DEF Prepare, Goto
  <2> QED
    BY <2>1, GotoTypes
<1>2. GateTypes'
  BY DEF ThreadTypes, GateTypes, KindsOK, ThreadType
<1>3. ModelTypes'
  BY DEF ThreadTypes, ModelTypes, KindsOK, MaxTime, Kinds, Speech, ThreadType, Threads
<1>4. MediaTypes'
  BY DEF MediaTypes, ThreadTypes, ThreadType, AudioType, UploadType, MaxSamples
<1>5. KindsOK'
  BY DEF ThreadTypes, KindsOK, ThreadType, Places
<1>6. GatesOK'
  BY DEF ThreadTypes, KindsOK, GatesOK, GatesFollowRequests, Occupies, Inside, ThreadType
<1>7. HelpersOK'
  BY DEF ThreadTypes, HelpersOK, ThreadType
<1>8. LocksOK'
  BY DEF ThreadTypes, ModelTypes, KindsOK, HelpersOK, LocksOK, ThreadType
<1>9. RecordingsOK'
  BY DEF ThreadTypes, MediaTypes, KindsOK, GatesOK, Occupies, Inside, RecordingsOK, ThreadType, AudioType
<1>10. ImagesOK'
  <2>1. \A q \in Requests : Method[q] = "chat" =>
           /\ Ended(q) => Ended(q)'
           /\ thread'[q].pc \in {"session", "backend", "use", "using"}
                => thread[q].pc \in {"session", "backend", "use", "using"}
    BY DEF ThreadTypes, ThreadType, KindsOK, Ended, Removed
  <2> QED
    BY <2>1, ImagesKeep
<1> QED
  BY <1>1, <1>2, <1>3, <1>4, <1>5, <1>6, <1>7, <1>8, <1>9, <1>10

LEMMA PreparedKeeps == ASSUME IInv, NEW t \in Threads, Prepared(t), UNCHANGED scenario PROVE IInv'
<1> USE DesktopAssumption, ModelIs DEF IInv, Types, Prepared, Goto, At, Kind, Session, Recording, Images,
  media, models
<1>1. ThreadTypes'
  BY DEF ThreadTypes, ThreadType, Places, Idle, Outcomes
<1>2. GateTypes'
  BY DEF ThreadTypes, GateTypes, KindsOK, ThreadType
<1>3. ModelTypes'
  BY DEF ThreadTypes, ModelTypes, KindsOK, MaxTime, Kinds, Speech, ThreadType, Threads
<1>4. MediaTypes'
  BY DEF MediaTypes, ThreadTypes, ThreadType, AudioType, UploadType, MaxSamples
<1>5. KindsOK'
  BY DEF ThreadTypes, KindsOK, ThreadType, Places
<1>6. GatesOK'
  BY DEF ThreadTypes, KindsOK, GatesOK, GatesFollowRequests, Occupies, Inside, ThreadType
<1>7. HelpersOK'
  BY DEF ThreadTypes, HelpersOK, ThreadType
<1>8. LocksOK'
  BY DEF ThreadTypes, ModelTypes, KindsOK, HelpersOK, LocksOK, ThreadType
<1>9. RecordingsOK'
  BY DEF ThreadTypes, MediaTypes, KindsOK, GatesOK, Occupies, Inside, RecordingsOK, ThreadType, AudioType
<1>10. ImagesOK'
  <2>1. \A q \in Requests : Method[q] = "chat" => q # t
    BY DEF KindsOK, Speech
  <2>2. \A q \in Requests : Method[q] = "chat" => thread'[q] = thread[q]
    BY <2>1 DEF ThreadTypes
  <2>3. \A q \in Requests : Method[q] = "chat" =>
           /\ Ended(q) => Ended(q)'
           /\ thread'[q].pc \in {"session", "backend", "use", "using"}
                => thread[q].pc \in {"session", "backend", "use", "using"}
    BY <2>2 DEF Ended, Removed
  <2> QED
    BY <2>3, ImagesKeep
<1> QED
  BY <1>1, <1>2, <1>3, <1>4, <1>5, <1>6, <1>7, <1>8, <1>9, <1>10

LEMMA PrepareFailsKeeps == ASSUME IInv, NEW t \in Threads, PrepareFails(t), UNCHANGED scenario PROVE IInv'
<1> USE DesktopAssumption, ModelIs DEF IInv, Types, PrepareFails, End, At, Kind, Session, Recording, Images,
  media, models
<1>1. ThreadTypes'
  <2>1. Types /\ End(t, IF Kind(t) = "asr" THEN "unwind" ELSE "leaving", "error")
    OBVIOUS
  <2>2. (IF Kind(t) = "asr" THEN "unwind" ELSE "leaving") \in Places /\ "error" \in Outcomes
    BY DEF Places, Outcomes
  <2> HIDE DEF PrepareFails, End
  <2>3. \E f \in ThreadType : thread' = [thread EXCEPT ![t] = f]
    BY <2>1, <2>2, EndGives
  <2> QED
    BY <2>3, ThreadIs
<1>2. GateTypes'
  BY DEF ThreadTypes, GateTypes, KindsOK, ThreadType
<1>3. ModelTypes'
  BY DEF ThreadTypes, ModelTypes, KindsOK, MaxTime, Kinds, Speech, ThreadType, Threads
<1>4. MediaTypes'
  BY DEF MediaTypes, ThreadTypes, ThreadType, AudioType, UploadType, MaxSamples
<1>5. KindsOK'
  BY DEF ThreadTypes, KindsOK, ThreadType, Places
<1>6. GatesOK'
  <2>1. \A q \in Requests : /\ Inside(q)' <=> Inside(q)
                            /\ Inside(q) => Kind(q)' = Kind(q)
                            /\ (thread[q].pc \in {"backend", "left"})' <=> thread[q].pc \in {"backend", "left"}
    BY DEF ThreadTypes, ThreadType, KindsOK, Inside
  <2> QED
    BY <2>1, GatesKeep
<1>7. HelpersOK'
  BY DEF ThreadTypes, HelpersOK, ThreadType
<1>8. LocksOK'
  BY DEF ThreadTypes, ModelTypes, KindsOK, HelpersOK, LocksOK, ThreadType
<1>9. RecordingsOK'
  BY DEF ThreadTypes, MediaTypes, KindsOK, GatesOK, Occupies, Inside, RecordingsOK, ThreadType, AudioType
<1>10. ImagesOK'
  <2>1. \A q \in Requests : Method[q] = "chat" =>
           /\ Ended(q) => Ended(q)'
           /\ thread'[q].pc \in {"session", "backend", "use", "using"}
                => thread[q].pc \in {"session", "backend", "use", "using"}
    BY DEF ThreadTypes, ThreadType, KindsOK, Ended, Removed
  <2> QED
    BY <2>1, ImagesKeep
<1> QED
  BY <1>1, <1>2, <1>3, <1>4, <1>5, <1>6, <1>7, <1>8, <1>9, <1>10

LEMMA BeginUseKeeps == ASSUME IInv, NEW t \in Threads, BeginUse(t), UNCHANGED scenario PROVE IInv'
<1> USE DesktopAssumption, ModelIs DEF IInv, Types, BeginUse, Locks, Touch, Goto, At, Kind, Session,
  Recording, Images, media, models
<1>1. ThreadTypes'
  <2>1. Types /\ t \in Threads /\ Goto(t, "using") /\ "using" \in Places
    BY DEF Places
  <2> HIDE DEF BeginUse, Goto
  <2> QED
    BY <2>1, GotoTypes
<1>2. GateTypes'
  BY DEF ThreadTypes, GateTypes, KindsOK, ThreadType
<1>3. ModelTypes'
  BY DEF ThreadTypes, ModelTypes, KindsOK, MaxTime, Kinds, Speech, ThreadType, Threads
<1>4. MediaTypes'
  BY DEF MediaTypes, ThreadTypes, ThreadType, AudioType, UploadType, MaxSamples
<1>5. KindsOK'
  BY DEF ThreadTypes, KindsOK, ThreadType, Places
<1>6. GatesOK'
  BY DEF ThreadTypes, KindsOK, GatesOK, GatesFollowRequests, Occupies, Inside, ThreadType
<1>7. HelpersOK'
  BY DEF ThreadTypes, HelpersOK, ThreadType
<1>8. LocksOK'
  <2>1. Kind(t) \in Kinds /\ holder' = [holder EXCEPT ![Kind(t)] = t] /\ thread'[t].kind = Kind(t)
    BY DEF ThreadTypes, ThreadType, KindsOK, Speech, Kinds
  <2>2. \A u \in Threads : u # t /\ thread[u].pc \in {"loading", "using"} => Kind(u) # Kind(t)
    BY DEF LocksOK, Threads
  <2>3. \A u \in Threads \ {t} : thread'[u] = thread[u]
    BY DEF ThreadTypes
  <2>4. holder'[Kind(t)] = t
    BY <2>1 DEF ModelTypes
  <2>5. ASSUME NEW u \in Threads \ {t}, thread[u].pc \in {"loading", "using"} PROVE holder'[Kind(u)] = u
    BY <2>1, <2>2, <2>5 DEF ModelTypes, LocksOK
  <2> QED
    BY <2>1, <2>3, <2>4, <2>5 DEF LocksOK
<1>9. RecordingsOK'
  BY DEF ThreadTypes, MediaTypes, KindsOK, GatesOK, Occupies, Inside, RecordingsOK, ThreadType, AudioType
<1>10. ImagesOK'
  <2>1. \A q \in Requests : Method[q] = "chat" =>
           /\ Ended(q) => Ended(q)'
           /\ thread'[q].pc \in {"session", "backend", "use", "using"}
                => thread[q].pc \in {"session", "backend", "use", "using"}
    BY DEF ThreadTypes, ThreadType, KindsOK, Ended, Removed
  <2> QED
    BY <2>1, ImagesKeep
<1> QED
  BY <1>1, <1>2, <1>3, <1>4, <1>5, <1>6, <1>7, <1>8, <1>9, <1>10

LEMMA EndUseAsKeeps == ASSUME IInv, NEW t \in Threads, NEW o \in {"result", "cancelled", "error"},
  EndUseAs(t, o), UNCHANGED scenario PROVE IInv'
<1> USE DesktopAssumption, ModelIs DEF IInv, Types, EndUseAs, AfterUse, WasFinal, Clears, At, Kind, Session,
  Recording, Images, media, models
<1>a. /\ thread[t] \in ThreadType /\ At(t, "using")
      /\ t \in Requests => Kind(t) = ModelOf(t)
      /\ t \notin Requests => Kind(t) \in Speech
      /\ Kind(t) \in Kinds
  BY DEF ThreadTypes, KindsOK, Speech, Kinds
<1>b. PICK f \in ThreadType :
        /\ thread' = [thread EXCEPT ![t] = f]
        /\ f.final = thread[t].final /\ f.snapshot = thread[t].snapshot
        /\ \/ t \notin Requests /\ f.pc \in {"use", "done"} /\ f.kind \in Speech
           \/ t \in Requests /\ f.kind = Kind(t) /\ f.pc = "clear" /\ Method[t] = "chat" /\ f.outcome = o
           \/ t \in Requests /\ f.kind = Kind(t) /\ f.pc = "leaving" /\ Method[t] # "asr"
           \/ t \in Requests /\ f.kind = Kind(t) /\ f.pc = "close" /\ Method[t] = "asr" /\ f.outcome # "result"
           \/ t \in Requests /\ f.kind = Kind(t) /\ f.pc = "join" /\ Method[t] = "asr" /\ f.final
           \/ t \in Requests /\ f.kind = Kind(t) /\ f.pc = "listen" /\ Method[t] = "asr" /\ f.outcome # "result"
  <2> DEFINE next == IF t = Startup /\ Kind(t) = "asr" THEN "use"
                     ELSE IF t \notin Requests THEN "done"
                     ELSE IF Kind(t) = "chat" /\ Clears(t) THEN "clear"
                     ELSE IF Kind(t) # "asr" THEN "leaving"
                     ELSE IF o # "result" THEN "close"
                     ELSE IF WasFinal(t) THEN "join" ELSE "listen"
             kind == IF t = Startup THEN "tts" ELSE thread[t].kind
             outcome == IF next = "listen" THEN None ELSE o
             f == [thread[t] EXCEPT !.pc = next, !.kind = kind, !.outcome = outcome]
  <2>1. thread' = [thread EXCEPT ![t] = f]
    OBVIOUS
  <2>2. /\ next \in Places /\ outcome \in Outcomes \cup {None}
        /\ kind \in Kinds /\ (t \notin Requests => kind \in Speech) /\ (t \in Requests => kind = Kind(t))
    <3>1. next \in Places
      BY DEF Places
    <3>2. outcome \in Outcomes \cup {None}
      BY DEF Outcomes
    <3>3. Startup \notin Requests
      OBVIOUS
    <3> QED
      BY <1>a, <3>1, <3>2, <3>3 DEF Kinds, Speech
  <2>3. /\ t \notin Requests => next \in {"use", "done"}
        /\ t \in Requests =>
             \/ next = "clear" /\ Method[t] = "chat" /\ outcome = o
             \/ next = "leaving" /\ Method[t] # "asr"
             \/ next = "close" /\ Method[t] = "asr" /\ outcome # "result"
             \/ next = "join" /\ Method[t] = "asr" /\ thread[t].final
             \/ next = "listen" /\ Method[t] = "asr" /\ outcome # "result"
    <3>1. CASE t \notin Requests
      BY <3>1
    <3>2. CASE t \in Requests /\ Method[t] = "asr"
      <4>1. Kind(t) = "asr" /\ t # Startup /\ None # "result"
        BY <1>a, <3>2 DEF Outcomes
      <4> QED
        BY <3>2, <4>1
    <3>3. CASE t \in Requests /\ Method[t] # "asr"
      <4>1. Kind(t) # "asr" /\ t # Startup
        BY <1>a, <3>3
      <4> QED
        BY <3>3, <4>1
    <3> QED
      BY <3>1, <3>2, <3>3
  <2> HIDE DEF next, kind, outcome
  <2>4. f \in ThreadType
    BY <1>a, <2>2, ThreadChanges
  <2>5. f.pc = next /\ f.kind = kind /\ f.outcome = outcome /\ f.final = thread[t].final /\ f.snapshot = thread[t].snapshot
    BY <1>a DEF ThreadType
  <2> HIDE DEF f, EndUseAs
  <2>6. /\ f.final = thread[t].final /\ f.snapshot = thread[t].snapshot
        /\ \/ t \notin Requests /\ f.pc \in {"use", "done"} /\ f.kind \in Speech
           \/ t \in Requests /\ f.kind = Kind(t) /\ f.pc = "clear" /\ Method[t] = "chat" /\ f.outcome = o
           \/ t \in Requests /\ f.kind = Kind(t) /\ f.pc = "leaving" /\ Method[t] # "asr"
           \/ t \in Requests /\ f.kind = Kind(t) /\ f.pc = "close" /\ Method[t] = "asr" /\ f.outcome # "result"
           \/ t \in Requests /\ f.kind = Kind(t) /\ f.pc = "join" /\ Method[t] = "asr" /\ f.final
           \/ t \in Requests /\ f.kind = Kind(t) /\ f.pc = "listen" /\ Method[t] = "asr" /\ f.outcome # "result"
    <3>1. CASE t \notin Requests
      BY <2>2, <2>3, <2>5, <3>1
    <3>2. CASE t \in Requests
      BY <2>2, <2>3, <2>5, <3>2
    <3> QED
      BY <3>1, <3>2
  <2> QED
    BY <2>1, <2>4, <2>6, ZenonT(40)
<1>d. /\ holder' = [holder EXCEPT ![Kind(t)] = None]
      /\ UNCHANGED <<active, busy, loaded, lastUse, reaper, sent, stopped, upload, cancelled, closed, clock, scenario>>
  OBVIOUS
<1>e. \A s \in Sessions : /\ audio'[s].owner = audio[s].owner /\ audio'[s].samples = audio[s].samples
                          /\ audio'[s].error = audio[s].error /\ audio'[s].final = audio[s].final
  BY DEF MediaTypes, AudioType
<1>4. MediaTypes'
  <2>1. CASE t \in Requests /\ Method[t] = "asr" /\ o = "result" /\ Recording(t)
    <3> DEFINE a == [audio[SessionOf[t]] EXCEPT !.processed = thread[t].snapshot]
    <3>1. SessionOf[t] \in Sessions /\ a \in AudioType /\ a.samples <= MaxSamples
      <4>1. audio[SessionOf[t]] \in AudioType /\ audio[SessionOf[t]].samples <= MaxSamples /\ thread[t].snapshot \in Nat
        BY <2>1 DEF MediaTypes, ThreadTypes, ThreadType
      <4>2. a \in AudioType
        BY <4>1, AudioChanges
      <4>3. a.samples = audio[SessionOf[t]].samples
        BY <4>1 DEF AudioType
      <4> QED
        BY <2>1, <4>1, <4>2, <4>3
    <3>2. audio' = [audio EXCEPT ![SessionOf[t]] = a] /\ UNCHANGED <<upload, sent>>
      BY <2>1
    <3> HIDE DEF a, EndUseAs, AfterUse, WasFinal, Clears
    <3> QED
      BY <3>1, <3>2, AudioIs
  <2>2. CASE ~(t \in Requests /\ Method[t] = "asr" /\ o = "result" /\ Recording(t))
    BY <2>2 DEF MediaTypes, MaxSamples
  <2> QED
    BY <2>1, <2>2
<1> HIDE DEF EndUseAs, AfterUse, WasFinal, Clears
<1>c. ThreadTypes' /\ thread'[t] = f /\ \A u \in Threads \ {t} : thread'[u] = thread[u]
  BY <1>b, ThreadIs
<1>1. ThreadTypes'
  BY <1>c
<1>2. GateTypes'
  BY <1>d DEF GateTypes
<1>3. ModelTypes'
  BY <1>a, <1>d DEF ModelTypes, MaxTime
<1>5. KindsOK'
  <2>1. CASE t \in Requests
    BY <1>a, <1>b, <1>c, <2>1 DEF KindsOK
  <2>2. CASE t \notin Requests
    BY <1>a, <1>b, <1>c, <2>2 DEF KindsOK
  <2> QED
    BY <2>1, <2>2
<1>6. GatesOK'
  <2>1. \A q \in Requests : /\ Inside(q)' <=> Inside(q)
                            /\ Inside(q) => Kind(q)' = Kind(q)
                            /\ (thread[q].pc \in {"backend", "left"})' <=> thread[q].pc \in {"backend", "left"}
    BY <1>a, <1>b, <1>c DEF Inside
  <2> QED
    BY <1>d, <2>1, GatesKeep
<1>7. HelpersOK'
  <2>1. \A u \in Threads : thread[u].pc = "none" => thread'[u].pc = "none"
    BY <1>a, <1>c
  <2>2. \A r \in Requests : thread'[r].pc \in {"none", "session", "backend"} => thread[r].pc = thread'[r].pc
    BY <1>b, <1>c
  <2> QED
    BY <2>1, <2>2 DEF HelpersOK
<1>8. LocksOK'
  <2>1. thread'[t].pc \notin {"loading", "using"}
    BY <1>b, <1>c
  <2>2. \A u \in Threads \ {t} : thread[u].pc \in {"loading", "using"} => Kind(u) # Kind(t) /\ holder[Kind(u)] = u
    BY <1>a DEF LocksOK, Threads
  <2>3. \A u \in Threads \ {t} : thread[u].pc \in {"loading", "using"} => holder'[Kind(u)] = u
    BY <1>d, <2>2 DEF ModelTypes
  <2> QED
    BY <1>c, <1>d, <2>1, <2>3 DEF LocksOK
<1>9. RecordingsOK'
  <2>1. ASSUME NEW q \in Requests, Method[q] = "asr", q # t
        PROVE  thread'[q] = thread[q]
    BY <1>c, <2>1
  <2>2. t \in Requests /\ Method[t] = "asr" =>
          /\ thread'[t].pc \in {"close", "join", "listen"} /\ thread'[t].final = thread[t].final
          /\ thread'[t].snapshot = thread[t].snapshot /\ (thread'[t].outcome = "result" => thread'[t].final \/ thread[t].final)
    BY <1>b, <1>c
  <2> QED
    BY <1>a, <1>d, <1>e, <2>1, <2>2 DEF RecordingsOK
<1>10. ImagesOK'
  <2>1. \A q \in Requests : Method[q] = "chat" =>
           /\ Ended(q) => Ended(q)'
           /\ thread'[q].pc \in {"session", "backend", "use", "using"}
                => thread[q].pc \in {"session", "backend", "use", "using"}
    BY <1>a, <1>b, <1>c DEF Ended, Removed
  <2> QED
    BY <1>d, <2>1, ImagesKeep
<1> QED
  BY <1>1, <1>2, <1>3, <1>4, <1>5, <1>6, <1>7, <1>8, <1>9, <1>10

LEMMA ClearImagesKeeps == ASSUME IInv, NEW r \in Requests, ClearImages(r), UNCHANGED scenario PROVE IInv'
<1> USE DesktopAssumption, ModelIs DEF IInv, Types, ClearImages, RemoveImages, Goto, At, Kind, Session,
  Recording, Images, media, models
<1>1. ThreadTypes'
  <2>1. Types /\ r \in Threads /\ Goto(r, "leaving") /\ "leaving" \in Places
    BY DEF Places
  <2> HIDE DEF ClearImages, Goto
  <2> QED
    BY <2>1, GotoTypes
<1>2. GateTypes'
  BY DEF ThreadTypes, GateTypes, KindsOK, ThreadType
<1>3. ModelTypes'
  BY DEF ThreadTypes, ModelTypes, KindsOK, MaxTime, Kinds, Speech, ThreadType, Threads
<1>4. MediaTypes'
  <2>1. \A u \in Uploads : upload[u] \in UploadType /\ upload'[u] \in UploadType
    BY UploadChanges DEF MediaTypes
  <2>2. upload' \in [Uploads -> UploadType]
    BY <2>1
  <2> QED
    BY <2>2 DEF MediaTypes, MaxSamples
<1>5. KindsOK'
  BY DEF ThreadTypes, KindsOK, ThreadType, Places
<1>6. GatesOK'
  BY DEF ThreadTypes, KindsOK, GatesOK, GatesFollowRequests, Occupies, Inside, ThreadType
<1>7. HelpersOK'
  BY DEF ThreadTypes, HelpersOK, ThreadType
<1>8. LocksOK'
  BY DEF ThreadTypes, ModelTypes, KindsOK, HelpersOK, LocksOK, ThreadType
<1>9. RecordingsOK'
  BY DEF ThreadTypes, MediaTypes, KindsOK, GatesOK, Occupies, Inside, RecordingsOK, ThreadType, AudioType
<1>10. ImagesOK'
  <2>1. /\ At(r, "clear") /\ Method[r] = "chat" /\ thread[r].outcome \in {"result", "cancelled", "error"}
        /\ thread'[r].pc = "leaving" /\ thread'[r].outcome = thread[r].outcome
        /\ \A q \in Requests \ {r} : thread'[q] = thread[q]
    BY DEF ThreadTypes, ThreadType, KindsOK
  <2>2. \A u \in Uploads : UploadSession[u] # Session(r) => upload'[u] = upload[u]
    OBVIOUS
  <2>3. \A q \in Requests : Images(q)' = Images(q) /\ \A u \in Images(q) : u \in Uploads /\ UploadSession[u] = Session(q)
    BY DEF GateTypes
  <2> HIDE DEF ClearImages, RemoveImages, Images
  <2>4. ASSUME NEW q \in Requests, thread'[q].pc \in {"session", "backend", "use", "using"}
        PROVE  OtherChatEnded(q)' \/ \A u \in Images(q)' : upload'[u].state = "stored"
    <3>1. q # r
      BY <2>1, <2>4
    <3>2. CASE Session(q) = Session(r)
      <4>1. Removed(r)' /\ thread'[r].outcome \notin {"busy", "invalid"}
        BY <2>1 DEF Removed
      <4> QED
        BY <2>1, <3>1, <3>2, <4>1 DEF OtherChatEnded
    <3>3. CASE Session(q) # Session(r)
      <4>1. OtherChatEnded(q) \/ \A u \in Images(q) : upload[u].state = "stored"
        BY <2>1, <2>4, <3>1 DEF ImagesOK
      <4>2. OtherChatEnded(q) => OtherChatEnded(q)'
        <5>1. \A p \in Requests : Session(p) = Session(q) => thread'[p] = thread[p]
          BY <2>1, <3>3
        <5> QED
          BY <5>1 DEF OtherChatEnded, Removed
      <4>3. \A u \in Images(q)' : upload'[u] = upload[u]
        BY <2>2, <2>3, <3>3
      <4> QED
        BY <2>3, <4>1, <4>2, <4>3
    <3> QED
      BY <3>2, <3>3
  <2> QED
    BY <2>4 DEF ImagesOK
<1> QED
  BY <1>1, <1>2, <1>3, <1>4, <1>5, <1>6, <1>7, <1>8, <1>9, <1>10

LEMMA OpenKeeps == ASSUME IInv, NEW r \in Requests, Open(r), UNCHANGED scenario PROVE IInv'
<1> USE DesktopAssumption, ModelIs DEF IInv, Types, Open, NoAudio, Goto, At, Kind, Session, Recording,
  Images, media, models
<1>1. ThreadTypes'
  <2>1. Types /\ r \in Threads /\ Goto(r, "listen") /\ "listen" \in Places
    BY DEF Places
  <2> HIDE DEF Open, Goto
  <2> QED
    BY <2>1, GotoTypes
<1>2. GateTypes'
  BY DEF ThreadTypes, GateTypes, KindsOK, ThreadType
<1>3. ModelTypes'
  BY DEF ThreadTypes, ModelTypes, KindsOK, MaxTime, Kinds, Speech, ThreadType, Threads
<1>4. MediaTypes'
  <2> DEFINE a == [NoAudio EXCEPT !.owner = r]
  <2>1. SessionOf[r] \in Sessions /\ a \in AudioType /\ a.samples <= MaxSamples
    <3>1. SessionOf[r] \in Sessions /\ audio[SessionOf[r]] \in AudioType /\ audio[SessionOf[r]].samples <= MaxSamples /\ MaxSamples \in Nat
      BY DEF MediaTypes, GateTypes, MaxSamples
    <3>2. a \in AudioType
      BY <3>1, AudioMarked, AudioStarts
    <3>3. a.samples = audio[SessionOf[r]].samples \/ a.samples = 0
      BY <3>1 DEF AudioType, NoAudio
    <3> QED
      BY <3>1, <3>2, <3>3
  <2>2. audio' = [audio EXCEPT ![SessionOf[r]] = a]
    OBVIOUS
  <2>3. UNCHANGED <<scenario, upload, sent>>
    OBVIOUS
  <2> HIDE DEF a
  <2> QED
    BY <2>1, <2>2, <2>3, AudioIs
<1>5. KindsOK'
  BY DEF ThreadTypes, KindsOK, ThreadType, Places
<1>6. GatesOK'
  BY DEF ThreadTypes, KindsOK, GatesOK, GatesFollowRequests, Occupies, Inside, ThreadType
<1>7. HelpersOK'
  BY DEF ThreadTypes, HelpersOK, ThreadType
<1>8. LocksOK'
  BY DEF ThreadTypes, ModelTypes, KindsOK, HelpersOK, LocksOK, ThreadType
<1>9. RecordingsOK'
  <2>1. /\ thread'[r].pc = "listen" /\ thread'[r].final = thread[r].final /\ thread'[r].snapshot = thread[r].snapshot
        /\ thread'[r].outcome = thread[r].outcome /\ Occupies(r) /\ Method[r] = "asr"
        /\ \A q \in Threads \ {r} : thread'[q] = thread[q]
    BY DEF ThreadTypes, ThreadType, KindsOK, Occupies, Inside
  <2>2. /\ audio'[Session(r)].owner = r /\ audio'[Session(r)].samples = 0 /\ audio'[Session(r)].final = FALSE
        /\ \A s \in Sessions \ {Session(r)} : audio'[s] = audio[s]
    BY DEF MediaTypes, NoAudio
  <2>3. sent[r] = 0 /\ r \notin stopped /\ UNCHANGED <<sent, stopped>>
    BY <2>1 DEF RecordingsOK
  <2>4. \A q \in Requests \ {r} : thread[q].pc \in {"listen", "use", "using"} => audio'[Session(q)] = audio[Session(q)]
    BY <2>1, <2>2 DEF GatesOK, Occupies, Inside
  <2>5. (thread[r].final => r \in stopped /\ thread[r].snapshot = sent[r]) /\ (thread[r].outcome = "result" => thread[r].final)
    BY <2>1 DEF RecordingsOK
  <2> HIDE DEF Open
  <2>6. ASSUME NEW q \in Requests, Method[q] = "asr", q # r
        PROVE  /\ thread'[q].pc \in {"none", "session", "backend", "prepare", "loading", "open"} =>
                     sent'[q] = 0 /\ q \notin stopped'
               /\ thread'[q].pc \in {"listen", "use", "using"} =>
                     /\ Recording(q)'
                     /\ ~audio'[Session(q)].error => audio'[Session(q)].samples = sent'[q]
                     /\ audio'[Session(q)].final => q \in stopped'
               /\ thread'[q].final => q \in stopped' /\ thread'[q].snapshot = sent'[q]
               /\ thread'[q].outcome = "result" => thread'[q].final
    BY <2>1, <2>3, <2>4, <2>6 DEF RecordingsOK
  <2> QED
    BY <2>1, <2>2, <2>3, <2>5, <2>6 DEF RecordingsOK
<1>10. ImagesOK'
  <2>1. \A q \in Requests : Method[q] = "chat" =>
           /\ Ended(q) => Ended(q)'
           /\ thread'[q].pc \in {"session", "backend", "use", "using"}
                => thread[q].pc \in {"session", "backend", "use", "using"}
    BY DEF ThreadTypes, ThreadType, KindsOK, Ended, Removed
  <2> QED
    BY <2>1, ImagesKeep
<1> QED
  BY <1>1, <1>2, <1>3, <1>4, <1>5, <1>6, <1>7, <1>8, <1>9, <1>10

LEMMA ListenKeeps == ASSUME IInv, NEW r \in Requests, Listen(r), UNCHANGED scenario PROVE IInv'
<1> USE DesktopAssumption, ModelIs DEF IInv, Types, Listen, HasWork, End, At, Kind, Session, Recording,
  Images, media, models
<1>1. ThreadTypes'
  BY DEF ThreadTypes, ThreadType, Places, Idle, Outcomes
<1>2. GateTypes'
  BY DEF ThreadTypes, GateTypes, KindsOK, ThreadType
<1>3. ModelTypes'
  BY DEF ThreadTypes, ModelTypes, KindsOK, MaxTime, Kinds, Speech, ThreadType, Threads
<1>4. MediaTypes'
  BY DEF MediaTypes, ThreadTypes, ThreadType, AudioType, UploadType, MaxSamples
<1>5. KindsOK'
  <2>1. thread'[r].pc \in {"close", "use"} /\ Kind(r)' = Kind(r) /\ Method[r] = "asr" /\ Kind(r) = ModelOf(r)
    BY DEF ThreadTypes, ThreadType, KindsOK
  <2>2. \A q \in Threads \ {r} : thread'[q] = thread[q]
    BY DEF ThreadTypes
  <2> HIDE DEF Listen
  <2> QED
    BY <2>1, <2>2 DEF KindsOK
<1>6. GatesOK'
  <2>1. \A q \in Requests : /\ Inside(q)' <=> Inside(q)
                            /\ Inside(q) => Kind(q)' = Kind(q)
                            /\ (thread[q].pc \in {"backend", "left"})' <=> thread[q].pc \in {"backend", "left"}
    BY DEF ThreadTypes, ThreadType, KindsOK, Inside
  <2> QED
    BY <2>1, GatesKeep
<1>7. HelpersOK'
  BY DEF ThreadTypes, HelpersOK, ThreadType
<1>8. LocksOK'
  BY DEF ThreadTypes, ModelTypes, KindsOK, HelpersOK, LocksOK, ThreadType
<1>9. RecordingsOK'
  BY DEF ThreadTypes, MediaTypes, KindsOK, GatesOK, Occupies, Inside, RecordingsOK, ThreadType, AudioType
<1>10. ImagesOK'
  <2>1. \A q \in Requests : Method[q] = "chat" =>
           /\ Ended(q) => Ended(q)'
           /\ thread'[q].pc \in {"session", "backend", "use", "using"}
                => thread[q].pc \in {"session", "backend", "use", "using"}
    BY DEF ThreadTypes, ThreadType, KindsOK, Ended, Removed
  <2> QED
    BY <2>1, ImagesKeep
<1> QED
  BY <1>1, <1>2, <1>3, <1>4, <1>5, <1>6, <1>7, <1>8, <1>9, <1>10

LEMMA FrameKeeps == ASSUME IInv, NEW r \in Requests, Frame(r), UNCHANGED scenario PROVE IInv'
<1> USE DesktopAssumption, ModelIs DEF IInv, Types, Frame, Overflows, At, Kind, Session, Recording, Images,
  media, models
<1>1. ThreadTypes'
  BY DEF ThreadTypes, ThreadType, Places, Idle, Outcomes
<1>2. GateTypes'
  BY DEF ThreadTypes, GateTypes, KindsOK, ThreadType
<1>3. ModelTypes'
  BY DEF ThreadTypes, ModelTypes, KindsOK, MaxTime, Kinds, Speech, ThreadType, Threads
<1>4. MediaTypes'
  <2>1. sent' \in [Requests -> Nat]
    BY DEF MediaTypes
  <2> DEFINE e == [audio[SessionOf[r]] EXCEPT !.error = TRUE]
             m == [audio[SessionOf[r]] EXCEPT !.samples = @ + 1]
  <2>3. /\ SessionOf[r] \in Sessions /\ e \in AudioType /\ e.samples <= MaxSamples /\ m \in AudioType
        /\ ~Overflows(audio[SessionOf[r]]) => m.samples <= MaxSamples
    <3>1. audio[SessionOf[r]] \in AudioType /\ audio[SessionOf[r]].samples <= MaxSamples
      BY DEF MediaTypes
    <3>2. e \in AudioType /\ m \in AudioType
      BY <3>1, AudioMarked
    <3>3. e.samples = audio[SessionOf[r]].samples /\ m.samples = audio[SessionOf[r]].samples + 1
      BY <3>1 DEF AudioType
    <3>4. ~Overflows(audio[SessionOf[r]]) => audio[SessionOf[r]].samples + 1 <= MaxSamples
      BY <3>1, DesktopAssumption DEF GateTypes, MaxSamples, AudioType
    <3> QED
      BY <3>1, <3>2, <3>3, <3>4
  <2>4. \/ audio' = audio \/ audio' = [audio EXCEPT ![SessionOf[r]] = e]
        \/ audio' = [audio EXCEPT ![SessionOf[r]] = m] /\ ~Overflows(audio[SessionOf[r]])
    OBVIOUS
  <2>5. audio' \in [Sessions -> AudioType] /\ \A s \in Sessions : audio'[s].samples <= MaxSamples
    <3> HIDE DEF e, m, Frame
    <3>1. CASE audio' = audio
      BY <3>1 DEF MediaTypes
    <3>2. CASE audio' = [audio EXCEPT ![SessionOf[r]] = e]
      BY <2>3, <3>2, AudioChanged
    <3>3. CASE audio' = [audio EXCEPT ![SessionOf[r]] = m] /\ ~Overflows(audio[SessionOf[r]])
      BY <2>3, <3>3, AudioChanged
    <3> QED
      BY <2>4, <3>1, <3>2, <3>3
  <2> QED
    BY <2>1, <2>5 DEF MediaTypes, MaxSamples
<1>5. KindsOK'
  BY DEF ThreadTypes, KindsOK, ThreadType, Places
<1>6. GatesOK'
  BY DEF ThreadTypes, KindsOK, GatesOK, GatesFollowRequests, Occupies, Inside, ThreadType
<1>7. HelpersOK'
  BY DEF ThreadTypes, HelpersOK, ThreadType
<1>8. LocksOK'
  BY DEF ThreadTypes, ModelTypes, KindsOK, HelpersOK, LocksOK, ThreadType
<1>9. RecordingsOK'
  BY DEF ThreadTypes, MediaTypes, KindsOK, GatesOK, Occupies, Inside, RecordingsOK, ThreadType, AudioType
<1>10. ImagesOK'
  BY DEF ThreadTypes, MediaTypes, KindsOK, GatesOK, Occupies, Inside, ImagesOK, OtherChatEnded, Removed, ThreadType
<1> QED
  BY <1>1, <1>2, <1>3, <1>4, <1>5, <1>6, <1>7, <1>8, <1>9, <1>10

LEMMA InvalidFrameKeeps == ASSUME IInv, NEW s \in Sessions, InvalidFrame(s), UNCHANGED scenario PROVE IInv'
<1> USE DesktopAssumption, ModelIs DEF IInv, Types, InvalidFrame, At, Kind, Session, Recording, Images,
  media, models
<1>1. ThreadTypes'
  BY DEF ThreadTypes, ThreadType, Places, Idle, Outcomes
<1>2. GateTypes'
  BY DEF ThreadTypes, GateTypes, KindsOK, ThreadType
<1>3. ModelTypes'
  BY DEF ThreadTypes, ModelTypes, KindsOK, MaxTime, Kinds, Speech, ThreadType, Threads
<1>4. MediaTypes'
  <2> DEFINE a == [audio[s] EXCEPT !.error = TRUE]
  <2>1. s \in Sessions /\ a \in AudioType /\ a.samples <= MaxSamples
    <3>1. s \in Sessions /\ audio[s] \in AudioType /\ audio[s].samples <= MaxSamples /\ MaxSamples \in Nat
      BY DEF MediaTypes, GateTypes, MaxSamples
    <3>2. a \in AudioType
      BY <3>1, AudioMarked, AudioStarts
    <3>3. a.samples = audio[s].samples \/ a.samples = 0
      BY <3>1 DEF AudioType, NoAudio
    <3> QED
      BY <3>1, <3>2, <3>3
  <2>2. audio' = [audio EXCEPT ![s] = a]
    OBVIOUS
  <2>3. UNCHANGED <<scenario, upload, sent>>
    OBVIOUS
  <2> HIDE DEF a
  <2> QED
    BY <2>1, <2>2, <2>3, AudioIs
<1>5. KindsOK'
  BY DEF ThreadTypes, KindsOK, ThreadType, Places
<1>6. GatesOK'
  BY DEF ThreadTypes, KindsOK, GatesOK, GatesFollowRequests, Occupies, Inside, ThreadType
<1>7. HelpersOK'
  BY DEF ThreadTypes, HelpersOK, ThreadType
<1>8. LocksOK'
  BY DEF ThreadTypes, ModelTypes, KindsOK, HelpersOK, LocksOK, ThreadType
<1>9. RecordingsOK'
  BY DEF ThreadTypes, MediaTypes, KindsOK, GatesOK, Occupies, Inside, RecordingsOK, ThreadType, AudioType
<1>10. ImagesOK'
  BY DEF ThreadTypes, MediaTypes, KindsOK, GatesOK, Occupies, Inside, ImagesOK, OtherChatEnded, Removed, ThreadType
<1> QED
  BY <1>1, <1>2, <1>3, <1>4, <1>5, <1>6, <1>7, <1>8, <1>9, <1>10

LEMMA StopKeeps == ASSUME IInv, NEW r \in Requests, Stop(r), UNCHANGED scenario PROVE IInv'
<1> USE DesktopAssumption, ModelIs DEF IInv, Types, Stop, At, Kind, Session, Recording, Images, media, models
<1>1. ThreadTypes'
  BY DEF ThreadTypes, ThreadType, Places, Idle, Outcomes
<1>2. GateTypes'
  BY DEF ThreadTypes, GateTypes, KindsOK, ThreadType
<1>3. ModelTypes'
  BY DEF ThreadTypes, ModelTypes, KindsOK, MaxTime, Kinds, Speech, ThreadType, Threads
<1>4. MediaTypes'
  <2> DEFINE a == [audio[SessionOf[r]] EXCEPT !.final = TRUE]
  <2>1. SessionOf[r] \in Sessions /\ a \in AudioType /\ a.samples <= MaxSamples
    <3>1. SessionOf[r] \in Sessions /\ audio[SessionOf[r]] \in AudioType /\ audio[SessionOf[r]].samples <= MaxSamples /\ MaxSamples \in Nat
      BY DEF MediaTypes, GateTypes, MaxSamples
    <3>2. a \in AudioType
      BY <3>1, AudioMarked, AudioStarts
    <3>3. a.samples = audio[SessionOf[r]].samples \/ a.samples = 0
      BY <3>1 DEF AudioType, NoAudio
    <3> QED
      BY <3>1, <3>2, <3>3
  <2>2. audio' = audio \/ audio' = [audio EXCEPT ![SessionOf[r]] = a]
    OBVIOUS
  <2>a. UNCHANGED <<scenario, upload, sent>>
    OBVIOUS
  <2> HIDE DEF a, Stop
  <2>3. CASE audio' = audio
    BY <2>a, <2>3 DEF MediaTypes, MaxSamples
  <2>4. CASE audio' = [audio EXCEPT ![SessionOf[r]] = a]
    BY <2>a, <2>1, <2>4, AudioIs
  <2> QED
    BY <2>2, <2>3, <2>4
<1>5. KindsOK'
  BY DEF ThreadTypes, KindsOK, ThreadType, Places
<1>6. GatesOK'
  BY DEF ThreadTypes, KindsOK, GatesOK, GatesFollowRequests, Occupies, Inside, ThreadType
<1>7. HelpersOK'
  BY DEF ThreadTypes, HelpersOK, ThreadType
<1>8. LocksOK'
  BY DEF ThreadTypes, ModelTypes, KindsOK, HelpersOK, LocksOK, ThreadType
<1>9. RecordingsOK'
  BY DEF ThreadTypes, MediaTypes, KindsOK, GatesOK, Occupies, Inside, RecordingsOK, ThreadType, AudioType
<1>10. ImagesOK'
  BY DEF ThreadTypes, MediaTypes, KindsOK, GatesOK, Occupies, Inside, ImagesOK, OtherChatEnded, Removed, ThreadType
<1> QED
  BY <1>1, <1>2, <1>3, <1>4, <1>5, <1>6, <1>7, <1>8, <1>9, <1>10

LEMMA JoinKeeps == ASSUME IInv, NEW r \in Requests, Join(r), UNCHANGED scenario PROVE IInv'
<1> USE DesktopAssumption, ModelIs DEF IInv, Types, Join, Goto, At, Kind, Session, Recording, Images, media,
  models
<1>1. ThreadTypes'
  <2>1. Types /\ r \in Threads /\ Goto(r, "close") /\ "close" \in Places
    BY DEF Places
  <2> HIDE DEF Join, Goto
  <2> QED
    BY <2>1, GotoTypes
<1>2. GateTypes'
  BY DEF ThreadTypes, GateTypes, KindsOK, ThreadType
<1>3. ModelTypes'
  BY DEF ThreadTypes, ModelTypes, KindsOK, MaxTime, Kinds, Speech, ThreadType, Threads
<1>4. MediaTypes'
  BY DEF MediaTypes, ThreadTypes, ThreadType, AudioType, UploadType, MaxSamples
<1>5. KindsOK'
  BY DEF ThreadTypes, KindsOK, ThreadType, Places
<1>6. GatesOK'
  BY DEF ThreadTypes, KindsOK, GatesOK, GatesFollowRequests, Occupies, Inside, ThreadType
<1>7. HelpersOK'
  BY DEF ThreadTypes, HelpersOK, ThreadType
<1>8. LocksOK'
  BY DEF ThreadTypes, ModelTypes, KindsOK, HelpersOK, LocksOK, ThreadType
<1>9. RecordingsOK'
  BY DEF ThreadTypes, MediaTypes, KindsOK, GatesOK, Occupies, Inside, RecordingsOK, ThreadType, AudioType
<1>10. ImagesOK'
  <2>1. \A q \in Requests : Method[q] = "chat" =>
           /\ Ended(q) => Ended(q)'
           /\ thread'[q].pc \in {"session", "backend", "use", "using"}
                => thread[q].pc \in {"session", "backend", "use", "using"}
    BY DEF ThreadTypes, ThreadType, KindsOK, Ended, Removed
  <2> QED
    BY <2>1, ImagesKeep
<1> QED
  BY <1>1, <1>2, <1>3, <1>4, <1>5, <1>6, <1>7, <1>8, <1>9, <1>10

LEMMA CloseKeeps == ASSUME IInv, NEW r \in Requests, Close(r), UNCHANGED scenario PROVE IInv'
<1> USE DesktopAssumption, ModelIs DEF IInv, Types, Close, NoAudio, Goto, At, Kind, Session, Recording,
  Images, media, models
<1>1. ThreadTypes'
  <2>1. Types /\ r \in Threads /\ Goto(r, "unwind") /\ "unwind" \in Places
    BY DEF Places
  <2> HIDE DEF Close, Goto
  <2> QED
    BY <2>1, GotoTypes
<1>2. GateTypes'
  BY DEF ThreadTypes, GateTypes, KindsOK, ThreadType
<1>3. ModelTypes'
  BY DEF ThreadTypes, ModelTypes, KindsOK, MaxTime, Kinds, Speech, ThreadType, Threads
<1>4. MediaTypes'
  <2> DEFINE a == NoAudio
  <2>1. SessionOf[r] \in Sessions /\ a \in AudioType /\ a.samples <= MaxSamples
    <3>1. SessionOf[r] \in Sessions /\ audio[SessionOf[r]] \in AudioType /\ audio[SessionOf[r]].samples <= MaxSamples /\ MaxSamples \in Nat
      BY DEF MediaTypes, GateTypes, MaxSamples
    <3>2. a \in AudioType
      BY <3>1, AudioMarked, AudioStarts
    <3>3. a.samples = audio[SessionOf[r]].samples \/ a.samples = 0
      BY <3>1 DEF AudioType, NoAudio
    <3> QED
      BY <3>1, <3>2, <3>3
  <2>2. audio' = audio \/ audio' = [audio EXCEPT ![SessionOf[r]] = a]
    OBVIOUS
  <2>a. UNCHANGED <<scenario, upload, sent>>
    OBVIOUS
  <2> HIDE DEF a, Close
  <2>3. CASE audio' = audio
    BY <2>a, <2>3 DEF MediaTypes, MaxSamples
  <2>4. CASE audio' = [audio EXCEPT ![SessionOf[r]] = a]
    BY <2>a, <2>1, <2>4, AudioIs
  <2> QED
    BY <2>2, <2>3, <2>4
<1>5. KindsOK'
  BY DEF ThreadTypes, KindsOK, ThreadType, Places
<1>6. GatesOK'
  BY DEF ThreadTypes, KindsOK, GatesOK, GatesFollowRequests, Occupies, Inside, ThreadType
<1>7. HelpersOK'
  BY DEF ThreadTypes, HelpersOK, ThreadType
<1>8. LocksOK'
  BY DEF ThreadTypes, ModelTypes, KindsOK, HelpersOK, LocksOK, ThreadType
<1>9. RecordingsOK'
  BY DEF ThreadTypes, MediaTypes, KindsOK, GatesOK, Occupies, Inside, RecordingsOK, ThreadType, AudioType
<1>10. ImagesOK'
  <2>1. \A q \in Requests : Method[q] = "chat" =>
           /\ Ended(q) => Ended(q)'
           /\ thread'[q].pc \in {"session", "backend", "use", "using"}
                => thread[q].pc \in {"session", "backend", "use", "using"}
    BY DEF ThreadTypes, ThreadType, KindsOK, Ended, Removed
  <2> QED
    BY <2>1, ImagesKeep
<1> QED
  BY <1>1, <1>2, <1>3, <1>4, <1>5, <1>6, <1>7, <1>8, <1>9, <1>10

LEMMA UnwindKeeps == ASSUME IInv, NEW r \in Requests, Unwind(r), UNCHANGED scenario PROVE IInv'
<1> USE DesktopAssumption, ModelIs DEF IInv, Types, Unwind, Goto, At, Kind, Session, Recording, Images,
  media, models
<1>1. ThreadTypes'
  <2>1. Types /\ r \in Threads /\ Goto(r, "leaving") /\ "leaving" \in Places
    BY DEF Places
  <2> HIDE DEF Unwind, Goto
  <2> QED
    BY <2>1, GotoTypes
<1>2. GateTypes'
  BY DEF ThreadTypes, GateTypes, KindsOK, ThreadType
<1>3. ModelTypes'
  BY DEF ThreadTypes, ModelTypes, KindsOK, MaxTime, Kinds, Speech, ThreadType, Threads
<1>4. MediaTypes'
  BY DEF MediaTypes, ThreadTypes, ThreadType, AudioType, UploadType, MaxSamples
<1>5. KindsOK'
  BY DEF ThreadTypes, KindsOK, ThreadType, Places
<1>6. GatesOK'
  BY DEF ThreadTypes, KindsOK, GatesOK, GatesFollowRequests, Occupies, Inside, ThreadType
<1>7. HelpersOK'
  BY DEF ThreadTypes, HelpersOK, ThreadType
<1>8. LocksOK'
  BY DEF ThreadTypes, ModelTypes, KindsOK, HelpersOK, LocksOK, ThreadType
<1>9. RecordingsOK'
  BY DEF ThreadTypes, MediaTypes, KindsOK, GatesOK, Occupies, Inside, RecordingsOK, ThreadType, AudioType
<1>10. ImagesOK'
  BY DEF ThreadTypes, MediaTypes, KindsOK, GatesOK, Occupies, Inside, ImagesOK, OtherChatEnded, Removed, ThreadType
<1> QED
  BY <1>1, <1>2, <1>3, <1>4, <1>5, <1>6, <1>7, <1>8, <1>9, <1>10

LEMMA StartImageKeeps == ASSUME IInv, NEW u \in Uploads, StartImage(u), UNCHANGED scenario PROVE IInv'
<1> USE DesktopAssumption, ModelIs DEF IInv, Types, StartImage, At, Kind, Session, Recording, Images, media,
  models
<1>1. ThreadTypes'
  BY DEF ThreadTypes, ThreadType, Places, Idle, Outcomes
<1>2. GateTypes'
  BY DEF ThreadTypes, GateTypes, KindsOK, ThreadType
<1>3. ModelTypes'
  BY DEF ThreadTypes, ModelTypes, KindsOK, MaxTime, Kinds, Speech, ThreadType, Threads
<1>4. MediaTypes'
  BY DEF MediaTypes, ThreadTypes, ThreadType, AudioType, UploadType, MaxSamples
<1>5. KindsOK'
  BY DEF ThreadTypes, KindsOK, ThreadType, Places
<1>6. GatesOK'
  BY DEF ThreadTypes, KindsOK, GatesOK, GatesFollowRequests, Occupies, Inside, ThreadType
<1>7. HelpersOK'
  BY DEF ThreadTypes, HelpersOK, ThreadType
<1>8. LocksOK'
  BY DEF ThreadTypes, ModelTypes, KindsOK, HelpersOK, LocksOK, ThreadType
<1>9. RecordingsOK'
  BY DEF ThreadTypes, MediaTypes, KindsOK, GatesOK, Occupies, Inside, RecordingsOK, ThreadType, AudioType
<1>10. ImagesOK'
  BY DEF ThreadTypes, MediaTypes, KindsOK, GatesOK, Occupies, Inside, ImagesOK, OtherChatEnded, Removed, ThreadType
<1> QED
  BY <1>1, <1>2, <1>3, <1>4, <1>5, <1>6, <1>7, <1>8, <1>9, <1>10

LEMMA ImageFrameKeeps == ASSUME IInv, NEW u \in Uploads, ImageFrame(u), UNCHANGED scenario PROVE IInv'
<1> USE DesktopAssumption, ModelIs DEF IInv, Types, ImageFrame, At, Kind, Session, Recording, Images, media,
  models
<1>1. ThreadTypes'
  BY DEF ThreadTypes, ThreadType, Places, Idle, Outcomes
<1>2. GateTypes'
  BY DEF ThreadTypes, GateTypes, KindsOK, ThreadType
<1>3. ModelTypes'
  BY DEF ThreadTypes, ModelTypes, KindsOK, MaxTime, Kinds, Speech, ThreadType, Threads
<1>4. MediaTypes'
  BY DEF MediaTypes, ThreadTypes, ThreadType, AudioType, UploadType, MaxSamples
<1>5. KindsOK'
  BY DEF ThreadTypes, KindsOK, ThreadType, Places
<1>6. GatesOK'
  BY DEF ThreadTypes, KindsOK, GatesOK, GatesFollowRequests, Occupies, Inside, ThreadType
<1>7. HelpersOK'
  BY DEF ThreadTypes, HelpersOK, ThreadType
<1>8. LocksOK'
  BY DEF ThreadTypes, ModelTypes, KindsOK, HelpersOK, LocksOK, ThreadType
<1>9. RecordingsOK'
  BY DEF ThreadTypes, MediaTypes, KindsOK, GatesOK, Occupies, Inside, RecordingsOK, ThreadType, AudioType
<1>10. ImagesOK'
  BY DEF ThreadTypes, MediaTypes, KindsOK, GatesOK, Occupies, Inside, ImagesOK, OtherChatEnded, Removed, ThreadType
<1> QED
  BY <1>1, <1>2, <1>3, <1>4, <1>5, <1>6, <1>7, <1>8, <1>9, <1>10

LEMMA FinishImageKeeps == ASSUME IInv, NEW u \in Uploads, FinishImage(u), UNCHANGED scenario PROVE IInv'
<1> USE DesktopAssumption, ModelIs DEF IInv, Types, FinishImage, At, Kind, Session, Recording, Images, media,
  models
<1>1. ThreadTypes'
  BY DEF ThreadTypes, ThreadType, Places, Idle, Outcomes
<1>2. GateTypes'
  BY DEF ThreadTypes, GateTypes, KindsOK, ThreadType
<1>3. ModelTypes'
  BY DEF ThreadTypes, ModelTypes, KindsOK, MaxTime, Kinds, Speech, ThreadType, Threads
<1>4. MediaTypes'
  BY DEF MediaTypes, ThreadTypes, ThreadType, AudioType, UploadType, MaxSamples
<1>5. KindsOK'
  BY DEF ThreadTypes, KindsOK, ThreadType, Places
<1>6. GatesOK'
  BY DEF ThreadTypes, KindsOK, GatesOK, GatesFollowRequests, Occupies, Inside, ThreadType
<1>7. HelpersOK'
  BY DEF ThreadTypes, HelpersOK, ThreadType
<1>8. LocksOK'
  BY DEF ThreadTypes, ModelTypes, KindsOK, HelpersOK, LocksOK, ThreadType
<1>9. RecordingsOK'
  BY DEF ThreadTypes, MediaTypes, KindsOK, GatesOK, Occupies, Inside, RecordingsOK, ThreadType, AudioType
<1>10. ImagesOK'
  BY DEF ThreadTypes, MediaTypes, KindsOK, GatesOK, Occupies, Inside, ImagesOK, OtherChatEnded, Removed, ThreadType
<1> QED
  BY <1>1, <1>2, <1>3, <1>4, <1>5, <1>6, <1>7, <1>8, <1>9, <1>10

LEMMA CloseSessionKeeps == ASSUME IInv, NEW s \in Sessions, CloseSession(s), UNCHANGED scenario PROVE IInv'
<1> USE DesktopAssumption, ModelIs DEF IInv, Types, CloseSession, RemoveImages, At, Kind, Session, Recording,
  Images, media, models
<1>1. ThreadTypes'
  BY DEF ThreadTypes, ThreadType, Places, Idle, Outcomes
<1>2. GateTypes'
  BY DEF ThreadTypes, GateTypes, KindsOK, ThreadType
<1>3. ModelTypes'
  BY DEF ThreadTypes, ModelTypes, KindsOK, MaxTime, Kinds, Speech, ThreadType, Threads
<1>4. MediaTypes'
  <2>1. \A u \in Uploads : upload[u] \in UploadType /\ upload'[u] \in UploadType
    BY UploadChanges DEF MediaTypes
  <2>2. upload' \in [Uploads -> UploadType]
    BY <2>1
  <2> QED
    BY <2>2 DEF MediaTypes, MaxSamples
<1>5. KindsOK'
  BY DEF ThreadTypes, KindsOK, ThreadType, Places
<1>6. GatesOK'
  BY DEF ThreadTypes, KindsOK, GatesOK, GatesFollowRequests, Occupies, Inside, ThreadType
<1>7. HelpersOK'
  BY DEF ThreadTypes, HelpersOK, ThreadType
<1>8. LocksOK'
  BY DEF ThreadTypes, ModelTypes, KindsOK, HelpersOK, LocksOK, ThreadType
<1>9. RecordingsOK'
  BY DEF ThreadTypes, MediaTypes, KindsOK, GatesOK, Occupies, Inside, RecordingsOK, ThreadType, AudioType
<1>10. ImagesOK'
  <2>1. /\ \A r \in Requests : Session(r) = s => thread[r].pc \in {"none", "done"}
        /\ thread' = thread
    OBVIOUS
  <2>2. \A u \in Uploads : UploadSession[u] # s => upload'[u] = upload[u]
    OBVIOUS
  <2>3. \A q \in Requests : Images(q)' = Images(q) /\ \A u \in Images(q) : u \in Uploads /\ UploadSession[u] = Session(q)
    BY DEF GateTypes
  <2> HIDE DEF CloseSession, RemoveImages, Images
  <2>4. ASSUME NEW q \in Requests, thread'[q].pc \in {"session", "backend", "use", "using"}
        PROVE  OtherChatEnded(q)' \/ \A u \in Images(q)' : upload'[u].state = "stored"
    <3>1. Session(q) # s
      BY <2>1, <2>4
    <3>2. OtherChatEnded(q) \/ \A u \in Images(q) : upload[u].state = "stored"
      BY <2>1, <2>4 DEF ImagesOK
    <3>3. OtherChatEnded(q) => OtherChatEnded(q)'
      BY <2>1 DEF OtherChatEnded, Removed
    <3>4. \A u \in Images(q)' : upload'[u] = upload[u]
      BY <2>2, <2>3, <3>1
    <3> QED
      BY <2>3, <3>2, <3>3, <3>4
  <2> QED
    BY <2>4 DEF ImagesOK
<1> QED
  BY <1>1, <1>2, <1>3, <1>4, <1>5, <1>6, <1>7, <1>8, <1>9, <1>10

LEMMA ReaperTriesKeeps == ASSUME IInv, ReaperTries, UNCHANGED scenario PROVE IInv'
<1> USE DesktopAssumption, ModelIs DEF IInv, Types, ReaperTries, Reapable, Expired, NextModel, At, Kind,
  Session, Recording, Images, media, models
<1>1. ThreadTypes'
  BY DEF ThreadTypes, ThreadType, Places, Idle, Outcomes
<1>2. GateTypes'
  BY DEF ThreadTypes, GateTypes, KindsOK, ThreadType
<1>3. ModelTypes'
  <2>1. MaxTime' = MaxTime /\ MaxTime \in Nat
    BY DEF GateTypes, MaxTime
  <2>2. lastUse' \in [Speech -> 0 .. MaxTime]
    BY <2>1 DEF ModelTypes
  <2>3. reaper'.kind \in Speech
    BY DEF ModelTypes, Speech
  <2> QED
    BY <2>1, <2>2, <2>3 DEF ModelTypes
<1>4. MediaTypes'
  BY DEF MediaTypes, ThreadTypes, ThreadType, AudioType, UploadType, MaxSamples
<1>5. KindsOK'
  BY DEF ThreadTypes, KindsOK, ThreadType, Places
<1>6. GatesOK'
  BY DEF ThreadTypes, KindsOK, GatesOK, GatesFollowRequests, Occupies, Inside, ThreadType
<1>7. HelpersOK'
  BY DEF ThreadTypes, HelpersOK, ThreadType
<1>8. LocksOK'
  BY DEF ThreadTypes, ModelTypes, KindsOK, HelpersOK, LocksOK, ThreadType
<1>9. RecordingsOK'
  BY DEF ThreadTypes, MediaTypes, KindsOK, GatesOK, Occupies, Inside, RecordingsOK, ThreadType, AudioType
<1>10. ImagesOK'
  BY DEF ThreadTypes, MediaTypes, KindsOK, GatesOK, Occupies, Inside, ImagesOK, OtherChatEnded, Removed, ThreadType
<1> QED
  BY <1>1, <1>2, <1>3, <1>4, <1>5, <1>6, <1>7, <1>8, <1>9, <1>10

-----------------------------------------------------------------------------
(* The invariant *)

LEMMA InitKeeps == ASSUME Init PROVE IInv
<1> USE DesktopAssumption, ModelIs DEF Init, IInv, Types
<1>1. [Idle EXCEPT !.pc = "use", !.kind = "asr"] \in ThreadType /\ Idle \in ThreadType
  BY DEF Idle, ThreadType, Places, Kinds
<1>2. ThreadTypes
  BY <1>1 DEF ThreadTypes
<1>3. GateTypes
  BY DEF GateTypes
<1>4. ModelTypes
  BY DEF ModelTypes, MaxTime, Speech
<1>5. MediaTypes
  <2>1. NoAudio \in AudioType /\ NoAudio.samples = 0 /\ MaxSamples \in Nat
    BY AudioStarts DEF NoAudio, MaxSamples
  <2>2. [state |-> "none", frames |-> 0] \in UploadType
    BY DEF UploadType
  <2> QED
    BY <2>1, <2>2 DEF MediaTypes
<1>6. \A t \in Threads : /\ At(t, "none") \/ (t \notin Requests /\ At(t, "use") /\ Kind(t) = "asr")
                         /\ thread[t].final = FALSE /\ thread[t].outcome = None
  <2> DEFINE warm == [Idle EXCEPT !.pc = "use", !.kind = "asr"]
  <2>1. \A t \in Threads : thread[t] = Idle \/ (t = Startup /\ thread[t] = warm)
    OBVIOUS
  <2>2. Idle.pc = "none" /\ Idle.final = FALSE /\ Idle.outcome = None
    BY DEF Idle
  <2>3. warm.pc = "use" /\ warm.kind = "asr" /\ warm.final = FALSE /\ warm.outcome = None
    BY DEF Idle
  <2> HIDE DEF Init
  <2>4. Startup \notin Requests
    OBVIOUS
  <2> HIDE DEF warm
  <2> QED
    BY <2>1, <2>2, <2>3, <2>4 DEF At, Kind
<1>7. KindsOK
  BY <1>6 DEF KindsOK, At, Speech
<1>8. GatesOK
  <2>1. \A r \in Requests : thread[r].pc = "none"
    BY <1>6 DEF At
  <2>2. active = {} /\ busy = {}
    OBVIOUS
  <2> HIDE DEF Init
  <2>3. {r \in Requests : Inside(r)} = {} /\ {r \in Requests : Inside(r) \/ thread[r].pc \in {"backend", "left"}} = {}
    BY <2>1 DEF Inside
  <2> QED
    BY <2>1, <2>2, <2>3 DEF GatesOK, GatesFollowRequests, Occupies, Inside
<1>9. HelpersOK
  BY DEF HelpersOK, At, Idle, Threads
<1>10. LocksOK
  BY <1>6 DEF LocksOK, At
<1>11. RecordingsOK
  BY <1>6 DEF RecordingsOK, At, Outcomes
<1>12. ImagesOK
  BY <1>6 DEF ImagesOK, At
<1> QED
  BY <1>2, <1>3, <1>4, <1>5, <1>7, <1>8, <1>9, <1>10, <1>11, <1>12

\* What the invariant says of the threads and their models does not depend on who was cancelled
\* or has left, nor on the clock and the reaper's place.
LEMMA OthersKeep ==
  ASSUME IInv, UNCHANGED <<thread, active, busy, holder, loaded, lastUse, media, scenario>>,
         clock' \in 1 .. MaxTime, reaper'.kind \in Speech
  PROVE  IInv'
<1> USE DEF IInv, Types, At, Kind, Session, media
<1>1. ThreadTypes' /\ GateTypes'
  BY DEF ThreadTypes, GateTypes
<1>2. ModelTypes'
  BY DEF ModelTypes, MaxTime
<1>3. MediaTypes'
  BY DEF MediaTypes, MaxSamples
<1>4. KindsOK'
  BY DEF KindsOK
<1>5. GatesOK'
  BY DEF GatesOK, GatesFollowRequests, Occupies, Inside
<1>6. HelpersOK' /\ LocksOK'
  BY DEF HelpersOK, LocksOK
<1>7. RecordingsOK'
  BY DEF RecordingsOK, Recording
<1>8. ImagesOK'
  BY DEF ImagesOK, OtherChatEnded, Removed, Images
<1> QED
  BY <1>1, <1>2, <1>3, <1>4, <1>5, <1>6, <1>7, <1>8

LEMMA RequestKeeps == ASSUME IInv, NEW r \in Requests, Request(r), UNCHANGED scenario PROVE IInv'
<1>1. CASE EnterSession(r)
  BY <1>1, EnterSessionKeeps
<1>2. CASE EnterBackend(r)
  <2>1. At(r, "backend") /\ UNCHANGED <<models, media, cancelled, closed, clock, faults>>
    BY <1>2 DEF EnterBackend
  <2>2. CASE RefuseKind(r)
    BY <2>1, <2>2, RefuseStepKeeps
  <2>3. CASE AdmitKind(r)
    BY <2>1, <2>3, AdmitStepKeeps
  <2> QED
    BY <1>2, <2>2, <2>3 DEF EnterBackend
<1>3. CASE ClearImages(r)
  BY <1>3, ClearImagesKeeps
<1>4. CASE LeaveBackend(r)
  BY <1>4, LeaveBackendKeeps
<1>5. CASE LeaveSession(r)
  BY <1>5, LeaveSessionKeeps
<1>6. CASE Open(r)
  BY <1>6, OpenKeeps
<1>7. CASE Listen(r)
  BY <1>7, ListenKeeps
<1>8. CASE Join(r)
  BY <1>8, JoinKeeps
<1>9. CASE Close(r)
  BY <1>9, CloseKeeps
<1>10. CASE Unwind(r)
  BY <1>10, UnwindKeeps
<1> QED
  BY <1>1, <1>2, <1>3, <1>4, <1>5, <1>6, <1>7, <1>8, <1>9, <1>10 DEF Request

LEMMA WorkKeeps ==
  ASSUME IInv, NEW t \in Threads, Work(t) \/ PrepareFails(t) \/ UseFails(t), UNCHANGED scenario
  PROVE  IInv'
<1>1. CASE Prepare(t)
  BY <1>1, PrepareKeeps
<1>2. CASE Prepared(t)
  BY <1>2, PreparedKeeps
<1>3. CASE BeginUse(t)
  BY <1>3, BeginUseKeeps
<1>4. CASE \E o \in {"result", "cancelled", "error"} : EndUseAs(t, o)
  BY <1>4, EndUseAsKeeps
<1>5. CASE PrepareFails(t)
  BY <1>5, PrepareFailsKeeps
<1> QED
  BY <1>1, <1>2, <1>3, <1>4, <1>5 DEF Work, EndUse, UseFails

LEMMA NextKeeps == ASSUME IInv, [Next /\ UNCHANGED scenario]_<<vars, scenario>> PROVE IInv'
<1>0. clock \in 1 .. MaxTime /\ reaper.kind \in Speech
  BY DEF IInv, Types, ModelTypes
<1>1. CASE UNCHANGED <<vars, scenario>>
  BY <1>0, <1>1, OthersKeep DEF vars, models
<1>2. ASSUME Next, UNCHANGED scenario PROVE IInv'
  <2>1. ASSUME NEW r \in Requests, Receive(r) PROVE IInv'
    BY <1>2, <2>1, ReceiveKeeps
  <2>2. ASSUME NEW r \in Requests, Request(r) PROVE IInv'
    BY <1>2, <2>2, RequestKeeps
  <2>3. ASSUME NEW r \in Requests, Frame(r) PROVE IInv'
    BY <1>2, <2>3, FrameKeeps
  <2>4. ASSUME NEW r \in Requests, Stop(r) PROVE IInv'
    BY <1>2, <2>4, StopKeeps
  <2>5. ASSUME NEW r \in Requests, Cancel(r) PROVE IInv'
    BY <1>0, <1>2, <2>5, OthersKeep DEF Cancel, models
  <2>6. ASSUME NEW t \in Threads, Work(t) \/ PrepareFails(t) \/ UseFails(t) PROVE IInv'
    BY <1>2, <2>6, WorkKeeps
  <2>7. ASSUME NEW u \in Uploads, StartImage(u) PROVE IInv'
    BY <1>2, <2>7, StartImageKeeps
  <2>8. ASSUME NEW u \in Uploads, ImageFrame(u) PROVE IInv'
    BY <1>2, <2>8, ImageFrameKeeps
  <2>9. ASSUME NEW u \in Uploads, FinishImage(u) PROVE IInv'
    BY <1>2, <2>9, FinishImageKeeps
  <2>10. ASSUME NEW s \in Sessions, InvalidFrame(s) PROVE IInv'
    BY <1>2, <2>10, InvalidFrameKeeps
  <2>11. ASSUME NEW s \in Sessions, Disconnect(s) PROVE IInv'
    BY <1>0, <1>2, <2>11, OthersKeep DEF Disconnect, models
  <2>12. ASSUME NEW s \in Sessions, CloseSession(s) PROVE IInv'
    BY <1>2, <2>12, CloseSessionKeeps
  <2>13. CASE Tick
    <3>1. clock + 1 \in 1 .. MaxTime
      <4>1. MaxTime \in Nat
        BY DesktopAssumption DEF MaxTime, IInv, Types, GateTypes
      <4> QED
        BY <1>0, <2>13, <4>1 DEF Tick
    <3> QED
      BY <1>0, <1>2, <2>13, <3>1, OthersKeep DEF Tick, models
  <2>14. CASE ReaperWakes
    BY <1>0, <1>2, <2>14, OthersKeep DEF ReaperWakes, Speech
  <2>15. CASE ReaperExamines
    <3>1. reaper'.kind \in Speech
      BY <1>0, <2>15 DEF ReaperExamines, NextModel, Speech
    <3> QED
      BY <1>0, <1>2, <2>15, <3>1, OthersKeep DEF ReaperExamines
  <2>16. CASE ReaperTries
    BY <1>2, <2>16, ReaperTriesKeeps
  <2> QED
    BY <1>2, <2>1, <2>2, <2>3, <2>4, <2>5, <2>6, <2>7, <2>8, <2>9, <2>10, <2>11, <2>12, <2>13, <2>14, <2>15, <2>16 DEF Next
<1> QED
  BY <1>1, <1>2

\* The gates, the locks, the recordings and the images agree with where the threads are: the invariant
\* holds in every state, for all the scenarios at once.
THEOREM DesktopInvariant == Spec => []IInv
<1>1. Init => IInv
  BY InitKeeps
<1>2. IInv /\ [Next /\ UNCHANGED scenario]_<<vars, scenario>> => IInv'
  BY NextKeeps
<1> QED
  BY <1>1, <1>2, PTL DEF Spec

\* The gates of the backend and of the sessions are held exactly by the requests inside, and no two
\* requests of a session or of a kind are inside: whatever is refused, fails or is cancelled.
THEOREM GatesSound == Spec => []GatesAreSound
<1>1. IInv => GatesAreSound
  <2>1. IInv => TypeOK
    <3> SUFFICES ASSUME IInv PROVE TypeOK
      OBVIOUS
    <3>1. MaxSamples \in Nat
      BY DesktopAssumption DEF MaxSamples, IInv, Types, GateTypes
    <3>2. \A s \in Sessions : audio[s].samples \in 0 .. MaxSamples /\ audio[s].owner \in Requests \cup {None}
      BY <3>1 DEF IInv, Types, MediaTypes, AudioType
    <3> QED
      BY <3>2 DEF IInv, Types, GateTypes, ModelTypes, MediaTypes, UploadType, TypeOK
  <2> QED
    BY <2>1 DEF IInv, GatesOK, GatesAreSound
<1> QED
  BY <1>1, DesktopInvariant, PTL

\* A thread that uses a speech model has its lock and finds it loaded, whatever the reaper does; and the
\* images of a chat that generates are stored, but for a chat of its session that ended meanwhile.
THEOREM UsesSound == Spec => []UsesAreSound
<1>1. IInv => UsesAreSound
  BY DEF IInv, LocksOK, ImagesOK, UsesAreSound, ModelWhileUsed, ImagesArePresent, At
<1> QED
  BY <1>1, DesktopInvariant, PTL

\* A transcription that ends with a result covers every frame that the client recorded, and the client
\* had stopped the recording.
THEOREM TranscriptComplete == Spec => []TranscriptIsComplete
<1>1. IInv => TranscriptIsComplete
  BY DEF IInv, RecordingsOK, TranscriptIsComplete
<1> QED
  BY <1>1, DesktopInvariant, PTL
=============================================================================
