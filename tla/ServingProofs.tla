--------------------------- MODULE ServingProofs ---------------------------
(***************************************************************************)
(* Proofs about the serving queue for every choice of requests, settings,  *)
(* vocabulary and model.                                                   *)
(***************************************************************************)
EXTENDS Serving, FiniteSetTheorems, SequenceTheorems, TLAPS

----------------------------------------------------------------------------
(* The cache cells a set of requests holds.  t is a function from ids to    *)
(* tasks, S a set of ids whose tasks are known.                             *)

CellsOf(t, S) == UNION {{id} \X (1 .. t[id].capacity) : id \in S}

\* Cells is CellsOf for the current tasks.
LEMMA CellsAreCellsOf ==
  ASSUME NEW S
  PROVE  Cells(S) = CellsOf(task, S)
BY DEF Cells, CellsOf

\* The cells of finitely many requests are finitely many.
LEMMA CellsFinite ==
  ASSUME NEW t, NEW S, IsFiniteSet(S), \A id \in S : t[id].capacity \in Nat
  PROVE  /\ IsFiniteSet(CellsOf(t, S))
         /\ Cardinality(CellsOf(t, S)) \in Nat
<1> DEFINE f == [id \in S |-> {id} \X (1 .. t[id].capacity)]
           T == {{id} \X (1 .. t[id].capacity) : id \in S}
<1>1. f \in Surjection(S, T)
  BY DEF Surjection
<1>2. IsFiniteSet(T)
  BY <1>1, FS_Surjection
<1>3. ASSUME NEW id \in S
      PROVE  IsFiniteSet({id} \X (1 .. t[id].capacity))
  <2>1. IsFiniteSet({id})
    BY FS_Singleton
  <2>2. IsFiniteSet(1 .. t[id].capacity)
    BY FS_Interval
  <2> QED
    BY <2>1, <2>2, FS_Product
<1>4. \A U \in T : IsFiniteSet(U)
  BY <1>3
<1>5. IsFiniteSet(UNION T)
  BY <1>2, <1>4, FS_UNION
<1> QED
  BY <1>5, FS_CardinalityType DEF CellsOf

\* What a subset of the requests holds can be given back without underflow.
LEMMA CellsDifference ==
  ASSUME NEW t, NEW S, IsFiniteSet(S), \A id \in S : t[id].capacity \in Nat,
         NEW U \in SUBSET S
  PROVE  /\ Cardinality(CellsOf(t, U)) <= Cardinality(CellsOf(t, S))
         /\ Cardinality(CellsOf(t, S \ U)) =
              Cardinality(CellsOf(t, S)) - Cardinality(CellsOf(t, U))
<1>1. IsFiniteSet(CellsOf(t, S))
  BY CellsFinite
<1>2. CellsOf(t, U) \in SUBSET CellsOf(t, S)
  BY DEF CellsOf
<1>3. CellsOf(t, S \ U) = CellsOf(t, S) \ CellsOf(t, U)
  BY DEF CellsOf
<1>4. CellsOf(t, S) \cap CellsOf(t, U) = CellsOf(t, U)
  BY <1>2
<1>5. Cardinality(CellsOf(t, U)) <= Cardinality(CellsOf(t, S))
  BY <1>1, <1>2, FS_Subset
<1>6. Cardinality(CellsOf(t, S) \ CellsOf(t, U)) =
        Cardinality(CellsOf(t, S))
          - Cardinality(CellsOf(t, S) \cap CellsOf(t, U))
  BY <1>1, FS_Difference
<1> QED
  BY <1>3, <1>4, <1>5, <1>6

\* A request of capacity c holds c token slots.
LEMMA InitialSegment ==
  ASSUME NEW c \in Nat
  PROVE  IsFiniteSet(1 .. c) /\ Cardinality(1 .. c) = c
<1>1. /\ IsFiniteSet(1 .. c)
      /\ Cardinality(1 .. c) = IF 1 > c THEN 0 ELSE c - 1 + 1
  BY FS_Interval
<1> QED
  BY <1>1

\* Admission adds the capacity of the admitted request.
LEMMA CellsAdd ==
  ASSUME NEW t, NEW S, IsFiniteSet(S), NEW new, new \notin S,
         \A id \in S \cup {new} : t[id].capacity \in Nat
  PROVE  Cardinality(CellsOf(t, S \cup {new})) =
           Cardinality(CellsOf(t, S)) + t[new].capacity
<1>1. IsFiniteSet(S \cup {new})
  BY FS_AddElement
<1>2. CellsOf(t, {new}) = {new} \X (1 .. t[new].capacity)
  BY DEF CellsOf
<1>3. Cardinality(CellsOf(t, {new})) = t[new].capacity
  <2>1. IsFiniteSet({new}) /\ Cardinality({new}) = 1
    BY FS_Singleton
  <2>2. t[new].capacity \in Nat
    OBVIOUS
  <2>3. /\ IsFiniteSet(1 .. t[new].capacity)
        /\ Cardinality(1 .. t[new].capacity) = t[new].capacity
    BY <2>2, InitialSegment
  <2>4. Cardinality({new} \X (1 .. t[new].capacity)) =
          Cardinality({new}) * Cardinality(1 .. t[new].capacity)
    BY <2>1, <2>3, FS_Product
  <2>5. Cardinality({new}) * Cardinality(1 .. t[new].capacity) =
          1 * t[new].capacity
    BY <2>1, <2>3
  <2>6. \A c \in Nat : 1 * c = c
    OBVIOUS
  <2> QED
    BY <1>2, <2>2, <2>4, <2>5, <2>6
<1>4. (S \cup {new}) \ {new} = S
  OBVIOUS
<1>5. /\ Cardinality(CellsOf(t, S \cup {new})) \in Nat
      /\ Cardinality(CellsOf(t, S)) \in Nat
  BY <1>1, CellsFinite
<1>6. Cardinality(CellsOf(t, (S \cup {new}) \ {new})) =
        Cardinality(CellsOf(t, S \cup {new}))
          - Cardinality(CellsOf(t, {new}))
  BY <1>1, CellsDifference, {new} \in SUBSET (S \cup {new})
<1> QED
  BY <1>3, <1>4, <1>5, <1>6

\* No requests hold nothing.
LEMMA CellsOfNothing ==
  ASSUME NEW t
  PROVE  Cardinality(CellsOf(t, {})) = 0
<1>1. CellsOf(t, {}) = {}
  BY DEF CellsOf
<1> QED
  BY <1>1, FS_EmptySet

\* Tasks assigned later do not change the cells of earlier requests.
LEMMA CellsOfSame ==
  ASSUME NEW t, NEW u, NEW S, \A id \in S : u[id] = t[id]
  PROVE  CellsOf(u, S) = CellsOf(t, S)
BY DEF CellsOf

----------------------------------------------------------------------------
(* The inductive invariant.                                                 *)

\* What was enqueued is known.
TasksKnown == \A id \in Ids : id < nextId => task[id] \in TaskType

\* The queue holds issued ids in arrival order.
WaitingOrdered ==
  \A i \in 1 .. Len(waiting) :
    /\ waiting[i] < nextId
    /\ \A j \in 1 .. Len(waiting) : i < j => waiting[i] < waiting[j]

HeldIssued ==
  /\ \A id \in Held : id < nextId
  /\ running \cap retired = {}
  /\ emitted \subseteq running

\* The counter is exact and within the budget, configured or not.
Accounted ==
  ~failed =>
    /\ reserved = Reservation(Held)
    /\ serving # None => reserved <= serving.budget

\* Without a setting nothing is queued or held; a step runs only when serving
\* works and ends with every completion returned; generate() borrows an empty
\* queue, which nobody can cancel from.
Configured ==
  /\ serving = None => waiting = <<>> /\ Held = {}
  /\ pc # "idle" => serving # None /\ ~failed
  /\ pc = "idle" => emitted = {}
  /\ blocking # None => retired = {} /\ serving # None
  /\ failed => waiting = <<>> /\ running = {} /\ servingPrefix = None

\* What holds no slot has no decoder state, and readbacks publish positions
\* inside the KV cache.
DecoderSound(d, contents) ==
  /\ d.ready <= Len(d.pending)
  /\ d.logical <= Len(contents)
  /\ \A i \in 1 .. Len(d.pending) : d.pending[i].position <= Len(contents)

DecodersSound ==
  \A id \in Ids :
    /\ id \notin Held => decode[id] = NoDecode
    /\ DecoderSound(decode[id], kv[id])

PrefixAligned ==
  servingPrefix # None => Len(servingPrefix.tokens) = Len(servingPrefix.kv)

IInv ==
  /\ TypeOK
  /\ TasksKnown
  /\ WaitingOrdered
  /\ NoOvertaking
  /\ HeldIssued
  /\ Accounted
  /\ Configured
  /\ DecodersSound
  /\ PrefixAligned

----------------------------------------------------------------------------
(* What the operators of the model return.                                  *)

CachesTyped ==
  /\ kv \in [Ids -> Seq(Tokens)]
  /\ search \in [Ids -> SearchType]
  /\ decode \in [Ids -> DecodeType]

\* The smaller of two integers is an integer below both.
LEMMA MinBound ==
  ASSUME NEW a \in Int, NEW b \in Int
  PROVE  Min2(a, b) \in Int /\ Min2(a, b) <= a /\ Min2(a, b) <= b
BY DEF Min2

\* A request that was never decoded has a sound decoder state.
LEMMA EmptyDecoder ==
  /\ NoSearch \in SearchType
  /\ NoDecode \in DecodeType
  /\ \A contents \in Seq(Tokens) : DecoderSound(NoDecode, contents)
BY TokensAssumption
   DEF NoSearch, NoDecode, SearchType, DecodeType, DecoderSound

\* Forgetting requests keeps the decoder state of the others.
LEMMA ForgetKeeps ==
  ASSUME CachesTyped, NEW S, Forget(S)
  PROVE  /\ CachesTyped'
         /\ \A id \in Ids : /\ id \in S => kv'[id] = <<>> /\ decode'[id] = NoDecode
                           /\ id \notin S => /\ kv'[id] = kv[id]
                                            /\ decode'[id] = decode[id]
BY EmptyDecoder DEF CachesTyped, Forget

\* Destroying requests leaves the decoder states of the rest sound.
LEMMA ForgetSound ==
  ASSUME CachesTyped, DecodersSound, NEW S, Forget(S),
         Held \subseteq Held' \cup S
  PROVE  DecodersSound'
<1> SUFFICES ASSUME NEW id \in Ids
             PROVE  /\ id \notin Held' => decode'[id] = NoDecode
                    /\ DecoderSound(decode'[id], kv'[id])
  BY DEF DecodersSound, DecoderSound, Held
<1>1. kv'[id] \in Seq(Tokens)
  BY ForgetKeeps DEF CachesTyped
<1>2. CASE id \in S
  <2>1. decode'[id] = NoDecode
    BY <1>2 DEF Forget
  <2>2. DecoderSound(NoDecode, kv'[id])
    BY <1>1, EmptyDecoder
  <2> QED
    BY <2>1, <2>2, <1>2
<1>3. CASE id \notin S
  BY <1>3, ForgetKeeps DEF DecodersSound
<1> QED
  BY <1>2, <1>3

\* Accepting a token yields a search state.
LEMMA AcceptedType ==
  ASSUME NEW s \in SearchType, NEW token \in Tokens, NEW t \in TaskType
  PROVE  Accepted(s, token, t) \in SearchType
BY DEF Accepted, SearchType, TaskType

\* An initial part of a sequence has its element type and its length.
LEMMA PrefixOfSeq ==
  ASSUME NEW S, NEW s \in Seq(S), NEW n \in 0 .. Len(s)
  PROVE  /\ SubSeq(s, 1, n) \in Seq(S)
         /\ Len(SubSeq(s, 1, n)) = n
<1>1. n \in Nat /\ Len(s) \in Nat
  BY LenProperties
<1>2. \A i \in 1 .. n : s[i] \in S
  BY <1>1, ElementOfSeq
<1>3. /\ SubSeq(s, 1, n) \in Seq(S)
      /\ Len(SubSeq(s, 1, n)) = IF 1 <= n THEN n - 1 + 1 ELSE 0
  BY <1>1, <1>2, SubSeqProperties
<1> QED
  BY <1>1, <1>3

\* The recorded tokens of a prefix are as many as its KV contents.
LEMMA RetainedType ==
  ASSUME serving \in SettingType, NEW t \in TaskType,
         NEW contents \in Seq(Tokens), NEW ids \in Seq(Tokens)
  PROVE  /\ Retained(t, contents, ids) \in PrefixType \cup {None}
         /\ Retained(t, contents, ids) # None =>
              Len(Retained(t, contents, ids).tokens) =
              Len(Retained(t, contents, ids).kv)
<1> DEFINE text == t.prompt \o ids
           kept == SubSeq(text, 1, Len(contents))
<1>1. t.prompt \in Seq(Tokens)
  BY DEF TaskType
<1>2. /\ text \in Seq(Tokens)
      /\ Len(text) = Len(t.prompt) + Len(ids)
  BY <1>1, ConcatProperties
<1>3. CASE Len(contents) > Len(t.prompt) + Len(ids)
  BY <1>3 DEF Retained
<1>4. CASE Len(contents) <= Len(t.prompt) + Len(ids)
  <2>1. Len(contents) \in 0 .. Len(text)
    BY <1>1, <1>2, <1>4, LenProperties
  <2>2. kept \in Seq(Tokens) /\ Len(kept) = Len(contents)
    BY <1>2, <2>1, PrefixOfSeq
  <2>3. EffectiveChunk(t, serving) \in Nat
    BY DEF EffectiveChunk, Min2, TaskType, SettingType
  <2> QED
    BY <2>2, <2>3 DEF Retained, PrefixType, TaskType, None
<1> QED
  BY <1>1, <1>3, <1>4, LenProperties

----------------------------------------------------------------------------
(* The reservation counter.                                                 *)

\* Requests that hold slots are finitely many and their tasks are known.
LEMMA HeldFinite ==
  ASSUME TypeOK, TasksKnown, HeldIssued, NEW S \in SUBSET Held
  PROVE  /\ IsFiniteSet(S)
         /\ \A id \in S : task[id] \in TaskType /\ task[id].capacity \in Nat
<1>1. IsFiniteSet(Ids)
  BY LimitsAssumption, FS_Interval DEF Ids
<1>2. S \in SUBSET Ids
  BY DEF TypeOK, Held
<1> QED
  BY <1>1, <1>2, FS_Subset DEF TasksKnown, HeldIssued, TaskType

\* What some of the requests hold is a natural number.
LEMMA ReservationType ==
  ASSUME TypeOK, TasksKnown, HeldIssued, NEW S \in SUBSET Held
  PROVE  Reservation(S) \in Nat
BY HeldFinite, CellsFinite, CellsAreCellsOf DEF Reservation

\* Giving back what some of the requests hold leaves the rest exactly.
LEMMA ReleaseExact ==
  ASSUME TypeOK, TasksKnown, HeldIssued, NEW S \in SUBSET Held, Release(S),
         Held' = Held \ S, \A id \in Held : task'[id] = task[id]
  PROVE  /\ reserved' \in Int
         /\ reserved = Reservation(Held) =>
              /\ reserved' = Reservation(Held)'
              /\ reserved' <= reserved
<1>1. /\ Reservation(S) \in Nat
      /\ Reservation(Held) \in Nat
  BY ReservationType
<1>2. reserved' \in Int
  BY <1>1, LimitsAssumption DEF Release, Minus, TypeOK
<1>3. /\ Reservation(S) <= Reservation(Held)
      /\ Reservation(Held \ S) = Reservation(Held) - Reservation(S)
  BY HeldFinite, CellsDifference, CellsAreCellsOf DEF Reservation
<1>4. Reservation(Held)' = Reservation(Held \ S)
  <2>1. CellsOf(task', Held \ S) = CellsOf(task, Held \ S)
    BY DEF CellsOf
  <2> QED
    BY <2>1 DEF Reservation, Cells, CellsOf
<1> QED
  BY <1>1, <1>2, <1>3, <1>4 DEF Release, Minus

\* An empty queue holds nothing.
LEMMA ReservationOfNothing == Reservation({}) = 0
BY CellsOfNothing, CellsAreCellsOf DEF Reservation

\* Reaping is exact whatever else the call changes.
LEMMA ReapKeeps ==
  ASSUME TypeOK, TasksKnown, HeldIssued, DecodersSound, ReapRetired,
         running' = running, \A id \in Held : task'[id] = task[id]
  PROVE  /\ CachesTyped'
         /\ retired' \subseteq retired
         /\ DecodersSound'
         /\ reserved' \in Int
         /\ reserved = Reservation(Held) =>
              /\ reserved' = Reservation(Held)'
              /\ reserved' <= reserved
<1> DEFINE reaped == {id \in retired : Drained(id)}
<1>1. /\ retired' = retired \ reaped
      /\ Release(reaped)
      /\ Forget(reaped)
  BY DEF ReapRetired
<1>2. reaped \in SUBSET Held /\ Held' = Held \ reaped
  BY <1>1 DEF Held, HeldIssued
<1>3. CachesTyped /\ Held \subseteq Held' \cup reaped
  BY <1>2 DEF TypeOK, CachesTyped
<1>4. CachesTyped' /\ DecodersSound'
  BY <1>1, <1>3, ForgetKeeps, ForgetSound
<1> QED
  BY <1>1, <1>2, <1>4, ReleaseExact

----------------------------------------------------------------------------
(* Every action keeps the invariant.                                        *)

USE DEF config, arrivals, slots, caches, results, locals, others, Goto, Phases

\* step() starts by reaping.
LEMMA StepBeginKeeps == IInv /\ StepBegin => IInv'
<1> SUFFICES ASSUME IInv, StepBegin PROVE IInv'
  OBVIOUS
<1> USE DEF IInv
<1>1. ReapRetired /\ running' = running /\ task' = task
  BY DEF StepBegin
<1>2. /\ CachesTyped'
      /\ retired' \subseteq retired
      /\ DecodersSound'
      /\ reserved' \in Int
      /\ reserved = Reservation(Held) =>
           /\ reserved' = Reservation(Held)'
           /\ reserved' <= reserved
  BY <1>1, ReapKeeps
<1>3. TypeOK'
  BY <1>2 DEF StepBegin, TypeOK, CachesTyped
<1>4. Accounted'
  BY <1>2 DEF StepBegin, Accounted, TypeOK, SettingType
<1>5. (TasksKnown /\ WaitingOrdered /\ NoOvertaking /\ HeldIssued)'
  BY <1>2 DEF StepBegin, TasksKnown, WaitingOrdered, NoOvertaking, HeldIssued,
              Held
<1>6. (Configured /\ PrefixAligned)'
  BY <1>2 DEF StepBegin, Configured, PrefixAligned, Held
<1> QED
  BY <1>2, <1>3, <1>4, <1>5, <1>6

\* Admission takes the oldest waiting request, which no slot holds yet.
LEMMA AdmitKeeps == IInv /\ Admit => IInv'
<1> SUFFICES ASSUME IInv, Admit PROVE IInv'
  OBVIOUS
<1> USE DEF IInv
<1> DEFINE new == Head(waiting)
<1>1. /\ waiting # <<>>
      /\ task[new].capacity <= Minus(serving.budget, reserved)
      /\ running' = running \cup {new}
      /\ reserved' = reserved + task[new].capacity
      /\ waiting' = Tail(waiting)
      /\ servingPrefix' = None
      /\ UNCHANGED <<retired, task, nextId, search, decode, serving, failed>>
  BY DEF Admit, CanAdmit
<1>2. serving \in SettingType /\ serving # None /\ ~failed
  BY DEF Admit, Admitting, Configured, TypeOK
<1>3. /\ new = waiting[1]
      /\ new \in Ids
      /\ Len(waiting) \in Nat \ {0}
      /\ waiting' \in Seq(Ids)
      /\ Len(waiting') = Len(waiting) - 1
      /\ \A i \in 1 .. Len(waiting') : waiting'[i] = waiting[i + 1]
  BY <1>1, HeadTailProperties, EmptySeq DEF TypeOK
<1>4. new \notin Held /\ new < nextId
  <2>1. 1 \in 1 .. Len(waiting)
    BY <1>3
  <2>2. \A id \in Held : id < waiting[1]
    BY <2>1 DEF NoOvertaking
  <2>3. ~(new < new)
    BY <1>3 DEF Ids
  <2> QED
    BY <1>3, <2>1, <2>2, <2>3 DEF WaitingOrdered
<1>5. Held' = Held \cup {new}
  BY <1>1 DEF Held
<1>6. kv' \in [Ids -> Seq(Tokens)] /\ \A id \in Ids \ {new} : kv'[id] = kv[id]
  <2>1. CASE UNCHANGED kv
    BY <2>1 DEF TypeOK
  <2>2. CASE \E n \in 0 .. Len(task[new].prompt) :
               /\ Common(servingPrefix.tokens, task[new].prompt, n)
               /\ kv' = [kv EXCEPT ![new] = SubSeq(servingPrefix.kv, 1, n)]
             /\ servingPrefix # None
    <3>1. PICK n \in 0 .. Len(task[new].prompt) :
               /\ Common(servingPrefix.tokens, task[new].prompt, n)
               /\ kv' = [kv EXCEPT ![new] = SubSeq(servingPrefix.kv, 1, n)]
      BY <2>2
    <3>2. servingPrefix.kv \in Seq(Tokens) /\ servingPrefix.tokens \in Seq(Tokens)
      BY <2>2 DEF TypeOK, PrefixType
    <3>3. n \in 0 .. Len(servingPrefix.kv)
      <4>1. task[new].prompt \in Seq(Tokens)
        BY <1>3, <1>4 DEF TasksKnown, TaskType
      <4>2. /\ n \in 0 .. Min2(Len(servingPrefix.tokens),
                              Len(task[new].prompt) - 1)
            /\ Len(servingPrefix.tokens) = Len(servingPrefix.kv)
        BY <2>2, <3>1 DEF Common, PrefixAligned
      <4> QED
        BY <3>2, <4>1, <4>2, LenProperties DEF Min2
    <3>4. SubSeq(servingPrefix.kv, 1, n) \in Seq(Tokens)
      BY <3>2, <3>3, PrefixOfSeq
    <3> QED
      BY <3>1, <3>4 DEF TypeOK
  <2> QED
    BY <2>1, <2>2 DEF Admit, Reusable
<1>7. Accounted'
  <2>1. \A id \in Held \cup {new} : task[id] \in TaskType
    BY <1>3, <1>4, HeldFinite DEF TasksKnown
  <2>2. Reservation(Held \cup {new}) = Reservation(Held) + task[new].capacity
    BY <1>4, <2>1, HeldFinite, CellsAdd, CellsAreCellsOf
       DEF Reservation, TaskType
  <2>3. Reservation(Held)' = Reservation(Held \cup {new})
    BY <1>1, <1>5 DEF Reservation, Cells
  <2>4. reserved = Reservation(Held) /\ reserved <= serving.budget
    BY <1>2 DEF Accounted
  <2>5. reserved' <= serving.budget
    <3>1. task[new].capacity \in Nat /\ serving.budget \in Nat
      BY <1>2, <2>1 DEF TaskType, SettingType
    <3>2. reserved \in Int
      BY DEF TypeOK
    <3> QED
      BY <1>1, <2>4, <3>1, <3>2 DEF Minus
  <2> QED
    BY <1>1, <2>2, <2>3, <2>4, <2>5 DEF Accounted
<1>8. TypeOK'
  <2>1. reserved' \in Int
    BY <1>1, <1>3, <1>4 DEF TypeOK, TasksKnown, TaskType
  <2> QED
    BY <1>1, <1>3, <1>6, <2>1, SMTT(90) DEF Admit, TypeOK
<1>9. NoOvertaking' /\ WaitingOrdered' /\ HeldIssued' /\ TasksKnown'
  <2>1. NoOvertaking'
    BY <1>1, <1>3, <1>5 DEF NoOvertaking, WaitingOrdered
  <2>2. WaitingOrdered'
    BY <1>1, <1>3 DEF WaitingOrdered
  <2>3. HeldIssued' /\ TasksKnown'
    BY <1>1, <1>4, <1>5 DEF Admit, HeldIssued, TasksKnown, Held
  <2> QED
    BY <2>1, <2>2, <2>3
<1>10. DecodersSound'
  <2>1. decode[new] = NoDecode
    BY <1>3, <1>4 DEF DecodersSound
  <2>2. \A id \in Ids : DecoderSound(decode[id], kv'[id])
    BY <1>6, <2>1, EmptyDecoder DEF DecodersSound
  <2> QED
    BY <1>1, <1>5, <2>2 DEF DecodersSound, DecoderSound
<1>11. Configured' /\ PrefixAligned'
  BY <1>1, <1>2 DEF Admit, Configured, PrefixAligned
<1> QED
  BY <1>7, <1>8, <1>9, <1>10, <1>11

\* Phases that end without touching a request.
LEMMA MovesKeep ==
  ASSUME IInv,
         \/ AdmitDone \/ NoDecodeRows \/ AheadPollDone \/ AheadDone
         \/ NoPrefill \/ GenerateSerially
  PROVE  IInv'
<1> USE DEF IInv
<1>1. TypeOK'
  BY DEF AdmitDone, Admitting, TakePending, NoDecodeRows, AheadPollDone,
         AheadDone, NoPrefill, GenerateSerially, Idle, TypeOK
<1>2. UNCHANGED <<arrivals, slots, caches, emitted, serving, failed, blocking>>
  BY DEF AdmitDone, NoDecodeRows, AheadPollDone, AheadDone, NoPrefill,
         GenerateSerially
<1>3. (TasksKnown /\ WaitingOrdered /\ NoOvertaking /\ HeldIssued)'
  BY <1>2 DEF TasksKnown, WaitingOrdered, NoOvertaking, HeldIssued, Held
<1>4. (Accounted /\ DecodersSound)'
  BY <1>2 DEF Accounted, Reservation, Cells, DecodersSound, DecoderSound, Held
<1>5. (Configured /\ PrefixAligned)'
  BY <1>2 DEF AdmitDone, Admitting, NoDecodeRows, AheadPollDone, AheadDone,
              NoPrefill, GenerateSerially, Idle, Configured, PrefixAligned, Held
<1> QED
  BY <1>1, <1>3, <1>4, <1>5

\* Completing a request records a text and may retain a well-formed prefix.
LEMMA CompleteKeeps ==
  ASSUME TypeOK, serving \in SettingType, NEW id \in Ids, task[id] \in TaskType,
         NEW s \in SearchType, NEW contents \in Seq(Tokens),
         Complete(id, s, contents)
  PROVE  /\ events' \in [Ids -> Seq(Seq(Tokens))]
         /\ emitted' = emitted \cup {id}
         /\ servingPrefix' \in PrefixType \cup {None}
         /\ PrefixAligned'
<1>1. s.ids \in Seq(Tokens)
  BY DEF SearchType
<1>2. events' \in [Ids -> Seq(Seq(Tokens))]
  BY <1>1, AppendProperties DEF Complete, TypeOK
<1> QED
  BY <1>1, <1>2, RetainedType DEF Complete, PrefixAligned

\* Accepting selections keeps the invariant.
LEMMA AcceptKeeps == IInv /\ Accept => IInv'
<1> SUFFICES ASSUME IInv, Accept PROVE IInv'
  OBVIOUS
<1> USE DEF IInv
<1>1. PICK e \in batch :
        /\ batch' = batch \ {e}
        /\ IF Served(e.id)
           THEN /\ search' = [search EXCEPT ![e.id] =
                               Accepted(search[e.id], e.token, task[e.id])]
                /\ \/ Complete(e.id,
                               Accepted(search[e.id], e.token, task[e.id]),
                               kv[e.id])
                   \/ UNCHANGED results
           ELSE UNCHANGED <<results, search>>
  BY DEF Accept
<1>2. /\ UNCHANGED <<config, arrivals, slots, kv, decode, pc>>
      /\ UNCHANGED <<decoded, skipped, others>>
  BY DEF Accept
<1>3. /\ e.id \in Ids /\ e.token \in Tokens
      /\ serving \in SettingType
      /\ batch' \subseteq Selection
  BY <1>1 DEF Accept, Accepting, Configured, TypeOK, Selection
<1>4. /\ search' \in [Ids -> SearchType]
      /\ events' \in [Ids -> Seq(Seq(Tokens))]
      /\ emitted' \subseteq emitted \cup running
      /\ servingPrefix' \in PrefixType \cup {None}
      /\ PrefixAligned'
  <2>1. CASE Served(e.id)
    <3>1. task[e.id] \in TaskType /\ e.id \in running
      BY <1>3, <2>1 DEF Served, HeldIssued, Held, TasksKnown
    <3>2. Accepted(search[e.id], e.token, task[e.id]) \in SearchType
      BY <1>3, <3>1, AcceptedType DEF TypeOK
    <3>3. kv[e.id] \in Seq(Tokens)
      BY <1>3 DEF TypeOK
    <3>4. search' \in [Ids -> SearchType]
      BY <1>1, <2>1, <3>2 DEF TypeOK
    <3>5. CASE UNCHANGED results
      BY <3>4, <3>5 DEF TypeOK, PrefixAligned
    <3>6. CASE Complete(e.id, Accepted(search[e.id], e.token, task[e.id]),
                        kv[e.id])
      BY <1>3, <3>1, <3>2, <3>3, <3>4, <3>6, CompleteKeeps
    <3> QED
      BY <1>1, <2>1, <3>5, <3>6
  <2>2. CASE ~Served(e.id)
    BY <1>1, <2>2 DEF TypeOK, PrefixAligned
  <2> QED
    BY <2>1, <2>2
<1>5. TypeOK'
  BY <1>2, <1>3, <1>4 DEF TypeOK
<1>6. (TasksKnown /\ WaitingOrdered /\ NoOvertaking)'
  BY <1>2 DEF TasksKnown, WaitingOrdered, NoOvertaking, Held
<1>7. HeldIssued'
  BY <1>2, <1>4 DEF HeldIssued, Held
<1>8. (Accounted /\ DecodersSound)'
  BY <1>2 DEF Accounted, Reservation, Cells, DecodersSound, DecoderSound, Held
<1>9. Configured'
  BY <1>2 DEF Accept, Accepting, Configured, Held
<1> QED
  BY <1>4, <1>5, <1>6, <1>7, <1>8, <1>9

\* Completed requests leave and give back exactly what they held.
LEMMA RetireKeeps == IInv /\ Retire => IInv'
<1> SUFFICES ASSUME IInv, Retire PROVE IInv'
  OBVIOUS
<1> USE DEF IInv
<1> DEFINE done == running \cap emitted
<1>1. /\ running' = running \ done
      /\ emitted' = emitted \ done
      /\ Release(done)
      /\ Forget(done)
      /\ UNCHANGED <<config, arrivals, retired, servingPrefix>>
  BY DEF Retire
<1>2. done \in SUBSET Held /\ Held' = Held \ done
  BY <1>1 DEF Held, HeldIssued
<1>3. CachesTyped' /\ DecodersSound'
  <2>1. CachesTyped /\ Held \subseteq Held' \cup done
    BY <1>2 DEF CachesTyped, TypeOK
  <2> QED
    BY <1>1, <2>1, ForgetKeeps, ForgetSound
<1>4. /\ reserved' \in Int
      /\ reserved = Reservation(Held) =>
           /\ reserved' = Reservation(Held)'
           /\ reserved' <= reserved
  BY <1>1, <1>2, ReleaseExact
<1>5. Accounted'
  BY <1>1, <1>4 DEF Accounted, TypeOK, SettingType
<1>6. /\ answers' \in [Ids -> Seq(Seq(Tokens))]
      /\ events' \in [Ids -> Seq(Seq(Tokens))]
  <2>1. \A id \in Ids : answers[id] \o events[id] \in Seq(Seq(Tokens))
    BY ConcatProperties DEF TypeOK
  <2>2. NoEvents \in [Ids -> Seq(Seq(Tokens))]
    BY EmptySeq DEF NoEvents
  <2> QED
    BY <2>1, <2>2 DEF Retire, TypeOK
<1>7. TypeOK'
  BY <1>1, <1>3, <1>4, <1>6 DEF Retire, Accepting, TypeOK, CachesTyped
<1>8. (TasksKnown /\ WaitingOrdered /\ NoOvertaking /\ HeldIssued)'
  BY <1>1, <1>2 DEF TasksKnown, WaitingOrdered, NoOvertaking, HeldIssued, Held
<1>9. (Configured /\ PrefixAligned)'
  <2>1. emitted' = {}
    BY <1>1 DEF HeldIssued
  <2>2. pc # "idle" /\ retired' = retired /\ running' \subseteq running
    BY <1>1 DEF Retire, Accepting
  <2> QED
    BY <1>1, <1>2, <2>1, <2>2 DEF Configured, PrefixAligned, Held
<1> QED
  BY <1>3, <1>5, <1>7, <1>8, <1>9

\* Appending to KV caches leaves every published position inside them.
LEMMA GrowthKeepsSound ==
  ASSUME TypeOK, DecodersSound, kv' \in [Ids -> Seq(Tokens)],
         \A id \in Ids : Len(kv[id]) <= Len(kv'[id]),
         Held' = Held, decode' = decode
  PROVE  DecodersSound'
<1> SUFFICES ASSUME NEW id \in Ids
             PROVE  DecoderSound(decode[id], kv'[id])
  BY DEF DecodersSound, DecoderSound
<1>1. /\ decode[id] \in DecodeType
      /\ Len(kv[id]) \in Nat /\ Len(kv'[id]) \in Nat
      /\ Len(kv[id]) <= Len(kv'[id])
  BY LenProperties DEF TypeOK
<1>2. DecoderSound(decode[id], kv[id])
  BY DEF DecodersSound
<1>3. /\ decode[id].logical \in Nat
      /\ decode[id].pending \in Seq([token : Tokens, position : Nat])
  BY <1>1 DEF DecodeType
<1>4. \A i \in 1 .. Len(decode[id].pending) :
        decode[id].pending[i].position \in Nat
  <2>1. \A i \in 1 .. Len(decode[id].pending) :
          decode[id].pending[i] \in [token : Tokens, position : Nat]
    BY <1>3, ElementOfSeq
  <2> QED
    BY <2>1
<1> QED
  BY <1>1, <1>2, <1>3, <1>4 DEF DecoderSound

\* What the caller's bookkeeping does not see of a step of the model.
LEMMA ModelCallKeeps ==
  ASSUME IInv, TypeOK', DecodersSound', pc # "idle", pc' # "idle",
         UNCHANGED <<config, arrivals, slots, emitted, servingPrefix>>
  PROVE  IInv'
<1> USE DEF IInv
<1>1. (TasksKnown /\ WaitingOrdered /\ NoOvertaking /\ HeldIssued)'
  BY DEF TasksKnown, WaitingOrdered, NoOvertaking, HeldIssued, Held
<1>2. Accounted'
  BY DEF Accounted, Reservation, Cells, Held
<1>3. (Configured /\ PrefixAligned)'
  BY DEF Configured, PrefixAligned, Held
<1> QED
  BY <1>1, <1>2, <1>3

\* A packed decode keeps the invariant.
LEMMA DecodeBatchKeeps == IInv /\ DecodeBatch => IInv'
<1> SUFFICES ASSUME IInv, DecodeBatch PROVE IInv'
  OBVIOUS
<1> USE DEF IInv
<1>1. /\ kv' \in [Ids -> Seq(Tokens)]
      /\ \A id \in Ids : Len(kv[id]) <= Len(kv'[id])
  <2>1. \A id \in Ids : /\ Append(kv[id], search[id].token) \in Seq(Tokens)
                       /\ Len(Append(kv[id], search[id].token)) = Len(kv[id]) + 1
                       /\ kv[id] \in Seq(Tokens) /\ Len(kv[id]) \in Nat
    BY AppendProperties, LenProperties DEF TypeOK, SearchType
  <2>2. \A id \in Ids : \/ kv'[id] = kv[id]
                       \/ kv'[id] = Append(kv[id], search[id].token)
    BY DEF DecodeBatch
  <2>3. kv' \in [Ids -> Seq(Tokens)]
    BY <2>1 DEF DecodeBatch
  <2> QED
    BY <2>1, <2>2, <2>3
<1>2. UNCHANGED <<config, arrivals, slots, emitted, servingPrefix, decode>>
  BY DEF DecodeBatch
<1>3. DecodersSound'
  BY <1>1, <1>2, GrowthKeepsSound DEF Held
<1>4. TypeOK'
  BY <1>1 DEF DecodeBatch, TypeOK
<1> QED
  BY <1>2, <1>3, <1>4, ModelCallKeeps DEF DecodeBatch

\* A prefill chunk keeps the invariant.
LEMMA PrefillKeeps == IInv /\ Prefill => IInv'
<1> SUFFICES ASSUME IInv, Prefill PROVE IInv'
  OBVIOUS
<1> USE DEF IInv
<1>1. PICK id \in Unprefilled :
        LET end      == Len(kv[id]) + ChunkLength(id)
            contents == kv[id] \o SubSeq(task[id].prompt, Len(kv[id]) + 1, end)
            selected == {[id |-> id, token |-> Select(contents)]}
        IN  /\ selected \subseteq Selection
            /\ prefillAfter' = id
            /\ kv' = [kv EXCEPT ![id] = contents]
            /\ \/ pending' = pending \cup selected /\ UNCHANGED batch
               \/ batch' = selected /\ UNCHANGED pending
               \/ UNCHANGED <<batch, pending>>
  BY DEF Prefill
<1> DEFINE last == Len(kv[id]) + ChunkLength(id)
           part == SubSeq(task[id].prompt, Len(kv[id]) + 1, last)
<1>2. id \in Ids /\ task[id] \in TaskType /\ serving \in SettingType
  BY DEF Unprefilled, HeldIssued, Held, TasksKnown, TypeOK, Prefill, Configured
<1>3. /\ kv[id] \in Seq(Tokens) /\ Len(kv[id]) \in Nat
      /\ task[id].prompt \in Seq(Tokens) /\ Len(task[id].prompt) \in Nat
  BY <1>2, LenProperties DEF TypeOK, TaskType
<1>4. last \in Int /\ last <= Len(task[id].prompt)
  <2>1. task[id].chunk \in Nat /\ serving.chunk \in Nat
    BY <1>2 DEF TaskType, SettingType
  <2>2. /\ ChunkLength(id) \in Int
        /\ ChunkLength(id) <= Len(task[id].prompt) - Len(kv[id])
    <3>1. EffectiveChunk(task[id], serving) \in Int
      BY <2>1 DEF EffectiveChunk, Min2
    <3>2. Len(task[id].prompt) - Len(kv[id]) \in Int
      BY <1>3
    <3> QED
      BY <3>1, <3>2, MinBound DEF ChunkLength
  <2>3. \A a, b, c \in Int : b <= c - a => a + b \in Int /\ a + b <= c
    OBVIOUS
  <2>4. Len(kv[id]) \in Int /\ Len(task[id].prompt) \in Int
    BY <1>3
  <2> QED
    BY <2>2, <2>3, <2>4, Zenon
<1>5. part \in Seq(Tokens)
  <2>1. \A i \in Len(kv[id]) + 1 .. last : task[id].prompt[i] \in Tokens
    BY <1>3, <1>4, ElementOfSeq
  <2> QED
    BY <1>3, <1>4, <2>1, SubSeqProperties
<1>6. /\ kv[id] \o part \in Seq(Tokens)
      /\ Len(kv[id]) <= Len(kv[id] \o part)
  <2>1. Len(part) \in Nat
    BY <1>5, LenProperties
  <2>2. /\ kv[id] \o part \in Seq(Tokens)
        /\ Len(kv[id] \o part) = Len(kv[id]) + Len(part)
    BY <1>3, <1>5, ConcatProperties
  <2> QED
    BY <1>3, <2>1, <2>2
<1>7. kv' = [kv EXCEPT ![id] = kv[id] \o part]
  BY <1>1
<1>8. /\ kv' \in [Ids -> Seq(Tokens)]
      /\ \A other \in Ids : Len(kv[other]) <= Len(kv'[other])
  <2>1. \A other \in Ids : Len(kv[other]) <= Len(kv[other])
    BY LenProperties DEF TypeOK
  <2> QED
    BY <1>2, <1>6, <1>7, <2>1 DEF TypeOK
<1>9. UNCHANGED <<config, arrivals, slots, emitted, servingPrefix, decode>>
  BY DEF Prefill
<1>10. DecodersSound'
  BY <1>8, <1>9, GrowthKeepsSound DEF Held
<1>11. TypeOK'
  <2>1. pending' \subseteq Selection /\ batch' \subseteq Selection
    BY <1>1 DEF TypeOK
  <2>2. prefillAfter' \in 0 .. IdLimit
    BY <1>1, <1>2, LimitsAssumption DEF Ids
  <2> QED
    BY <1>8, <1>9, <2>1, <2>2 DEF Prefill, TypeOK
<1> QED
  BY <1>9, <1>10, <1>11, ModelCallKeeps DEF Prefill

\* Uploading the first token keeps the invariant.
LEMMA AheadBeginKeeps == IInv /\ AheadBegin => IInv'
<1> SUFFICES ASSUME IInv, AheadBegin PROVE IInv'
  OBVIOUS
<1> USE DEF IInv
<1>1. PICK id \in running :
        decode' = decode \/ decode' = [decode EXCEPT ![id] = DecodeFrom(id)]
  BY DEF AheadBegin, DecodeRows, Ready
<1>2. UNCHANGED <<config, arrivals, slots, results, kv>>
  BY DEF AheadBegin
<1>3. id \in Ids /\ kv[id] \in Seq(Tokens) /\ search[id] \in SearchType
  BY DEF TypeOK
<1>4. DecodeFrom(id) \in DecodeType /\ DecoderSound(DecodeFrom(id), kv[id])
  <2>1. Len(kv[id]) \in Nat
    BY <1>3, LenProperties
  <2> QED
    BY <1>3, <2>1 DEF DecodeFrom, DecodeType, SearchType, DecoderSound
<1>5. TypeOK'
  BY <1>1, <1>3, <1>4 DEF AheadBegin, TypeOK
<1>6. DecodersSound'
  <2>1. \A other \in Ids : DecoderSound(decode'[other], kv[other])
    BY <1>1, <1>3, <1>4 DEF DecodersSound, TypeOK
  <2>2. \A other \in Ids : other \notin Held => decode'[other] = NoDecode
    BY <1>1, <1>3 DEF DecodersSound, TypeOK, Held
  <2> QED
    BY <1>2, <2>1, <2>2 DEF DecodersSound, DecoderSound, Held
<1> QED
  BY <1>2, <1>5, <1>6, ModelCallKeeps DEF AheadBegin

\* A decoder that submitted one more token is a decoder state.
LEMMA SubmittedType ==
  ASSUME NEW d \in DecodeType, NEW token \in Tokens, NEW n \in Nat,
         NEW q \in Seq([token : Tokens, position : Nat])
  PROVE  [d EXCEPT !.token = token, !.pending = q, !.submitted = n]
           \in DecodeType
<1> DEFINE d1 == [d EXCEPT !.token = token]
           d2 == [d1 EXCEPT !.pending = q]
           d3 == [d2 EXCEPT !.submitted = n]
<1>1. d1 \in DecodeType
  BY DEF DecodeType
<1> HIDE DEF d1
<1>2. d2 \in DecodeType
  BY <1>1 DEF DecodeType
<1> HIDE DEF d2
<1>3. d3 \in DecodeType
  BY <1>2 DEF DecodeType
<1> QED
  BY <1>3 DEF d1, d2

\* Decoding ahead of the host keeps the invariant: the position that the
\* readback will publish lies inside the KV cache.
LEMMA AheadSubmitKeeps == IInv /\ AheadSubmit => IInv'
<1> SUFFICES ASSUME IInv, AheadSubmit PROVE IInv'
  OBVIOUS
<1> USE DEF IInv
<1>1. PICK id \in running :
        LET contents == Append(kv[id], decode[id].token)
            token    == Select(contents)
        IN  /\ token \in Tokens
            /\ kv' = [kv EXCEPT ![id] = contents]
            /\ decode' = [decode EXCEPT
                 ![id].token = token,
                 ![id].pending =
                   Append(@, [token |-> token, position |-> Len(contents)]),
                 ![id].submitted = @ + 1]
  BY DEF AheadSubmit
<1> DEFINE contents == Append(kv[id], decode[id].token)
           d == decode[id]
           r == [token |-> Select(contents), position |-> Len(contents)]
           e == [d EXCEPT !.token = Select(contents),
                          !.pending = Append(@, r), !.submitted = @ + 1]
<1>2. UNCHANGED <<config, arrivals, slots, results, search>>
  BY DEF AheadSubmit
<1>3. id \in Ids /\ kv[id] \in Seq(Tokens) /\ d \in DecodeType
  BY DEF TypeOK
<1>4. /\ contents \in Seq(Tokens)
      /\ Len(kv[id]) \in Nat
      /\ Len(contents) = Len(kv[id]) + 1
  BY <1>3, AppendProperties, LenProperties DEF DecodeType
<1>5. /\ kv' = [kv EXCEPT ![id] = contents]
      /\ decode' = [decode EXCEPT ![id] = e]
  BY <1>1, <1>3 DEF TypeOK
<1>6. /\ d.pending \in Seq([token : Tokens, position : Nat])
      /\ Len(d.pending) \in Nat
      /\ r \in [token : Tokens, position : Nat]
  BY <1>1, <1>3, <1>4, LenProperties DEF DecodeType
<1>7. /\ Append(d.pending, r) \in Seq([token : Tokens, position : Nat])
      /\ Len(Append(d.pending, r)) = Len(d.pending) + 1
      /\ \A i \in 1 .. Len(d.pending) : Append(d.pending, r)[i] = d.pending[i]
      /\ Append(d.pending, r)[Len(d.pending) + 1] = r
  BY <1>6, AppendProperties
<1>8. /\ e \in DecodeType
      /\ e.pending = Append(d.pending, r)
      /\ e.ready = d.ready
      /\ e.logical = d.logical
  <2>1. /\ e.pending = Append(d.pending, r)
        /\ e.ready = d.ready
        /\ e.logical = d.logical
    BY <1>3 DEF DecodeType
  <2>2. e \in DecodeType
    <3> DEFINE q == Append(d.pending, r)
    <3>1. e = [d EXCEPT !.token = Select(contents), !.pending = q,
                        !.submitted = d.submitted + 1]
      BY <1>3 DEF DecodeType
    <3>2. Select(contents) \in Tokens /\ d.submitted + 1 \in Nat
      BY <1>1, <1>3 DEF DecodeType
    <3> QED
      BY <1>3, <1>7, <3>1, <3>2, SubmittedType
  <2> QED
    BY <2>1, <2>2
<1>9. DecoderSound(e, contents)
  <2>1. /\ d.ready \in Nat /\ d.ready <= Len(d.pending)
        /\ d.logical \in Nat /\ d.logical <= Len(kv[id])
    BY <1>3 DEF DecodersSound, DecoderSound, DecodeType
  <2>2. \A i \in 1 .. Len(d.pending) :
          /\ d.pending[i] \in [token : Tokens, position : Nat]
          /\ d.pending[i].position <= Len(kv[id])
    BY <1>3, <1>6, ElementOfSeq DEF DecodersSound, DecoderSound
  <2>3. ASSUME NEW i \in 1 .. Len(e.pending)
        PROVE  e.pending[i].position <= Len(contents)
    <3>1. CASE i = Len(d.pending) + 1
      BY <1>4, <1>7, <1>8, <3>1
    <3>2. CASE i \in 1 .. Len(d.pending)
      BY <1>4, <1>7, <1>8, <2>2, <3>2
    <3> QED
      BY <1>6, <1>7, <1>8, <3>1, <3>2
  <2> QED
    BY <1>4, <1>6, <1>7, <1>8, <2>1, <2>3 DEF DecoderSound
<1>10. TypeOK'
  BY <1>3, <1>4, <1>5, <1>8 DEF AheadSubmit, TypeOK
<1>11. DecodersSound'
  <2>1. \A other \in Ids : DecoderSound(decode'[other], kv'[other])
    BY <1>3, <1>5, <1>9 DEF DecodersSound, TypeOK
  <2>2. \A other \in Ids : other \notin Held => decode'[other] = NoDecode
    BY <1>3, <1>5 DEF DecodersSound, TypeOK, Held
  <2> QED
    BY <1>2, <2>1, <2>2 DEF DecodersSound, DecoderSound, Held
<1> QED
  BY <1>2, <1>10, <1>11, ModelCallKeeps DEF AheadSubmit

\* Taking the oldest readback publishes a position inside the KV cache.
LEMMA PolledSound ==
  ASSUME NEW d \in DecodeType, NEW contents \in Seq(Tokens),
         DecoderSound(d, contents), d.ready > 0
  PROVE  LET r == Head(d.pending)
             e == [d EXCEPT !.pending = Tail(@), !.ready = @ - 1]
             f == [d EXCEPT !.pending = Tail(@), !.ready = @ - 1,
                            !.logical = r.position]
         IN  /\ r.token \in Tokens
             /\ r.position \in 0 .. Len(contents)
             /\ e \in DecodeType /\ DecoderSound(e, contents)
             /\ f \in DecodeType /\ DecoderSound(f, contents)
<1> DEFINE r == Head(d.pending)
           q == Tail(d.pending)
           e == [d EXCEPT !.pending = q, !.ready = d.ready - 1]
           f == [e EXCEPT !.logical = r.position]
<1>1. /\ d.pending \in Seq([token : Tokens, position : Nat])
      /\ d.ready \in Nat /\ d.logical \in Nat
      /\ d.ready <= Len(d.pending)
      /\ d.logical <= Len(contents)
  BY DEF DecodeType, DecoderSound
<1>2. d.pending # <<>> /\ Len(d.pending) \in Nat /\ Len(contents) \in Nat
  BY <1>1, LenProperties, EmptySeq
<1>3. /\ r = d.pending[1]
      /\ q \in Seq([token : Tokens, position : Nat])
      /\ Len(q) = Len(d.pending) - 1
      /\ \A i \in 1 .. Len(q) : q[i] = d.pending[i + 1]
  BY <1>1, <1>2, HeadTailProperties
<1>4. r \in [token : Tokens, position : Nat]
  BY <1>1, <1>2, HeadTailProperties
<1>5. r.position <= Len(contents)
  BY <1>1, <1>2, <1>3 DEF DecoderSound
<1>6. e \in DecodeType
  <2> DEFINE d1 == [d EXCEPT !.pending = q]
  <2>1. d1 \in DecodeType
    BY <1>3 DEF DecodeType
  <2>2. d.ready - 1 \in Nat
    BY <1>1
  <2> HIDE DEF d1
  <2>3. [d1 EXCEPT !.ready = d.ready - 1] \in DecodeType
    BY <2>1, <2>2 DEF DecodeType
  <2> QED
    BY <2>3 DEF d1
<1>7. e.pending = q /\ e.ready = d.ready - 1 /\ e.logical = d.logical
  BY DEF DecodeType
<1>8. DecoderSound(e, contents)
  BY <1>1, <1>2, <1>3, <1>7, SMTT(40) DEF DecoderSound
<1> HIDE DEF e
<1>9. /\ f \in DecodeType
      /\ f.pending = q /\ f.ready = d.ready - 1 /\ f.logical = r.position
  BY <1>4, <1>6, <1>7 DEF DecodeType
<1>10. DecoderSound(f, contents)
  BY <1>5, <1>7, <1>8, <1>9 DEF DecoderSound
<1> QED
  BY <1>2, <1>4, <1>5, <1>6, <1>8, <1>9, <1>10 DEF e

\* Publishing a readback keeps the invariant.
LEMMA AheadPollKeeps == IInv /\ AheadPoll => IInv'
<1> SUFFICES ASSUME IInv, AheadPoll PROVE IInv'
  OBVIOUS
<1> USE DEF IInv
<1>1. PICK id \in running :
        LET d == decode[id]
            r == Head(d.pending)
            s == Accepted(search[id], r.token, task[id])
        IN  /\ d.ready > 0
            /\ \/ /\ decode' = [decode EXCEPT
                        ![id] = [d EXCEPT !.pending = Tail(@), !.ready = @ - 1]]
                  /\ UNCHANGED <<search, results>>
               \/ /\ decode' = [decode EXCEPT
                        ![id] = [d EXCEPT !.pending = Tail(@), !.ready = @ - 1,
                                          !.logical = r.position]]
                  /\ search' = [search EXCEPT ![id] = s]
                  /\ \/ Complete(id, s, SubSeq(kv[id], 1, r.position))
                     \/ UNCHANGED results
  BY DEF AheadPoll
<1> DEFINE d == decode[id]
           r == Head(d.pending)
           s == Accepted(search[id], r.token, task[id])
           e == [d EXCEPT !.pending = Tail(@), !.ready = @ - 1]
           f == [d EXCEPT !.pending = Tail(@), !.ready = @ - 1,
                          !.logical = r.position]
<1>2. UNCHANGED <<config, arrivals, slots, kv, pc, locals, others>>
  BY DEF AheadPoll
<1>3. /\ id \in Ids /\ d \in DecodeType /\ kv[id] \in Seq(Tokens)
      /\ DecoderSound(d, kv[id]) /\ d.ready > 0
      /\ serving \in SettingType /\ task[id] \in TaskType
  BY <1>1 DEF AheadPoll, Configured, TypeOK, DecodersSound, HeldIssued, Held,
              TasksKnown
<1>4. /\ r.token \in Tokens
      /\ r.position \in 0 .. Len(kv[id])
      /\ e \in DecodeType /\ DecoderSound(e, kv[id])
      /\ f \in DecodeType /\ DecoderSound(f, kv[id])
  BY <1>3, PolledSound
<1>5. PICK new \in DecodeType : /\ decode' = [decode EXCEPT ![id] = new]
                              /\ DecoderSound(new, kv[id])
  BY <1>1, <1>4
<1>6. s \in SearchType /\ SubSeq(kv[id], 1, r.position) \in Seq(Tokens)
  BY <1>3, <1>4, AcceptedType, PrefixOfSeq DEF TypeOK
<1>7. search' \in [Ids -> SearchType]
  BY <1>1, <1>3, <1>6 DEF TypeOK
<1>8. /\ events' \in [Ids -> Seq(Seq(Tokens))]
      /\ emitted' \subseteq emitted \cup {id}
      /\ servingPrefix' \in PrefixType \cup {None}
      /\ PrefixAligned'
  <2>1. CASE UNCHANGED results
    BY <2>1 DEF TypeOK, PrefixAligned
  <2>2. CASE Complete(id, s, SubSeq(kv[id], 1, r.position))
    BY <1>3, <1>6, <2>2, CompleteKeeps
  <2> QED
    BY <1>1, <2>1, <2>2
<1>9. TypeOK'
  BY <1>2, <1>3, <1>5, <1>7, <1>8 DEF TypeOK
<1>10. DecodersSound'
  <2>1. \A other \in Ids : DecoderSound(decode'[other], kv[other])
    BY <1>3, <1>5 DEF DecodersSound, TypeOK
  <2>2. \A other \in Ids : other \notin Held => decode'[other] = NoDecode
    BY <1>3, <1>5 DEF DecodersSound, TypeOK, Held
  <2> QED
    BY <1>2, <2>1, <2>2 DEF DecodersSound, DecoderSound, Held
<1>11. (TasksKnown /\ WaitingOrdered /\ NoOvertaking)' /\ HeldIssued'
  BY <1>2, <1>8 DEF TasksKnown, WaitingOrdered, NoOvertaking, HeldIssued, Held
<1>12. (Accounted /\ Configured)'
  BY <1>2 DEF AheadPoll, Accounted, Reservation, Cells, Configured, Held
<1> QED
  BY <1>8, <1>9, <1>10, <1>11, <1>12

\* Completing a drained request keeps the invariant.
LEMMA AheadSettleKeeps == IInv /\ AheadSettle => IInv'
<1> SUFFICES ASSUME IInv, AheadSettle PROVE IInv'
  OBVIOUS
<1> USE DEF IInv
<1>1. PICK id \in running :
        \/ Complete(id, search[id], SubSeq(kv[id], 1, decode[id].logical))
        \/ UNCHANGED results
  BY DEF AheadSettle
<1>2. UNCHANGED <<config, arrivals, slots, caches, locals, others>>
  BY DEF AheadSettle
<1>3. /\ id \in Ids /\ search[id] \in SearchType
      /\ serving \in SettingType /\ task[id] \in TaskType
  BY <1>1 DEF AheadSettle, Configured, TypeOK, HeldIssued, Held, TasksKnown
<1>4. SubSeq(kv[id], 1, decode[id].logical) \in Seq(Tokens)
  <2>1. decode[id].logical \in 0 .. Len(kv[id]) /\ kv[id] \in Seq(Tokens)
    BY <1>3 DEF TypeOK, DecodeType, DecodersSound, DecoderSound
  <2> QED
    BY <2>1, PrefixOfSeq
<1>5. /\ events' \in [Ids -> Seq(Seq(Tokens))]
      /\ emitted' \subseteq emitted \cup {id}
      /\ servingPrefix' \in PrefixType \cup {None}
      /\ PrefixAligned'
  <2>1. CASE UNCHANGED results
    BY <2>1 DEF TypeOK, PrefixAligned
  <2>2. CASE Complete(id, search[id], SubSeq(kv[id], 1, decode[id].logical))
    BY <1>3, <1>4, <2>2, CompleteKeeps
  <2> QED
    BY <1>1, <2>1, <2>2
<1>6. TypeOK'
  BY <1>2, <1>3, <1>5 DEF AheadSettle, TypeOK
<1>7. (TasksKnown /\ WaitingOrdered /\ NoOvertaking)' /\ HeldIssued'
  BY <1>2, <1>5 DEF TasksKnown, WaitingOrdered, NoOvertaking, HeldIssued, Held
<1>8. (Accounted /\ Configured /\ DecodersSound)'
  BY <1>2 DEF AheadSettle, Accounted, Reservation, Cells, Configured,
              DecodersSound, DecoderSound, Held
<1> QED
  BY <1>5, <1>6, <1>7, <1>8

\* A failure drops everything but the retired requests.
LEMMA FailKeeps == IInv /\ Fail => IInv'
<1> SUFFICES ASSUME IInv, Fail PROVE IInv'
  OBVIOUS
<1> USE DEF IInv
<1>1. /\ failed' /\ servingPrefix' = None /\ waiting' = <<>> /\ running' = {}
      /\ reserved' = 0 /\ Forget(running)
      /\ serving' = IF blocking = None THEN serving ELSE blocking.previous
      /\ blocking' = None
      /\ UNCHANGED <<retired, task, nextId>>
  BY DEF Fail
<1>2. CachesTyped' /\ DecodersSound'
  <2>1. CachesTyped /\ Held \subseteq Held' \cup running
    BY <1>1 DEF CachesTyped, TypeOK, Held
  <2> QED
    BY <1>1, <2>1, ForgetKeeps, ForgetSound
<1>3. serving' \in SettingType \cup {None}
  BY <1>1 DEF TypeOK
<1>4. TypeOK'
  BY <1>1, <1>2, <1>3, EmptySeq DEF Fail, TypeOK, NoEvents, CachesTyped
<1>5. (TasksKnown /\ WaitingOrdered /\ NoOvertaking /\ HeldIssued)'
  BY <1>1, EmptySeq
     DEF Fail, TasksKnown, WaitingOrdered, NoOvertaking, HeldIssued, Held
<1>6. (Accounted /\ Configured /\ PrefixAligned)'
  BY <1>1 DEF Fail, Accounted, Configured, PrefixAligned, Held
<1> QED
  BY <1>2, <1>4, <1>5, <1>6

\* A queue with no pending requests has none waiting and none running.
LEMMA NothingPending ==
  ASSUME TypeOK, PendingRequests = 0
  PROVE  waiting = <<>> /\ running = {}
<1>1. IsFiniteSet(running)
  <2>1. IsFiniteSet(Ids)
    BY LimitsAssumption, FS_Interval DEF Ids
  <2> QED
    BY <2>1, FS_Subset DEF TypeOK
<1>2. Cardinality(running) \in Nat /\ Len(waiting) \in Nat
  BY <1>1, FS_CardinalityType, LenProperties DEF TypeOK
<1>3. Cardinality(running) = 0 /\ Len(waiting) = 0
  BY <1>2 DEF PendingRequests
<1> QED
  BY <1>1, <1>3, FS_EmptySet, EmptySeq DEF TypeOK

\* release_workspaces() gives back what retired requests still hold.
LEMMA ReleaseWorkspacesKeeps == IInv /\ ReleaseWorkspaces => IInv'
<1> SUFFICES ASSUME IInv, ReleaseWorkspaces PROVE IInv'
  OBVIOUS
<1> USE DEF IInv
<1>1. /\ waiting = <<>> /\ running = {}
      /\ retired' = {} /\ reserved' = 0 /\ Forget(retired)
      /\ UNCHANGED <<config, arrivals, results, locals, others, running, pc>>
  BY NothingPending DEF ReleaseWorkspaces
<1>2. CachesTyped' /\ DecodersSound'
  <2>1. CachesTyped /\ Held \subseteq Held' \cup retired
    BY <1>1 DEF CachesTyped, TypeOK, Held
  <2> QED
    BY <1>1, <2>1, ForgetKeeps, ForgetSound
<1>3. TypeOK'
  BY <1>1, <1>2 DEF TypeOK, CachesTyped
<1>4. (TasksKnown /\ WaitingOrdered /\ NoOvertaking /\ HeldIssued)'
  BY <1>1 DEF TasksKnown, WaitingOrdered, NoOvertaking, HeldIssued, Held
<1>5. Accounted'
  <2>1. Held' = {}
    BY <1>1 DEF Held
  <2>2. Reservation(Held)' = 0
    BY <2>1, ReservationOfNothing DEF Reservation, Cells
  <2>3. serving # None => serving.budget \in Nat
    BY DEF TypeOK, SettingType
  <2> QED
    BY <1>1, <2>2, <2>3 DEF Accounted
<1>6. (Configured /\ PrefixAligned)'
  BY <1>1 DEF ReleaseWorkspaces, Idle, Configured, PrefixAligned, Held
<1> QED
  BY <1>2, <1>3, <1>4, <1>5, <1>6

\* generate() restores a setting whose budget an empty queue respects.
LEMMA GenerateReturnsKeeps == IInv /\ GenerateReturns => IInv'
<1> SUFFICES ASSUME IInv, GenerateReturns PROVE IInv'
  OBVIOUS
<1> USE DEF IInv
<1>1. /\ waiting = <<>> /\ Held = {} /\ Held' = {}
      /\ serving' = blocking.previous /\ blocking' = None
      /\ pc = "idle"
      /\ UNCHANGED <<arrivals, slots, caches, results, locals, others, failed,
                     pc>>
  BY NothingPending DEF GenerateReturns, Configured, Held
<1>2. serving' \in SettingType \cup {None}
  BY <1>1 DEF GenerateReturns, TypeOK
<1>3. TypeOK'
  BY <1>1, <1>2 DEF TypeOK
<1>4. (TasksKnown /\ WaitingOrdered /\ NoOvertaking /\ HeldIssued)'
  BY <1>1 DEF TasksKnown, WaitingOrdered, NoOvertaking, HeldIssued, Held
<1>5. Accounted'
  <2>1. Reservation(Held)' = 0 /\ Reservation(Held) = 0
    BY <1>1, ReservationOfNothing DEF Reservation, Cells
  <2>2. serving' # None => serving'.budget \in Nat
    BY <1>2 DEF SettingType
  <2> QED
    BY <1>1, <2>1, <2>2 DEF Accounted
<1>6. (DecodersSound /\ Configured /\ PrefixAligned)'
  BY <1>1 DEF DecodersSound, DecoderSound, Configured, PrefixAligned, Held
<1> QED
  BY <1>3, <1>4, <1>5, <1>6

\* configure_serving() reaps and, if it accepts, changes the setting of an
\* empty queue.
LEMMA ConfigureServingKeeps ==
  ASSUME IInv, NEW s \in Settings, ConfigureServing(s)
  PROVE  IInv'
<1> USE DEF IInv
<1>1. /\ ReapRetired
      /\ pc = "idle" /\ blocking = None
      /\ \/ /\ PendingRequests = 0 /\ retired' = {}
            /\ serving' = WithAhead(s) /\ servingPrefix' = None
         \/ UNCHANGED <<serving, servingPrefix>>
      /\ UNCHANGED <<arrivals, locals, others, failed, blocking, running,
                     events, emitted, pc>>
  BY DEF ConfigureServing, Idle
<1>2. /\ CachesTyped'
      /\ retired' \subseteq retired
      /\ DecodersSound'
      /\ reserved' \in Int
      /\ reserved = Reservation(Held) =>
           /\ reserved' = Reservation(Held)'
           /\ reserved' <= reserved
  BY <1>1, ReapKeeps
<1>3. WithAhead(s) \in SettingType /\ WithAhead(s) # None
  BY SettingsAssumption, LimitsAssumption DEF WithAhead, SettingType, None
<1>4. serving' \in SettingType \cup {None}
  BY <1>1, <1>3 DEF TypeOK
<1>5. TypeOK'
  BY <1>1, <1>2, <1>4 DEF TypeOK, CachesTyped
<1>6. (TasksKnown /\ WaitingOrdered /\ NoOvertaking /\ HeldIssued)'
  BY <1>1, <1>2 DEF TasksKnown, WaitingOrdered, NoOvertaking, HeldIssued, Held
<1>7. Accounted'
  <2>1. CASE UNCHANGED serving
    BY <1>1, <1>2, <2>1 DEF Accounted, TypeOK, SettingType
  <2>2. CASE PendingRequests = 0 /\ retired' = {} /\ serving' = WithAhead(s)
    <3>1. Held' = {}
      BY <1>1, <2>2, NothingPending DEF Held
    <3>2. Reservation(Held)' = 0
      BY <3>1, ReservationOfNothing DEF Reservation, Cells
    <3>3. serving'.budget \in Nat
      BY <1>3, <2>2 DEF SettingType
    <3> QED
      BY <1>1, <1>2, <3>2, <3>3 DEF Accounted
  <2> QED
    BY <1>1, <2>1, <2>2
<1>8. (Configured /\ PrefixAligned)'
  BY <1>1, <1>2, <1>3 DEF Configured, PrefixAligned, Held
<1> QED
  BY <1>2, <1>5, <1>6, <1>7, <1>8

\* The larger of two numbers is one of them and at least the first.
LEMMA MaxBound ==
  ASSUME NEW a \in Nat, NEW b \in Nat
  PROVE  Max2(a, b) \in Nat /\ a <= Max2(a, b)
BY DEF Max2

\* Rounding up to buckets never takes anything away.
LEMMA RoundUpGrows ==
  ASSUME NEW n \in Nat
  PROVE  RoundUp(n) \in Nat /\ n <= RoundUp(n)
<1>1. \A a \in Int : a % Bucket \in Nat
  BY LimitsAssumption
<1>2. n % Bucket \in Nat /\ (Bucket - (n % Bucket)) \in Int
  BY <1>1, LimitsAssumption
<1>3. (Bucket - (n % Bucket)) % Bucket \in Nat
  BY <1>1, <1>2
<1> QED
  BY <1>3 DEF RoundUp

\* What enqueue() records of a request has a natural capacity.
LEMMA TaskTyped ==
  ASSUME NEW k \in Kinds, NEW compact
  PROVE  Task(k, compact) \in TaskType
<1>1. k \in KindType
  BY KindsAssumption
<1>2. /\ k.context \in Nat /\ k.maximum \in Nat
      /\ k.prompt \in Seq(Tokens) /\ Len(k.prompt) \in Nat
  BY <1>1, LenProperties DEF KindType
<1>3. RequestCapacity(k, compact) \in Nat
  <2> DEFINE fits == Len(k.prompt) + k.maximum
             required == IF k.context > ByteCacheTokens
                         THEN Max2(fits, ByteCacheTokens + 1) ELSE fits
  <2>1. required \in Nat
    <3>1. fits \in Nat /\ ByteCacheTokens + 1 \in Nat
      BY <1>2, LimitsAssumption
    <3>2. Max2(fits, ByteCacheTokens + 1) \in Nat
      BY <3>1, MaxBound
    <3> QED
      BY <3>1, <3>2
  <2>2. RoundUp(required) \in Nat
    BY <2>1, RoundUpGrows
  <2>3. Min2(k.context, RoundUp(required)) \in Nat
    BY <1>2, <2>2 DEF Min2
  <2> QED
    BY <1>2, <2>3 DEF RequestCapacity
<1> QED
  BY <1>1, <1>3 DEF Task, KindType, TaskType

\* A new request gets the largest id so far and goes last.
LEMMA PushKeeps ==
  ASSUME TypeOK, TasksKnown, WaitingOrdered, HeldIssued, NoOvertaking,
         NEW k \in Kinds, NEW setting, nextId < IdLimit, Push(k, setting)
  PROVE  /\ task' \in [Ids -> TaskType \cup {None}]
         /\ waiting' \in Seq(Ids)
         /\ nextId' \in 1 .. IdLimit
         /\ TasksKnown' /\ WaitingOrdered'
         /\ \A id \in Held : task'[id] = task[id] /\ id < nextId'
         /\ \A id \in Held : \A i \in 1 .. Len(waiting') : id < waiting'[i]
<1>1. nextId \in Ids /\ nextId \in Nat /\ nextId' = nextId + 1
  BY LimitsAssumption DEF TypeOK, Ids, Push
<1>2. /\ waiting' \in Seq(Ids) /\ Len(waiting) \in Nat
      /\ Len(waiting') = Len(waiting) + 1
      /\ \A i \in 1 .. Len(waiting) : waiting'[i] = waiting[i]
      /\ waiting'[Len(waiting) + 1] = nextId
  BY <1>1, AppendProperties, LenProperties DEF TypeOK, Push
<1>3. task' = [task EXCEPT ![nextId] = Task(k, setting.compact)]
  BY DEF Push
<1>4. Task(k, setting.compact) \in TaskType
  BY TaskTyped
<1>5. task' \in [Ids -> TaskType \cup {None}] /\ TasksKnown'
  BY <1>1, <1>3, <1>4 DEF TypeOK, TasksKnown, Ids
<1>6. nextId' \in 1 .. IdLimit
  BY <1>1, LimitsAssumption
<1>7. \A i \in 1 .. Len(waiting) : waiting[i] \in Nat /\ waiting[i] < nextId
  <2>1. \A i \in 1 .. Len(waiting) : waiting[i] \in Ids
    BY ElementOfSeq DEF TypeOK
  <2> QED
    BY <2>1 DEF WaitingOrdered, Ids
<1>8. WaitingOrdered'
  <2>1. ASSUME NEW i \in 1 .. Len(waiting')
        PROVE  waiting'[i] < nextId'
    BY <1>1, <1>2, <1>7
  <2>2. ASSUME NEW i \in 1 .. Len(waiting'), NEW j \in 1 .. Len(waiting'),
               i < j
        PROVE  waiting'[i] < waiting'[j]
    <3>1. i \in 1 .. Len(waiting)
      BY <1>2, <2>2
    <3>2. CASE j \in 1 .. Len(waiting)
      BY <1>2, <2>2, <3>1, <3>2 DEF WaitingOrdered
    <3>3. CASE j = Len(waiting) + 1
      BY <1>2, <1>7, <3>1, <3>3
    <3> QED
      BY <1>2, <3>2, <3>3
  <2> QED
    BY <2>1, <2>2 DEF WaitingOrdered
<1>9. ASSUME NEW id \in Held
      PROVE  /\ task'[id] = task[id] /\ id < nextId'
             /\ \A i \in 1 .. Len(waiting') : id < waiting'[i]
  <2>1. id \in Ids /\ id < nextId
    BY DEF HeldIssued, Held, TypeOK
  <2>2. task'[id] = task[id] /\ id < nextId'
    BY <1>1, <1>3, <2>1 DEF Ids, TypeOK
  <2>3. \A i \in 1 .. Len(waiting) : id < waiting[i]
    BY DEF NoOvertaking
  <2> QED
    BY <1>2, <2>1, <2>2, <2>3
<1> QED
  BY <1>2, <1>5, <1>6, <1>8, <1>9

\* enqueue() keeps the invariant.
LEMMA EnqueueKeeps ==
  ASSUME IInv, NEW k \in Kinds, Enqueue(k)
  PROVE  IInv'
<1> USE DEF IInv
<1>1. /\ serving # None /\ ~failed /\ nextId < IdLimit
      /\ Push(k, serving)
      /\ UNCHANGED <<config, slots, caches, results, locals, others, pc>>
  BY DEF Enqueue, Admissible
<1>2. /\ task' \in [Ids -> TaskType \cup {None}]
      /\ waiting' \in Seq(Ids)
      /\ nextId' \in 1 .. IdLimit
      /\ TasksKnown' /\ WaitingOrdered'
      /\ \A id \in Held : task'[id] = task[id] /\ id < nextId'
      /\ \A id \in Held : \A i \in 1 .. Len(waiting') : id < waiting'[i]
  BY <1>1, PushKeeps
<1>3. Held' = Held
  BY <1>1 DEF Held
<1>4. TypeOK'
  BY <1>1, <1>2 DEF TypeOK
<1>5. NoOvertaking' /\ HeldIssued'
  BY <1>1, <1>2, <1>3 DEF NoOvertaking, HeldIssued
<1>6. Accounted'
  <2>1. CellsOf(task', Held) = CellsOf(task, Held)
    BY <1>2, CellsOfSame
  <2>2. Reservation(Held)' = Reservation(Held)
    BY <1>3, <2>1 DEF Reservation, Cells, CellsOf
  <2> QED
    BY <1>1, <2>2 DEF Accounted
<1>7. (DecodersSound /\ Configured /\ PrefixAligned)'
  BY <1>1, <1>3 DEF DecodersSound, DecoderSound, Configured, PrefixAligned
<1> QED
  BY <1>2, <1>4, <1>5, <1>6, <1>7

\* generate() borrows an empty queue, so its setting is within budget.
LEMMA GenerateAheadKeeps ==
  ASSUME IInv, NEW k \in Kinds, GenerateAhead(k)
  PROVE  IInv'
<1> USE DEF IInv
<1> DEFINE setting == AheadSetting(k)
<1>1. /\ pc = "idle" /\ blocking = None /\ ~failed
      /\ waiting = <<>> /\ running = {} /\ running' = {}
      /\ servingPrefix' = None
      /\ ReapRetired
      /\ \/ /\ retired' = {} /\ nextId < IdLimit
            /\ Push(k, setting)
            /\ serving' = setting
            /\ blocking' = [previous |-> serving]
         \/ UNCHANGED <<task, waiting, nextId, serving, blocking>>
      /\ UNCHANGED <<locals, others, failed, running, events, emitted, pc>>
  BY NothingPending DEF GenerateAhead, Idle, Admissible
<1>2. setting \in SettingType /\ setting # None
  <2>1. k.context \in Nat /\ k.chunk \in Nat
    BY KindsAssumption DEF KindType
  <2>2. serving # None => serving.ahead \in Nat
    BY DEF TypeOK, SettingType
  <2> QED
    BY <2>1, <2>2, LimitsAssumption DEF AheadSetting, SettingType, None
<1>3. [previous |-> serving] \in [previous : SettingType \cup {None}]
  BY DEF TypeOK
<1>4. /\ task' \in [Ids -> TaskType \cup {None}]
      /\ waiting' \in Seq(Ids)
      /\ nextId' \in 1 .. IdLimit
      /\ TasksKnown' /\ WaitingOrdered'
      /\ \A id \in Held : task'[id] = task[id] /\ id < nextId'
      /\ \A id \in Held : \A i \in 1 .. Len(waiting') : id < waiting'[i]
  <2>1. CASE UNCHANGED <<task, waiting, nextId>>
    BY <2>1 DEF TypeOK, TasksKnown, WaitingOrdered, NoOvertaking, HeldIssued
  <2>2. CASE Push(k, setting) /\ nextId < IdLimit
    BY <2>2, PushKeeps
  <2> QED
    BY <1>1, <2>1, <2>2
<1>5. /\ CachesTyped'
      /\ retired' \subseteq retired
      /\ DecodersSound'
      /\ reserved' \in Int
      /\ reserved = Reservation(Held) =>
           /\ reserved' = Reservation(Held)'
           /\ reserved' <= reserved
  BY <1>1, <1>4, ReapKeeps
<1>6. Held' \subseteq Held
  BY <1>1, <1>5 DEF Held
<1>7. TypeOK'
  <2>1. serving' \in SettingType \cup {None}
    BY <1>1, <1>2 DEF TypeOK
  <2>2. blocking' \in [previous : SettingType \cup {None}] \cup {None}
    BY <1>1, <1>3 DEF TypeOK
  <2> QED
    BY <1>1, <1>4, <1>5, <2>1, <2>2 DEF TypeOK, CachesTyped
<1>8. NoOvertaking' /\ HeldIssued'
  BY <1>1, <1>4, <1>6 DEF NoOvertaking, HeldIssued, Held
<1>9. Accounted'
  <2>1. CASE UNCHANGED serving
    BY <1>1, <1>5, <2>1 DEF Accounted, TypeOK, SettingType
  <2>2. CASE retired' = {} /\ serving' = setting
    <3>1. Held' = {}
      BY <1>1, <2>2 DEF Held
    <3>2. Reservation(Held)' = 0
      BY <3>1, ReservationOfNothing DEF Reservation, Cells
    <3>3. serving'.budget \in Nat
      BY <1>2, <2>2 DEF SettingType
    <3> QED
      BY <1>1, <1>5, <3>2, <3>3 DEF Accounted
  <2> QED
    BY <1>1, <2>1, <2>2
<1>10. Configured' /\ PrefixAligned'
  <2>1. CASE UNCHANGED <<task, waiting, nextId, serving, blocking>>
    BY <1>1, <1>6, <2>1 DEF Configured, PrefixAligned
  <2>2. CASE /\ retired' = {} /\ serving' = setting
             /\ blocking' = [previous |-> serving]
    BY <1>1, <1>2, <2>2 DEF Configured, PrefixAligned
  <2> QED
    BY <1>1, <2>1, <2>2
<1> QED
  BY <1>4, <1>5, <1>7, <1>8, <1>9, <1>10

\* Cancelling a waiting request closes the gap it leaves in the line.
LEMMA RemovedAt ==
  ASSUME NEW S, NEW s \in Seq(S), NEW i \in 1 .. Len(s)
  PROVE  LET r == SubSeq(s, 1, i - 1) \o SubSeq(s, i + 1, Len(s))
         IN  /\ r \in Seq(S)
             /\ Len(r) = Len(s) - 1
             /\ \A j \in 1 .. Len(r) : r[j] = s[IF j < i THEN j ELSE j + 1]
<1> DEFINE a == SubSeq(s, 1, i - 1)
           b == SubSeq(s, i + 1, Len(s))
<1>1. Len(s) \in Nat
  BY LenProperties
<1>2. /\ a \in Seq(S) /\ Len(a) = i - 1
      /\ \A j \in 1 .. i - 1 : a[j] = s[j]
  BY <1>1, SubSeqProperties
<1>3. /\ b \in Seq(S) /\ Len(b) = Len(s) - i
      /\ \A j \in 1 .. Len(s) - i : b[j] = s[i + j]
  BY <1>1, SubSeqProperties
<1>4. /\ a \o b \in Seq(S)
      /\ Len(a \o b) = Len(a) + Len(b)
      /\ \A j \in 1 .. Len(a) + Len(b) :
           (a \o b)[j] = IF j <= Len(a) THEN a[j] ELSE b[j - Len(a)]
  BY <1>2, <1>3, ConcatProperties
<1> HIDE DEF a, b
<1>5. Len(a \o b) = Len(s) - 1
  BY <1>1, <1>2, <1>3, <1>4
<1>6. ASSUME NEW j \in 1 .. Len(a \o b)
      PROVE  (a \o b)[j] = s[IF j < i THEN j ELSE j + 1]
  <2>1. CASE j < i
    BY <1>1, <1>2, <1>4, <1>5, <1>6, <2>1
  <2>2. CASE ~(j < i)
    <3>1. j - Len(a) \in 1 .. Len(s) - i /\ i + (j - Len(a)) = j + 1
      BY <1>1, <1>2, <1>5, <2>2
    <3>2. (a \o b)[j] = b[j - Len(a)]
      BY <1>1, <1>2, <1>3, <1>4, <1>5, <2>2
    <3> QED
      BY <1>3, <2>2, <3>1, <3>2
  <2> QED
    BY <2>1, <2>2
<1> QED
  BY <1>4, <1>5, <1>6 DEF a, b

\* Cancelling a waiting request keeps the line in order.
LEMMA CancelWaitingKeeps ==
  ASSUME IInv, NEW id \in Ids, CancelWaiting(id)
  PROVE  IInv'
<1> USE DEF IInv
<1>1. PICK i \in 1 .. Len(waiting) :
        waiting' = SubSeq(waiting, 1, i - 1)
                   \o SubSeq(waiting, i + 1, Len(waiting))
  BY DEF CancelWaiting
<1>2. /\ UNCHANGED <<config, slots, caches, results, locals, nextId, task, pc,
                      prefillAfter, pending, answers>>
      /\ cancelled' = cancelled \cup {id}
  BY DEF CancelWaiting
<1>3. /\ waiting' \in Seq(Ids)
      /\ Len(waiting') = Len(waiting) - 1
      /\ \A j \in 1 .. Len(waiting') :
           waiting'[j] = waiting[IF j < i THEN j ELSE j + 1]
  BY <1>1, RemovedAt DEF TypeOK
<1>4. Len(waiting) \in Nat
  BY LenProperties DEF TypeOK
<1> DEFINE old(j) == IF j < i THEN j ELSE j + 1
<1>5. \A j \in 1 .. Len(waiting') : old(j) \in 1 .. Len(waiting)
  BY <1>3, <1>4
<1>6. \A j, k \in 1 .. Len(waiting') : j < k => old(j) < old(k)
  BY <1>3, <1>4
<1>7. \A j \in 1 .. Len(waiting') : waiting'[j] = waiting[old(j)]
  BY <1>3
<1> HIDE DEF old
<1>8. WaitingOrdered' /\ NoOvertaking'
  BY <1>2, <1>5, <1>6, <1>7 DEF WaitingOrdered, NoOvertaking, Held
<1>9. TypeOK'
  BY <1>2, <1>3, SMTT(40) DEF TypeOK
<1>10. (TasksKnown /\ HeldIssued /\ Accounted /\ Configured /\ DecodersSound
        /\ PrefixAligned)'
  BY <1>2 DEF TasksKnown, HeldIssued, Accounted, Configured, DecodersSound,
              DecoderSound, PrefixAligned, Held, Reservation, Cells
<1> QED
  BY <1>8, <1>9, <1>10

\* A request cancelled with readbacks in flight moves from the running to the
\* retired ones; any other gives back exactly what it holds.
LEMMA CancelRunningKeeps ==
  ASSUME IInv, NEW id \in Ids, CancelRunning(id)
  PROVE  IInv'
<1> USE DEF IInv
<1>1. /\ id \in running
      /\ pc = "idle" /\ blocking = None /\ emitted = {}
      /\ running' = running \ {id}
      /\ cancelled' = cancelled \cup {id}
      /\ UNCHANGED <<config, arrivals, locals, events, emitted, pc,
                      prefillAfter, pending, answers>>
  BY DEF CancelRunning, Idle, Configured
<1>2. CASE /\ retired' = retired \cup {id}
           /\ UNCHANGED <<caches, reserved, servingPrefix>>
  <2>1. Held' = Held
    BY <1>1, <1>2 DEF Held
  <2>2. Accounted'
    BY <1>1, <1>2, <2>1 DEF Accounted, Reservation, Cells
  <2>3. TypeOK'
    BY <1>1, <1>2 DEF TypeOK
  <2>4. (TasksKnown /\ WaitingOrdered /\ NoOvertaking /\ DecodersSound
         /\ PrefixAligned)'
    BY <1>1, <1>2, <2>1 DEF TasksKnown, WaitingOrdered, NoOvertaking,
                            DecodersSound, DecoderSound, PrefixAligned
  <2>5. (HeldIssued /\ Configured)'
    BY <1>1, <1>2, <2>1 DEF HeldIssued, Configured
  <2> QED
    BY <2>2, <2>3, <2>4, <2>5
<1>3. CASE /\ Release({id})
           /\ servingPrefix' = Retained(task[id], kv[id], search[id].ids)
           /\ Forget({id})
           /\ UNCHANGED retired
  <2>1. {id} \in SUBSET Held /\ Held' = Held \ {id}
    BY <1>1, <1>3 DEF Held, HeldIssued
  <2>2. CachesTyped' /\ DecodersSound'
    <3>1. CachesTyped /\ Held \subseteq Held' \cup {id}
      BY <2>1 DEF CachesTyped, TypeOK
    <3> QED
      BY <1>3, <3>1, ForgetKeeps, ForgetSound
  <2>3. /\ reserved' \in Int
        /\ reserved = Reservation(Held) =>
             /\ reserved' = Reservation(Held)'
             /\ reserved' <= reserved
    BY <1>1, <1>3, <2>1, ReleaseExact
  <2>4. Accounted'
    BY <1>1, <2>3 DEF Accounted, TypeOK, SettingType
  <2>5. serving \in SettingType /\ task[id] \in TaskType
    BY <1>1, HeldFinite, <2>1 DEF Configured, Held, TypeOK
  <2>6. kv[id] \in Seq(Tokens) /\ search[id].ids \in Seq(Tokens)
    BY DEF TypeOK, SearchType
  <2>7. /\ servingPrefix' \in PrefixType \cup {None}
        /\ servingPrefix' # None =>
             Len(servingPrefix'.tokens) = Len(servingPrefix'.kv)
    BY <1>3, <2>5, <2>6, RetainedType
  <2>8. TypeOK'
    BY <1>1, <1>3, <2>2, <2>3, <2>7 DEF TypeOK, CachesTyped
  <2>9. (TasksKnown /\ WaitingOrdered /\ NoOvertaking /\ HeldIssued)'
    BY <1>1, <1>3, <2>1
       DEF TasksKnown, WaitingOrdered, NoOvertaking, HeldIssued
  <2>10. (Configured /\ PrefixAligned)'
    BY <1>1, <2>1, <2>5, <2>7 DEF Configured, PrefixAligned
  <2> QED
    BY <2>2, <2>4, <2>8, <2>9, <2>10
<1> QED
  BY <1>2, <1>3 DEF CancelRunning

\* The device only moves a readback from in flight to ready.
LEMMA ReadbackCompletesKeeps ==
  ASSUME IInv, NEW id \in Ids, ReadbackCompletes(id)
  PROVE  IInv'
<1> USE DEF IInv
<1>1. /\ decode[id].ready < Len(decode[id].pending)
      /\ decode' = [decode EXCEPT ![id].ready = @ + 1]
      /\ UNCHANGED <<config, arrivals, slots, results, locals, others, kv,
                      search, pc>>
  BY DEF ReadbackCompletes
<1>2. decode[id] \in DecodeType /\ Len(decode[id].pending) \in Nat
  BY LenProperties DEF TypeOK, DecodeType
<1> DEFINE d == decode[id]
           e == [d EXCEPT !.ready = @ + 1]
<1>3. decode' = [decode EXCEPT ![id] = e]
  BY <1>1, <1>2 DEF TypeOK
<1>4. /\ e \in DecodeType
      /\ e.pending = d.pending /\ e.on = d.on /\ e.token = d.token
      /\ e.submitted = d.submitted /\ e.logical = d.logical
      /\ e.ready = d.ready + 1
  BY <1>2 DEF DecodeType
<1>5. TypeOK'
  BY <1>1, <1>3, <1>4 DEF TypeOK
<1>6. DecodersSound'
  <2>1. id \in Held
    BY <1>1 DEF DecodersSound, NoDecode
  <2>2. DecoderSound(e, kv[id])
    BY <1>1, <1>2, <1>4 DEF DecodersSound, DecoderSound, DecodeType
  <2> QED
    BY <1>1, <1>3, <2>1, <2>2 DEF DecodersSound, DecoderSound, Held, TypeOK
<1>7. (TasksKnown /\ WaitingOrdered /\ NoOvertaking /\ HeldIssued
       /\ Accounted /\ Configured /\ PrefixAligned)'
  BY <1>1 DEF TasksKnown, WaitingOrdered, NoOvertaking, HeldIssued, Accounted,
              Configured, PrefixAligned, Held, Reservation, Cells
<1> QED
  BY <1>5, <1>6, <1>7

----------------------------------------------------------------------------
(* The theorems.                                                            *)

\* The invariant holds of a generator that was just built.
LEMMA InitEstablishes == Init => IInv
<1> SUFFICES ASSUME Init PROVE IInv
  OBVIOUS
<1> USE DEF Init
<1>1. waiting = <<>> /\ Len(waiting) = 0 /\ Held = {}
  BY DEF Held
<1>2. TypeOK
  <2>1. NoEvents \in [Ids -> Seq(Seq(Tokens))]
    BY EmptySeq DEF NoEvents
  <2>2. kv \in [Ids -> Seq(Tokens)]
    BY EmptySeq
  <2>3. waiting \in Seq(Ids)
    BY EmptySeq
  <2>4. search \in [Ids -> SearchType] /\ decode \in [Ids -> DecodeType]
    BY EmptyDecoder
  <2>5. nextId \in 1 .. IdLimit /\ prefillAfter \in 0 .. IdLimit
    BY LimitsAssumption
  <2>6. events \in [Ids -> Seq(Seq(Tokens))] /\ answers \in [Ids -> Seq(Seq(Tokens))]
    BY <2>1
  <2>7. task \in [Ids -> TaskType \cup {None}]
    OBVIOUS
  <2>8. /\ serving \in SettingType \cup {None}
        /\ servingPrefix \in PrefixType \cup {None}
        /\ blocking \in [previous : SettingType \cup {None}] \cup {None}
    OBVIOUS
  <2>9. reserved \in Int /\ pc \in Phases
    OBVIOUS
  <2>10. failed \in BOOLEAN /\ decoded \in BOOLEAN /\ skipped \in BOOLEAN
    BY Zenon
  <2>11. /\ pending \subseteq Selection /\ batch \subseteq Selection
         /\ running \subseteq Ids /\ retired \subseteq Ids
         /\ emitted \subseteq Ids /\ cancelled \subseteq Ids
    OBVIOUS
  <2> QED
    BY <2>2, <2>3, <2>4, <2>5, <2>6, <2>7, <2>8, <2>9, <2>10,
       <2>11 DEF TypeOK
<1>3. TasksKnown /\ WaitingOrdered /\ NoOvertaking /\ HeldIssued
  BY <1>1 DEF TasksKnown, WaitingOrdered, NoOvertaking, HeldIssued
<1>4. Accounted
  BY <1>1, ReservationOfNothing DEF Accounted
<1>5. Configured /\ PrefixAligned
  BY <1>1 DEF Configured, PrefixAligned
<1>6. DecodersSound
  BY EmptyDecoder, EmptySeq DEF DecodersSound
<1> QED
  BY <1>2, <1>3, <1>4, <1>5, <1>6 DEF IInv

\* Every phase of step(), every call between steps, every readback and every
\* failure keeps the invariant.
LEMMA NextKeeps == IInv /\ [Next]_vars => IInv'
<1> SUFFICES ASSUME IInv, [Next]_vars PROVE IInv'
  OBVIOUS
<1>1. CASE Step
  BY <1>1, StepBeginKeeps, AdmitKeeps, MovesKeep, AcceptKeeps, RetireKeeps,
     DecodeBatchKeeps, AheadBeginKeeps, AheadPollKeeps, AheadSettleKeeps,
     AheadSubmitKeeps, PrefillKeeps
     DEF Step
<1>2. CASE Callers
  BY <1>2, ConfigureServingKeeps, EnqueueKeeps, GenerateAheadKeeps,
     CancelWaitingKeeps, CancelRunningKeeps, ReleaseWorkspacesKeeps, MovesKeep,
     GenerateReturnsKeeps
     DEF Callers
<1>3. CASE Device
  BY <1>3, ReadbackCompletesKeeps DEF Device
<1>4. CASE Fail
  BY <1>4, FailKeeps
<1>5. CASE UNCHANGED vars
  <2>1. TypeOK'
    BY <1>5 DEF vars, IInv, TypeOK
  <2>2. (TasksKnown /\ WaitingOrdered /\ NoOvertaking /\ HeldIssued)'
    BY <1>5 DEF vars, IInv, TasksKnown, WaitingOrdered, NoOvertaking,
                HeldIssued, Held
  <2>3. (Accounted /\ Configured)'
    BY <1>5 DEF vars, IInv, Accounted, Configured, Held, Reservation, Cells
  <2>4. (DecodersSound /\ PrefixAligned)'
    BY <1>5 DEF vars, IInv, DecodersSound, DecoderSound, PrefixAligned, Held
  <2> QED
    BY <2>1, <2>2, <2>3, <2>4 DEF IInv
<1> QED
  BY <1>1, <1>2, <1>3, <1>4, <1>5 DEF Next

\* The invariant holds of every reachable state of the serving queue.
THEOREM InvariantHolds == Spec => []IInv
<1>1. Init => IInv
  BY InitEstablishes
<1>2. IInv /\ [Next]_vars => IInv'
  BY NextKeeps
<1> QED
  BY <1>1, <1>2, PTL DEF Spec

\* The serving queue's state always has its declared types: no call leaves a
\* request id out of range, a cache entry malformed or a phase unknown.
THEOREM TypeCorrect == Spec => []TypeOK
<1>1. IInv => TypeOK
  BY DEF IInv
<1> QED
  BY <1>1, InvariantHolds, PTL

\* Whatever the requests, settings and cancellations, the reservation counter
\* of the queue is exactly what its requests hold, and within the budget.
THEOREM BudgetHolds == Spec => []BudgetRespected
<1>1. IInv => BudgetRespected
  BY DEF IInv, Accounted, BudgetRespected
<1> QED
  BY <1>1, InvariantHolds, PTL

\* Whatever waits arrived after whatever holds a slot.
THEOREM FirstInFirstOut == Spec => []NoOvertaking
<1>1. IInv => NoOvertaking
  BY DEF IInv
<1> QED
  BY <1>1, InvariantHolds, PTL

----------------------------------------------------------------------------
(* Selections and readbacks: a second invariant, on top of the first, says  *)
(* which selections and readbacks are under way in which phase of step().   *)

Selections == batch \cup pending

\* What holds no slot has searched nothing and stores nothing.
UnheldFresh == \A id \in Ids \ Held : search[id] = NoSearch /\ kv[id] = <<>>

\* Requests are served in as many slots as were configured.
SlotsBounded == serving # None => Cardinality(running) <= serving.maximumActive

\* Selections are taken over in the first acceptance and made by the decode
\* or by the prefill of a step; the phases that decode ahead have one request,
\* which has its first token.
StagesOK ==
  /\ ~Accepting => batch = {}
  /\ batch = {} \/ pending = {}
  /\ pc \in {"accept1", "admit2", "decode", "poll", "polled", "submit"} =>
       pending = {}
  /\ pc \in {"accept2", "admit3", "prefill", "accept3"} /\ pending # {} =>
       serving.deferred
  /\ pc \in {"accept2", "admit3", "prefill"} /\ pending # {} => decoded
  /\ pc \in {"poll", "polled", "submit"} =>
       Chained /\ \A id \in running : search[id].steps > 0 /\ decode[id].on

\* Readbacks are in flight only when tokens are chained on the device.
ReadbacksOK ==
  \A id \in Held :
    /\ search[id].steps = 0 => ~search[id].finished /\ ~decode[id].on
    /\ ~decode[id].on => decode[id].pending = <<>>
    /\ decode[id].on => Chained

\* A complete result has no readback in flight, and a search that ended is
\* complete, but for readbacks to be drained and until the next settling.
EndsOK ==
  /\ \A id \in emitted : search[id].finished /\ decode[id].pending = <<>>
  /\ \A id \in running :
       /\ search[id].finished
       /\ decode[id].pending = <<>>
       /\ pc \notin {"poll", "polled"}
       => id \in emitted

\* An id that left the line.
Before(n) == n < nextId /\ \A i \in 1 .. Len(waiting) : n < waiting[i]

\* A request that is served has at most one selection, and waits for it.
SelectionsOK ==
  /\ \A e \in Selections :
       /\ Before(e.id)
       /\ e.id \in running => ~search[e.id].finished /\ ~decode[e.id].on
  /\ \A e, f \in Selections : e.id = f.id => e = f
  /\ OneSelectionPerStep

FlowInv ==
  /\ UnheldFresh
  /\ SlotsBounded
  /\ StagesOK
  /\ ReadbacksOK
  /\ EndsOK
  /\ SelectionsOK

----------------------------------------------------------------------------
(* What most calls do to selections and readbacks.                          *)

\* The slots in use are finitely many, and no more when requests leave.
LEMMA SlotsFinite ==
  ASSUME TypeOK, NEW S \in SUBSET running
  PROVE  /\ IsFiniteSet(running) /\ Cardinality(running) \in Nat
         /\ IsFiniteSet(S) /\ Cardinality(S) \in Nat
         /\ Cardinality(S) <= Cardinality(running)
<1>1. IsFiniteSet(Ids)
  BY LimitsAssumption, FS_Interval DEF Ids
<1>2. IsFiniteSet(running)
  BY <1>1, FS_Subset DEF TypeOK
<1> QED
  BY <1>2, FS_Subset, FS_CardinalityType

\* Requests that leave their slots leave room.
LEMMA SlotsKeep ==
  ASSUME TypeOK, SlotsBounded, running' \subseteq running, serving' = serving
  PROVE  SlotsBounded'
<1>1. Cardinality(running') <= Cardinality(running)
  BY SlotsFinite
<1>2. Cardinality(running) \in Nat /\ Cardinality(running') \in Nat
  BY SlotsFinite
<1> QED
  BY <1>1, <1>2 DEF SlotsBounded, TypeOK, SettingType

\* No requests fit in any slots.
LEMMA NoSlotsKeep ==
  ASSUME running' = {}, serving' \in SettingType \cup {None}
  PROVE  SlotsBounded'
BY FS_EmptySet DEF SlotsBounded, SettingType

\* Destroyed requests are fresh, and the others as they were.
LEMMA ForgetFresh ==
  ASSUME TypeOK, UnheldFresh, NEW S, Forget(S), Held' = Held \ S
  PROVE  /\ UnheldFresh'
         /\ \A id \in Held' : /\ kv'[id] = kv[id]
                              /\ search'[id] = search[id]
                              /\ decode'[id] = decode[id]
BY DEF Forget, UnheldFresh, Held, TypeOK

\* Taking nothing from the line keeps what left it out of the line.
LEMMA LineKeeps ==
  ASSUME \/ UNCHANGED arrivals
         \/ waiting' = <<>> /\ nextId' = nextId
  PROVE  \A n \in Ids : Before(n) => Before(n)'
BY EmptySeq DEF Before

\* Calls that select nothing keep the selections waited for.
LEMMA SelectionsKeep ==
  ASSUME TypeOK, SelectionsOK,
         Selections' \subseteq Selections, pending' \subseteq pending,
         running' \subseteq running,
         \A id \in running' : /\ search'[id] = search[id]
                              /\ decode'[id].on = decode[id].on,
         \A n \in Ids : Before(n) => Before(n)'
  PROVE  SelectionsOK'
<1>1. \A e \in Selections : e.id \in Ids
  BY DEF Selections, Selection, TypeOK
<1>2. ASSUME NEW e \in Selections'
      PROVE  /\ Before(e.id)'
             /\ e.id \in running' => ~search'[e.id].finished /\ ~decode'[e.id].on
  <2>1. e \in Selections /\ e.id \in Ids
    BY <1>1
  <2> QED
    BY <2>1 DEF SelectionsOK
<1>3. \A e, f \in Selections' : e.id = f.id => e = f
  BY DEF SelectionsOK
<1>4. OneSelectionPerStep'
  BY DEF SelectionsOK, OneSelectionPerStep
<1> QED
  BY <1>2, <1>3, <1>4 DEF SelectionsOK

\* Calls that leave a request's decoder alone, or serve nothing more.
LEMMA ReadbacksKeep ==
  ASSUME ReadbacksOK, Held' \subseteq Held,
         serving' = serving \/ Held' = {},
         \A id \in Held' : /\ search'[id] = search[id]
                           /\ decode'[id].on = decode[id].on
                           /\ decode[id].pending = <<>> =>
                               decode'[id].pending = <<>>
  PROVE  ReadbacksOK'
<1>1. CASE Held' = {}
  BY <1>1 DEF ReadbacksOK
<1>2. CASE serving' = serving
  <2>1. Chained' <=> Chained
    BY <1>2 DEF Chained
  <2>2. ASSUME NEW id \in Held'
        PROVE  /\ search'[id].steps = 0 => ~search'[id].finished /\ ~decode'[id].on
               /\ ~decode'[id].on => decode'[id].pending = <<>>
               /\ decode'[id].on => Chained'
    <3>1. id \in Held
      OBVIOUS
    <3>2. /\ search[id].steps = 0 => ~search[id].finished /\ ~decode[id].on
          /\ ~decode[id].on => decode[id].pending = <<>>
          /\ decode[id].on => Chained
      BY <3>1 DEF ReadbacksOK
    <3>3. /\ search'[id] = search[id]
          /\ decode'[id].on = decode[id].on
          /\ decode[id].pending = <<>> => decode'[id].pending = <<>>
      OBVIOUS
    <3> QED
      BY <2>1, <3>2, <3>3, Zenon
  <2> QED
    BY <2>2 DEF ReadbacksOK
<1> QED
  BY <1>1, <1>2

\* Calls between steps that destroy requests, or change the setting of an
\* empty queue, keep the second invariant.
LEMMA CallKeepsFlow ==
  ASSUME TypeOK, TypeOK', FlowInv, HeldIssued, Configured, pc = "idle",
         NEW S, Forget(S), Held' = Held \ S, running' \subseteq running,
         serving' = serving \/ (Held' = {} /\ running' = {}),
         UNCHANGED <<batch, pending, emitted>>,
         pc' \in {"idle", "admit1"},
         \A n \in Ids : Before(n) => Before(n)'
  PROVE  FlowInv'
<1>1. /\ UnheldFresh'
      /\ \A id \in Held' : /\ kv'[id] = kv[id]
                           /\ search'[id] = search[id]
                           /\ decode'[id] = decode[id]
  BY ForgetFresh DEF FlowInv
<1>2. SlotsBounded'
  BY SlotsKeep, NoSlotsKeep DEF FlowInv, TypeOK
<1>3. batch = {} /\ emitted = {}
  BY DEF FlowInv, StagesOK, Accepting, Configured
<1>4. StagesOK'
  BY <1>3 DEF StagesOK
<1>5. ReadbacksOK'
  BY <1>1, ReadbacksKeep DEF FlowInv
<1>6. running' \subseteq Held'
  BY DEF Held
<1>7. EndsOK'
  BY <1>1, <1>3, <1>6 DEF FlowInv, EndsOK
<1>8. SelectionsOK'
  BY <1>1, <1>6, SelectionsKeep DEF FlowInv, Selections
<1> QED
  BY <1>1, <1>2, <1>4, <1>5, <1>7, <1>8 DEF FlowInv

----------------------------------------------------------------------------
(* Calls between steps keep the second invariant.                           *)

\* A call that leaves every cache alone destroys no request.
LEMMA NothingForgotten ==
  ASSUME TypeOK, UNCHANGED caches
  PROVE  Forget({})
BY DEF Forget, TypeOK

\* What reap_retired() destroys.
LEMMA ReapedLeave ==
  ASSUME HeldIssued, ReapRetired, running' = running
  PROVE  \E S : Forget(S) /\ Held' = Held \ S /\ running' \cap S = {}
<1> DEFINE S == {id \in retired : Drained(id)}
<1>1. Forget(S) /\ retired' = retired \ S
  BY DEF ReapRetired
<1>2. Held' = Held \ S /\ running' \cap S = {}
  BY <1>1 DEF Held, HeldIssued
<1> QED
  BY <1>1, <1>2, Zenon

\* A new request goes behind everything that left the line.
LEMMA PushLine ==
  ASSUME TypeOK, NEW k, NEW setting, nextId < IdLimit, Push(k, setting)
  PROVE  \A n \in Ids : Before(n) => Before(n)'
<1>1. /\ waiting' = Append(waiting, nextId)
      /\ nextId' = nextId + 1
      /\ nextId \in Ids /\ nextId \in Nat
  BY LimitsAssumption DEF Push, TypeOK, Ids
<1>2. /\ Len(waiting) \in Nat
      /\ Len(waiting') = Len(waiting) + 1
      /\ \A i \in 1 .. Len(waiting) : waiting'[i] = waiting[i]
      /\ waiting'[Len(waiting) + 1] = nextId
  BY <1>1, AppendProperties, LenProperties DEF TypeOK
<1>3. ASSUME NEW n \in Ids, Before(n), NEW i \in 1 .. Len(waiting')
      PROVE  n < waiting'[i]
  <2>1. CASE i \in 1 .. Len(waiting)
    BY <1>2, <1>3, <2>1 DEF Before
  <2>2. CASE i = Len(waiting) + 1
    BY <1>2, <1>3, <2>2 DEF Before
  <2> QED
    BY <1>2, <2>1, <2>2
<1> QED
  BY <1>1, <1>3 DEF Before, Ids

\* step() starts by reaping.
LEMMA StepBeginFlow == IInv /\ FlowInv /\ StepBegin => FlowInv'
<1> SUFFICES ASSUME IInv, FlowInv, StepBegin PROVE FlowInv'
  OBVIOUS
<1>1. TypeOK /\ TypeOK' /\ HeldIssued /\ Configured
  BY StepBeginKeeps DEF IInv
<1>2. /\ ReapRetired /\ running' = running /\ pc = "idle" /\ pc' = "admit1"
      /\ UNCHANGED <<config, arrivals, results, batch, pending>>
  BY DEF StepBegin
<1>3. PICK S : Forget(S) /\ Held' = Held \ S
  BY <1>1, <1>2, ReapedLeave
<1>4. \A n \in Ids : Before(n) => Before(n)'
  BY <1>2, LineKeeps
<1> QED
  BY <1>1, <1>2, <1>3, <1>4, CallKeepsFlow

\* enqueue() and cancelling in line touch no request that is served.
LEMMA LineFlow ==
  ASSUME IInv, FlowInv,
         \/ \E k \in Kinds : Enqueue(k)
         \/ \E id \in Ids : CancelWaiting(id)
  PROVE  FlowInv'
<1>1. TypeOK /\ TypeOK' /\ HeldIssued /\ Configured
  BY EnqueueKeeps, CancelWaitingKeeps DEF IInv
<1>2. /\ pc = "idle"
      /\ UNCHANGED <<config, slots, caches, results, locals, pending, pc>>
  BY DEF Enqueue, CancelWaiting, Idle
<1>3. Forget({}) /\ Held' = Held \ {}
  BY <1>1, <1>2, NothingForgotten DEF Held
<1>4. \A n \in Ids : Before(n) => Before(n)'
  <2>1. CASE \E k \in Kinds : Enqueue(k)
    BY <1>1, <2>1, PushLine DEF Enqueue, Admissible
  <2>2. CASE \E id \in Ids : CancelWaiting(id)
    <3>1. nextId' = nextId
      BY <2>2 DEF CancelWaiting
    <3>2. PICK i \in 1 .. Len(waiting) :
            waiting' = SubSeq(waiting, 1, i - 1)
                       \o SubSeq(waiting, i + 1, Len(waiting))
      BY <2>2 DEF CancelWaiting
    <3>3. /\ Len(waiting') = Len(waiting) - 1
          /\ \A j \in 1 .. Len(waiting') :
               waiting'[j] = waiting[IF j < i THEN j ELSE j + 1]
      BY <1>1, <3>2, RemovedAt, ZenonT(60) DEF TypeOK
    <3>4. Len(waiting) \in Nat
      BY <1>1, LenProperties DEF TypeOK
    <3>5. \A j \in 1 .. Len(waiting') :
            (IF j < i THEN j ELSE j + 1) \in 1 .. Len(waiting)
      BY <3>3, <3>4
    <3> QED
      BY <3>1, <3>3, <3>5 DEF Before
  <2> QED
    BY <2>1, <2>2
<1> QED
  BY <1>1, <1>2, <1>3, <1>4, CallKeepsFlow

\* A request that is cancelled waits for its readbacks or is destroyed.
LEMMA CancelRunningFlow ==
  ASSUME IInv, FlowInv, NEW id \in Ids, CancelRunning(id)
  PROVE  FlowInv'
<1>1. TypeOK /\ TypeOK' /\ HeldIssued /\ Configured
  BY CancelRunningKeeps DEF IInv
<1>2. /\ pc = "idle" /\ id \in running /\ running' = running \ {id}
      /\ UNCHANGED <<config, arrivals, locals, emitted, pc, pending>>
      /\ \/ retired' = retired \cup {id} /\ UNCHANGED caches
         \/ Forget({id}) /\ UNCHANGED retired
  BY DEF CancelRunning, Idle
<1>3. PICK S : Forget(S) /\ Held' = Held \ S
  <2>1. CASE retired' = retired \cup {id} /\ UNCHANGED caches
    <3>1. Forget({}) /\ Held' = Held \ {}
      BY <1>1, <1>2, <2>1, NothingForgotten DEF Held
    <3> QED
      BY <3>1
  <2>2. CASE Forget({id}) /\ UNCHANGED retired
    <3>1. Held' = Held \ {id}
      BY <1>1, <1>2, <2>2 DEF Held, HeldIssued
    <3> QED
      BY <2>2, <3>1
  <2> QED
    BY <1>2, <2>1, <2>2
<1>4. \A n \in Ids : Before(n) => Before(n)'
  BY <1>2, LineKeeps
<1> QED
  BY <1>1, <1>2, <1>3, <1>4, CallKeepsFlow

\* Calls on an empty queue keep the second invariant.
LEMMA EmptyQueueFlow ==
  ASSUME IInv, FlowInv, ReleaseWorkspaces \/ GenerateSerially \/ GenerateReturns
  PROVE  FlowInv'
<1>1. TypeOK /\ TypeOK' /\ HeldIssued /\ Configured
  BY ReleaseWorkspacesKeeps, MovesKeep, GenerateReturnsKeeps DEF IInv
<1>2. /\ pc = "idle" /\ running = {} /\ running' = {}
      /\ UNCHANGED <<arrivals, locals, emitted, pc, pending>>
      /\ \/ retired' = {} /\ Forget(retired) /\ serving' = serving
         \/ UNCHANGED caches /\ retired' = retired /\ serving' = serving
         \/ UNCHANGED caches /\ retired' = {} /\ retired = {}
  BY <1>1, NothingPending
     DEF ReleaseWorkspaces, GenerateSerially, GenerateReturns, Idle, Configured
<1>3. PICK S : Forget(S) /\ Held' = Held \ S
  <2>1. CASE retired' = {} /\ Forget(retired)
    <3>1. Held' = Held \ retired
      BY <1>2, <2>1 DEF Held
    <3> QED
      BY <2>1, <3>1
  <2>2. CASE UNCHANGED caches /\ retired' = retired
    <3>1. Forget({}) /\ Held' = Held \ {}
      BY <1>1, <1>2, <2>2, NothingForgotten DEF Held
    <3> QED
      BY <3>1
  <2> QED
    BY <1>2, <2>1, <2>2
<1>4. \A n \in Ids : Before(n) => Before(n)'
  BY <1>2, LineKeeps
<1>5. serving' = serving \/ Held' = {}
  BY <1>2 DEF Held
<1> QED
  BY <1>1, <1>2, <1>3, <1>4, <1>5, CallKeepsFlow

\* configure_serving() changes the setting of an empty queue only.
LEMMA ConfigureServingFlow ==
  ASSUME IInv, FlowInv, NEW s \in Settings, ConfigureServing(s)
  PROVE  FlowInv'
<1>1. TypeOK /\ TypeOK' /\ HeldIssued /\ Configured
  BY ConfigureServingKeeps DEF IInv
<1>2. /\ ReapRetired /\ running' = running /\ pc = "idle" /\ pc' = "idle"
      /\ UNCHANGED <<arrivals, emitted, batch, pending>>
      /\ \/ serving' = serving
         \/ PendingRequests = 0 /\ retired' = {}
  BY DEF ConfigureServing, Idle
<1>3. PICK S : Forget(S) /\ Held' = Held \ S
  BY <1>1, <1>2, ReapedLeave
<1>4. \A n \in Ids : Before(n) => Before(n)'
  BY <1>2, LineKeeps
<1>5. serving' = serving \/ (Held' = {} /\ running' = {})
  BY <1>1, <1>2, NothingPending DEF Held
<1> QED
  BY <1>1, <1>2, <1>3, <1>4, <1>5, CallKeepsFlow

\* generate() borrows an empty queue only.
LEMMA GenerateAheadFlow ==
  ASSUME IInv, FlowInv, NEW k \in Kinds, GenerateAhead(k)
  PROVE  FlowInv'
<1>1. TypeOK /\ TypeOK' /\ HeldIssued /\ Configured
  BY GenerateAheadKeeps DEF IInv
<1>2. /\ ReapRetired /\ running' = running /\ pc = "idle" /\ pc' = "idle"
      /\ PendingRequests = 0
      /\ UNCHANGED <<emitted, batch, pending>>
      /\ \/ retired' = {} /\ nextId < IdLimit /\ Push(k, AheadSetting(k))
         \/ UNCHANGED arrivals /\ serving' = serving
  BY DEF GenerateAhead, Idle, Admissible
<1>3. PICK S : Forget(S) /\ Held' = Held \ S
  BY <1>1, <1>2, ReapedLeave
<1>4. \A n \in Ids : Before(n) => Before(n)'
  BY <1>1, <1>2, LineKeeps, PushLine
<1>5. serving' = serving \/ (Held' = {} /\ running' = {})
  BY <1>1, <1>2, NothingPending DEF Held
<1> QED
  BY <1>1, <1>2, <1>3, <1>4, <1>5, CallKeepsFlow

----------------------------------------------------------------------------
(* Failures, readbacks and phases that select nothing.                      *)

\* A failure drops every selection.
LEMMA FailFlow == IInv /\ FlowInv /\ Fail => FlowInv'
<1> SUFFICES ASSUME IInv, FlowInv, Fail PROVE FlowInv'
  OBVIOUS
<1>1. TypeOK /\ TypeOK' /\ HeldIssued /\ Configured
  BY FailKeeps DEF IInv
<1>2. /\ waiting' = <<>> /\ running' = {} /\ emitted' = {} /\ retired' = retired
      /\ batch' = {} /\ pending' = {} /\ pc' = "idle" /\ Forget(running)
      /\ serving' = IF blocking = None THEN serving ELSE blocking.previous
  BY DEF Fail
<1>3. Held' = Held \ running
  BY <1>1, <1>2 DEF Held, HeldIssued
<1>4. /\ UnheldFresh'
      /\ \A id \in Held' : /\ search'[id] = search[id]
                           /\ decode'[id] = decode[id]
  BY <1>1, <1>2, <1>3, ForgetFresh DEF FlowInv
<1>5. SlotsBounded'
  BY <1>1, <1>2, NoSlotsKeep DEF TypeOK
<1>6. StagesOK'
  BY <1>2 DEF StagesOK
<1>7. ReadbacksOK'
  <2>1. serving' = serving \/ Held' = {}
    BY <1>1, <1>2, <1>3 DEF Configured, Held
  <2> QED
    BY <1>3, <1>4, <2>1, ReadbacksKeep DEF FlowInv
<1>8. EndsOK' /\ SelectionsOK'
  BY <1>2 DEF EndsOK, SelectionsOK, Selections, OneSelectionPerStep
<1> QED
  BY <1>4, <1>5, <1>6, <1>7, <1>8 DEF FlowInv

\* The device finishes readbacks between any two steps of the host.
LEMMA ReadbackCompletesFlow ==
  ASSUME IInv, FlowInv, NEW id \in Ids, ReadbackCompletes(id)
  PROVE  FlowInv'
<1>1. TypeOK /\ DecodersSound
  BY DEF IInv
<1>2. /\ UNCHANGED <<config, arrivals, slots, results, locals, others, kv,
                      search, pc>>
      /\ \A other \in Ids : /\ decode'[other].on = decode[other].on
                            /\ decode'[other].pending = decode[other].pending
  <2>1. decode[id] \in DecodeType
    BY <1>1 DEF TypeOK
  <2>2. decode' = [decode EXCEPT ![id] = [decode[id] EXCEPT !.ready = @ + 1]]
    BY <1>1 DEF ReadbackCompletes, TypeOK
  <2>3. ASSUME NEW other \in Ids
        PROVE  /\ decode'[other].on = decode[other].on
               /\ decode'[other].pending = decode[other].pending
    BY <1>1, <2>1, <2>2 DEF TypeOK, DecodeType
  <2> QED
    BY <2>3 DEF ReadbackCompletes
<1>3. Held' = Held /\ Held \subseteq Ids /\ running \subseteq Held
  BY <1>1, <1>2 DEF Held, TypeOK
<1>4. UnheldFresh' /\ SlotsBounded'
  BY <1>2, <1>3 DEF FlowInv, UnheldFresh, SlotsBounded
<1>5. StagesOK'
  BY <1>2, <1>3 DEF FlowInv, StagesOK, Accepting, Chained
<1>6. ReadbacksOK'
  BY <1>2, <1>3, ReadbacksKeep DEF FlowInv
<1>7. EndsOK'
  <2>1. \A other \in running : decode'[other].pending = decode[other].pending
    BY <1>2, <1>3
  <2>2. emitted \subseteq running
    BY DEF IInv, HeldIssued
  <2> QED
    BY <1>2, <2>1, <2>2 DEF FlowInv, EndsOK
<1>8. SelectionsOK'
  <2>1. \A n \in Ids : Before(n) => Before(n)'
    BY <1>2, LineKeeps
  <2> QED
    BY <1>1, <1>2, <1>3, <2>1, SelectionsKeep DEF FlowInv, Selections
<1> QED
  BY <1>4, <1>5, <1>6, <1>7, <1>8 DEF FlowInv

\* The phases of step() that touch no request, and the taking of the deferred
\* tokens after the first admission.
LEMMA MovesFlow ==
  ASSUME IInv, FlowInv,
         \/ AdmitDone \/ NoDecodeRows \/ AheadPollDone \/ AheadDone \/ NoPrefill
  PROVE  FlowInv'
<1>1. TypeOK
  BY DEF IInv
<1>2. /\ UNCHANGED <<config, arrivals, slots, caches, emitted, decoded>>
      /\ \/ UNCHANGED <<batch, pending>>
         \/ batch' = pending /\ pending' = {}
  BY DEF AdmitDone, NoDecodeRows, AheadPollDone, AheadDone, NoPrefill, TakePending
<1>3. Held' = Held /\ running \subseteq Held
  BY <1>2 DEF Held
<1>4. UnheldFresh' /\ SlotsBounded'
  BY <1>2, <1>3 DEF FlowInv, UnheldFresh, SlotsBounded
<1>5. StagesOK'
  <2>1. CASE AdmitDone
    BY <1>2, <2>1
       DEF AdmitDone, Admitting, TakePending, FlowInv, StagesOK, Accepting
  <2>2. CASE NoDecodeRows \/ AheadPollDone \/ AheadDone \/ NoPrefill
    BY <1>2, <2>2
       DEF NoDecodeRows, AheadPollDone, AheadDone, NoPrefill, FlowInv, StagesOK,
           Accepting, Chained
  <2> QED
    BY <2>1, <2>2
<1>6. ReadbacksOK'
  BY <1>2, <1>3, ReadbacksKeep DEF FlowInv
<1>7. EndsOK'
  BY <1>2 DEF AdmitDone, Admitting, NoDecodeRows, AheadPollDone, AheadDone,
              NoPrefill, FlowInv, EndsOK
<1>8. SelectionsOK'
  <2>1. \A n \in Ids : Before(n) => Before(n)'
    BY <1>2, LineKeeps
  <2>2. Selections' \subseteq Selections /\ pending' \subseteq pending
    BY <1>2 DEF Selections
  <2> QED
    BY <1>1, <1>2, <2>1, <2>2, SelectionsKeep DEF FlowInv
<1> QED
  BY <1>4, <1>5, <1>6, <1>7, <1>8 DEF FlowInv

\* What is admitted starts fresh, in a free slot, and no selection is its.
LEMMA AdmitFlow == IInv /\ FlowInv /\ Admit => FlowInv'
<1> SUFFICES ASSUME IInv, FlowInv, Admit PROVE FlowInv'
  OBVIOUS
<1> DEFINE new == Head(waiting)
<1>1. TypeOK /\ NoOvertaking /\ Configured /\ DecodersSound /\ HeldIssued
  BY DEF IInv
<1>2. /\ waiting # <<>> /\ waiting' = Tail(waiting)
      /\ Cardinality(running) < serving.maximumActive
      /\ running' = running \cup {new}
      /\ pc \in {"admit1", "admit2", "admit3"}
      /\ UNCHANGED <<config, nextId, retired, search, decode, emitted, pc,
                      batch, pending, decoded>>
  BY DEF Admit, CanAdmit, Admitting
<1>3. /\ new = waiting[1] /\ new \in Ids
      /\ Len(waiting) \in Nat \ {0}
      /\ Len(waiting') = Len(waiting) - 1
      /\ \A i \in 1 .. Len(waiting') : waiting'[i] = waiting[i + 1]
  BY <1>1, <1>2, HeadTailProperties, EmptySeq DEF TypeOK
<1>4. 1 \in 1 .. Len(waiting)
  BY <1>3
<1>5. new \notin Held /\ Held' = Held \cup {new}
  BY <1>1, <1>2, <1>3, <1>4 DEF NoOvertaking, Ids, Held
<1>6. search[new] = NoSearch /\ decode[new] = NoDecode
  BY <1>1, <1>3, <1>5 DEF FlowInv, UnheldFresh, DecodersSound
<1>7. UnheldFresh'
  <2>1. \A id \in Ids \ {new} : kv'[id] = kv[id]
    BY <1>1 DEF Admit, TypeOK
  <2> QED
    BY <1>2, <1>5, <2>1 DEF FlowInv, UnheldFresh
<1>8. SlotsBounded'
  <2>1. IsFiniteSet(running) /\ Cardinality(running) \in Nat
    BY <1>1, SlotsFinite
  <2>2. Cardinality(running') = Cardinality(running) + 1
    BY <1>2, <1>5, <2>1, FS_AddElement DEF Held
  <2>3. serving.maximumActive \in Nat
    BY <1>1, <1>2 DEF Configured, TypeOK, SettingType
  <2> QED
    BY <1>2, <2>1, <2>2, <2>3 DEF SlotsBounded
<1>9. StagesOK'
  BY <1>2 DEF FlowInv, StagesOK, Accepting
<1>10. ReadbacksOK'
  <2>1. Chained' <=> Chained
    BY <1>2 DEF Chained
  <2> QED
    BY <1>2, <1>5, <1>6, <2>1 DEF FlowInv, ReadbacksOK, NoSearch, NoDecode
<1>11. EndsOK'
  BY <1>2, <1>6 DEF FlowInv, EndsOK, NoSearch
<1>12. SelectionsOK'
  <2>1. ASSUME NEW e \in Selections
        PROVE  /\ Before(e.id)'
               /\ e.id \in running' =>
                    e.id \in running /\ ~search[e.id].finished /\ ~decode[e.id].on
    <3>1. Before(e.id) /\ e.id \in Ids
      BY <1>1 DEF FlowInv, SelectionsOK, Selections, Selection, TypeOK
    <3>2. e.id # new
      BY <1>3, <1>4, <3>1 DEF Before, Ids
    <3>3. Before(e.id)'
      BY <1>2, <1>3, <3>1 DEF Before
    <3> QED
      BY <1>2, <3>2, <3>3 DEF FlowInv, SelectionsOK
  <2>2. Selections' = Selections
    BY <1>2 DEF Selections
  <2>3. OneSelectionPerStep'
    BY <1>2, <2>1 DEF FlowInv, SelectionsOK, OneSelectionPerStep, Selections
  <2> QED
    BY <1>2, <2>1, <2>2, <2>3 DEF FlowInv, SelectionsOK
<1> QED
  BY <1>7, <1>8, <1>9, <1>10, <1>11, <1>12 DEF FlowInv

----------------------------------------------------------------------------
(* Accepting, retiring and the model calls.                                 *)

\* An accepted token is one more step.
LEMMA AcceptedSteps ==
  ASSUME NEW s \in SearchType, NEW token \in Tokens, NEW t \in TaskType
  PROVE  /\ Accepted(s, token, t) \in SearchType
         /\ Accepted(s, token, t).steps = s.steps + 1
         /\ Accepted(s, token, t).steps > 0
BY AcceptedType DEF Accepted, SearchType

\* Accepting the only selection of a request: it is not waited for again.
LEMMA AcceptFlow == IInv /\ FlowInv /\ Accept => FlowInv'
<1> SUFFICES ASSUME IInv, FlowInv, Accept PROVE FlowInv'
  OBVIOUS
<1>1. TypeOK /\ HeldIssued /\ TasksKnown
  BY DEF IInv
<1>2. PICK e \in batch :
        /\ batch' = batch \ {e}
        /\ IF Served(e.id)
           THEN /\ ~search[e.id].finished
                /\ search' = [search EXCEPT ![e.id] =
                               Accepted(search[e.id], e.token, task[e.id])]
                /\ IF Accepted(search[e.id], e.token, task[e.id]).finished
                   THEN Complete(e.id,
                                 Accepted(search[e.id], e.token, task[e.id]),
                                 kv[e.id])
                   ELSE UNCHANGED results
           ELSE UNCHANGED <<results, search>>
  BY DEF Accept
<1> DEFINE id == e.id
           s == Accepted(search[id], e.token, task[id])
<1>3. /\ UNCHANGED <<config, arrivals, slots, others, kv, decode, pc, decoded>>
      /\ Accepting /\ Held' = Held /\ running \subseteq Held /\ Held \subseteq Ids
  BY <1>1 DEF Accept, Held, TypeOK
<1>4. id \in Ids /\ e.token \in Tokens /\ e \in Selections
  BY <1>1, <1>2 DEF TypeOK, Selection, Selections
<1>5. pending = {} /\ pending' = {}
  BY <1>2, <1>3 DEF FlowInv, StagesOK
<1>6. ASSUME id \in running
      PROVE  /\ ~search[id].finished /\ id \notin emitted
             /\ decode[id].pending = <<>>
             /\ search'[id] = s /\ s.steps > 0
             /\ s.finished => emitted' = emitted \cup {id}
             /\ ~s.finished => emitted' = emitted
  <2>1. task[id] \in TaskType /\ search[id] \in SearchType
    BY <1>1, <1>3, <1>4, <1>6 DEF HeldIssued, TasksKnown, TypeOK
  <2>2. s.steps > 0
    BY <1>4, <2>1, AcceptedSteps
  <2>3. search'[id] = s /\ ~search[id].finished
    BY <1>1, <1>2, <1>4, <1>6 DEF Served, TypeOK
  <2>4. ~decode[id].on /\ decode[id].pending = <<>>
    BY <1>3, <1>4, <1>6 DEF FlowInv, SelectionsOK, ReadbacksOK
  <2>5. id \notin emitted
    BY <2>3 DEF FlowInv, EndsOK
  <2> QED
    BY <1>2, <1>6, <2>2, <2>3, <2>4, <2>5 DEF Served, Complete
<1> HIDE DEF s
<1>7. \A other \in Ids : other # id \/ other \notin running =>
                           search'[other] = search[other]
  BY <1>1, <1>2, <1>4 DEF Served, TypeOK
<1>8. id \notin running => emitted' = emitted
  BY <1>2 DEF Served
<1> HIDE DEF id
<1>9. UnheldFresh' /\ SlotsBounded'
  BY <1>3, <1>7 DEF FlowInv, UnheldFresh, SlotsBounded
<1>10. StagesOK'
  BY <1>3, <1>5 DEF FlowInv, StagesOK, Accepting
<1>11. ReadbacksOK'
  <2>1. Chained' <=> Chained
    BY <1>3 DEF Chained
  <2>2. \A other \in Held : search'[other].steps = 0 =>
                              search'[other] = search[other]
    BY <1>3, <1>6, <1>7
  <2> QED
    BY <1>3, <2>1, <2>2 DEF FlowInv, ReadbacksOK
<1>12. EndsOK'
  <2>1. \A other \in emitted : search'[other] = search[other] /\ other \in Ids
    BY <1>1, <1>3, <1>6, <1>7 DEF HeldIssued
  <2>2. ASSUME NEW other \in emitted'
        PROVE  search'[other].finished /\ decode[other].pending = <<>>
    <3>1. CASE other \in emitted
      BY <2>1, <3>1 DEF FlowInv, EndsOK
    <3>2. CASE other \notin emitted
      BY <1>6, <1>8, <2>2, <3>2
    <3> QED
      BY <3>1, <3>2
  <2>3. ASSUME NEW other \in running, search'[other].finished,
               decode[other].pending = <<>>
        PROVE  other \in emitted'
    <3>1. CASE other = id
      BY <1>6, <2>3, <3>1
    <3>2. CASE other # id
      <4>1. search[other].finished
        BY <1>3, <1>7, <2>3, <3>2
      <4>2. other \in emitted
        BY <1>3, <2>3, <4>1 DEF FlowInv, EndsOK, Accepting
      <4> QED
        BY <1>6, <1>8, <4>2
    <3> QED
      BY <3>1, <3>2
  <2> QED
    BY <1>3, <2>2, <2>3 DEF EndsOK
<1>13. SelectionsOK'
  <2>1. Selections' = Selections \ {e}
    BY <1>2, <1>5 DEF Selections
  <2>2. ASSUME NEW f \in Selections \ {e}
        PROVE  /\ Before(f.id)'
               /\ f.id \in running => ~search'[f.id].finished /\ ~decode[f.id].on
    <3>1. f.id # id /\ f.id \in Ids
      BY <1>1, <1>4 DEF FlowInv, SelectionsOK, Selections, Selection, TypeOK, id
    <3>2. search'[f.id] = search[f.id]
      BY <1>7, <3>1
    <3> QED
      BY <1>3, <3>2 DEF FlowInv, SelectionsOK, Before
  <2>3. OneSelectionPerStep'
    BY <1>5 DEF OneSelectionPerStep
  <2> QED
    BY <1>3, <2>1, <2>2, <2>3 DEF FlowInv, SelectionsOK
<1> QED
  BY <1>9, <1>10, <1>11, <1>12, <1>13 DEF FlowInv

\* What retires is complete, and every search that ended without readbacks in
\* flight retires.
LEMMA RetireFlow == IInv /\ FlowInv /\ Retire => FlowInv'
<1> SUFFICES ASSUME IInv, FlowInv, Retire PROVE FlowInv'
  OBVIOUS
<1> DEFINE done == running \cap emitted
<1>1. TypeOK /\ HeldIssued
  BY DEF IInv
<1>2. /\ batch = {} /\ batch' = {} /\ pending' = pending
      /\ running' = running \ done /\ emitted' = emitted \ done
      /\ Forget(done)
      /\ UNCHANGED <<config, arrivals, retired, decoded>>
      /\ \/ pc = "accept1" /\ pc' = "admit2"
         \/ pc = "accept2" /\ pc' = "admit3"
         \/ pc = "accept3" /\ pc' = "idle"
  BY DEF Retire, Accepting
<1>3. Held' = Held \ done /\ running' \subseteq Held'
  BY <1>1, <1>2 DEF Held, HeldIssued
<1>4. /\ UnheldFresh'
      /\ \A id \in Held' : /\ search'[id] = search[id]
                           /\ decode'[id] = decode[id]
  BY <1>1, <1>2, <1>3, ForgetFresh DEF FlowInv
<1>5. SlotsBounded'
  BY <1>1, <1>2, SlotsKeep DEF FlowInv
<1>6. StagesOK'
  BY <1>2 DEF FlowInv, StagesOK, Accepting
<1>7. ReadbacksOK'
  BY <1>2, <1>3, <1>4, ReadbacksKeep DEF FlowInv
<1>8. EndsOK'
  BY <1>1, <1>2, <1>3, <1>4 DEF FlowInv, EndsOK, HeldIssued
<1>9. SelectionsOK'
  <2>1. \A n \in Ids : Before(n) => Before(n)'
    BY <1>2, LineKeeps
  <2> QED
    BY <1>1, <1>2, <1>3, <1>4, <2>1, SelectionsKeep DEF FlowInv, Selections
<1> QED
  BY <1>4, <1>5, <1>6, <1>7, <1>8, <1>9 DEF FlowInv

\* Requests that are served left the line.
LEMMA ServedLeftLine ==
  ASSUME HeldIssued, NoOvertaking
  PROVE  \A id \in running : Before(id)
BY DEF HeldIssued, NoOvertaking, Held, Before

\* Selections made for running requests that wait for them.
LEMMA SelectionsMade ==
  ASSUME IInv, NEW rows \in SUBSET running, NEW f,
         \A id \in rows : ~search[id].finished /\ ~decode[id].on,
         \/ \A id \in rows : search[id].steps > 0
         \/ \A id, other \in rows : id = other,
         Selections' = {[id |-> id, token |-> f[id]] : id \in rows},
         UNCHANGED <<arrivals, running, search, decode>>
  PROVE  SelectionsOK'
<1>1. \A id \in running : Before(id)'
  <2>1. \A id \in running : Before(id)
    BY ServedLeftLine DEF IInv
  <2> QED
    BY <2>1 DEF Before
<1>2. ASSUME NEW e \in Selections'
      PROVE  e.id \in rows /\ e = [id |-> e.id, token |-> f[e.id]]
  OBVIOUS
<1>3. \A e, g \in Selections' : e.id = g.id => e = g
  BY <1>2
<1>4. OneSelectionPerStep'
  <2>1. pending' \subseteq Selections'
    BY DEF Selections
  <2> QED
    BY <1>2, <2>1 DEF OneSelectionPerStep
<1> QED
  BY <1>1, <1>2, <1>3, <1>4 DEF SelectionsOK

\* A packed decode selects for the rows that are ready; none of them waits for
\* another selection.
LEMMA DecodeBatchFlow == IInv /\ FlowInv /\ DecodeBatch => FlowInv'
<1> SUFFICES ASSUME IInv, FlowInv, DecodeBatch PROVE FlowInv'
  OBVIOUS
<1> DEFINE rows == DecodeRows
           f == [id \in Ids |-> Select(Append(kv[id], search[id].token))]
<1>1. TypeOK /\ HeldIssued
  BY DEF IInv
<1>2. rows \subseteq Ready /\ Ready \subseteq running /\ running \subseteq Held /\ Held \subseteq Ids
  BY <1>1 DEF DecodeRows, Ready, Held, TypeOK
<1>3. /\ pc = "decode" /\ ~Chained /\ pc' = "accept2" /\ decoded' = TRUE
      /\ UNCHANGED <<config, arrivals, slots, emitted, search, decode>>
      /\ \A id \in Ids \ rows : kv'[id] = kv[id]
  BY DEF DecodeBatch
<1>4. /\ batch = {} /\ pending = {}
      /\ \/ /\ serving.deferred /\ batch' = {}
            /\ pending' = {[id |-> id, token |-> f[id]] : id \in rows}
         \/ /\ pending' = {}
            /\ batch' = {[id |-> id, token |-> f[id]] : id \in rows}
  <2>1. batch = {} /\ pending = {}
    BY <1>3 DEF FlowInv, StagesOK, Accepting
  <2> DEFINE contents == [id \in Ids |-> IF id \in rows
                                         THEN Append(kv[id], search[id].token)
                                         ELSE kv[id]]
             selected == {[id |-> id, token |-> Select(contents[id])] : id \in rows}
  <2>2. \A id \in rows : Select(contents[id]) = f[id]
    BY <1>2
  <2>3. selected = {[id |-> id, token |-> f[id]] : id \in rows}
    BY <2>2
  <2>4. IF serving.deferred
        THEN pending' = pending \cup selected /\ UNCHANGED batch
        ELSE batch' = selected /\ UNCHANGED pending
    BY DEF DecodeBatch
  <2> HIDE DEF selected
  <2> QED
    BY <2>1, <2>3, <2>4
<1>5. \A id \in rows : /\ ~search[id].finished /\ ~decode[id].on
                       /\ search[id].steps > 0
  <2>1. \A id \in rows : /\ id \in running /\ id \in Held
                         /\ id \notin emitted /\ search[id].steps > 0
    BY <1>2 DEF Ready
  <2>2. \A id \in rows : ~decode[id].on /\ decode[id].pending = <<>>
    BY <1>3, <2>1 DEF FlowInv, ReadbacksOK
  <2> QED
    BY <1>3, <2>1, <2>2 DEF FlowInv, EndsOK
<1>6. UnheldFresh' /\ SlotsBounded'
  BY <1>2, <1>3 DEF FlowInv, UnheldFresh, SlotsBounded, Held
<1> HIDE DEF rows, f
<1>7. StagesOK'
  BY <1>3, <1>4 DEF StagesOK, Accepting
<1>8. ReadbacksOK' /\ EndsOK'
  BY <1>3 DEF FlowInv, ReadbacksOK, EndsOK, Chained, Held
<1>9. SelectionsOK'
  <2>1. Selections' = {[id |-> id, token |-> f[id]] : id \in rows}
    BY <1>4 DEF Selections
  <2> QED
    BY <1>2, <1>3, <1>5, <2>1, SelectionsMade
<1> QED
  BY <1>6, <1>7, <1>8, <1>9 DEF FlowInv

\* The final chunk of a prompt selects alone.
LEMMA PrefillFlow == IInv /\ FlowInv /\ Prefill => FlowInv'
<1> SUFFICES ASSUME IInv, FlowInv, Prefill PROVE FlowInv'
  OBVIOUS
<1>0. PICK id \in Unprefilled :
        LET end      == Len(kv[id]) + ChunkLength(id)
            contents == kv[id] \o SubSeq(task[id].prompt, Len(kv[id]) + 1, end)
        IN  /\ ~SecondSelection(id)
            /\ kv' = [kv EXCEPT ![id] = contents]
            /\ \/ /\ FinalChunk(id) /\ serving.deferred
                  /\ pending' = pending \cup {[id |-> id, token |-> Select(contents)]}
                  /\ UNCHANGED batch
               \/ /\ FinalChunk(id) /\ ~serving.deferred
                  /\ batch' = {[id |-> id, token |-> Select(contents)]}
                  /\ UNCHANGED pending
               \/ UNCHANGED <<batch, pending>>
  BY DEF Prefill
<1> DEFINE end == Len(kv[id]) + ChunkLength(id)
           contents == kv[id] \o SubSeq(task[id].prompt, Len(kv[id]) + 1, end)
<1>1. TypeOK /\ HeldIssued
  BY DEF IInv
<1>2. /\ ~SecondSelection(id)
      /\ kv' = [kv EXCEPT ![id] = contents]
      /\ \/ /\ FinalChunk(id) /\ serving.deferred
            /\ pending' = pending \cup {[id |-> id, token |-> Select(contents)]}
            /\ UNCHANGED batch
         \/ /\ FinalChunk(id) /\ ~serving.deferred
            /\ batch' = {[id |-> id, token |-> Select(contents)]}
            /\ UNCHANGED pending
         \/ UNCHANGED <<batch, pending>>
  BY <1>0
<1> HIDE DEF contents
<1>3. /\ pc = "prefill" /\ pc' = "accept3"
      /\ UNCHANGED <<config, arrivals, slots, emitted, search, decode, decoded>>
  BY DEF Prefill
<1>4. /\ id \in running /\ id \in Held /\ id \in Ids
      /\ ~search[id].finished /\ ~decode[id].on
  BY <1>1 DEF Unprefilled, FlowInv, ReadbacksOK, Held, TypeOK
<1>5. /\ batch = {}
      /\ pending # {} => serving.deferred /\ decoded
  BY <1>3 DEF FlowInv, StagesOK, Accepting
<1>6. \/ /\ pending = {} /\ serving.deferred /\ batch' = {}
         /\ pending' = {[id |-> id, token |-> Select(contents)]}
      \/ /\ pending = {} /\ pending' = {}
         /\ batch' = {[id |-> id, token |-> Select(contents)]}
      \/ UNCHANGED <<batch, pending>>
  BY <1>2, <1>5 DEF SecondSelection
<1>7. UnheldFresh' /\ SlotsBounded'
  BY <1>1, <1>2, <1>3, <1>4 DEF FlowInv, UnheldFresh, SlotsBounded, Held, TypeOK
<1>8. StagesOK'
  BY <1>3, <1>5, <1>6 DEF StagesOK, Accepting
<1>9. ReadbacksOK' /\ EndsOK'
  BY <1>3 DEF FlowInv, ReadbacksOK, EndsOK, Chained, Held
<1>10. SelectionsOK'
  <2>1. CASE UNCHANGED <<batch, pending>>
    <3>1. \A n \in Ids : Before(n) => Before(n)'
      BY <1>3, LineKeeps
    <3> QED
      BY <1>1, <1>3, <2>1, <3>1, SelectionsKeep DEF FlowInv, Selections
  <2>2. CASE Selections' = {[id |-> id, token |-> Select(contents)]}
    <3> DEFINE f == [other \in {id} |-> Select(contents)]
    <3>1. Selections' = {[id |-> other, token |-> f[other]] : other \in {id}}
      BY <2>2
    <3>2. {id} \in SUBSET running
      BY <1>4
    <3> HIDE DEF f
    <3> QED
      BY <1>3, <1>4, <3>1, <3>2, SelectionsMade
  <2> QED
    BY <1>6, <2>1, <2>2 DEF Selections
<1> QED
  BY <1>7, <1>8, <1>9, <1>10 DEF FlowInv

\* Tokens are chained for a single request.
LEMMA OneSlot ==
  ASSUME TypeOK, SlotsBounded, Chained, serving # None, NEW id \in running
  PROVE  running = {id}
<1>1. IsFiniteSet(running) /\ Cardinality(running) \in Nat
  BY SlotsFinite
<1>2. Cardinality(running) <= 1
  BY DEF SlotsBounded, Chained
<1>3. IsFiniteSet(running \ {id}) /\ Cardinality(running \ {id}) = Cardinality(running) - 1
  BY <1>1, FS_RemoveElement
<1>4. Cardinality(running \ {id}) \in Nat
  BY <1>3, FS_CardinalityType
<1>5. Cardinality(running \ {id}) = 0
  BY <1>1, <1>2, <1>3, <1>4
<1>6. running \ {id} = {}
  BY <1>3, <1>5, FS_EmptySet
<1> QED
  BY <1>6

\* While a request is decoded ahead nothing is selected.
LEMMA AheadStages ==
  ASSUME IInv, FlowInv, pc \in {"decode", "poll", "polled", "submit"}
  PROVE  /\ batch = {} /\ pending = {} /\ Selections = {}
         /\ serving # None
         /\ pc # "decode" =>
              Chained /\ \A id \in running : search[id].steps > 0 /\ decode[id].on
BY DEF IInv, Configured, FlowInv, StagesOK, Accepting, Selections

\* No selections, none to wait for.
LEMMA NoSelections ==
  ASSUME Selections' = {}
  PROVE  SelectionsOK'
BY DEF SelectionsOK, Selections, OneSelectionPerStep

\* Decoding ahead begins with the one request that is ready.
LEMMA AheadBeginFlow == IInv /\ FlowInv /\ AheadBegin => FlowInv'
<1> SUFFICES ASSUME IInv, FlowInv, AheadBegin PROVE FlowInv'
  OBVIOUS
<1>1. TypeOK /\ HeldIssued
  BY DEF IInv
<1>2. PICK id \in Ready : decode' = IF decode[id].on THEN decode
                                    ELSE [decode EXCEPT ![id] = DecodeFrom(id)]
  BY DEF AheadBegin, DecodeRows
<1>3. /\ pc = "decode" /\ pc' \in {"poll", "polled"} /\ Chained
      /\ UNCHANGED <<config, arrivals, slots, results, locals, others, kv, search>>
  BY DEF AheadBegin
<1>4. /\ batch = {} /\ pending = {} /\ Selections = {} /\ serving # None
  BY <1>3, AheadStages
<1>5. /\ id \in running /\ id \in Ids /\ search[id].steps > 0 /\ id \notin emitted
  BY <1>1, <1>2 DEF Ready, TypeOK
<1>6. running = {id}
  BY <1>1, <1>3, <1>4, <1>5, OneSlot DEF FlowInv
<1>7. Held' = Held /\ Held \subseteq Ids /\ running \subseteq Held
  BY <1>1, <1>3 DEF Held, TypeOK
<1>8. /\ decode'[id].on
      /\ decode[id].on => decode'[id] = decode[id]
      /\ \A other \in Ids \ {id} : decode'[other] = decode[other]
  BY <1>1, <1>2, <1>5 DEF DecodeFrom, TypeOK
<1>9. UnheldFresh' /\ SlotsBounded'
  BY <1>3, <1>7 DEF FlowInv, UnheldFresh, SlotsBounded
<1>10. Chained'
  BY <1>3 DEF Chained
<1>11. StagesOK'
  BY <1>3, <1>4, <1>5, <1>6, <1>8, <1>10 DEF StagesOK, Accepting
<1>12. ReadbacksOK'
  BY <1>3, <1>5, <1>7, <1>8, <1>10 DEF FlowInv, ReadbacksOK
<1>13. EndsOK'
  BY <1>1, <1>3, <1>5, <1>8 DEF FlowInv, EndsOK, HeldIssued, TypeOK
<1>14. SelectionsOK'
  BY <1>3, <1>4, NoSelections DEF Selections
<1> QED
  BY <1>9, <1>11, <1>12, <1>13, <1>14 DEF FlowInv

\* The readback that was taken leaves the decoder on.
LEMMA PolledFields ==
  ASSUME NEW d \in DecodeType, NEW n
  PROVE  LET e == [d EXCEPT !.pending = Tail(@), !.ready = @ - 1]
             f == [d EXCEPT !.pending = Tail(@), !.ready = @ - 1, !.logical = n]
         IN  /\ e.on = d.on /\ e.pending = Tail(d.pending) /\ e.logical = d.logical
             /\ e.token = d.token /\ e.submitted = d.submitted
             /\ f.on = d.on /\ f.pending = Tail(d.pending) /\ f.logical = n
             /\ f.token = d.token /\ f.submitted = d.submitted
BY DEF DecodeType

\* A readback that ends the text completes the request when it is the last one.
LEMMA AheadPollFlow == IInv /\ FlowInv /\ AheadPoll => FlowInv'
<1> SUFFICES ASSUME IInv, FlowInv, AheadPoll PROVE FlowInv'
  OBVIOUS
<1>1. TypeOK /\ HeldIssued /\ TasksKnown /\ DecodersSound
  BY DEF IInv
<1>2. PICK id \in running :
        LET d == decode[id]
            r == Head(d.pending)
            s == Accepted(search[id], r.token, task[id])
        IN  /\ d.ready > 0
            /\ \/ /\ search[id].finished
                  /\ decode' = [decode EXCEPT
                        ![id] = [d EXCEPT !.pending = Tail(@), !.ready = @ - 1]]
                  /\ UNCHANGED <<search, results>>
               \/ /\ ~search[id].finished
                  /\ decode' = [decode EXCEPT
                        ![id] = [d EXCEPT !.pending = Tail(@), !.ready = @ - 1,
                                          !.logical = r.position]]
                  /\ search' = [search EXCEPT ![id] = s]
                  /\ \/ /\ s.finished /\ Tail(d.pending) = <<>>
                        /\ emitted' = emitted \cup {id}
                     \/ emitted' = emitted
  BY DEF AheadPoll, Complete
<1> DEFINE d == decode[id]
           r == Head(d.pending)
           s == Accepted(search[id], r.token, task[id])
<1>3. /\ pc = "poll" /\ pc' = "poll"
      /\ UNCHANGED <<config, arrivals, slots, locals, others, kv>>
  BY DEF AheadPoll
<1>4. /\ batch = {} /\ pending = {} /\ Selections = {} /\ Chained
      /\ \A other \in running : search[other].steps > 0 /\ decode[other].on
  BY <1>3, AheadStages
<1>5. /\ id \in Ids /\ d \in DecodeType /\ kv[id] \in Seq(Tokens)
      /\ DecoderSound(d, kv[id]) /\ task[id] \in TaskType
      /\ search[id] \in SearchType
  BY <1>1 DEF TypeOK, DecodersSound, HeldIssued, Held, TasksKnown
<1>6. r.token \in Tokens
  BY <1>2, <1>5, PolledSound
<1>7. s.steps > 0
  BY <1>5, <1>6, AcceptedSteps
<1>8. d.pending # <<>> /\ id \notin emitted
  <2>1. d.pending # <<>>
    <3>1. d.ready > 0 /\ d.ready <= Len(d.pending) /\ d.ready \in Nat
      BY <1>2, <1>5 DEF DecoderSound, DecodeType
    <3>2. d.pending = <<>> => Len(d.pending) = 0
      OBVIOUS
    <3>3. Len(d.pending) \in Nat
      BY <1>5, LenProperties DEF DecodeType
    <3> QED
      BY <3>1, <3>2, <3>3
  <2> QED
    BY <2>1 DEF FlowInv, EndsOK
<1>9. decode'[id].on = decode[id].on /\ decode'[id].pending = Tail(d.pending)
  <2> DEFINE e == [d EXCEPT !.pending = Tail(@), !.ready = @ - 1]
             f == [d EXCEPT !.pending = Tail(@), !.ready = @ - 1,
                            !.logical = r.position]
  <2>1. /\ e.on = d.on /\ e.pending = Tail(d.pending)
        /\ f.on = d.on /\ f.pending = Tail(d.pending)
    BY <1>5, PolledFields
  <2>2. decode'[id] = e \/ decode'[id] = f
    BY <1>1, <1>2, <1>5 DEF TypeOK
  <2> HIDE DEF e, f
  <2> QED
    BY <2>1, <2>2, Zenon
<1>10. \A other \in Ids \ {id} : /\ decode'[other] = decode[other]
                                 /\ search'[other] = search[other]
  BY <1>1, <1>2 DEF TypeOK
<1>11. search'[id] = search[id] \/ search'[id] = s
  BY <1>1, <1>2, <1>5 DEF TypeOK
<1>12. emitted' = emitted
       \/ /\ emitted' = emitted \cup {id}
          /\ search'[id].finished /\ decode'[id].pending = <<>>
  BY <1>1, <1>2, <1>5, <1>9 DEF TypeOK
<1> HIDE DEF d, r, s
<1>13. Held' = Held /\ Held \subseteq Ids /\ running \subseteq Held
  BY <1>1, <1>3 DEF Held, TypeOK
<1>14. decode'[id].on /\ search'[id].steps > 0
  BY <1>4, <1>7, <1>9, <1>11
<1>15. UnheldFresh' /\ SlotsBounded'
  BY <1>3, <1>10, <1>13 DEF FlowInv, UnheldFresh, SlotsBounded
<1>16. Chained'
  BY <1>3, <1>4 DEF Chained
<1>17. StagesOK'
  BY <1>3, <1>4, <1>10, <1>13, <1>14, <1>16 DEF StagesOK, Accepting
<1>18. ReadbacksOK'
  BY <1>10, <1>13, <1>14, <1>16 DEF FlowInv, ReadbacksOK
<1>19. EndsOK'
  BY <1>1, <1>3, <1>8, <1>10, <1>12 DEF FlowInv, EndsOK, HeldIssued, TypeOK
<1>20. SelectionsOK'
  BY <1>3, <1>4, NoSelections DEF Selections
<1> QED
  BY <1>15, <1>17, <1>18, <1>19, <1>20 DEF FlowInv

\* After settling nothing that ended and is drained is left incomplete.
LEMMA AheadSettleFlow == IInv /\ FlowInv /\ AheadSettle => FlowInv'
<1> SUFFICES ASSUME IInv, FlowInv, AheadSettle PROVE FlowInv'
  OBVIOUS
<1>1. TypeOK
  BY DEF IInv
<1>2. PICK id \in running : IF Settles(id) THEN emitted' = emitted \cup {id}
                            ELSE emitted' = emitted
  BY DEF AheadSettle, Complete
<1>3. /\ pc = "polled" /\ pc' = "submit"
      /\ UNCHANGED <<config, arrivals, slots, caches, locals, others>>
  BY DEF AheadSettle
<1>4. /\ batch = {} /\ pending = {} /\ Selections = {} /\ Chained
      /\ serving # None
      /\ \A other \in running : search[other].steps > 0 /\ decode[other].on
  BY <1>3, AheadStages
<1>5. running = {id}
  BY <1>1, <1>4, OneSlot DEF FlowInv
<1>6. UnheldFresh' /\ SlotsBounded' /\ ReadbacksOK'
  BY <1>3 DEF FlowInv, UnheldFresh, SlotsBounded, ReadbacksOK, Chained, Held
<1>7. StagesOK'
  BY <1>3, <1>4 DEF StagesOK, Accepting, Chained
<1>8. EndsOK'
  BY <1>2, <1>3, <1>5 DEF FlowInv, EndsOK, Settles
<1>9. SelectionsOK'
  BY <1>3, <1>4, NoSelections DEF Selections
<1> QED
  BY <1>6, <1>7, <1>8, <1>9 DEF FlowInv

\* What one more submission does to a decoder.
LEMMA SubmittedFields ==
  ASSUME NEW d \in DecodeType, NEW token, NEW r
  PROVE  LET e == [d EXCEPT !.token = token, !.pending = Append(@, r),
                            !.submitted = @ + 1]
         IN  /\ e.on = d.on /\ e.logical = d.logical /\ e.ready = d.ready
             /\ e.token = token /\ e.pending = Append(d.pending, r)
             /\ e.submitted = d.submitted + 1
BY DEF DecodeType

\* Tokens are submitted for a search that has not ended.
LEMMA AheadSubmitFlow == IInv /\ FlowInv /\ AheadSubmit => FlowInv'
<1> SUFFICES ASSUME IInv, FlowInv, AheadSubmit PROVE FlowInv'
  OBVIOUS
<1>1. TypeOK /\ HeldIssued
  BY DEF IInv
<1>2. PICK id \in running :
        LET contents == Append(kv[id], decode[id].token)
            token    == Select(contents)
        IN  /\ CanSubmit(id)
            /\ kv' = [kv EXCEPT ![id] = contents]
            /\ decode' = [decode EXCEPT
                 ![id].token = token,
                 ![id].pending =
                   Append(@, [token |-> token, position |-> Len(contents)]),
                 ![id].submitted = @ + 1]
  BY DEF AheadSubmit
<1> DEFINE contents == Append(kv[id], decode[id].token)
           token == Select(contents)
           r == [token |-> token, position |-> Len(contents)]
<1>3. /\ pc = "submit" /\ pc' = "submit"
      /\ UNCHANGED <<config, arrivals, slots, results, locals, others, search>>
  BY DEF AheadSubmit
<1>4. /\ batch = {} /\ pending = {} /\ Selections = {} /\ Chained
      /\ \A other \in running : search[other].steps > 0 /\ decode[other].on
  BY <1>3, AheadStages
<1>5. id \in Ids /\ decode[id] \in DecodeType /\ ~search[id].finished /\ id \notin emitted
  BY <1>1, <1>2 DEF TypeOK, CanSubmit, FlowInv, EndsOK
<1>6. decode' = [decode EXCEPT ![id] = [decode[id] EXCEPT !.token = token,
                                  !.pending = Append(@, r), !.submitted = @ + 1]]
  BY <1>1, <1>2, <1>5 DEF TypeOK
<1>7. /\ decode'[id].on = decode[id].on
      /\ \A other \in Ids \ {id} : /\ decode'[other] = decode[other]
                                   /\ kv'[other] = kv[other]
  BY <1>1, <1>2, <1>5, <1>6, SubmittedFields DEF TypeOK
<1> HIDE DEF contents, token, r
<1>8. Held' = Held /\ Held \subseteq Ids /\ running \subseteq Held
  BY <1>1, <1>3 DEF Held, TypeOK
<1>9. decode'[id].on
  BY <1>4, <1>7
<1>10. UnheldFresh' /\ SlotsBounded'
  BY <1>3, <1>7, <1>8 DEF FlowInv, UnheldFresh, SlotsBounded
<1>11. Chained'
  BY <1>3, <1>4 DEF Chained
<1>12. StagesOK'
  BY <1>3, <1>4, <1>7, <1>8, <1>9, <1>11 DEF StagesOK, Accepting
<1>13. ReadbacksOK'
  BY <1>3, <1>4, <1>7, <1>8, <1>9, <1>11 DEF FlowInv, ReadbacksOK
<1>14. EndsOK'
  BY <1>1, <1>3, <1>5, <1>7 DEF FlowInv, EndsOK, HeldIssued, TypeOK
<1>15. SelectionsOK'
  BY <1>3, <1>4, NoSelections DEF Selections
<1> QED
  BY <1>10, <1>12, <1>13, <1>14, <1>15 DEF FlowInv

\* The second invariant holds of a generator that was just built.
LEMMA InitFlow == Init => FlowInv
<1> SUFFICES ASSUME Init PROVE FlowInv
  OBVIOUS
<1>1. Held = {} /\ Selections = {}
  BY DEF Init, Held, Selections
<1>2. UnheldFresh /\ SlotsBounded /\ StagesOK
  BY <1>1 DEF Init, UnheldFresh, SlotsBounded, StagesOK
<1>3. ReadbacksOK /\ EndsOK
  BY <1>1 DEF Init, ReadbacksOK, EndsOK
<1>4. SelectionsOK
  BY <1>1 DEF Init, SelectionsOK, OneSelectionPerStep
<1> QED
  BY <1>2, <1>3, <1>4 DEF FlowInv

\* Every step keeps the second invariant, given the first.
LEMMA NextFlow == IInv /\ FlowInv /\ [Next]_vars => FlowInv'
<1> SUFFICES ASSUME IInv, FlowInv, [Next]_vars PROVE FlowInv'
  OBVIOUS
<1>1. CASE Step
  BY <1>1, StepBeginFlow, AdmitFlow, MovesFlow, AcceptFlow, RetireFlow,
     DecodeBatchFlow, AheadBeginFlow, AheadPollFlow, AheadSettleFlow,
     AheadSubmitFlow, PrefillFlow
     DEF Step
<1>2. CASE Callers
  BY <1>2, ConfigureServingFlow, GenerateAheadFlow, LineFlow,
     CancelRunningFlow, EmptyQueueFlow
     DEF Callers
<1>3. CASE Device
  BY <1>3, ReadbackCompletesFlow DEF Device
<1>4. CASE Fail
  BY <1>4, FailFlow
<1>5. CASE UNCHANGED vars
  BY <1>5 DEF vars, FlowInv, UnheldFresh, SlotsBounded, StagesOK, ReadbacksOK,
              EndsOK, SelectionsOK, Before, Selections, OneSelectionPerStep,
              Accepting, Chained, Held
<1> QED
  BY <1>1, <1>2, <1>3, <1>4, <1>5 DEF Next

\* Both invariants hold of every reachable state of the serving queue.
THEOREM FlowHolds == Spec => [](IInv /\ FlowInv)
<1>1. Init => IInv /\ FlowInv
  BY InitEstablishes, InitFlow
<1>2. IInv /\ FlowInv /\ [Next]_vars => (IInv /\ FlowInv)'
  BY NextKeeps, NextFlow
<1> QED
  BY <1>1, <1>2, PTL DEF Spec

\* However requests are cancelled, completed and replaced while selections
\* are deferred, a selection that the host accepts is the one its search waits
\* for, and no step leaves two kinds of selections pending.
THEOREM SelectionsSound == Spec => []SelectionsAreSound
<1>1. FlowInv => SelectionsAreSound
  BY DEF FlowInv, SelectionsOK, Selections, SelectionsAreSound,
         SelectionsAreExpected
<1> QED
  BY <1>1, FlowHolds, PTL

\* What reap_retired() destroys is drained.
LEMMA ReapedAreDrained ==
  ASSUME ReapRetired, running' = running, NEW id \in Held, id \notin Held'
  PROVE  Drained(id)
BY DEF ReapRetired, Held

\* The cache of a request is given up with no readback in flight, whatever
\* the step, but for release_workspaces() and a failure.
THEOREM InFlightHeld == Spec => InFlightIsHeld
<1> DEFINE Kept == \A id \in Held : id \notin Held' =>
                     \/ decode[id].ready = Len(decode[id].pending)
                     \/ failed'
                     \/ ReleaseWorkspaces
<1>1. IInv /\ FlowInv /\ [Next]_vars => [Kept]_vars
  <2> SUFFICES ASSUME IInv, FlowInv, Next, NEW id \in Held, id \notin Held',
                      ~failed', ~ReleaseWorkspaces
               PROVE  decode[id].ready = Len(decode[id].pending)
    OBVIOUS
  <2>1. /\ id \in Ids /\ decode[id].ready \in Nat
        /\ decode[id].ready <= Len(decode[id].pending)
    BY DEF IInv, TypeOK, DecodeType, DecodersSound, DecoderSound, Held
  <2>2. CASE \/ StepBegin
             \/ \E s \in Settings : ConfigureServing(s)
             \/ \E k \in Kinds : GenerateAhead(k)
    <3>1. ReapRetired /\ running' = running
      BY <2>2 DEF StepBegin, ConfigureServing, GenerateAhead
    <3> QED
      BY <3>1, ReapedAreDrained DEF Drained
  <2>3. CASE Retire
    <3>1. id \in emitted
      BY <2>3 DEF Retire, Held
    <3>2. decode[id].pending = <<>>
      BY <3>1 DEF FlowInv, EndsOK
    <3> QED
      BY <2>1, <3>2
  <2>4. CASE \E other \in Ids : CancelRunning(other)
    <3>1. decode[id].pending = <<>>
      BY <2>4 DEF CancelRunning, Held
    <3> QED
      BY <2>1, <3>1
  <2>5. CASE Fail
    BY <2>5 DEF Fail
  <2>6. CASE \/ Admit \/ AdmitDone \/ Accept \/ NoDecodeRows \/ DecodeBatch
             \/ AheadBegin \/ AheadPoll \/ AheadPollDone \/ AheadSettle
             \/ AheadSubmit \/ AheadDone \/ Prefill \/ NoPrefill
    BY <2>6 DEF Admit, AdmitDone, Accept, NoDecodeRows, DecodeBatch, AheadBegin,
                AheadPoll, AheadPollDone, AheadSettle, AheadSubmit, AheadDone,
                Prefill, NoPrefill, Held
  <2>7. CASE \/ \E k \in Kinds : Enqueue(k)
             \/ \E other \in Ids : CancelWaiting(other)
             \/ GenerateSerially \/ GenerateReturns
             \/ \E other \in Ids : ReadbackCompletes(other)
    BY <2>7 DEF Enqueue, CancelWaiting, GenerateSerially, GenerateReturns,
                ReadbackCompletes, Held
  <2> QED
    BY <2>2, <2>3, <2>4, <2>5, <2>6, <2>7 DEF Next, Step, Callers, Device
<1>2. Spec => [][Kept]_vars
  BY <1>1, FlowHolds, PTL DEF Spec
<1> QED
  BY <1>2 DEF InFlightIsHeld

----------------------------------------------------------------------------
(* What the queue stores: every cache stays within its request's capacity,  *)
(* the retained prefix within the budget, and with the tokens that the      *)
(* model processed.  A third invariant, on top of the two above.            *)

\* A request was given room for its prompt and all that it may produce.
TaskFits(t) == Len(t.prompt) + t.maximum <= t.capacity

TasksFit == \A id \in Ids : id < nextId => TaskFits(task[id])

\* What generate() borrows the queue for retains nothing.
KeepsNothing(id) == task[id].cache < task[id].capacity

Borrowed ==
  blocking # None =>
    /\ servingPrefix = None
    /\ \A id \in running : KeepsNothing(id)
    /\ \A i \in 1 .. Len(waiting) : KeepsNothing(waiting[i])

\* A selection of the request was not accepted yet.
Due(id) == \E e \in Selections : e.id = id

\* The numbers of a request that is decoded in packed calls: a part of the
\* prompt is stored until the first token is selected, then the prompt and
\* every token that was selected, but the last one until it is fed back.
Room(prompt, maximum, stored, steps, due) ==
  /\ steps < maximum
  /\ steps = 0 => stored <= prompt /\ (due => stored = prompt)
  /\ steps > 0 => IF due THEN stored = prompt + steps
                         ELSE stored + 1 = prompt + steps

\* And of one that is decoded ahead: the tokens submitted, but the last one.
RoomAhead(prompt, maximum, stored, submitted) ==
  stored + 1 = prompt + submitted /\ submitted <= maximum

Stores(id) ==
  IF decode[id].on
  THEN RoomAhead(Len(task[id].prompt), task[id].maximum, Len(kv[id]),
                 decode[id].submitted)
  ELSE ~search[id].finished =>
         Room(Len(task[id].prompt), task[id].maximum, Len(kv[id]),
              search[id].steps, Due(id))

\* What is retained was retained under the present setting, and fits.
RetainedOK ==
  servingPrefix # None =>
    /\ serving # None
    /\ Reservation(Held \ emitted) + servingPrefix.capacity <= serving.budget

StoresOK ==
  /\ CacheFits
  /\ \A id \in running : Stores(id)

StorageInv ==
  /\ TasksFit
  /\ Borrowed
  /\ RetainedOK
  /\ StoresOK

----------------------------------------------------------------------------
(* Requests are given room, and borrowed ones retain nothing.               *)

\* What enqueue() accepts fits in the storage that it reserves.
LEMMA TaskHasRoom ==
  ASSUME NEW k \in Kinds, NEW compact, NEW setting, Admissible(k, setting)
  PROVE  /\ TaskFits(Task(k, compact))
         /\ Task(k, compact).capacity > 0
         /\ Task(k, compact).cache = k.cache
<1> DEFINE fits == Len(k.prompt) + k.maximum
           required == IF k.context > ByteCacheTokens
                       THEN Max2(fits, ByteCacheTokens + 1) ELSE fits
<1>1. /\ k.context \in Nat /\ k.maximum \in Nat \ {0}
      /\ k.prompt \in Seq(Tokens) /\ Len(k.prompt) \in Nat
  BY KindsAssumption, LenProperties DEF KindType
<1>2. fits \in Nat /\ fits > 0 /\ fits <= k.context
  BY <1>1 DEF Admissible
<1> HIDE DEF fits
<1>3. required \in Nat /\ fits <= required
  <2>1. ByteCacheTokens + 1 \in Nat
    BY LimitsAssumption
  <2>2. /\ Max2(fits, ByteCacheTokens + 1) \in Nat
        /\ fits <= Max2(fits, ByteCacheTokens + 1)
    BY <1>2, <2>1, MaxBound
  <2> QED
    BY <1>2, <2>2
<1> HIDE DEF required
<1>4. RoundUp(required) \in Nat /\ required <= RoundUp(required)
  BY <1>3, RoundUpGrows
<1>5. fits <= Min2(k.context, RoundUp(required))
  BY <1>1, <1>2, <1>3, <1>4 DEF Min2
<1>6. /\ RequestCapacity(k, compact) \in Nat
      /\ fits <= RequestCapacity(k, compact)
  <2>1. RequestCapacity(k, compact) =
          IF compact THEN Min2(k.context, RoundUp(required)) ELSE k.context
    BY DEF RequestCapacity, required, fits
  <2>2. Min2(k.context, RoundUp(required)) \in Nat
    BY <1>1, <1>4 DEF Min2
  <2> QED
    BY <1>1, <1>2, <1>5, <2>1, <2>2
<1>7. /\ Task(k, compact).prompt = k.prompt
      /\ Task(k, compact).maximum = k.maximum
      /\ Task(k, compact).capacity = RequestCapacity(k, compact)
      /\ Task(k, compact).cache = k.cache
  BY DEF Task
<1> QED
  BY <1>2, <1>6, <1>7 DEF TaskFits, fits

\* Issued tasks keep their room.
LEMMA TasksFitKeeps ==
  ASSUME IInv, TasksFit, [Next]_vars
  PROVE  TasksFit'
<1>1. TypeOK
  BY DEF IInv
<1>2. CASE \E k \in Kinds : Enqueue(k) \/ GenerateAhead(k)
  <2>1. CASE UNCHANGED <<task, nextId>>
    BY <2>1 DEF TasksFit
  <2>2. CASE ~UNCHANGED <<task, nextId>>
    <3>0. PICK k \in Kinds : \E setting : Admissible(k, setting) /\ Push(k, setting)
      BY <1>2, <2>2 DEF Enqueue, GenerateAhead
    <3>1. PICK setting : Admissible(k, setting) /\ Push(k, setting)
      BY <3>0
    <3>2. TaskFits(Task(k, setting.compact))
      BY <3>1, TaskHasRoom
    <3>3. /\ nextId \in Nat /\ nextId' = nextId + 1
          /\ task' = [task EXCEPT ![nextId] = Task(k, setting.compact)]
      BY <1>1, <3>1, LimitsAssumption DEF Push, TypeOK
    <3>4. ASSUME NEW id \in Ids, id < nextId'
          PROVE  TaskFits(task'[id])
      <4>1. CASE id = nextId
        BY <1>1, <3>2, <3>3, <4>1 DEF TypeOK
      <4>2. CASE id # nextId
        BY <1>1, <3>3, <3>4, <4>2 DEF TypeOK, TasksFit, Ids
      <4> QED
        BY <4>1, <4>2
    <3> QED
      BY <3>4 DEF TasksFit
  <2> QED
    BY <2>1, <2>2
<1>3. CASE UNCHANGED <<task, nextId>>
  BY <1>3 DEF TasksFit
<1>4. CASE Step
  <2>1. UNCHANGED <<task, nextId>>
    <3>1. CASE StepBegin \/ Admit \/ AdmitDone \/ Accept \/ Retire
      BY <3>1 DEF StepBegin, Admit, AdmitDone, Accept, Retire, arrivals
    <3>2. CASE NoDecodeRows \/ DecodeBatch \/ Prefill \/ NoPrefill
      BY <3>2 DEF NoDecodeRows, DecodeBatch, Prefill, NoPrefill, arrivals
    <3>3. CASE \/ AheadBegin \/ AheadPoll \/ AheadPollDone \/ AheadSettle
               \/ AheadSubmit \/ AheadDone
      BY <3>3 DEF AheadBegin, AheadPoll, AheadPollDone, AheadSettle,
                  AheadSubmit, AheadDone, arrivals
    <3> QED
      BY <1>4, <3>1, <3>2, <3>3 DEF Step
  <2> QED
    BY <1>3, <2>1
<1>5. CASE Device \/ Fail \/ UNCHANGED vars
  BY <1>3, <1>5 DEF Device, ReadbackCompletes, Fail, vars, arrivals
<1>6. CASE \/ \E s \in Settings : ConfigureServing(s)
           \/ \E id \in Ids : CancelWaiting(id) \/ CancelRunning(id)
           \/ ReleaseWorkspaces \/ GenerateSerially \/ GenerateReturns
  BY <1>3, <1>6 DEF ConfigureServing, CancelWaiting, CancelRunning,
                    ReleaseWorkspaces, GenerateSerially, GenerateReturns, arrivals
<1>7. CASE Callers
  BY <1>2, <1>6, <1>7 DEF Callers
<1> QED
  BY <1>4, <1>5, <1>7 DEF Next

\* A request that keeps nothing is not retained.
LEMMA NothingRetained ==
  ASSUME NEW id, task[id] \in TaskType, KeepsNothing(id), NEW contents, NEW ids
  PROVE  Retained(task[id], contents, ids) = None
BY DEF KeepsNothing, Retained, TaskType

----------------------------------------------------------------------------
(* The requests of generate() retain nothing.                               *)

\* Calls that leave the tasks alone and retain nothing of borrowed requests.
LEMMA BorrowedKeeps ==
  ASSUME Borrowed, UNCHANGED <<blocking, task>>, running' \subseteq running,
         \/ waiting' = waiting
         \/ blocking = None,
         blocking # None => servingPrefix' = None
  PROVE  Borrowed'
BY DEF Borrowed, KeepsNothing

\* A completed request of generate() is not retained.
LEMMA CompletedBorrowed ==
  ASSUME IInv, Borrowed, blocking # None, NEW id \in running, NEW s,
         NEW contents, Complete(id, s, contents)
  PROVE  servingPrefix' = None
<1>1. task[id] \in TaskType
  BY DEF IInv, TypeOK, HeldIssued, Held, TasksKnown
<1>2. KeepsNothing(id)
  BY DEF Borrowed
<1> QED
  BY <1>1, <1>2, NothingRetained DEF Complete

\* The queue is borrowed empty, for a request with a prefix cache of no bytes.
LEMMA GenerateAheadBorrows ==
  ASSUME IInv, NEW k \in Kinds, GenerateAhead(k)
  PROVE  Borrowed'
<1> DEFINE setting == AheadSetting(k)
<1>1. TypeOK /\ waiting = <<>> /\ running = {}
  BY NothingPending DEF IInv, GenerateAhead
<1>2. /\ blocking = None /\ servingPrefix' = None /\ running' = running
      /\ k.cache = 0
      /\ \/ Admissible(k, setting) /\ Push(k, setting)
         \/ blocking' = blocking
  BY DEF GenerateAhead, Idle
<1>3. CASE blocking' = blocking
  BY <1>2, <1>3 DEF Borrowed
<1>4. CASE Admissible(k, setting) /\ Push(k, setting)
  <2>1. /\ Task(k, setting.compact).capacity > 0
        /\ Task(k, setting.compact).cache = 0
    BY <1>2, <1>4, TaskHasRoom
  <2>2. nextId \in Ids
    BY <1>1, <1>4, LimitsAssumption DEF Admissible, TypeOK, Ids
  <2>3. /\ waiting' = Append(<<>>, nextId)
        /\ task'[nextId] = Task(k, setting.compact)
    BY <1>1, <1>4, <2>2 DEF Push, TypeOK
  <2>4. Len(waiting') = 1 /\ waiting'[1] = nextId
    BY <2>3
  <2>5. task'[nextId].cache < task'[nextId].capacity
    BY <2>1, <2>3
  <2> HIDE DEF setting
  <2>6. \A i \in 1 .. Len(waiting') : waiting'[i] = nextId
    BY <2>4
  <2>7. \A i \in 1 .. Len(waiting') :
          task'[waiting'[i]].cache < task'[waiting'[i]].capacity
    BY <2>5, <2>6
  <2> QED
    BY <1>1, <1>2, <2>7 DEF Borrowed, KeepsNothing
<1> QED
  BY <1>2, <1>3, <1>4

\* Admission moves the head of the line into a slot.
LEMMA AdmitBorrowed == IInv /\ Borrowed /\ Admit => Borrowed'
<1> SUFFICES ASSUME IInv, Borrowed, Admit, blocking # None PROVE Borrowed'
  BY DEF Admit, Borrowed, config
<1>1. /\ waiting \in Seq(Ids) /\ waiting # <<>> /\ waiting' = Tail(waiting)
      /\ running' = running \cup {Head(waiting)} /\ servingPrefix' = None
      /\ UNCHANGED <<blocking, task>>
  BY DEF IInv, TypeOK, Admit, CanAdmit, config
<1>2. /\ Head(waiting) = waiting[1] /\ 1 \in 1 .. Len(waiting)
      /\ \A i \in 1 .. Len(waiting') :
           i + 1 \in 1 .. Len(waiting) /\ waiting'[i] = waiting[i + 1]
  <2>1. /\ Len(waiting) \in Nat \ {0}
        /\ Len(waiting') = Len(waiting) - 1
    BY <1>1, HeadTailProperties, EmptySeq
  <2> QED
    BY <1>1, <2>1, HeadTailProperties
<1>3. \A id \in running' : KeepsNothing(id)
  BY <1>1, <1>2 DEF Borrowed
<1>4. \A i \in 1 .. Len(waiting') : KeepsNothing(waiting'[i])
  BY <1>2 DEF Borrowed
<1> QED
  BY <1>1, <1>3, <1>4 DEF Borrowed, KeepsNothing

\* What completes in a step is not retained either.
LEMMA CompletingBorrowed ==
  ASSUME IInv, Borrowed, Accept \/ AheadPoll \/ AheadSettle
  PROVE  Borrowed'
<1>1. UNCHANGED <<blocking, task, running, waiting>>
  BY DEF Accept, AheadPoll, AheadSettle, config, arrivals, slots
<1>2. ASSUME blocking # None
      PROVE  servingPrefix' = None
  <2>1. CASE UNCHANGED results
    BY <1>2, <2>1 DEF Borrowed, results
  <2>2. CASE ~UNCHANGED results
    <3>1. \E id \in running : \E s, contents : Complete(id, s, contents)
      <4>1. CASE Accept
        BY <2>2, <4>1, Zenon DEF Accept, Served
      <4>2. CASE AheadPoll
        BY <2>2, <4>2, Zenon DEF AheadPoll
      <4>3. CASE AheadSettle
        BY <2>2, <4>3, Zenon DEF AheadSettle
      <4> QED
        BY <4>1, <4>2, <4>3
    <3> QED
      BY <1>2, <3>1, CompletedBorrowed
  <2> QED
    BY <2>1, <2>2
<1> QED
  BY <1>1, <1>2, BorrowedKeeps

\* The other steps retain nothing new.
LEMMA NextBorrowed == IInv /\ Borrowed /\ [Next]_vars => Borrowed'
<1> SUFFICES ASSUME IInv, Borrowed, [Next]_vars PROVE Borrowed'
  OBVIOUS
<1>1. CASE StepBegin \/ AdmitDone \/ Retire
  BY <1>1, BorrowedKeeps
     DEF StepBegin, AdmitDone, Retire, config, arrivals, slots, results, Borrowed
<1>2. CASE NoDecodeRows \/ DecodeBatch \/ Prefill \/ NoPrefill
  BY <1>2, BorrowedKeeps
     DEF NoDecodeRows, DecodeBatch, Prefill, NoPrefill, config, arrivals, slots,
         results, Borrowed
<1>3. CASE \/ AheadBegin \/ AheadPollDone \/ AheadSubmit \/ AheadDone
           \/ Device \/ UNCHANGED vars
  BY <1>3, BorrowedKeeps
     DEF AheadBegin, AheadPollDone, AheadSubmit, AheadDone, Device,
         ReadbackCompletes, vars, config, arrivals, slots, results, Borrowed
<1>4. CASE Fail \/ GenerateReturns
  BY <1>4 DEF Fail, GenerateReturns, Borrowed
<1>5. CASE \/ \E s \in Settings : ConfigureServing(s)
           \/ \E k \in Kinds : Enqueue(k)
           \/ \E id \in Ids : CancelWaiting(id) \/ CancelRunning(id)
           \/ ReleaseWorkspaces \/ GenerateSerially
  <2>1. blocking = None /\ blocking' = blocking
    BY <1>5 DEF ConfigureServing, Enqueue, CancelWaiting, CancelRunning,
                ReleaseWorkspaces, GenerateSerially, Idle, config
  <2> QED
    BY <2>1 DEF Borrowed
<1>6. CASE Callers
  BY <1>4, <1>5, <1>6, GenerateAheadBorrows DEF Callers
<1>7. CASE Step
  BY <1>1, <1>2, <1>3, <1>7, AdmitBorrowed, CompletingBorrowed DEF Step
<1> QED
  BY <1>3, <1>4, <1>6, <1>7 DEF Next


----------------------------------------------------------------------------
(* The retained prefix stays within the budget.                             *)

\* Fewer requests hold no more.
LEMMA ReservationShrinks ==
  ASSUME IInv, NEW S \in SUBSET Held, NEW U \in SUBSET S
  PROVE  /\ Reservation(U) \in Nat /\ Reservation(S) \in Nat
         /\ Reservation(U) <= Reservation(S)
<1>1. TypeOK /\ TasksKnown /\ HeldIssued
  BY DEF IInv
<1>2. U \in SUBSET Held
  OBVIOUS
<1>3. Reservation(U) \in Nat /\ Reservation(S) \in Nat
  BY <1>1, <1>2, ReservationType
<1>4. IsFiniteSet(S) /\ \A id \in S : task[id].capacity \in Nat
  BY <1>1, HeldFinite
<1>5. Reservation(U) <= Reservation(S)
  BY <1>4, CellsDifference, CellsAreCellsOf DEF Reservation
<1> QED
  BY <1>3, <1>5

\* Cells are counted by the tasks of the requests that hold them.
LEMMA ReservationLater ==
  ASSUME NEW U, \A id \in U : task'[id] = task[id]
  PROVE  Cardinality(CellsOf(task', U)) = Reservation(U)
BY CellsOfSame, CellsAreCellsOf DEF Reservation

\* Calls that retain nothing new, with fewer incomplete requests.
LEMMA RetainedKeeps ==
  ASSUME IInv, RetainedOK, UNCHANGED <<servingPrefix, serving>>,
         Held' \ emitted' \subseteq Held \ emitted,
         \A id \in Held : task'[id] = task[id]
  PROVE  RetainedOK'
<1> SUFFICES ASSUME servingPrefix # None
             PROVE  Cardinality(CellsOf(task', Held' \ emitted'))
                      + servingPrefix.capacity <= serving.budget
  BY DEF RetainedOK, Reservation, Cells, CellsOf
<1> DEFINE U == Held' \ emitted'
           S == Held \ emitted
<1>1. Cardinality(CellsOf(task', U)) = Reservation(U)
  <2>1. \A id \in U : task'[id] = task[id]
    OBVIOUS
  <2> QED
    BY <2>1, ReservationLater
<1>2. S \in SUBSET Held /\ U \in SUBSET S
  OBVIOUS
<1>3. /\ Reservation(U) \in Nat /\ Reservation(S) \in Nat
      /\ Reservation(U) <= Reservation(S)
  BY <1>2, ReservationShrinks
<1>4. serving # None /\ Reservation(S) + servingPrefix.capacity <= serving.budget
  BY DEF RetainedOK
<1>5. servingPrefix.capacity \in Nat /\ serving.budget \in Nat
  BY <1>4 DEF IInv, TypeOK, PrefixType, SettingType
<1> HIDE DEF U, S
<1>6. Reservation(U) + servingPrefix.capacity <= serving.budget
  BY <1>3, <1>4, <1>5
<1> QED
  BY <1>1, <1>6 DEF U

\* What a request leaves behind takes the place that it had.
LEMMA RetainedRoom ==
  ASSUME IInv, ~failed, NEW id \in Held, NEW U \in SUBSET (Held \ {id})
  PROVE  /\ serving # None
         /\ Reservation(U) + task[id].capacity <= serving.budget
<1> DEFINE S == Held \ {id}
<1>1. TypeOK /\ TasksKnown /\ HeldIssued
  BY DEF IInv
<1>2. /\ IsFiniteSet(Held)
      /\ \A other \in Held : task[other].capacity \in Nat
  BY <1>1, HeldFinite
<1>3. IsFiniteSet(S) /\ S \cup {id} = Held /\ id \notin S
  BY <1>2, FS_Subset
<1> HIDE DEF S
<1>4. Cardinality(CellsOf(task, Held)) =
        Cardinality(CellsOf(task, S)) + task[id].capacity
  BY <1>2, <1>3, CellsAdd
<1>5. Reservation(Held) = Reservation(S) + task[id].capacity
  BY <1>4, CellsAreCellsOf DEF Reservation
<1>6. serving # None /\ Reservation(Held) <= serving.budget
  BY DEF IInv, Accounted, Configured
<1>7. /\ Reservation(U) \in Nat /\ Reservation(S) \in Nat
      /\ Reservation(U) <= Reservation(S)
  BY ReservationShrinks DEF S
<1>8. task[id].capacity \in Nat /\ serving.budget \in Nat
  BY <1>1, <1>2, <1>6 DEF TypeOK, SettingType
<1> QED
  BY <1>5, <1>6, <1>7, <1>8

\* Retaining the cache of a request that leaves or is complete.
LEMMA RetainedFrom ==
  ASSUME IInv, ~failed, NEW id \in Held,
         Held' \ emitted' \subseteq Held \ {id},
         UNCHANGED <<serving, task>>,
         NEW contents, NEW ids,
         servingPrefix' = Retained(task[id], contents, ids)
  PROVE  RetainedOK'
<1> SUFFICES ASSUME servingPrefix' # None
             PROVE  /\ serving # None
                    /\ Cardinality(CellsOf(task', Held' \ emitted'))
                         + servingPrefix'.capacity <= serving.budget
  BY DEF RetainedOK, Reservation, Cells, CellsOf
<1> DEFINE U == Held' \ emitted'
<1>1. U \in SUBSET (Held \ {id})
  OBVIOUS
<1>2. Cardinality(CellsOf(task', U)) = Reservation(U)
  BY ReservationLater
<1>3. servingPrefix'.capacity = task[id].capacity
  BY DEF Retained
<1> HIDE DEF U
<1>4. serving # None /\ Reservation(U) + task[id].capacity <= serving.budget
  BY <1>1, RetainedRoom
<1> QED
  BY <1>2, <1>3, <1>4 DEF U

\* A complete result leaves its cache.
LEMMA CompleteRetains ==
  ASSUME IInv, RetainedOK, pc # "idle", UNCHANGED <<serving, task, running, retired>>,
         \/ UNCHANGED <<events, emitted, servingPrefix>>
         \/ \E id \in running : \E s, contents : Complete(id, s, contents)
  PROVE  RetainedOK'
<1>1. CASE UNCHANGED <<events, emitted, servingPrefix>>
  BY <1>1, RetainedKeeps DEF Held
<1>2. ASSUME NEW id \in running, NEW s, NEW contents, Complete(id, s, contents)
      PROVE  RetainedOK'
  <2>1. ~failed /\ id \in Held
    BY <1>2 DEF IInv, Configured, Held
  <2>2. Held' \ emitted' \subseteq Held \ {id}
    BY <1>2 DEF Complete, Held
  <2>3. servingPrefix' = Retained(task[id], contents, s.ids)
    BY <1>2 DEF Complete
  <2> QED
    BY <2>1, <2>2, <2>3, RetainedFrom
<1> QED
  BY <1>1, <1>2

\* Completions while accepting, polling and settling.
LEMMA CompletingRetains ==
  ASSUME IInv, RetainedOK, Accept \/ AheadPoll \/ AheadSettle
  PROVE  RetainedOK'
<1>1. pc # "idle" /\ UNCHANGED <<serving, task, running, retired>>
  BY DEF Accept, Accepting, AheadPoll, AheadSettle, config, arrivals, slots
<1>2. \/ UNCHANGED <<events, emitted, servingPrefix>>
      \/ \E id \in running : \E s, contents : Complete(id, s, contents)
  <2>1. CASE UNCHANGED results
    BY <2>1 DEF results
  <2>2. CASE ~UNCHANGED results
    <3>1. CASE Accept
      BY <2>2, <3>1, Zenon DEF Accept, Served
    <3>2. CASE AheadPoll
      BY <2>2, <3>2, Zenon DEF AheadPoll
    <3>3. CASE AheadSettle
      BY <2>2, <3>3, Zenon DEF AheadSettle
    <3> QED
      BY <3>1, <3>2, <3>3
  <2> QED
    BY <2>1, <2>2
<1> QED
  BY <1>1, <1>2, CompleteRetains

\* A cancelled request leaves its cache unless readbacks are in flight.
LEMMA CancelRunningRetains ==
  ASSUME IInv, RetainedOK, NEW id \in Ids, CancelRunning(id)
  PROVE  RetainedOK'
<1>1. /\ id \in running /\ running' = running \ {id} /\ pc = "idle"
      /\ UNCHANGED <<serving, task, emitted>>
  BY DEF CancelRunning, Idle, config, arrivals
<1>2. CASE decode[id].pending # <<>>
  <2>1. retired' = retired \cup {id} /\ UNCHANGED servingPrefix
    BY <1>2 DEF CancelRunning
  <2>2. Held' = Held
    BY <1>1, <2>1 DEF Held
  <2> QED
    BY <1>1, <2>1, <2>2, RetainedKeeps
<1>3. CASE decode[id].pending = <<>>
  <2>1. /\ servingPrefix' = Retained(task[id], kv[id], search[id].ids)
        /\ retired' = retired
    BY <1>3 DEF CancelRunning
  <2>2. Held' = Held \ {id} /\ id \in Held /\ ~failed
    BY <1>1, <2>1 DEF Held, IInv, HeldIssued, Configured
  <2>3. Held' \ emitted' \subseteq Held \ {id}
    BY <2>2
  <2> QED
    BY <1>1, <2>1, <2>2, <2>3, RetainedFrom
<1> QED
  BY <1>2, <1>3

\* Every other step.
LEMMA NextRetains == IInv /\ Borrowed /\ RetainedOK /\ [Next]_vars => RetainedOK'
<1> SUFFICES ASSUME IInv, Borrowed, RetainedOK, [Next]_vars PROVE RetainedOK'
  OBVIOUS
<1>1. CASE StepBegin
  <2>1. /\ retired' \subseteq retired
        /\ UNCHANGED <<running, emitted, serving, servingPrefix, task>>
    BY <1>1 DEF StepBegin, ReapRetired, config, arrivals, results
  <2> QED
    BY <2>1, RetainedKeeps DEF Held
<1>2. CASE Retire
  <2>1. /\ running' = running \ (running \cap emitted)
        /\ emitted' = emitted \ (running \cap emitted)
        /\ UNCHANGED <<retired, serving, servingPrefix, task>>
    BY <1>2 DEF Retire, config, arrivals
  <2>2. Held' \ emitted' \subseteq Held \ emitted
    BY <2>1 DEF Held, IInv, HeldIssued
  <2> QED
    BY <2>1, <2>2, RetainedKeeps
<1>3. CASE \/ AdmitDone \/ NoDecodeRows \/ DecodeBatch \/ Prefill \/ NoPrefill
           \/ AheadBegin \/ AheadPollDone \/ AheadSubmit \/ AheadDone
           \/ Device \/ UNCHANGED vars
  <2>1. UNCHANGED <<running, retired, emitted, serving, servingPrefix, task>>
    BY <1>3 DEF AdmitDone, NoDecodeRows, DecodeBatch, Prefill, NoPrefill,
                AheadBegin, AheadPollDone, AheadSubmit, AheadDone, Device,
                ReadbackCompletes, vars, config, arrivals, slots, results
  <2> QED
    BY <2>1, RetainedKeeps DEF Held
<1>4. CASE \/ Admit \/ Fail \/ GenerateSerially
           \/ \E k \in Kinds : GenerateAhead(k)
  <2>1. servingPrefix' = None
    BY <1>4 DEF Admit, Fail, GenerateSerially, GenerateAhead
  <2> QED
    BY <2>1 DEF RetainedOK
<1>5. CASE GenerateReturns
  <2>1. servingPrefix' = None
    BY <1>5 DEF GenerateReturns, Borrowed, results
  <2> QED
    BY <2>1 DEF RetainedOK
<1>6. CASE \E s \in Settings : ConfigureServing(s)
  <2>1. /\ retired' \subseteq retired
        /\ UNCHANGED <<running, emitted, task>>
        /\ servingPrefix' = None \/ UNCHANGED <<serving, servingPrefix>>
    BY <1>6 DEF ConfigureServing, ReapRetired, arrivals
  <2>2. CASE servingPrefix' = None
    BY <2>2 DEF RetainedOK
  <2>3. CASE UNCHANGED <<serving, servingPrefix>>
    BY <2>1, <2>3, RetainedKeeps DEF Held
  <2> QED
    BY <2>1, <2>2, <2>3
<1>7. CASE \E k \in Kinds : Enqueue(k)
  <2>1. /\ UNCHANGED <<running, retired, emitted, serving, servingPrefix>>
        /\ \E k \in Kinds : task' = [task EXCEPT ![nextId] = Task(k, serving.compact)]
    BY <1>7 DEF Enqueue, Push, config, slots, results
  <2>2. \A id \in Held : id \in Ids /\ id # nextId
    BY DEF IInv, HeldIssued, TypeOK, Held, Ids
  <2>3. \A id \in Held : task'[id] = task[id]
    BY <2>1, <2>2 DEF IInv, TypeOK
  <2> QED
    BY <2>1, <2>3, RetainedKeeps DEF Held
<1>8. CASE \E id \in Ids : CancelWaiting(id)
  <2>1. UNCHANGED <<running, retired, emitted, serving, servingPrefix, task>>
    BY <1>8 DEF CancelWaiting, config, slots, results
  <2> QED
    BY <2>1, RetainedKeeps DEF Held
<1>9. CASE ReleaseWorkspaces
  <2>1. /\ retired' \subseteq retired
        /\ UNCHANGED <<running, emitted, serving, servingPrefix, task>>
    BY <1>9 DEF ReleaseWorkspaces, config, arrivals, results
  <2> QED
    BY <2>1, RetainedKeeps DEF Held
<1>10. CASE Callers
  BY <1>4, <1>5, <1>6, <1>7, <1>8, <1>9, <1>10, CancelRunningRetains DEF Callers
<1>11. CASE Step
  BY <1>1, <1>2, <1>3, <1>4, <1>11, CompletingRetains DEF Step
<1> QED
  BY <1>3, <1>4, <1>10, <1>11 DEF Next

----------------------------------------------------------------------------
(* What every request stores.                                               *)

\* A request whose cache and search are left alone stores what it stored.
LEMMA StoresKept ==
  ASSUME NEW id, Stores(id), task'[id] = task[id], kv'[id] = kv[id],
         decode'[id].on = decode[id].on,
         decode'[id].submitted = decode[id].submitted,
         decode[id].on \/ search'[id] = search[id],
         decode[id].on \/ (Due(id)' <=> Due(id))
  PROVE  Stores(id)'
<1>1. CASE decode[id].on
  BY <1>1 DEF Stores
<1>2. CASE ~decode[id].on
  <2>1. Due(id)' = Due(id)
    BY <1>2 DEF Due
  <2> QED
    BY <1>2, <2>1 DEF Stores
<1> QED
  BY <1>1, <1>2

\* Calls that destroy requests and select nothing.
LEMMA CallStores ==
  ASSUME TypeOK, StoresOK, NEW S, Forget(S), Held' = Held \ S,
         running' \subseteq running, running' \cap S = {},
         Selections' = Selections \/ running' = {},
         \A id \in Held : task'[id] = task[id]
  PROVE  StoresOK'
<1>1. \A id \in Held' : /\ id \in Held
                        /\ task'[id] = task[id]
                        /\ kv'[id] = kv[id]
                        /\ search'[id] = search[id]
                        /\ decode'[id] = decode[id]
  BY DEF Forget, Held, TypeOK
<1>2. CacheFits'
  BY <1>1 DEF StoresOK, CacheFits
<1>3. ASSUME NEW id \in running'
      PROVE  Stores(id)'
  <2>1. id \in running /\ id \in Held'
    BY DEF Held
  <2>2. Due(id)' <=> Due(id)
    BY <1>3 DEF Due
  <2> QED
    BY <1>1, <2>1, <2>2, StoresKept DEF StoresOK
<1> QED
  BY <1>2, <1>3 DEF StoresOK

\* Steps that touch no request.
LEMMA MoveStores ==
  ASSUME TypeOK, StoresOK, UNCHANGED <<running, retired, task, kv, search>>,
         \A id \in running : /\ decode'[id].on = decode[id].on
                             /\ decode'[id].submitted = decode[id].submitted,
         Selections' = Selections
  PROVE  StoresOK'
<1>1. CacheFits'
  BY DEF StoresOK, CacheFits, Held
<1>2. ASSUME NEW id \in running
      PROVE  Stores(id)'
  <2>1. Due(id)' <=> Due(id)
    BY DEF Due
  <2> QED
    BY <2>1, StoresKept DEF StoresOK
<1> QED
  BY <1>1, <1>2 DEF StoresOK

\* A request fits in its cache when its numbers do.
LEMMA HeldFits ==
  ASSUME IInv, TasksFit, NEW id \in Held
  PROVE  /\ id \in Ids /\ task[id] \in TaskType
         /\ Len(task[id].prompt) \in Nat \ {0}
         /\ task[id].maximum \in Nat \ {0} /\ task[id].capacity \in Nat
         /\ Len(task[id].prompt) + task[id].maximum <= task[id].capacity
         /\ Len(kv[id]) \in Nat
         /\ search[id].steps \in Nat /\ decode[id].submitted \in Nat
<1>1. id \in Ids /\ task[id] \in TaskType /\ TaskFits(task[id])
  BY DEF IInv, TypeOK, HeldIssued, TasksKnown, TasksFit, Held
<1>2. kv[id] \in Seq(Tokens) /\ search[id] \in SearchType /\ decode[id] \in DecodeType
  BY <1>1 DEF IInv, TypeOK
<1>3. task[id].prompt \in Seq(Tokens) \ {<<>>}
  BY <1>1 DEF TaskType
<1>4. Len(task[id].prompt) \in Nat \ {0}
  BY <1>3, LenProperties, EmptySeq
<1> QED
  BY <1>1, <1>2, <1>4, LenProperties DEF TaskType, TaskFits, SearchType, DecodeType

\* Admission reuses at most the prompt.
LEMMA AdmitStores == IInv /\ FlowInv /\ StorageInv /\ Admit => StoresOK'
<1> SUFFICES ASSUME IInv, FlowInv, StorageInv, Admit PROVE StoresOK'
  OBVIOUS
<1>0. PICK new \in Ids : new = Head(waiting) /\ new = waiting[1]
  <2>1. waiting \in Seq(Ids) /\ waiting # <<>>
    BY DEF IInv, TypeOK, Admit, CanAdmit
  <2>2. Head(waiting) = waiting[1] /\ waiting[1] \in Ids
    BY <2>1, HeadTailProperties, EmptySeq, LenProperties, ElementOfSeq
  <2> QED
    BY <2>2
<1>1. TypeOK /\ NoOvertaking /\ WaitingOrdered /\ TasksKnown /\ HeldIssued
  BY DEF IInv
<1>2. /\ waiting # <<>>
      /\ running' = running \cup {new}
      /\ UNCHANGED <<nextId, retired, task, search, decode, batch, pending>>
      /\ IF Reusable(task[new])
         THEN \E n \in 0 .. Len(task[new].prompt) :
                /\ Common(servingPrefix.tokens, task[new].prompt, n)
                /\ kv' = [kv EXCEPT ![new] = SubSeq(servingPrefix.kv, 1, n)]
         ELSE UNCHANGED kv
  BY <1>0 DEF Admit, CanAdmit, config, locals, others
<1>3. new = waiting[1] /\ new \in Ids /\ 1 \in 1 .. Len(waiting)
  BY <1>0, <1>1, <1>2, HeadTailProperties, EmptySeq, LenProperties DEF TypeOK
<1>4. new \notin Held /\ Held' = Held \cup {new}
  BY <1>1, <1>2, <1>3 DEF NoOvertaking, Held, TypeOK, Ids
<1>5. task[new] \in TaskType /\ TaskFits(task[new])
  BY <1>1, <1>3 DEF WaitingOrdered, TasksKnown, StorageInv, TasksFit
<1>6. search[new] = NoSearch /\ decode[new] = NoDecode /\ kv[new] = <<>>
  BY <1>3, <1>4 DEF FlowInv, UnheldFresh, IInv, DecodersSound
<1>7. ~Due(new)
  <2>1. \A e \in Selections : e.id < new
    BY <1>3 DEF FlowInv, SelectionsOK, Before
  <2>2. new \in Nat
    BY <1>3 DEF Ids
  <2> QED
    BY <2>1, <2>2 DEF Due
<1>8. /\ Len(task[new].prompt) \in Nat \ {0} /\ task[new].maximum \in Nat \ {0}
      /\ task[new].capacity \in Nat
  <2>1. task[new].prompt \in Seq(Tokens) \ {<<>>}
    BY <1>5 DEF TaskType
  <2> QED
    BY <1>5, <2>1, LenProperties, EmptySeq DEF TaskType
<1>9. Len(kv'[new]) \in Nat /\ Len(kv'[new]) <= Len(task[new].prompt)
  <2>1. CASE ~Reusable(task[new])
    BY <1>2, <1>6, <1>8, <2>1, EmptySeq
  <2>2. CASE Reusable(task[new])
    <3>1. PICK n \in 0 .. Len(task[new].prompt) :
            /\ Common(servingPrefix.tokens, task[new].prompt, n)
            /\ kv' = [kv EXCEPT ![new] = SubSeq(servingPrefix.kv, 1, n)]
      BY <1>2, <2>2
    <3>2. /\ servingPrefix.kv \in Seq(Tokens) /\ servingPrefix.tokens \in Seq(Tokens)
          /\ Len(servingPrefix.kv) = Len(servingPrefix.tokens)
      BY <2>2 DEF Reusable, IInv, TypeOK, PrefixType, PrefixAligned
    <3>3. Len(servingPrefix.kv) \in Nat
      BY <3>2, LenProperties
    <3>4. n \in 0 .. Len(servingPrefix.kv)
      BY <1>8, <3>1, <3>2, <3>3 DEF Common, Min2
    <3>5. Len(SubSeq(servingPrefix.kv, 1, n)) = n
      BY <3>2, <3>4, PrefixOfSeq
    <3>6. kv'[new] = SubSeq(servingPrefix.kv, 1, n)
      BY <1>1, <1>3, <3>1 DEF TypeOK
    <3> QED
      BY <1>8, <3>1, <3>5, <3>6
  <2> QED
    BY <2>1, <2>2
<1>10. \A id \in Held : kv'[id] = kv[id]
  BY <1>1, <1>2, <1>4 DEF TypeOK, Held
<1>11. Len(kv'[new]) <= task[new].capacity
  BY <1>5, <1>8, <1>9 DEF TaskFits
<1>12. CacheFits'
  BY <1>2, <1>4, <1>10, <1>11 DEF StorageInv, StoresOK, CacheFits
<1>13. Selections' = Selections
  BY <1>2 DEF Selections
<1>14. Stores(new)'
  <2>1. ~Due(new)'
    BY <1>7, <1>13 DEF Due
  <2>2. /\ ~decode'[new].on /\ search'[new].steps = 0
    BY <1>2, <1>6 DEF NoDecode, NoSearch
  <2>3. Room(Len(task[new].prompt), task[new].maximum, Len(kv'[new]), 0, FALSE)
    BY <1>8, <1>9 DEF Room
  <2>4. Due(new)' = FALSE
    BY <2>1 DEF Due
  <2> QED
    BY <1>2, <2>2, <2>3, <2>4 DEF Stores
<1>15. ASSUME NEW id \in running
       PROVE  Stores(id)'
  <2>1. Due(id)' <=> Due(id)
    BY <1>13 DEF Due
  <2>2. kv'[id] = kv[id]
    BY <1>10 DEF Held
  <2> QED
    BY <1>2, <2>1, <2>2, StoresKept DEF StorageInv, StoresOK
<1> QED
  BY <1>2, <1>12, <1>14, <1>15 DEF StoresOK

\* What a search that goes on stores while its selection is due, accepted or
\* decided.
LEMMA RoomSteps ==
  ASSUME NEW prompt \in Nat \ {0}, NEW maximum \in Nat, NEW stored \in Nat,
         NEW steps \in Nat
  PROVE  /\ /\ Room(prompt, maximum, stored, steps, TRUE)
            /\ steps + 1 # maximum
            => Room(prompt, maximum, stored, steps + 1, FALSE)
         /\ /\ Room(prompt, maximum, stored, steps, FALSE)
            /\ steps > 0
            => /\ Room(prompt, maximum, stored + 1, steps, TRUE)
               /\ stored + 1 < prompt + maximum
               /\ RoomAhead(prompt, maximum, stored, steps)
BY DEF Room, RoomAhead

\* Accepting the selection that is due leaves one token to store.
LEMMA AcceptStores == IInv /\ FlowInv /\ StorageInv /\ Accept => StoresOK'
<1> SUFFICES ASSUME IInv, FlowInv, StorageInv, Accept PROVE StoresOK'
  OBVIOUS
<1>1. TypeOK
  BY DEF IInv
<1>2. PICK e \in batch :
        /\ batch' = batch \ {e}
        /\ IF Served(e.id)
           THEN /\ ~search[e.id].finished
                /\ search' = [search EXCEPT ![e.id] =
                               Accepted(search[e.id], e.token, task[e.id])]
           ELSE search' = search
  BY DEF Accept
<1>3. /\ UNCHANGED <<running, retired, task, kv, decode, pending>>
      /\ Accepting
  BY DEF Accept, arrivals, slots, others
<1>4. e.id \in Ids /\ e.token \in Tokens /\ e \in Selections
  BY <1>1, <1>2 DEF TypeOK, Selection, Selections
<1>5. Selections' = Selections \ {e}
  BY <1>2, <1>3 DEF FlowInv, StagesOK, Selections
<1>6. CacheFits'
  BY <1>3 DEF StorageInv, StoresOK, CacheFits, Held
<1>7. ASSUME NEW id \in running
      PROVE  Stores(id)'
  <2>1. /\ id \in Ids /\ task[id] \in TaskType
        /\ Len(task[id].prompt) \in Nat \ {0} /\ task[id].maximum \in Nat \ {0}
        /\ Len(kv[id]) \in Nat /\ search[id].steps \in Nat
    BY HeldFits DEF StorageInv, Held
  <2>2. CASE id # e.id
    <3>1. search'[id] = search[id]
      BY <1>1, <1>2, <2>1, <2>2 DEF TypeOK
    <3>2. Due(id)' <=> Due(id)
      BY <1>5, <2>2 DEF Due
    <3> QED
      BY <1>3, <3>1, <3>2, StoresKept DEF StorageInv, StoresOK
  <2>3. CASE id = e.id
    <3> DEFINE s == Accepted(search[id], e.token, task[id])
    <3>1. search'[id] = s /\ ~search[id].finished
      BY <1>1, <1>2, <2>1, <2>3 DEF TypeOK, Served
    <3>2. ~decode[id].on
      BY <1>4, <2>3 DEF FlowInv, SelectionsOK
    <3>3. Due(id) = TRUE
      BY <1>4, <2>3 DEF Due
    <3>4. Due(id)' = FALSE
      BY <1>4, <1>5, <2>3 DEF Due, FlowInv, SelectionsOK
    <3>5. Room(Len(task[id].prompt), task[id].maximum, Len(kv[id]),
               search[id].steps, TRUE)
      BY <3>1, <3>2, <3>3 DEF StorageInv, StoresOK, Stores
    <3>6. /\ s.steps = search[id].steps + 1
          /\ ~s.finished => search[id].steps + 1 # task[id].maximum
      BY DEF Accepted
    <3> HIDE DEF s
    <3>7. ~s.finished => Room(Len(task[id].prompt), task[id].maximum,
                              Len(kv[id]), s.steps, FALSE)
      BY <2>1, <3>5, <3>6, RoomSteps
    <3> QED
      BY <1>3, <3>1, <3>2, <3>4, <3>7 DEF Stores
  <2> QED
    BY <2>2, <2>3
<1> QED
  BY <1>3, <1>6, <1>7 DEF StoresOK

\* A request that is ready to decode has no selection due.
LEMMA ReadyRoom ==
  ASSUME IInv, FlowInv, StorageInv, pc = "decode", NEW id \in Ready
  PROVE  /\ id \in running /\ Due(id) = FALSE /\ search[id].steps > 0
         /\ ~decode[id].on =>
              /\ ~search[id].finished
              /\ Room(Len(task[id].prompt), task[id].maximum, Len(kv[id]),
                      search[id].steps, FALSE)
<1>1. id \in running /\ id \in Held /\ id \notin emitted /\ search[id].steps > 0
  BY DEF Ready, Held
<1>2. Due(id) = FALSE
  BY AheadStages DEF Due
<1>3. ASSUME ~decode[id].on
      PROVE  ~search[id].finished
  <2>1. decode[id].pending = <<>>
    BY <1>1, <1>3 DEF FlowInv, ReadbacksOK
  <2> QED
    BY <1>1, <2>1 DEF FlowInv, EndsOK
<1> QED
  BY <1>1, <1>2, <1>3 DEF StorageInv, StoresOK, Stores

\* A packed decode stores the last token of each row.
LEMMA DecodeBatchStores == IInv /\ FlowInv /\ StorageInv /\ DecodeBatch => StoresOK'
<1> SUFFICES ASSUME IInv, FlowInv, StorageInv, DecodeBatch PROVE StoresOK'
  OBVIOUS
<1> DEFINE rows == DecodeRows
<1>1. TypeOK
  BY DEF IInv
<1>2. rows \subseteq Ready
  BY DEF DecodeRows
<1>3. /\ pc = "decode" /\ ~Chained
      /\ UNCHANGED <<running, retired, task, search, decode>>
  BY DEF DecodeBatch, arrivals, slots
<1>4. kv' = [id \in Ids |-> IF id \in rows THEN Append(kv[id], search[id].token)
                            ELSE kv[id]]
  BY DEF DecodeBatch
<1> DEFINE f == [id \in Ids |-> Select(kv'[id])]
<1>5. Selections' = {[id |-> id, token |-> f[id]] : id \in rows}
  <2> DEFINE contents == [id \in Ids |-> IF id \in rows
                                         THEN Append(kv[id], search[id].token)
                                         ELSE kv[id]]
             selected == {[id |-> id, token |-> Select(contents[id])] : id \in rows}
  <2>1. batch = {} /\ pending = {}
    BY <1>3, AheadStages
  <2>2. rows \subseteq Ids
    BY <1>1, <1>2 DEF Ready, TypeOK
  <2>3. selected = {[id |-> id, token |-> f[id]] : id \in rows}
    BY <1>4, <2>2
  <2>4. IF serving.deferred
        THEN pending' = pending \cup selected /\ UNCHANGED batch
        ELSE batch' = selected /\ UNCHANGED pending
    BY DEF DecodeBatch
  <2> HIDE DEF selected
  <2> QED
    BY <2>1, <2>3, <2>4 DEF Selections
<1> HIDE DEF rows, f
<1>6. ASSUME NEW id \in running
      PROVE  Stores(id)' /\ Len(kv'[id]) <= task[id].capacity
  <2>1. /\ id \in Ids /\ task[id] \in TaskType
        /\ Len(task[id].prompt) \in Nat \ {0} /\ task[id].maximum \in Nat \ {0}
        /\ task[id].capacity \in Nat
        /\ Len(task[id].prompt) + task[id].maximum <= task[id].capacity
        /\ Len(kv[id]) \in Nat /\ search[id].steps \in Nat
    BY HeldFits DEF StorageInv, Held
  <2>2. CASE id \in rows
    <3>1. /\ search[id].steps > 0 /\ ~decode[id].on
          /\ Room(Len(task[id].prompt), task[id].maximum, Len(kv[id]),
                  search[id].steps, FALSE)
      <4>1. ~decode[id].on
        BY <1>3 DEF FlowInv, ReadbacksOK, Held
      <4> QED
        BY <1>2, <1>3, <2>2, <4>1, ReadyRoom
    <3>2. Len(kv'[id]) = Len(kv[id]) + 1
      <4>1. kv[id] \in Seq(Tokens) /\ search[id].token \in Tokens
        BY <1>1, <2>1 DEF TypeOK, SearchType
      <4>2. kv'[id] = Append(kv[id], search[id].token)
        BY <1>4, <2>1, <2>2
      <4> QED
        BY <4>1, <4>2, AppendProperties
    <3>3. Due(id)' = TRUE
      <4>1. [id |-> id, token |-> f[id]] \in Selections'
        BY <1>5, <2>2
      <4> QED
        BY <4>1 DEF Due
    <3>4. /\ Room(Len(task[id].prompt), task[id].maximum, Len(kv'[id]),
                  search[id].steps, TRUE)
          /\ Len(kv'[id]) < Len(task[id].prompt) + task[id].maximum
      BY <2>1, <3>1, <3>2, RoomSteps
    <3>5. Len(kv'[id]) <= task[id].capacity
      BY <2>1, <3>2, <3>4
    <3> QED
      BY <1>3, <3>1, <3>3, <3>4, <3>5 DEF Stores
  <2>3. CASE id \notin rows
    <3>1. kv'[id] = kv[id]
      BY <1>4, <2>1, <2>3
    <3>2. ~Due(id)
      BY <1>3, AheadStages DEF Due
    <3>3. ~Due(id)'
      BY <1>5, <2>3 DEF Due
    <3> QED
      BY <1>3, <3>1, <3>2, <3>3, StoresKept DEF StorageInv, StoresOK, CacheFits, Held
  <2> QED
    BY <2>2, <2>3
<1>7. CacheFits'
  <2>1. ASSUME NEW id \in retired
        PROVE  kv'[id] = kv[id]
    <3>1. id \in Ids /\ id \notin rows
      BY <1>1, <1>2 DEF TypeOK, Ready, IInv, HeldIssued
    <3> QED
      BY <1>4, <3>1
  <2> QED
    BY <1>3, <1>6, <2>1 DEF StorageInv, StoresOK, CacheFits, Held
<1> QED
  BY <1>3, <1>6, <1>7 DEF StoresOK

\* A chunk of a prompt ends within it.
LEMMA ChunkNumbers ==
  ASSUME NEW stored \in Nat, NEW prompt \in Nat, NEW chunk \in Nat,
         stored <= prompt, NEW end, end = stored + Min2(prompt - stored, chunk)
  PROVE  /\ end \in Nat /\ end <= prompt /\ stored <= end
         /\ stored = prompt => end = prompt
BY DEF Min2

\* A chunk stores no more than the prompt, and selects when it completes it.
LEMMA ChunkFits ==
  ASSUME IInv, serving # None, NEW id \in running, TasksFit,
         Len(kv[id]) <= Len(task[id].prompt)
  PROVE  LET end == Len(kv[id]) + ChunkLength(id)
             contents == kv[id] \o SubSeq(task[id].prompt, Len(kv[id]) + 1, end)
         IN  /\ end \in Nat /\ end <= Len(task[id].prompt)
             /\ Len(kv[id]) <= end
             /\ contents \in Seq(Tokens)
             /\ Len(contents) = end
             /\ FinalChunk(id) <=> Len(contents) = Len(task[id].prompt)
             /\ Len(kv[id]) = Len(task[id].prompt) => FinalChunk(id)
<1> DEFINE prompt == task[id].prompt
           stored == Len(kv[id])
           chunk == EffectiveChunk(task[id], serving)
           end == stored + ChunkLength(id)
           rest == SubSeq(prompt, stored + 1, end)
<1>1. /\ id \in Ids /\ task[id] \in TaskType /\ kv[id] \in Seq(Tokens)
      /\ Len(prompt) \in Nat /\ stored \in Nat /\ prompt \in Seq(Tokens)
  BY HeldFits DEF Held, IInv, TypeOK, TaskType
<1>2. chunk \in Nat
  <2>1. task[id].chunk \in Nat /\ serving.chunk \in Nat
    BY <1>1 DEF TaskType, IInv, TypeOK, SettingType
  <2> QED
    BY <2>1 DEF EffectiveChunk, Min2
<1> HIDE DEF chunk
<1>3. ChunkLength(id) = Min2(Len(prompt) - stored, chunk)
  BY DEF ChunkLength, chunk
<1>4. /\ end \in Nat /\ end <= Len(prompt) /\ stored <= end
      /\ FinalChunk(id) <=> end = Len(prompt)
      /\ stored = Len(prompt) => end = Len(prompt)
  <2>1. end = stored + Min2(Len(prompt) - stored, chunk)
    BY <1>3
  <2>2. stored <= Len(prompt)
    OBVIOUS
  <2>3. FinalChunk(id) <=> end = Len(prompt)
    BY DEF FinalChunk
  <2> HIDE DEF end, stored, prompt
  <2> QED
    BY <1>1, <1>2, <2>1, <2>2, <2>3, ChunkNumbers
<1> HIDE DEF end, stored, prompt
<1>5. rest \in Seq(Tokens) /\ Len(rest) = end - stored
  <2>1. \A i \in stored + 1 .. end : prompt[i] \in Tokens
    BY <1>1, <1>4, ElementOfSeq
  <2>2. /\ rest \in Seq(Tokens)
        /\ Len(rest) = IF stored + 1 <= end THEN end - (stored + 1) + 1 ELSE 0
    <3>1. stored + 1 \in Nat /\ end \in Nat
      BY <1>1, <1>4
    <3> QED
      BY <2>1, <3>1, SubSeqProperties
  <2> QED
    BY <1>1, <1>4, <2>2
<1>6. kv[id] \o rest \in Seq(Tokens) /\ Len(kv[id] \o rest) = stored + (end - stored)
  BY <1>1, <1>5, ConcatProperties DEF stored
<1> QED
  BY <1>1, <1>4, <1>6 DEF end, stored, prompt

\* Prefill stores the prompt in chunks; what was selected is not read again.
LEMMA PrefillStores == IInv /\ FlowInv /\ StorageInv /\ Prefill => StoresOK'
<1> SUFFICES ASSUME IInv, FlowInv, StorageInv, Prefill PROVE StoresOK'
  OBVIOUS
<1>0. PICK id \in Unprefilled :
        LET end      == Len(kv[id]) + ChunkLength(id)
            contents == kv[id] \o SubSeq(task[id].prompt, Len(kv[id]) + 1, end)
        IN  /\ ~SecondSelection(id)
            /\ kv' = [kv EXCEPT ![id] = contents]
            /\ \/ /\ FinalChunk(id) /\ serving.deferred
                  /\ pending' = pending \cup {[id |-> id, token |-> Select(contents)]}
                  /\ UNCHANGED batch
               \/ /\ FinalChunk(id) /\ ~serving.deferred
                  /\ batch' = {[id |-> id, token |-> Select(contents)]}
                  /\ UNCHANGED pending
               \/ /\ ~FinalChunk(id)
                  /\ UNCHANGED <<batch, pending>>
  BY DEF Prefill
<1> DEFINE end == Len(kv[id]) + ChunkLength(id)
           contents == kv[id] \o SubSeq(task[id].prompt, Len(kv[id]) + 1, end)
<1>1. TypeOK
  BY DEF IInv
<1>2. /\ ~SecondSelection(id)
      /\ kv' = [kv EXCEPT ![id] = contents]
      /\ \/ /\ FinalChunk(id) /\ serving.deferred
            /\ pending' = pending \cup {[id |-> id, token |-> Select(contents)]}
            /\ UNCHANGED batch
         \/ /\ FinalChunk(id) /\ ~serving.deferred
            /\ batch' = {[id |-> id, token |-> Select(contents)]}
            /\ UNCHANGED pending
         \/ /\ ~FinalChunk(id)
            /\ UNCHANGED <<batch, pending>>
  BY <1>0
<1>3. /\ pc = "prefill" /\ UNCHANGED <<running, retired, task, search, decode>>
  BY DEF Prefill, arrivals, slots
<1>4. /\ id \in running /\ id \in Held /\ search[id].steps = 0
      /\ ~search[id].finished /\ ~decode[id].on
  BY DEF Unprefilled, FlowInv, ReadbacksOK, Held
<1>5. /\ id \in Ids
      /\ Len(task[id].prompt) \in Nat \ {0} /\ task[id].maximum \in Nat \ {0}
      /\ task[id].capacity \in Nat /\ Len(kv[id]) \in Nat
      /\ Len(task[id].prompt) + task[id].maximum <= task[id].capacity
  BY <1>4, HeldFits DEF StorageInv
<1>6. Room(Len(task[id].prompt), task[id].maximum, Len(kv[id]), 0, Due(id))
  BY <1>4 DEF StorageInv, StoresOK, Stores
<1>7. Len(kv[id]) <= Len(task[id].prompt)
  BY <1>6 DEF Room
<1>8. serving # None
  BY <1>3 DEF IInv, Configured
<1>9. /\ end \in Nat /\ end <= Len(task[id].prompt)
      /\ Len(contents) = end
      /\ FinalChunk(id) <=> Len(contents) = Len(task[id].prompt)
      /\ Len(kv[id]) = Len(task[id].prompt) => FinalChunk(id)
  BY <1>4, <1>7, <1>8, ChunkFits DEF StorageInv
<1> HIDE DEF contents, end
<1>10. /\ batch = {}
       /\ pending # {} => serving.deferred /\ decoded
  BY <1>3 DEF FlowInv, StagesOK, Accepting
<1>11. ~Due(id)
  <2>1. SUFFICES ASSUME Due(id) PROVE FALSE
    OBVIOUS
  <2>2. pending # {}
    BY <1>10, <2>1 DEF Due, Selections
  <2>3. Len(kv[id]) = Len(task[id].prompt)
    BY <1>6, <2>1 DEF Room
  <2> QED
    BY <1>2, <1>9, <1>10, <2>2, <2>3 DEF SecondSelection
<1>12. IF FinalChunk(id)
       THEN Selections' = Selections \cup {[id |-> id, token |-> Select(contents)]}
       ELSE Selections' = Selections
  BY <1>2, <1>10 DEF Selections
<1>13. kv'[id] = contents /\ \A other \in Ids \ {id} : kv'[other] = kv[other]
  BY <1>1, <1>2, <1>5 DEF TypeOK
<1>14. Stores(id)'
  <2>1. Due(id)' <=> FinalChunk(id)
    <3>1. CASE FinalChunk(id)
      <4>1. [id |-> id, token |-> Select(contents)] \in Selections'
        BY <1>12, <3>1
      <4> QED
        BY <3>1, <4>1 DEF Due
    <3>2. CASE ~FinalChunk(id)
      BY <1>11, <1>12, <3>2 DEF Due
    <3> QED
      BY <3>1, <3>2
  <2>2. CASE FinalChunk(id)
    <3>1. Room(Len(task[id].prompt), task[id].maximum, Len(contents), 0, TRUE)
      BY <1>5, <1>9, <2>2 DEF Room
    <3>2. Due(id)' = TRUE
      BY <2>1, <2>2 DEF Due
    <3> QED
      BY <1>3, <1>4, <1>13, <3>1, <3>2 DEF Stores
  <2>3. CASE ~FinalChunk(id)
    <3>1. Room(Len(task[id].prompt), task[id].maximum, Len(contents), 0, FALSE)
      BY <1>5, <1>9 DEF Room
    <3>2. Due(id)' = FALSE
      BY <2>1, <2>3 DEF Due
    <3> QED
      BY <1>3, <1>4, <1>13, <3>1, <3>2 DEF Stores
  <2> QED
    BY <2>2, <2>3
<1>15. ASSUME NEW other \in running, other # id
       PROVE  Stores(other)'
  <2>1. Due(other)' <=> Due(other)
    BY <1>12, <1>15 DEF Due
  <2>2. kv'[other] = kv[other]
    BY <1>1, <1>13, <1>15 DEF TypeOK
  <2> QED
    BY <1>3, <2>1, <2>2, StoresKept DEF StorageInv, StoresOK
<1>16. CacheFits'
  <2>1. Len(kv'[id]) <= task[id].capacity
    BY <1>5, <1>9, <1>13
  <2>2. \A other \in Held : other \in Ids
    BY <1>1 DEF Held, TypeOK
  <2> QED
    BY <1>3, <1>13, <2>1, <2>2 DEF StorageInv, StoresOK, CacheFits, Held
<1> QED
  BY <1>3, <1>14, <1>15, <1>16 DEF StoresOK

\* Decoding ahead starts from what was accepted.
LEMMA AheadBeginStores == IInv /\ FlowInv /\ StorageInv /\ AheadBegin => StoresOK'
<1> SUFFICES ASSUME IInv, FlowInv, StorageInv, AheadBegin PROVE StoresOK'
  OBVIOUS
<1>1. TypeOK
  BY DEF IInv
<1>2. PICK id \in Ready : decode' = IF decode[id].on THEN decode
                                    ELSE [decode EXCEPT ![id] = DecodeFrom(id)]
  BY DEF AheadBegin, DecodeRows
<1>3. /\ pc = "decode"
      /\ UNCHANGED <<running, retired, task, kv, search, batch, pending>>
  BY DEF AheadBegin, arrivals, slots, locals, others
<1>4. Selections' = Selections
  BY <1>3 DEF Selections
<1>5. CASE decode[id].on
  BY <1>1, <1>2, <1>3, <1>4, <1>5, MoveStores DEF StorageInv
<1>6. CASE ~decode[id].on
  <2>1. /\ id \in running /\ search[id].steps > 0
        /\ Room(Len(task[id].prompt), task[id].maximum, Len(kv[id]),
                search[id].steps, FALSE)
    BY <1>3, <1>6, ReadyRoom
  <2>2. /\ id \in Ids
        /\ Len(task[id].prompt) \in Nat \ {0} /\ task[id].maximum \in Nat
        /\ Len(kv[id]) \in Nat /\ search[id].steps \in Nat
    BY <2>1, HeldFits DEF StorageInv, Held
  <2>3. /\ decode'[id].on /\ decode'[id].submitted = search[id].steps
        /\ \A other \in Ids \ {id} : decode'[other] = decode[other]
    BY <1>1, <1>2, <1>6, <2>2 DEF TypeOK, DecodeFrom
  <2>4. RoomAhead(Len(task[id].prompt), task[id].maximum, Len(kv[id]),
                  search[id].steps)
    BY <2>1, <2>2, RoomSteps
  <2>5. Stores(id)'
    BY <1>3, <2>3, <2>4 DEF Stores
  <2>6. ASSUME NEW other \in running, other # id
        PROVE  Stores(other)'
    <3>1. decode'[other] = decode[other]
      BY <1>1, <2>3, <2>6 DEF TypeOK
    <3>2. Due(other)' <=> Due(other)
      BY <1>4 DEF Due
    <3> QED
      BY <1>3, <3>1, <3>2, StoresKept DEF StorageInv, StoresOK
  <2>7. CacheFits'
    BY <1>3 DEF StorageInv, StoresOK, CacheFits, Held
  <2> QED
    BY <1>3, <2>5, <2>6, <2>7 DEF StoresOK
<1> QED
  BY <1>5, <1>6

\* Readbacks are taken over without storing anything.
LEMMA AheadPollStores == IInv /\ FlowInv /\ StorageInv /\ AheadPoll => StoresOK'
<1> SUFFICES ASSUME IInv, FlowInv, StorageInv, AheadPoll PROVE StoresOK'
  OBVIOUS
<1>1. TypeOK
  BY DEF IInv
<1>2. PICK id \in running :
        LET d == decode[id]
            r == Head(d.pending)
        IN  \/ decode' = [decode EXCEPT
                  ![id] = [d EXCEPT !.pending = Tail(@), !.ready = @ - 1]]
            \/ decode' = [decode EXCEPT
                  ![id] = [d EXCEPT !.pending = Tail(@), !.ready = @ - 1,
                                    !.logical = r.position]]
  BY DEF AheadPoll
<1>3. /\ pc = "poll"
      /\ UNCHANGED <<running, retired, task, kv, batch, pending>>
  BY DEF AheadPoll, arrivals, slots, locals, others
<1>4. \A other \in running : decode[other].on
  BY <1>3, AheadStages
<1>5. \A other \in running : /\ decode'[other].on = decode[other].on
                             /\ decode'[other].submitted = decode[other].submitted
  <2>1. id \in Ids /\ decode[id] \in DecodeType
    BY <1>1 DEF TypeOK
  <2> DEFINE d == decode[id]
             n == Head(d.pending).position
             e == [d EXCEPT !.pending = Tail(@), !.ready = @ - 1]
             f == [d EXCEPT !.pending = Tail(@), !.ready = @ - 1, !.logical = n]
  <2>2. /\ e.on = d.on /\ e.submitted = d.submitted
        /\ f.on = d.on /\ f.submitted = d.submitted
    BY <2>1, PolledFields
  <2>3. decode'[id] = e \/ decode'[id] = f
    BY <1>1, <1>2, <2>1 DEF TypeOK
  <2> HIDE DEF e, f
  <2>4. /\ decode'[id].on = decode[id].on
        /\ decode'[id].submitted = decode[id].submitted
    BY <2>2, <2>3, Zenon
  <2>5. \A other \in Ids \ {id} : decode'[other] = decode[other]
    BY <1>1, <1>2 DEF TypeOK
  <2> QED
    BY <1>1, <2>4, <2>5 DEF TypeOK
<1>6. ASSUME NEW other \in running
      PROVE  Stores(other)'
  BY <1>3, <1>4, <1>5, StoresKept DEF StorageInv, StoresOK
<1>7. CacheFits'
  BY <1>3 DEF StorageInv, StoresOK, CacheFits, Held
<1> QED
  BY <1>3, <1>6, <1>7 DEF StoresOK

\* A request may submit as long as it is within its maximum.
LEMMA RoomAheadSteps ==
  ASSUME NEW prompt \in Nat, NEW maximum \in Nat, NEW stored \in Nat,
         NEW submitted \in Nat, RoomAhead(prompt, maximum, stored, submitted),
         submitted < maximum, NEW capacity \in Nat,
         prompt + maximum <= capacity
  PROVE  /\ RoomAhead(prompt, maximum, stored + 1, submitted + 1)
         /\ stored + 1 <= capacity
BY DEF RoomAhead

\* Submitting stores the token that was selected last.
LEMMA AheadSubmitStores == IInv /\ FlowInv /\ StorageInv /\ AheadSubmit => StoresOK'
<1> SUFFICES ASSUME IInv, FlowInv, StorageInv, AheadSubmit PROVE StoresOK'
  OBVIOUS
<1>1. TypeOK
  BY DEF IInv
<1>2. PICK id \in running :
        LET contents == Append(kv[id], decode[id].token)
            token    == Select(contents)
        IN  /\ CanSubmit(id)
            /\ kv' = [kv EXCEPT ![id] = contents]
            /\ decode' = [decode EXCEPT
                 ![id].token = token,
                 ![id].pending =
                   Append(@, [token |-> token, position |-> Len(contents)]),
                 ![id].submitted = @ + 1]
  BY DEF AheadSubmit
<1> DEFINE contents == Append(kv[id], decode[id].token)
           token == Select(contents)
           r == [token |-> token, position |-> Len(contents)]
<1>3. /\ pc = "submit"
      /\ UNCHANGED <<running, retired, task, search, batch, pending>>
  BY DEF AheadSubmit, arrivals, slots, locals, others
<1>4. \A other \in running : decode[other].on
  BY <1>3, AheadStages
<1>5. /\ id \in Ids /\ decode[id] \in DecodeType /\ kv[id] \in Seq(Tokens)
      /\ Len(task[id].prompt) \in Nat \ {0} /\ task[id].maximum \in Nat \ {0}
      /\ task[id].capacity \in Nat
      /\ Len(task[id].prompt) + task[id].maximum <= task[id].capacity
      /\ Len(kv[id]) \in Nat /\ decode[id].submitted \in Nat
      /\ decode[id].token \in Tokens
  <2>1. decode[id] \in DecodeType
    BY <1>1 DEF TypeOK
  <2> QED
    BY <1>1, <2>1, HeldFits DEF StorageInv, Held, TypeOK, DecodeType
<1>6. decode' = [decode EXCEPT ![id] = [decode[id] EXCEPT !.token = token,
                                  !.pending = Append(@, r), !.submitted = @ + 1]]
  BY <1>1, <1>2, <1>5 DEF TypeOK
<1>7. /\ decode'[id].on = decode[id].on
      /\ decode'[id].submitted = decode[id].submitted + 1
      /\ kv'[id] = contents
      /\ \A other \in Ids \ {id} : /\ decode'[other] = decode[other]
                                   /\ kv'[other] = kv[other]
  BY <1>1, <1>2, <1>5, <1>6, SubmittedFields DEF TypeOK
<1>8. Len(kv'[id]) = Len(kv[id]) + 1
  BY <1>5, <1>7, AppendProperties
<1> HIDE DEF contents, token, r
<1>9. RoomAhead(Len(task[id].prompt), task[id].maximum, Len(kv[id]),
                decode[id].submitted)
  BY <1>4 DEF StorageInv, StoresOK, Stores
<1>10. decode[id].submitted < task[id].maximum
  BY <1>2 DEF CanSubmit
<1>11. /\ RoomAhead(Len(task[id].prompt), task[id].maximum, Len(kv'[id]),
                    decode[id].submitted + 1)
       /\ Len(kv'[id]) <= task[id].capacity
  <2> DEFINE prompt == Len(task[id].prompt)
             maximum == task[id].maximum
             stored == Len(kv[id])
             submitted == decode[id].submitted
             capacity == task[id].capacity
  <2>1. /\ prompt \in Nat /\ maximum \in Nat /\ stored \in Nat
        /\ submitted \in Nat /\ capacity \in Nat
        /\ RoomAhead(prompt, maximum, stored, submitted)
        /\ submitted < maximum /\ prompt + maximum <= capacity
    BY <1>5, <1>9, <1>10
  <2>2. Len(kv'[id]) = stored + 1
    BY <1>8
  <2> HIDE DEF prompt, maximum, stored, submitted, capacity
  <2>3. /\ RoomAhead(prompt, maximum, stored + 1, submitted + 1)
        /\ stored + 1 <= capacity
    BY <2>1, RoomAheadSteps
  <2> QED
    BY <2>2, <2>3 DEF prompt, maximum, submitted, capacity
<1>12. Stores(id)'
  BY <1>3, <1>4, <1>7, <1>11 DEF Stores
<1>13. ASSUME NEW other \in running, other # id
       PROVE  Stores(other)'
  <2>1. decode'[other] = decode[other] /\ kv'[other] = kv[other]
    BY <1>1, <1>7, <1>13 DEF TypeOK
  <2> QED
    BY <1>3, <1>4, <2>1, StoresKept DEF StorageInv, StoresOK
<1>14. CacheFits'
  <2>1. \A other \in Held : other \in Ids
    BY <1>1 DEF Held, TypeOK
  <2> QED
    BY <1>3, <1>7, <1>11, <2>1 DEF StorageInv, StoresOK, CacheFits, Held
<1> QED
  BY <1>3, <1>12, <1>13, <1>14 DEF StoresOK

----------------------------------------------------------------------------
(* The calls between steps, and the phases that store nothing.              *)

\* The calls between steps, and the ends of a step, destroy requests, but none
\* that is still served, and select nothing.
LEMMA CallsForget ==
  ASSUME IInv, StepBegin \/ Retire \/ Fail \/ Callers
  PROVE  /\ \E S : Forget(S) /\ Held' = Held \ S /\ running' \cap S = {}
         /\ running' \subseteq running
         /\ Selections' \subseteq Selections
         /\ Selections' = Selections \/ running' = {}
         /\ \A id \in Held : task'[id] = task[id]
<1> DEFINE Forgets == \E S : Forget(S) /\ Held' = Held \ S /\ running' \cap S = {}
           Slots == /\ running' \subseteq running
                    /\ Selections' \subseteq Selections
                    /\ Selections' = Selections \/ running' = {}
           Tasks == \A id \in Held : task'[id] = task[id]
<1>1. TypeOK /\ HeldIssued
  BY DEF IInv
<1>2. ASSUME NEW S, Forget(S), Held' = Held \ S, running' \cap S = {}
      PROVE  Forgets
  BY <1>2, Zenon
<1>3. ASSUME UNCHANGED <<running, batch, pending>>
      PROVE  Slots
  BY <1>3 DEF Selections
<1>4. ASSUME UNCHANGED <<kv, search, decode, running, retired>>
      PROVE  Forgets
  <2>1. Forget({}) /\ Held' = Held \ {} /\ running' \cap {} = {}
    BY <1>1, <1>4, NothingForgotten DEF Held, caches
  <2> QED
    BY <1>2, <2>1
<1>5. ASSUME ReapRetired, running' = running
      PROVE  Forgets
  BY <1>1, <1>5, ReapedLeave
<1> HIDE DEF Forgets
<1>6. CASE StepBegin \/ \E s \in Settings : ConfigureServing(s)
  <2>1. /\ ReapRetired /\ UNCHANGED <<running, batch, pending, task>>
    BY <1>6 DEF StepBegin, ConfigureServing, locals, others, arrivals
  <2> QED
    BY <1>3, <1>5, <2>1 DEF Forgets
<1>7. CASE Retire
  <2> DEFINE done == running \cap emitted
  <2>1. /\ Forget(done) /\ running' = running \ done /\ retired' = retired
        /\ batch = {} /\ batch' = {} /\ pending' = pending /\ task' = task
    BY <1>7 DEF Retire, locals, arrivals
  <2>2. Held' = Held \ done
    BY <1>1, <2>1 DEF Held, HeldIssued
  <2> HIDE DEF done
  <2>3. Forgets
    BY <1>2, <2>1, <2>2
  <2> QED
    BY <2>1, <2>3 DEF Selections, Forgets
<1>8. CASE Fail
  <2>1. /\ Forget(running) /\ running' = {} /\ retired' = retired
        /\ batch' = {} /\ pending' = {} /\ task' = task
    BY <1>8 DEF Fail
  <2>2. Held' = Held \ running
    BY <1>1, <2>1 DEF Held, HeldIssued
  <2>3. Forgets
    BY <1>2, <2>1, <2>2
  <2> QED
    BY <2>1, <2>3 DEF Selections, Forgets
<1>9. CASE ReleaseWorkspaces
  <2>1. /\ Forget(retired) /\ running' = running /\ running = {} /\ retired' = {}
        /\ UNCHANGED <<batch, pending, task>>
    BY <1>1, <1>9, NothingPending DEF ReleaseWorkspaces, locals, others, arrivals
  <2>2. Held' = Held \ retired
    BY <2>1 DEF Held
  <2>3. Forgets
    BY <1>2, <2>1, <2>2
  <2> QED
    BY <1>3, <2>1, <2>3 DEF Forgets
<1>10. CASE \/ GenerateSerially \/ GenerateReturns
            \/ \E id \in Ids : CancelWaiting(id)
  <2>1. UNCHANGED <<running, retired, kv, search, decode, batch, pending, task>>
    BY <1>10 DEF GenerateSerially, GenerateReturns, CancelWaiting, slots, caches,
                 locals, others, arrivals
  <2> QED
    BY <1>3, <1>4, <2>1 DEF Forgets
<1>11. ASSUME NEW id \in Ids, CancelRunning(id)
       PROVE  Forgets /\ Slots /\ Tasks
  <2>1. /\ id \in running /\ running' = running \ {id}
        /\ UNCHANGED <<batch, pending, task>>
        /\ \/ retired' = retired \cup {id} /\ UNCHANGED caches
           \/ Forget({id}) /\ UNCHANGED retired
    BY <1>11 DEF CancelRunning, locals, arrivals
  <2>2. CASE retired' = retired \cup {id} /\ UNCHANGED caches
    <3>1. Forget({}) /\ Held' = Held \ {} /\ running' \cap {} = {}
      BY <1>1, <2>1, <2>2, NothingForgotten DEF Held
    <3> QED
      BY <1>2, <2>1, <3>1 DEF Selections
  <2>3. CASE Forget({id}) /\ UNCHANGED retired
    <3>1. Held' = Held \ {id} /\ running' \cap {id} = {}
      BY <1>1, <2>1, <2>3 DEF Held, HeldIssued
    <3> QED
      BY <1>2, <2>1, <2>3, <3>1 DEF Selections
  <2> QED
    BY <2>1, <2>2, <2>3
<1>12. ASSUME NEW k \in Kinds, Enqueue(k) \/ GenerateAhead(k)
       PROVE  Forgets /\ Slots /\ Tasks
  <2>1. /\ UNCHANGED <<running, batch, pending>>
        /\ task' = task \/ \E setting : Push(k, setting)
        /\ ReapRetired \/ UNCHANGED <<retired, kv, search, decode>>
    BY <1>12 DEF Enqueue, GenerateAhead, slots, caches, locals, others
  <2>2. \A id \in Held : id \in Ids /\ id # nextId
    <3>1. \A id \in Held : id \in Ids /\ id < nextId
      BY <1>1 DEF HeldIssued, TypeOK, Held
    <3>2. nextId \in Nat
      BY <1>1, LimitsAssumption DEF TypeOK
    <3> QED
      BY <3>1, <3>2 DEF Ids
  <2>3. ASSUME NEW setting, Push(k, setting)
        PROVE  Tasks
    BY <1>1, <2>2, <2>3 DEF Push, TypeOK
  <2>4. Forgets
    BY <1>4, <1>5, <2>1
  <2> QED
    BY <1>3, <2>1, <2>3, <2>4
<1> QED
  BY <1>6, <1>7, <1>8, <1>9, <1>10, <1>11, <1>12 DEF Callers, Forgets

\* So they keep what the others store.
LEMMA CallsStore ==
  ASSUME IInv, StorageInv, StepBegin \/ Retire \/ Fail \/ Callers
  PROVE  StoresOK'
<1>1. PICK S : Forget(S) /\ Held' = Held \ S /\ running' \cap S = {}
  BY CallsForget
<1>2. TypeOK /\ StoresOK
  BY DEF IInv, StorageInv
<1> QED
  BY <1>1, <1>2, CallsForget, CallStores

\* Phases that store nothing, and the device.
LEMMA MovesStore ==
  ASSUME IInv, FlowInv, StorageInv,
         \/ AdmitDone \/ NoDecodeRows \/ NoPrefill
         \/ AheadPollDone \/ AheadSettle \/ AheadDone
         \/ Device \/ UNCHANGED vars
  PROVE  StoresOK'
<1>1. TypeOK /\ StoresOK
  BY DEF IInv, StorageInv
<1>2. UNCHANGED <<running, retired, task, kv, search>>
  BY DEF AdmitDone, NoDecodeRows, NoPrefill, AheadPollDone, AheadSettle,
         AheadDone, Device, ReadbackCompletes, vars, slots, arrivals, caches
<1>3. Selections' = Selections
  <2>1. CASE AdmitDone
    <3>1. batch = {}
      BY <2>1 DEF AdmitDone, Admitting, FlowInv, StagesOK, Accepting
    <3> QED
      BY <2>1, <3>1 DEF AdmitDone, TakePending, Selections
  <2>2. CASE ~AdmitDone
    BY <2>2 DEF NoDecodeRows, NoPrefill, AheadPollDone, AheadSettle,
         AheadDone, Device, ReadbackCompletes, vars, locals, others, Selections
  <2> QED
    BY <2>1, <2>2
<1>4. \A id \in running : /\ decode'[id].on = decode[id].on
                          /\ decode'[id].submitted = decode[id].submitted
  <2>1. CASE Device
    <3>1. PICK id \in Ids : decode' = [decode EXCEPT ![id].ready = @ + 1]
      BY <2>1 DEF Device, ReadbackCompletes
    <3>2. decode[id] \in DecodeType
      BY <1>1 DEF TypeOK
    <3>3. decode' = [decode EXCEPT ![id] = [decode[id] EXCEPT !.ready = @ + 1]]
      BY <1>1, <3>1 DEF TypeOK
    <3>4. ASSUME NEW other \in Ids
          PROVE  /\ decode'[other].on = decode[other].on
                 /\ decode'[other].submitted = decode[other].submitted
      BY <1>1, <3>2, <3>3 DEF TypeOK, DecodeType
    <3> QED
      BY <1>1, <3>4 DEF TypeOK
  <2>2. CASE ~Device
    BY <2>2 DEF AdmitDone, NoDecodeRows, NoPrefill, AheadPollDone, AheadSettle,
         AheadDone, vars, caches
  <2> QED
    BY <2>1, <2>2
<1> QED
  BY <1>1, <1>2, <1>3, <1>4, MoveStores

\* Every step stores within the capacities.
LEMMA NextStores == IInv /\ FlowInv /\ StorageInv /\ [Next]_vars => StoresOK'
<1> SUFFICES ASSUME IInv, FlowInv, StorageInv, [Next]_vars PROVE StoresOK'
  OBVIOUS
<1>1. CASE Step
  BY <1>1, CallsStore, MovesStore, AdmitStores, AcceptStores, DecodeBatchStores,
     AheadBeginStores, AheadPollStores, AheadSubmitStores, PrefillStores
     DEF Step
<1>2. CASE Callers
  BY <1>2, CallsStore
<1>3. CASE Device \/ UNCHANGED vars
  BY <1>3, MovesStore
<1>4. CASE Fail
  BY <1>4, CallsStore
<1> QED
  BY <1>1, <1>2, <1>3, <1>4 DEF Next

\* Nothing is stored at first.
LEMMA InitStorage == Init => StorageInv
<1> SUFFICES ASSUME Init PROVE StorageInv
  OBVIOUS
<1>1. TasksFit
  BY DEF Init, TasksFit, Ids
<1>2. Held = {}
  BY DEF Init, Held
<1>3. Borrowed /\ RetainedOK /\ StoresOK
  BY <1>2 DEF Init, Borrowed, RetainedOK, StoresOK, CacheFits
<1> QED
  BY <1>1, <1>3 DEF StorageInv

\* The third invariant is kept, given the other two.
LEMMA NextStorage == IInv /\ FlowInv /\ StorageInv /\ [Next]_vars => StorageInv'
BY TasksFitKeeps, NextBorrowed, NextRetains, NextStores DEF StorageInv

\* All three invariants hold of every reachable state of the serving queue.
THEOREM StorageHolds == Spec => [](IInv /\ FlowInv /\ StorageInv)
<1>1. Init => IInv /\ FlowInv /\ StorageInv
  BY InitEstablishes, InitFlow, InitStorage
<1>2. IInv /\ FlowInv /\ StorageInv /\ [Next]_vars
        => (IInv /\ FlowInv /\ StorageInv)'
  BY NextKeeps, NextFlow, NextStorage
<1> QED
  BY <1>1, <1>2, PTL DEF Spec

\* Whatever the model selects, no prefill, packed decode or decode ahead of the
\* host writes past the end of a request's cache, and the retained prefix and
\* the requests that are not complete never exceed the budget together.
THEOREM StorageBounded == Spec => [](CacheFits /\ RetainedFits)
<1>1. StorageInv => CacheFits /\ RetainedFits
  BY DEF StorageInv, StoresOK, RetainedOK, RetainedFits
<1> QED
  BY <1>1, StorageHolds, PTL

----------------------------------------------------------------------------
(* What the caches contain, when the model never selects the padding.       *)

NoPadding == \A contents \in Seq(Tokens) : Select(contents) # Pad

\* The prompt of a request and the tokens that were accepted for it.
TextOf(t, s) == t.prompt \o s.ids

\* The first n tokens stored are those of the text.
Agree(contents, text, n) ==
  n <= Len(text) /\ \A i \in 1 .. n : contents[i] = text[i]

\* The text continued by the tokens whose readbacks are in flight.
Fed(text, readbacks, i) ==
  IF i <= Len(text) THEN text[i] ELSE readbacks[i - Len(text)].token

\* A request that is decoded ahead stores all of that but the last token,
\* which is on the device; a readback publishes where its token goes.
ReadsAhead(contents, text, token, readbacks) ==
  LET last == Len(text) + Len(readbacks)
  IN  /\ Len(contents) + 1 = last
      /\ \A i \in 1 .. Len(contents) : contents[i] = Fed(text, readbacks, i)
      /\ token = Fed(text, readbacks, last)
      /\ \A i \in 1 .. Len(readbacks) :
           readbacks[i].position = Len(text) + i - 1

\* One that is decoded in packed calls stores a part of the text.
ReadsPacked(contents, text, s) ==
  /\ Agree(contents, text, Len(contents))
  /\ s.steps > 0 => s.token = text[Len(text)]

ReadsAs(contents, t, s, d) ==
  /\ \A i \in 1 .. Len(d.pending) : d.pending[i].token # Pad
  /\ ~s.finished => Len(s.ids) = s.steps
  /\ d.on => Agree(contents, TextOf(t, s), d.logical)
  /\ d.on /\ ~s.finished =>
       ReadsAhead(contents, TextOf(t, s), d.token, d.pending)
  /\ ~d.on /\ ~s.finished => ReadsPacked(contents, TextOf(t, s), s)

Reads(id) == ReadsAs(kv[id], task[id], search[id], decode[id])

TextInv ==
  /\ \A e \in Selections : e.token # Pad
  /\ \A id \in running : Reads(id)
  /\ PrefixIsProcessed

----------------------------------------------------------------------------
(* What the steps do to the contents of one cache.                          *)

\* What a longer text begins with.
LEMMA AgreeLonger ==
  ASSUME NEW text \in Seq(Tokens), NEW token \in Tokens, NEW contents,
         NEW n \in Nat, Agree(contents, text, n)
  PROVE  Agree(contents, Append(text, token), n)
<1>1. /\ Len(text) \in Nat
      /\ Len(Append(text, token)) = Len(text) + 1
      /\ \A i \in 1 .. Len(text) : Append(text, token)[i] = text[i]
  BY LenProperties, AppendProperties
<1> QED
  BY <1>1 DEF Agree

\* The next token of the text may be stored.
LEMMA AgreeAppend ==
  ASSUME NEW text \in Seq(Tokens), NEW contents \in Seq(Tokens),
         Agree(contents, text, Len(contents)), Len(contents) + 1 <= Len(text)
  PROVE  LET longer == Append(contents, text[Len(contents) + 1])
         IN  Agree(longer, text, Len(longer))
<1> DEFINE token == text[Len(contents) + 1]
           longer == Append(contents, token)
<1>1. Len(contents) \in Nat /\ Len(text) \in Nat
  BY LenProperties
<1>2. Len(contents) + 1 \in 1 .. Len(text)
  BY <1>1
<1>3. token \in Tokens
  BY <1>2, ElementOfSeq
<1> HIDE DEF token
<1>4. /\ Len(longer) = Len(contents) + 1
      /\ \A i \in 1 .. Len(contents) : longer[i] = contents[i]
      /\ longer[Len(contents) + 1] = token
  BY <1>3, AppendProperties
<1> HIDE DEF longer
<1>5. ASSUME NEW i \in 1 .. Len(longer)
      PROVE  longer[i] = text[i]
  <2>1. CASE i \in 1 .. Len(contents)
    BY <1>4, <2>1 DEF Agree
  <2>2. CASE i = Len(contents) + 1
    BY <1>4, <2>2 DEF token
  <2> QED
    BY <1>1, <1>4, <2>1, <2>2
<1>6. Len(longer) <= Len(text)
  BY <1>4
<1>7. Agree(longer, text, Len(longer))
  BY <1>5, <1>6 DEF Agree
<1> QED
  BY <1>7 DEF longer, token

\* So may the next tokens of the prompt.
LEMMA AgreeChunk ==
  ASSUME NEW prompt \in Seq(Tokens), NEW contents \in Seq(Tokens),
         NEW end \in Nat, Len(contents) <= end, end <= Len(prompt),
         Agree(contents, prompt, Len(contents))
  PROVE  LET longer == contents \o SubSeq(prompt, Len(contents) + 1, end)
         IN  Agree(longer, prompt, Len(longer))
<1> DEFINE stored == Len(contents)
           rest == SubSeq(prompt, stored + 1, end)
           longer == contents \o rest
<1>1. stored \in Nat /\ Len(prompt) \in Nat
  BY LenProperties
<1>2. \A i \in stored + 1 .. end : prompt[i] \in Tokens
  BY <1>1, ElementOfSeq
<1>3. /\ rest \in Seq(Tokens)
      /\ Len(rest) = IF stored + 1 <= end THEN end - (stored + 1) + 1 ELSE 0
      /\ \A i \in 1 .. end - (stored + 1) + 1 :
           rest[i] = prompt[(stored + 1) + i - 1]
  <2>1. stored + 1 \in Int /\ end \in Int
    BY <1>1
  <2> QED
    BY <1>2, <2>1, SubSeqProperties
<1> HIDE DEF rest
<1>4. /\ Len(longer) = stored + Len(rest)
      /\ \A i \in 1 .. stored + Len(rest) :
           longer[i] = IF i <= stored THEN contents[i] ELSE rest[i - stored]
  BY <1>3, ConcatProperties
<1>5. Len(rest) = end - stored
  BY <1>1, <1>3
<1> HIDE DEF longer
<1>6. ASSUME NEW i \in 1 .. Len(longer)
      PROVE  longer[i] = prompt[i]
  <2>1. CASE i <= stored
    BY <1>1, <1>4, <1>5, <2>1 DEF Agree
  <2>2. CASE ~(i <= stored)
    <3>1. i - stored \in 1 .. end - (stored + 1) + 1
      BY <1>1, <1>4, <1>5, <2>2
    <3>2. rest[i - stored] = prompt[(stored + 1) + (i - stored) - 1]
      BY <1>3, <3>1
    <3>3. (stored + 1) + (i - stored) - 1 = i
      BY <1>1
    <3> QED
      BY <1>4, <2>2, <3>2, <3>3
  <2> QED
    BY <2>1, <2>2
<1>7. Len(longer) <= Len(prompt)
  BY <1>1, <1>4, <1>5
<1>8. Agree(longer, prompt, Len(longer))
  BY <1>6, <1>7 DEF Agree
<1> QED
  BY <1>8 DEF longer, rest

\* The part of a cache that agrees is a cache that agrees.
LEMMA AgreeCut ==
  ASSUME NEW contents \in Seq(Tokens), NEW n \in 0 .. Len(contents), NEW text,
         Agree(contents, text, n)
  PROVE  LET cut == SubSeq(contents, 1, n)
         IN  cut \in Seq(Tokens) /\ Len(cut) = n /\ Agree(cut, text, Len(cut))
<1> DEFINE cut == SubSeq(contents, 1, n)
<1>1. cut \in Seq(Tokens) /\ Len(cut) = n
  BY PrefixOfSeq
<1>2. \A i \in 1 .. n : cut[i] = contents[i]
  <2>1. Len(contents) \in Nat
    BY LenProperties
  <2>2. \A i \in 1 .. n : contents[i] \in Tokens
    BY <2>1, ElementOfSeq
  <2>3. \A i \in 1 .. n - 1 + 1 : cut[i] = contents[1 + i - 1]
    BY <2>1, <2>2, SubSeqProperties
  <2>4. n - 1 + 1 = n /\ \A i \in 1 .. n : 1 + i - 1 = i
    BY <2>1
  <2> QED
    BY <2>3, <2>4
<1> HIDE DEF cut
<1>3. Agree(cut, text, n)
  BY <1>2 DEF Agree
<1>4. cut \in Seq(Tokens) /\ Len(cut) = n /\ Agree(cut, text, Len(cut))
  BY <1>1, <1>3
<1> QED
  BY <1>4 DEF cut

\* A cache that agrees with the text is retained with the tokens it holds.
LEMMA RetainedAgrees ==
  ASSUME NEW t \in TaskType, NEW contents \in Seq(Tokens),
         NEW ids \in Seq(Tokens),
         Agree(contents, t.prompt \o ids, Len(contents))
  PROVE  LET kept == Retained(t, contents, ids)
         IN  kept # None => kept.tokens = kept.kv
<1> DEFINE text == t.prompt \o ids
           n == Len(contents)
           kept == SubSeq(text, 1, n)
<1>1. /\ text \in Seq(Tokens) /\ Len(text) \in Nat
      /\ n \in Nat /\ n <= Len(text)
      /\ \A i \in 1 .. n : contents[i] = text[i]
  BY ConcatProperties, LenProperties DEF TaskType, Agree
<1> HIDE DEF text
<1>2. n \in 0 .. Len(text) /\ Agree(text, contents, n)
  BY <1>1 DEF Agree
<1>3. kept \in Seq(Tokens) /\ Len(kept) = n /\ Agree(kept, contents, Len(kept))
  BY <1>1, <1>2, AgreeCut
<1>4. kept = contents
  BY <1>3, SeqEqual DEF Agree
<1> QED
  BY <1>4 DEF Retained, text

----------------------------------------------------------------------------
(* What the steps do to one request.                                        *)

\* The text of a request is a sequence of tokens.
LEMMA TextTyped ==
  ASSUME NEW t \in TaskType, NEW s \in SearchType
  PROVE  /\ t.prompt \in Seq(Tokens) /\ s.ids \in Seq(Tokens)
         /\ TextOf(t, s) \in Seq(Tokens)
         /\ Len(t.prompt) \in Nat \ {0} /\ Len(s.ids) \in Nat
         /\ Len(TextOf(t, s)) = Len(t.prompt) + Len(s.ids)
         /\ Len(TextOf(t, s)) \in Nat \ {0}
<1>1. t.prompt \in Seq(Tokens) /\ t.prompt # <<>> /\ s.ids \in Seq(Tokens)
  BY DEF TaskType, SearchType
<1>2. Len(t.prompt) \in Nat \ {0} /\ Len(s.ids) \in Nat
  BY <1>1, EmptySeq, LenProperties
<1>3. /\ TextOf(t, s) \in Seq(Tokens)
      /\ Len(TextOf(t, s)) = Len(t.prompt) + Len(s.ids)
  BY <1>1, ConcatProperties DEF TextOf
<1>4. \A a \in Nat \ {0}, b \in Nat : a + b \in Nat \ {0}
  OBVIOUS
<1> QED
  BY <1>1, <1>2, <1>3, <1>4

\* Appending to the last of two sequences appends to both.
LEMMA AppendLast ==
  ASSUME NEW S, NEW u \in Seq(S), NEW v \in Seq(S), NEW x \in S
  PROVE  u \o Append(v, x) = Append(u \o v, x)
OBVIOUS

\* Accepting a token that is no padding continues the text, or ends it.
LEMMA AcceptedText ==
  ASSUME NEW t \in TaskType, NEW s \in SearchType, NEW token \in Tokens,
         token # Pad
  PROVE  LET a == Accepted(s, token, t)
             longer == Append(TextOf(t, s), token)
         IN  /\ a.steps = s.steps + 1 /\ a.token = token
             /\ TextOf(t, a) \in {TextOf(t, s), longer}
             /\ ~a.finished =>
                  TextOf(t, a) = longer /\ Len(a.ids) = Len(s.ids) + 1
<1> DEFINE a == Accepted(s, token, t)
           longer == Append(TextOf(t, s), token)
<1>1. /\ t.prompt \in Seq(Tokens) /\ s.ids \in Seq(Tokens)
  BY TextTyped
<1>2. t.prompt \o Append(s.ids, token) = Append(TextOf(t, s), token)
  <2>1. t.prompt \o Append(s.ids, token) = Append(t.prompt \o s.ids, token)
    <3>1. \A u \in Seq(Tokens), v \in Seq(Tokens), x \in Tokens :
            u \o Append(v, x) = Append(u \o v, x)
      BY AppendLast
    <3> QED
      BY <1>1, <3>1
  <2> QED
    BY <2>1, Zenon DEF TextOf
<1>3. Len(Append(s.ids, token)) = Len(s.ids) + 1
  BY <1>1, AppendProperties
<1>4. /\ a.steps = s.steps + 1 /\ a.token = token
      /\ a.ids \in {s.ids, Append(s.ids, token)}
      /\ ~a.finished => a.ids = Append(s.ids, token)
  BY DEF Accepted
<1> HIDE DEF a
<1>5. TextOf(t, a) = t.prompt \o a.ids
  BY DEF TextOf
<1>6. a.ids = s.ids => TextOf(t, a) = TextOf(t, s)
  BY DEF TextOf
<1>7. a.ids = Append(s.ids, token) => TextOf(t, a) = longer
  BY <1>2, <1>5
<1>8. /\ a.steps = s.steps + 1 /\ a.token = token
      /\ TextOf(t, a) \in {TextOf(t, s), longer}
      /\ ~a.finished => TextOf(t, a) = longer /\ Len(a.ids) = Len(s.ids) + 1
  BY <1>3, <1>4, <1>6, <1>7
<1> QED
  BY <1>8 DEF a

\* A selection of a packed call or of a prefill is accepted.
LEMMA AcceptReads ==
  ASSUME NEW t \in TaskType, NEW s \in SearchType, NEW d,
         NEW contents \in Seq(Tokens), NEW token \in Tokens, token # Pad,
         ~s.finished, ~d.on, ReadsAs(contents, t, s, d)
  PROVE  LET a == Accepted(s, token, t)
         IN  /\ ReadsAs(contents, t, a, d)
             /\ Agree(contents, TextOf(t, a), Len(contents))
<1> DEFINE a == Accepted(s, token, t)
           text == TextOf(t, s)
           longer == Append(text, token)
<1>1. /\ text \in Seq(Tokens) /\ Len(text) \in Nat /\ Len(contents) \in Nat
      /\ Len(s.ids) = s.steps /\ Agree(contents, text, Len(contents))
      /\ \A i \in 1 .. Len(d.pending) : d.pending[i].token # Pad
  BY TextTyped, LenProperties DEF ReadsAs, ReadsPacked
<1>2. /\ a.steps = s.steps + 1 /\ a.token = token
      /\ TextOf(t, a) \in {text, longer}
      /\ ~a.finished => TextOf(t, a) = longer /\ Len(a.ids) = Len(s.ids) + 1
  BY AcceptedText
<1> HIDE DEF a, text
<1>3. Agree(contents, longer, Len(contents))
  BY <1>1, AgreeLonger
<1>4. Agree(contents, TextOf(t, a), Len(contents))
  BY <1>1, <1>2, <1>3
<1>5. longer[Len(longer)] = token
  BY <1>1, AppendProperties
<1>6. ~a.finished => ReadsPacked(contents, TextOf(t, a), a)
  BY <1>2, <1>4, <1>5 DEF ReadsPacked
<1>7. ReadsAs(contents, t, a, d)
  BY <1>1, <1>2, <1>6 DEF ReadsAs
<1> QED
  BY <1>4, <1>7 DEF a

\* A packed call stores the token that was accepted last.
LEMMA FeedReads ==
  ASSUME NEW t \in TaskType, NEW s \in SearchType, NEW d,
         NEW contents \in Seq(Tokens), ~s.finished, ~d.on, s.steps > 0,
         Len(contents) + 1 = Len(t.prompt) + s.steps, ReadsAs(contents, t, s, d)
  PROVE  ReadsAs(Append(contents, s.token), t, s, d)
<1> DEFINE text == TextOf(t, s)
           longer == Append(contents, s.token)
<1>1. /\ text \in Seq(Tokens) /\ Len(text) \in Nat /\ Len(contents) \in Nat
      /\ Len(text) = Len(contents) + 1
      /\ Agree(contents, text, Len(contents)) /\ s.token = text[Len(text)]
  BY TextTyped, LenProperties DEF ReadsAs, ReadsPacked
<1> HIDE DEF text
<1>2. Agree(longer, text, Len(longer))
  BY <1>1, AgreeAppend
<1> HIDE DEF longer
<1>3. ReadsPacked(longer, text, s)
  BY <1>1, <1>2 DEF ReadsPacked
<1>4. ReadsAs(longer, t, s, d)
  BY <1>3 DEF ReadsAs, text
<1> QED
  BY <1>4 DEF longer

\* A request stores its prompt before anything is accepted for it.
LEMMA PromptReads ==
  ASSUME NEW t \in TaskType, NEW s \in SearchType, NEW d, NEW contents,
         s.ids = <<>>, s.steps = 0, ~d.on, d.pending = <<>>,
         Agree(contents, t.prompt, Len(contents))
  PROVE  ReadsAs(contents, t, s, d)
<1>1. TextOf(t, s) = t.prompt
  BY TextTyped, ConcatEmptySeq DEF TextOf
<1>2. Len(s.ids) = s.steps
  OBVIOUS
<1>3. ReadsPacked(contents, t.prompt, s)
  BY DEF ReadsPacked
<1> QED
  BY <1>1, <1>2, <1>3 DEF ReadsAs

\* A chunk of the prompt is stored.
LEMMA ChunkReads ==
  ASSUME NEW t \in TaskType, NEW s \in SearchType, NEW d,
         NEW contents \in Seq(Tokens), ~s.finished, ~d.on, s.steps = 0,
         d.pending = <<>>, NEW end \in Nat, Len(contents) <= end,
         end <= Len(t.prompt), ReadsAs(contents, t, s, d)
  PROVE  ReadsAs(contents \o SubSeq(t.prompt, Len(contents) + 1, end), t, s, d)
<1> DEFINE longer == contents \o SubSeq(t.prompt, Len(contents) + 1, end)
<1>1. s.ids \in Seq(Tokens) /\ t.prompt \in Seq(Tokens) /\ Len(s.ids) = 0
  BY TextTyped DEF ReadsAs
<1>2. s.ids = <<>>
  BY <1>1, EmptySeq
<1>3. TextOf(t, s) = t.prompt
  BY <1>1, <1>2, ConcatEmptySeq DEF TextOf
<1>4. Agree(contents, t.prompt, Len(contents))
  BY <1>3 DEF ReadsAs, ReadsPacked
<1>5. Agree(longer, t.prompt, Len(longer))
  BY <1>1, <1>4, AgreeChunk
<1> HIDE DEF longer
<1>6. ReadsAs(longer, t, s, d)
  BY <1>2, <1>5, PromptReads
<1> QED
  BY <1>6 DEF longer

\* Decoding ahead starts from the token that was accepted last.
LEMMA AheadReads ==
  ASSUME NEW t \in TaskType, NEW s \in SearchType, NEW d, NEW e,
         NEW contents \in Seq(Tokens), ~s.finished, ~d.on, s.steps > 0,
         Len(contents) + 1 = Len(t.prompt) + s.steps, ReadsAs(contents, t, s, d),
         e.on, e.token = s.token, e.pending = <<>>, e.logical = Len(contents)
  PROVE  ReadsAs(contents, t, s, e)
<1> DEFINE text == TextOf(t, s)
<1>1. /\ text \in Seq(Tokens) /\ Len(text) \in Nat /\ Len(contents) \in Nat
      /\ Len(text) = Len(contents) + 1 /\ Len(s.ids) = s.steps
      /\ Agree(contents, text, Len(contents)) /\ s.token = text[Len(text)]
  BY TextTyped, LenProperties DEF ReadsAs, ReadsPacked
<1> HIDE DEF text
<1>2. ReadsAhead(contents, text, e.token, e.pending)
  <2>1. Len(e.pending) = 0
    OBVIOUS
  <2>2. \A i \in 1 .. Len(contents) : contents[i] = Fed(text, e.pending, i)
    BY <1>1 DEF Agree, Fed
  <2>3. e.token = Fed(text, e.pending, Len(text) + 0)
    BY <1>1 DEF Fed
  <2>4. Len(text) + 0 = Len(text)
    BY <1>1
  <2> QED
    BY <1>1, <2>1, <2>2, <2>3, <2>4 DEF ReadsAhead
<1>3. Agree(contents, text, e.logical)
  BY <1>1
<1> QED
  BY <1>1, <1>2, <1>3 DEF ReadsAs, text

\* A readback is published, or dropped after the end of the text.
LEMMA PollReads ==
  ASSUME NEW t \in TaskType, NEW s \in SearchType, NEW d \in DecodeType,
         NEW contents \in Seq(Tokens), d.on, d.ready > 0,
         DecoderSound(d, contents), ReadsAs(contents, t, s, d),
         NEW e, e.on = d.on, e.token = d.token, e.pending = Tail(d.pending)
  PROVE  LET r == Head(d.pending)
             a == Accepted(s, r.token, t)
         IN  /\ s.finished /\ e.logical = d.logical => ReadsAs(contents, t, s, e)
             /\ ~s.finished /\ e.logical = r.position =>
                  /\ ReadsAs(contents, t, a, e)
                  /\ r.position \in 0 .. Len(contents)
                  /\ Agree(contents, TextOf(t, a), r.position)
<1> DEFINE r == Head(d.pending)
           a == Accepted(s, r.token, t)
           text == TextOf(t, s)
           longer == Append(text, r.token)
           rest == Tail(d.pending)
<1>1. /\ d.pending \in Seq([token : Tokens, position : Nat])
      /\ Len(d.pending) \in Nat /\ d.pending # <<>>
      /\ Len(d.pending) > 0
  <2>1. /\ d.pending \in Seq([token : Tokens, position : Nat]) /\ d.ready \in Nat
        /\ d.ready <= Len(d.pending)
    BY DEF DecodeType, DecoderSound
  <2> QED
    BY <2>1, LenProperties, EmptySeq
<1>2. /\ r = d.pending[1] /\ r \in [token : Tokens, position : Nat]
      /\ Len(rest) = Len(d.pending) - 1
      /\ \A i \in 1 .. Len(rest) : rest[i] = d.pending[i + 1]
  <2>1. r \in [token : Tokens, position : Nat]
    BY <1>1, HeadTailProperties
  <2>2. r = d.pending[1]
    BY <1>1
  <2>3. /\ Len(rest) = Len(d.pending) - 1
        /\ \A i \in 1 .. Len(rest) : rest[i] = d.pending[i + 1]
    BY <1>1, HeadTailProperties
  <2> QED
    BY <2>1, <2>2, <2>3
<1>3. /\ text \in Seq(Tokens) /\ Len(text) \in Nat \ {0} /\ Len(contents) \in Nat
      /\ \A i \in 1 .. Len(d.pending) : d.pending[i].token # Pad
      /\ Agree(contents, text, d.logical)
      /\ d.logical \in Nat
  <2>1. /\ text \in Seq(Tokens) /\ Len(text) \in Nat \ {0}
    BY TextTyped
  <2> QED
    BY <2>1, LenProperties DEF ReadsAs, DecodeType
<1>4. r.token \in Tokens /\ r.token # Pad /\ r.position \in Nat
  BY <1>1, <1>2, <1>3
<1> HIDE DEF text, r, rest
<1>5. ASSUME NEW i \in 1 .. Len(rest)
      PROVE  rest[i].token # Pad
  <2>1. i + 1 \in 1 .. Len(d.pending) /\ rest[i] = d.pending[i + 1]
    BY <1>1, <1>2
  <2> QED
    BY <1>3, <2>1
<1>6. ASSUME s.finished, e.logical = d.logical
      PROVE  ReadsAs(contents, t, s, e)
  BY <1>3, <1>5, <1>6 DEF ReadsAs, text, rest
<1>7. ASSUME ~s.finished, e.logical = r.position
      PROVE  /\ ReadsAs(contents, t, a, e)
             /\ r.position \in 0 .. Len(contents)
             /\ Agree(contents, TextOf(t, a), r.position)
  <2> DEFINE last == Len(text) + Len(d.pending)
  <2>1. /\ Len(contents) + 1 = last
        /\ \A i \in 1 .. Len(contents) : contents[i] = Fed(text, d.pending, i)
        /\ d.token = Fed(text, d.pending, last)
        /\ \A i \in 1 .. Len(d.pending) :
             d.pending[i].position = Len(text) + i - 1
        /\ Len(s.ids) = s.steps
    BY <1>7 DEF ReadsAs, ReadsAhead, text
  <2>2. r.position = Len(text) /\ Len(text) <= Len(contents)
    BY <1>1, <1>2, <1>3, <2>1
  <2>3. Agree(contents, text, Len(text))
    BY <1>3, <2>1, <2>2 DEF Agree, Fed
  <2>4. /\ a.steps = s.steps + 1 /\ a.token = r.token
        /\ TextOf(t, a) \in {text, longer}
        /\ ~a.finished => TextOf(t, a) = longer /\ Len(a.ids) = Len(s.ids) + 1
    BY <1>4, AcceptedText DEF text
  <2> HIDE DEF a
  <2>5. /\ Len(longer) = Len(text) + 1
        /\ \A i \in 1 .. Len(text) : longer[i] = text[i]
        /\ longer[Len(text) + 1] = r.token
    BY <1>3, <1>4, AppendProperties
  <2>6. Agree(contents, TextOf(t, a), r.position)
    BY <1>3, <1>4, <2>2, <2>3, <2>4, AgreeLonger
  <2> HIDE DEF longer
  <2>7. \A i \in 1 .. last : Fed(longer, rest, i) = Fed(text, d.pending, i)
    <3> SUFFICES ASSUME NEW i \in 1 .. last
                 PROVE  Fed(longer, rest, i) = Fed(text, d.pending, i)
      OBVIOUS
    <3>1. CASE i <= Len(text)
      BY <1>3, <2>5, <3>1 DEF Fed
    <3>2. CASE i = Len(text) + 1
      BY <1>2, <1>3, <2>5, <3>2 DEF Fed
    <3>3. CASE i > Len(text) + 1
      <4> DEFINE j == i - (Len(text) + 1)
      <4>1. j \in 1 .. Len(rest) /\ j + 1 = i - Len(text)
        BY <1>1, <1>2, <1>3, <3>3
      <4>2. rest[j] = d.pending[j + 1]
        BY <1>2, <4>1
      <4>3. Fed(longer, rest, i) = rest[j].token
        BY <1>3, <2>5, <3>3 DEF Fed
      <4>4. Fed(text, d.pending, i) = d.pending[i - Len(text)].token
        BY <1>3, <3>3 DEF Fed
      <4> QED
        BY <4>1, <4>2, <4>3, <4>4
    <3> QED
      BY <1>1, <1>3, <3>1, <3>2, <3>3
  <2>8. ReadsAhead(contents, longer, e.token, e.pending)
    <3>1. Len(longer) + Len(rest) = last
      <4>1. /\ Len(text) \in Nat /\ Len(d.pending) \in Nat
            /\ Len(longer) = Len(text) + 1 /\ Len(rest) = Len(d.pending) - 1
        BY <1>1, <1>2, <1>3, <2>5
      <4> HIDE DEF last
      <4>2. last = Len(text) + Len(d.pending)
        BY DEF last
      <4>3. \A m, n \in Nat : (m + 1) + (n - 1) = m + n
        OBVIOUS
      <4> QED
        BY <4>1, <4>2, <4>3, Zenon
    <3>2. \A i \in 1 .. Len(contents) : contents[i] = Fed(longer, rest, i)
      BY <1>3, <2>1, <2>7
    <3>3. d.token = Fed(longer, rest, last)
      BY <1>3, <2>1, <2>7
    <3>4. ASSUME NEW i \in 1 .. Len(rest)
          PROVE  rest[i].position = Len(longer) + i - 1
      <4>1. i + 1 \in 1 .. Len(d.pending) /\ rest[i] = d.pending[i + 1]
        BY <1>1, <1>2
      <4>2. rest[i].position = Len(text) + (i + 1) - 1
        BY <2>1, <4>1
      <4> QED
        BY <1>3, <2>5, <4>2
    <3>5. e.pending = rest /\ e.token = d.token
      BY DEF rest
    <3> HIDE DEF last
    <3> QED
      BY <2>1, <3>1, <3>2, <3>3, <3>4, <3>5 DEF ReadsAhead
  <2>9. ReadsAs(contents, t, a, e)
    <3>1. e.pending = rest /\ e.on
      BY DEF rest
    <3> QED
      BY <1>5, <1>7, <2>1, <2>4, <2>6, <2>8, <3>1 DEF ReadsAs
  <2> QED
    BY <1>3, <2>2, <2>6, <2>9
<1> QED
  BY <1>6, <1>7 DEF r

\* A submission stores the token on the device, and selects the next.
LEMMA SubmitReads ==
  ASSUME NEW t \in TaskType, NEW s \in SearchType, NEW d \in DecodeType,
         NEW contents \in Seq(Tokens), d.on, ~s.finished,
         DecoderSound(d, contents), ReadsAs(contents, t, s, d),
         NEW token \in Tokens, token # Pad,
         NEW e, e.on = d.on, e.logical = d.logical, e.token = token,
         e.pending = Append(d.pending,
                       [token |-> token, position |-> Len(contents) + 1])
  PROVE  ReadsAs(Append(contents, d.token), t, s, e)
<1> DEFINE text == TextOf(t, s)
           longer == Append(contents, d.token)
           r == [token |-> token, position |-> Len(contents) + 1]
           more == Append(d.pending, r)
           last == Len(text) + Len(d.pending)
<1>1. /\ d.pending \in Seq([token : Tokens, position : Nat])
      /\ d.token \in Tokens /\ d.logical \in Nat
      /\ d.logical <= Len(contents) /\ Len(contents) \in Nat
      /\ Len(d.pending) \in Nat
  BY LenProperties DEF DecodeType, DecoderSound
<1>2. r \in [token : Tokens, position : Nat]
  BY <1>1
<1>3. r.token = token /\ r.position = Len(contents) + 1
  OBVIOUS
<1> HIDE DEF r
<1>4. /\ Len(more) = Len(d.pending) + 1
      /\ \A i \in 1 .. Len(d.pending) : more[i] = d.pending[i]
      /\ more[Len(d.pending) + 1] = r
  BY <1>1, <1>2, AppendProperties
<1>5. /\ Len(longer) = Len(contents) + 1
      /\ \A i \in 1 .. Len(contents) : longer[i] = contents[i]
      /\ longer[Len(contents) + 1] = d.token
  BY <1>1, AppendProperties
<1>6. /\ text \in Seq(Tokens) /\ Len(text) \in Nat \ {0}
      /\ \A i \in 1 .. Len(d.pending) : d.pending[i].token # Pad
      /\ Agree(contents, text, d.logical) /\ Len(s.ids) = s.steps
      /\ Len(contents) + 1 = last
      /\ \A i \in 1 .. Len(contents) : contents[i] = Fed(text, d.pending, i)
      /\ d.token = Fed(text, d.pending, last)
      /\ \A i \in 1 .. Len(d.pending) :
           d.pending[i].position = Len(text) + i - 1
  <2>1. text \in Seq(Tokens) /\ Len(text) \in Nat \ {0}
    BY TextTyped
  <2> QED
    BY <2>1 DEF ReadsAs, ReadsAhead
<1> HIDE DEF text, longer, more
<1>7. \A i \in 1 .. last : Fed(text, more, i) = Fed(text, d.pending, i)
  <2> SUFFICES ASSUME NEW i \in 1 .. last
               PROVE  Fed(text, more, i) = Fed(text, d.pending, i)
    OBVIOUS
  <2>1. CASE i <= Len(text)
    BY <2>1 DEF Fed
  <2>2. CASE ~(i <= Len(text))
    <3>1. i - Len(text) \in 1 .. Len(d.pending)
      BY <1>1, <1>6, <2>2
    <3>2. more[i - Len(text)] = d.pending[i - Len(text)]
      BY <1>4, <3>1
    <3> QED
      BY <2>2, <3>2 DEF Fed
  <2> QED
    BY <2>1, <2>2
<1>8. ReadsAhead(longer, text, token, more)
  <2>1. last \in Nat /\ Len(text) + Len(more) = last + 1 /\ Len(longer) = last
    BY <1>1, <1>4, <1>5, <1>6
  <2>2. ASSUME NEW i \in 1 .. Len(longer)
        PROVE  longer[i] = Fed(text, more, i)
    <3>1. CASE i \in 1 .. Len(contents)
      BY <1>5, <1>6, <1>7, <2>1, <3>1
    <3>2. CASE i = Len(contents) + 1
      BY <1>5, <1>6, <1>7, <2>1, <3>2
    <3> QED
      BY <1>1, <1>5, <3>1, <3>2
  <2>3. token = Fed(text, more, last + 1)
    <3>1. (last + 1) - Len(text) = Len(d.pending) + 1
      BY <1>1, <1>6
    <3>2. ~(last + 1 <= Len(text))
      BY <1>1, <1>6
    <3> QED
      BY <1>3, <1>4, <3>1, <3>2 DEF Fed
  <2>4. ASSUME NEW i \in 1 .. Len(more)
        PROVE  more[i].position = Len(text) + i - 1
    <3>1. CASE i \in 1 .. Len(d.pending)
      BY <1>4, <1>6, <3>1
    <3>2. CASE i = Len(d.pending) + 1
      <4>1. more[i].position = last
        BY <1>3, <1>4, <1>6, <3>2
      <4>2. last = Len(text) + i - 1
        BY <1>1, <1>6, <3>2
      <4> QED
        BY <4>1, <4>2
    <3> QED
      BY <1>1, <1>4, <3>1, <3>2
  <2> HIDE DEF last
  <2> QED
    BY <2>1, <2>2, <2>3, <2>4 DEF ReadsAhead
<1>9. Agree(longer, text, d.logical)
  BY <1>1, <1>5, <1>6 DEF Agree
<1>10. ASSUME NEW i \in 1 .. Len(more)
       PROVE  more[i].token # Pad
  <2>1. CASE i \in 1 .. Len(d.pending)
    BY <1>4, <1>6, <2>1
  <2>2. CASE i = Len(d.pending) + 1
    BY <1>3, <1>4, <2>2
  <2> QED
    BY <1>1, <1>4, <2>1, <2>2
<1>11. e.pending = more
  BY DEF more, r
<1>12. ReadsAs(longer, t, s, e)
  BY <1>6, <1>8, <1>9, <1>10, <1>11 DEF ReadsAs, text
<1> QED
  BY <1>12 DEF longer

----------------------------------------------------------------------------
(* The text invariant is kept.                                              *)

\* A request that is served has values of the code's types.
LEMMA ServedTyped ==
  ASSUME IInv, NEW id \in running
  PROVE  /\ id \in Ids /\ id \in Held /\ task[id] \in TaskType
         /\ search[id] \in SearchType /\ decode[id] \in DecodeType
         /\ kv[id] \in Seq(Tokens) /\ DecoderSound(decode[id], kv[id])
BY DEF IInv, TypeOK, TasksKnown, HeldIssued, DecodersSound, Held

\* A request that is left alone reads what it read.
LEMMA ReadsKept ==
  ASSUME NEW id, Reads(id), task'[id] = task[id], kv'[id] = kv[id],
         search'[id] = search[id], decode'[id].on = decode[id].on,
         decode'[id].token = decode[id].token,
         decode'[id].pending = decode[id].pending,
         decode'[id].logical = decode[id].logical
  PROVE  Reads(id)'
BY DEF Reads, ReadsAs

\* Calls that destroy requests, but none that is served.
LEMMA ForgetText ==
  ASSUME TypeOK, TextInv, NEW S, Forget(S), Held' = Held \ S,
         running' \cap S = {}, running' \subseteq running,
         Selections' \subseteq Selections,
         \A id \in Held : task'[id] = task[id], PrefixIsProcessed'
  PROVE  TextInv'
<1>1. ASSUME NEW id \in running'
      PROVE  Reads(id)'
  <2>1. /\ task'[id] = task[id] /\ kv'[id] = kv[id]
        /\ search'[id] = search[id] /\ decode'[id] = decode[id]
    BY DEF Forget, Held, TypeOK
  <2> QED
    BY <2>1, ReadsKept DEF TextInv
<1> QED
  BY <1>1 DEF TextInv

\* Steps that leave every request as it is.
LEMMA IdleText ==
  ASSUME TextInv, UNCHANGED <<running, task, kv, search>>,
         Selections' \subseteq Selections, PrefixIsProcessed',
         \A id \in running : /\ decode'[id].on = decode[id].on
                             /\ decode'[id].token = decode[id].token
                             /\ decode'[id].pending = decode[id].pending
                             /\ decode'[id].logical = decode[id].logical
  PROVE  TextInv'
<1>1. ASSUME NEW id \in running
      PROVE  Reads(id)'
  BY ReadsKept DEF TextInv
<1> QED
  BY <1>1 DEF TextInv

\* What the prefix retains, unless it is the same or none.
LEMMA SamePrefix ==
  ASSUME TextInv, servingPrefix' = servingPrefix \/ servingPrefix' = None
  PROVE  PrefixIsProcessed'
BY DEF TextInv, PrefixIsProcessed

\* A part of the text is retained with its tokens.
LEMMA PrefixAgrees ==
  ASSUME NEW t \in TaskType, NEW s \in SearchType, NEW contents \in Seq(Tokens),
         Agree(contents, TextOf(t, s), Len(contents)),
         servingPrefix' = Retained(t, contents, s.ids)
  PROVE  PrefixIsProcessed'
<1>1. s.ids \in Seq(Tokens)
  BY DEF SearchType
<1>2. LET kept == Retained(t, contents, s.ids)
      IN  kept # None => kept.tokens = kept.kv
  <2>1. Agree(contents, t.prompt \o s.ids, Len(contents))
    BY DEF TextOf
  <2> QED
    BY <1>1, <2>1, RetainedAgrees
<1> QED
  BY <1>2 DEF PrefixIsProcessed

\* A request that is cancelled between two steps read all that it stores.
LEMMA CancelRunningPrefix ==
  ASSUME IInv, FlowInv, TextInv, NEW id \in Ids, CancelRunning(id)
  PROVE  PrefixIsProcessed'
<1>1. id \in running /\ pc = "idle"
  BY DEF CancelRunning, Idle
<1>2. CASE decode[id].pending # <<>>
  BY <1>2, SamePrefix DEF CancelRunning
<1>3. CASE decode[id].pending = <<>>
  <2> DEFINE t == task[id]
             s == search[id]
             d == decode[id]
             contents == kv[id]
             text == TextOf(t, s)
  <2>1. /\ t \in TaskType /\ s \in SearchType /\ contents \in Seq(Tokens)
    BY <1>1, ServedTyped
  <2>2. ~s.finished
    <3>1. emitted = {}
      BY <1>1 DEF IInv, Configured
    <3> QED
      BY <1>1, <1>3, <3>1 DEF FlowInv, EndsOK
  <2>3. ReadsAs(contents, t, s, d)
    BY <1>1 DEF TextInv, Reads
  <2>4. servingPrefix' = Retained(t, contents, s.ids)
    BY <1>3 DEF CancelRunning
  <2>5. /\ text \in Seq(Tokens) /\ Len(text) \in Nat /\ Len(contents) \in Nat
    BY <2>1, TextTyped, LenProperties
  <2> HIDE DEF t, s, contents, text
  <2>6. Agree(contents, text, Len(contents))
    <3>1. CASE ~d.on
      BY <2>2, <2>3, <3>1 DEF ReadsAs, ReadsPacked, text
    <3>2. CASE d.on
      <4>1. ReadsAhead(contents, text, d.token, <<>>)
        BY <1>3, <2>2, <2>3, <3>2 DEF ReadsAs, text
      <4>2. Len(contents) + 1 = Len(text)
        BY <2>5, <4>1 DEF ReadsAhead
      <4>3. \A i \in 1 .. Len(contents) : contents[i] = text[i]
        BY <2>5, <4>1, <4>2 DEF ReadsAhead, Fed
      <4> QED
        BY <2>5, <4>2, <4>3 DEF Agree
    <3> QED
      BY <3>1, <3>2
  <2> QED
    BY <2>1, <2>4, <2>6, PrefixAgrees DEF text
<1> QED
  BY <1>2, <1>3

\* The calls between steps, and the ends of a step.
LEMMA CallsText ==
  ASSUME IInv, FlowInv, TextInv, StepBegin \/ Retire \/ Fail \/ Callers
  PROVE  TextInv'
<1>1. PICK S : Forget(S) /\ Held' = Held \ S /\ running' \cap S = {}
  BY CallsForget
<1>2. PrefixIsProcessed'
  <2>1. CASE \/ StepBegin \/ Retire \/ Fail \/ ReleaseWorkspaces
             \/ GenerateSerially \/ GenerateReturns
             \/ \E s \in Settings : ConfigureServing(s)
             \/ \E k \in Kinds : Enqueue(k) \/ GenerateAhead(k)
             \/ \E id \in Ids : CancelWaiting(id)
    <3>1. servingPrefix' = servingPrefix \/ servingPrefix' = None
      BY <2>1 DEF StepBegin, Retire, Fail, ReleaseWorkspaces, GenerateSerially,
                  GenerateReturns, ConfigureServing, Enqueue, GenerateAhead,
                  CancelWaiting, results
    <3> QED
      BY <3>1, SamePrefix
  <2>2. CASE \E id \in Ids : CancelRunning(id)
    BY <2>2, CancelRunningPrefix
  <2> QED
    BY <2>1, <2>2 DEF Callers
<1>3. TypeOK
  BY DEF IInv
<1> QED
  BY <1>1, <1>2, <1>3, CallsForget, ForgetText

\* The phases that touch no request, and the device.
LEMMA MovesText ==
  ASSUME IInv, FlowInv, TextInv,
         \/ AdmitDone \/ NoDecodeRows \/ NoPrefill
         \/ AheadPollDone \/ AheadDone \/ Device \/ UNCHANGED vars
  PROVE  TextInv'
<1>1. TypeOK
  BY DEF IInv
<1>2. UNCHANGED <<running, task, kv, search, servingPrefix>>
  BY DEF AdmitDone, NoDecodeRows, NoPrefill, AheadPollDone, AheadDone, Device,
         ReadbackCompletes, vars, slots, arrivals, caches, results
<1>3. Selections' \subseteq Selections
  <2>1. CASE AdmitDone
    BY <2>1 DEF AdmitDone, TakePending, Selections
  <2>2. CASE ~AdmitDone
    BY <2>2 DEF NoDecodeRows, NoPrefill, AheadPollDone, AheadDone, Device,
         ReadbackCompletes, vars, locals, others, Selections
  <2> QED
    BY <2>1, <2>2
<1>4. \A id \in running : /\ decode'[id].on = decode[id].on
                          /\ decode'[id].token = decode[id].token
                          /\ decode'[id].pending = decode[id].pending
                          /\ decode'[id].logical = decode[id].logical
  <2>1. CASE Device
    <3>1. PICK id \in Ids : decode' = [decode EXCEPT ![id].ready = @ + 1]
      BY <2>1 DEF Device, ReadbackCompletes
    <3>2. decode[id] \in DecodeType
      BY <1>1 DEF TypeOK
    <3>3. decode' = [decode EXCEPT ![id] = [decode[id] EXCEPT !.ready = @ + 1]]
      BY <1>1, <3>1 DEF TypeOK
    <3>4. ASSUME NEW other \in Ids
          PROVE  /\ decode'[other].on = decode[other].on
                 /\ decode'[other].token = decode[other].token
                 /\ decode'[other].pending = decode[other].pending
                 /\ decode'[other].logical = decode[other].logical
      BY <1>1, <3>2, <3>3 DEF TypeOK, DecodeType
    <3> QED
      BY <1>1, <3>4 DEF TypeOK
  <2>2. CASE ~Device
    BY <2>2 DEF AdmitDone, NoDecodeRows, NoPrefill, AheadPollDone, AheadDone,
                vars, caches
  <2> QED
    BY <2>1, <2>2
<1>5. PrefixIsProcessed'
  BY <1>2, SamePrefix
<1> QED
  BY <1>2, <1>3, <1>4, <1>5, IdleText

\* Steps that change one request.
LEMMA OneText ==
  ASSUME TextInv, NEW id, running' \subseteq running \cup {id},
         id \in running' => Reads(id)',
         \A other \in running \ {id} :
           /\ task'[other] = task[other] /\ kv'[other] = kv[other]
           /\ search'[other] = search[other] /\ decode'[other] = decode[other],
         \A e \in Selections' : e.token # Pad, PrefixIsProcessed'
  PROVE  TextInv'
<1>1. ASSUME NEW other \in running'
      PROVE  Reads(other)'
  <2>1. CASE other = id
    BY <2>1
  <2>2. CASE other # id
    <3>1. other \in running \ {id} /\ Reads(other)
      BY <2>2 DEF TextInv
    <3> QED
      BY <3>1, ReadsKept
  <2> QED
    BY <2>1, <2>2
<1> QED
  BY <1>1 DEF TextInv

\* A request is admitted with the part of the retained prefix that its prompt
\* begins with.
LEMMA AdmitText == IInv /\ FlowInv /\ TextInv /\ Admit => TextInv'
<1> SUFFICES ASSUME IInv, FlowInv, TextInv, Admit PROVE TextInv'
  OBVIOUS
<1>0. PICK new \in Ids : new = Head(waiting) /\ new = waiting[1]
  <2>1. waiting \in Seq(Ids) /\ waiting # <<>>
    BY DEF IInv, TypeOK, Admit, CanAdmit
  <2>2. Head(waiting) = waiting[1] /\ waiting[1] \in Ids
    BY <2>1, HeadTailProperties, EmptySeq, LenProperties, ElementOfSeq
  <2> QED
    BY <2>2
<1>1. TypeOK /\ NoOvertaking /\ WaitingOrdered /\ TasksKnown
  BY DEF IInv
<1>2. /\ waiting # <<>>
      /\ running' = running \cup {new} /\ servingPrefix' = None
      /\ UNCHANGED <<task, search, decode, batch, pending>>
      /\ IF Reusable(task[new])
         THEN \E n \in 0 .. Len(task[new].prompt) :
                /\ Common(servingPrefix.tokens, task[new].prompt, n)
                /\ kv' = [kv EXCEPT ![new] = SubSeq(servingPrefix.kv, 1, n)]
         ELSE UNCHANGED kv
  BY <1>0 DEF Admit, CanAdmit, config, locals, others
<1>3. 1 \in 1 .. Len(waiting)
  BY <1>1, <1>2, EmptySeq, LenProperties DEF TypeOK
<1>4. new \notin Held
  BY <1>0, <1>1, <1>3 DEF NoOvertaking, Ids
<1>5. task[new] \in TaskType
  BY <1>0, <1>1, <1>3 DEF WaitingOrdered, TasksKnown
<1>6. search[new] = NoSearch /\ decode[new] = NoDecode /\ kv[new] = <<>>
  BY <1>4 DEF FlowInv, UnheldFresh, IInv, DecodersSound
<1> DEFINE prompt == task[new].prompt
<1>7. prompt \in Seq(Tokens) /\ Len(prompt) \in Nat
  BY <1>5, LenProperties DEF TaskType
<1>8. Agree(kv'[new], prompt, Len(kv'[new]))
  <2>1. CASE ~Reusable(task[new])
    <3>1. kv'[new] = <<>> /\ Len(<<>>) = 0
      BY <1>2, <1>6, <2>1
    <3>2. Agree(<<>>, prompt, 0)
      BY <1>7 DEF Agree
    <3> QED
      BY <3>1, <3>2
  <2>2. CASE Reusable(task[new])
    <3>1. PICK n \in 0 .. Len(prompt) :
            /\ Common(servingPrefix.tokens, prompt, n)
            /\ kv' = [kv EXCEPT ![new] = SubSeq(servingPrefix.kv, 1, n)]
      BY <1>2, <2>2
    <3> DEFINE stored == servingPrefix.kv
               cut == SubSeq(stored, 1, n)
    <3>2. stored \in Seq(Tokens) /\ servingPrefix.tokens = stored
      BY <2>2 DEF Reusable, IInv, TypeOK, PrefixType, TextInv, PrefixIsProcessed
    <3>3. Len(stored) \in Nat
      BY <3>2, LenProperties
    <3>4. n \in 0 .. Len(stored) /\ \A i \in 1 .. n : stored[i] = prompt[i]
      BY <1>7, <3>1, <3>2, <3>3 DEF Common, Min2
    <3>5. kv'[new] = cut
      BY <1>1, <3>1 DEF TypeOK
    <3> HIDE DEF stored, prompt
    <3>6. Agree(stored, prompt, n)
      BY <3>1, <3>4 DEF Agree
    <3>7. Agree(cut, prompt, Len(cut))
      BY <3>2, <3>4, <3>6, AgreeCut
    <3> QED
      BY <3>5, <3>7
  <2> QED
    BY <2>1, <2>2
<1>9. Reads(new)'
  <2> DEFINE contents == kv'[new]
  <2>1. /\ NoSearch \in SearchType /\ NoSearch.ids = <<>> /\ NoSearch.steps = 0
        /\ ~NoDecode.on /\ NoDecode.pending = <<>>
    BY EmptyDecoder DEF NoSearch, NoDecode
  <2>2. Agree(contents, task[new].prompt, Len(contents))
    BY <1>8
  <2> HIDE DEF contents
  <2>3. ReadsAs(contents, task[new], NoSearch, NoDecode)
    BY <1>5, <2>1, <2>2, PromptReads
  <2> QED
    BY <1>2, <1>6, <2>3 DEF Reads, contents
<1>10. \A other \in running \ {new} : kv'[other] = kv[other]
  BY <1>1, <1>2 DEF TypeOK
<1>11. Selections' = Selections
  BY <1>2 DEF Selections
<1>12. PrefixIsProcessed'
  BY <1>2, SamePrefix
<1>13. \A e \in Selections' : e.token # Pad
  BY <1>11 DEF TextInv
<1> QED
  BY <1>2, <1>9, <1>10, <1>12, <1>13, OneText

\* What is accepted continues the text; what completes is retained with it.
LEMMA AcceptText == IInv /\ FlowInv /\ TextInv /\ Accept => TextInv'
<1> SUFFICES ASSUME IInv, FlowInv, TextInv, Accept PROVE TextInv'
  OBVIOUS
<1>1. TypeOK
  BY DEF IInv
<1>2. PICK e \in batch :
        LET s == Accepted(search[e.id], e.token, task[e.id])
        IN  /\ batch' = batch \ {e}
            /\ IF Served(e.id)
               THEN /\ ~search[e.id].finished
                    /\ search' = [search EXCEPT ![e.id] = s]
                    /\ \/ /\ s.finished
                          /\ servingPrefix' = Retained(task[e.id], kv[e.id], s.ids)
                       \/ servingPrefix' = servingPrefix
               ELSE UNCHANGED <<search, servingPrefix>>
  BY DEF Accept, Complete, results
<1>3. UNCHANGED <<running, task, kv, decode, pending>>
  BY DEF Accept, arrivals, slots, others
<1>4. e.id \in Ids /\ e.token \in Tokens /\ e.token # Pad /\ e \in Selections
  <2>1. e.id \in Ids /\ e.token \in Tokens /\ e \in Selections
    BY <1>1, <1>2 DEF TypeOK, Selection, Selections
  <2> QED
    BY <2>1 DEF TextInv
<1>5. Selections' \subseteq Selections
  BY <1>2, <1>3 DEF Selections
<1>6. CASE ~Served(e.id)
  <2>1. UNCHANGED <<search, servingPrefix>>
    BY <1>2, <1>6
  <2>2. PrefixIsProcessed'
    BY <2>1, SamePrefix
  <2> QED
    BY <1>3, <1>5, <2>1, <2>2, IdleText
<1>7. CASE Served(e.id)
  <2>0. PICK id \in running : id = e.id
    BY <1>7 DEF Served
  <2> DEFINE t == task[id]
             a == Accepted(search[id], e.token, t)
             contents == kv[id]
  <2>1. /\ ~search[id].finished
        /\ search' = [search EXCEPT ![id] = a]
        /\ \/ servingPrefix' = Retained(t, contents, a.ids)
           \/ servingPrefix' = servingPrefix
    BY <1>2, <1>7, <2>0
  <2>2. /\ id \in Ids /\ t \in TaskType /\ search[id] \in SearchType
        /\ contents \in Seq(Tokens)
    BY ServedTyped
  <2>3. ~decode[id].on
    BY <1>4, <2>0 DEF FlowInv, SelectionsOK
  <2>4. ReadsAs(contents, t, search[id], decode[id])
    BY DEF TextInv, Reads
  <2>5. a \in SearchType
    BY <1>4, <2>2, AcceptedType
  <2> HIDE DEF t, contents
  <2>6. /\ ReadsAs(contents, t, a, decode[id])
        /\ Agree(contents, TextOf(t, a), Len(contents))
    BY <1>4, <2>1, <2>2, <2>3, <2>4, AcceptReads
  <2> HIDE DEF a
  <2>7. PrefixIsProcessed'
    BY <2>1, <2>2, <2>5, <2>6, SamePrefix, PrefixAgrees
  <2>8. search'[id] = a /\ \A other \in Ids \ {id} : search'[other] = search[other]
    BY <1>1, <2>1, <2>2 DEF TypeOK
  <2>9. Reads(id)'
    BY <1>3, <2>6, <2>8 DEF Reads, t, contents
  <2>10. \A other \in running \ {id} : search'[other] = search[other]
    BY <1>1, <2>8 DEF TypeOK
  <2>11. \A f \in Selections' : f.token # Pad
    BY <1>5 DEF TextInv
  <2> QED
    BY <1>3, <2>7, <2>9, <2>10, <2>11, OneText
<1> QED
  BY <1>6, <1>7

\* A packed call stores the last token of each row, and selects no padding.
LEMMA DecodeBatchText ==
  ASSUME NoPadding
  PROVE  IInv /\ FlowInv /\ StorageInv /\ TextInv /\ DecodeBatch => TextInv'
<1> SUFFICES ASSUME IInv, FlowInv, StorageInv, TextInv, DecodeBatch PROVE TextInv'
  OBVIOUS
<1> DEFINE rows == DecodeRows
<1>1. TypeOK
  BY DEF IInv
<1>2. rows \subseteq Ready
  BY DEF DecodeRows
<1>3. /\ pc = "decode" /\ ~Chained
      /\ UNCHANGED <<running, task, search, decode, servingPrefix>>
  BY DEF DecodeBatch, arrivals, slots, results
<1>4. kv' = [id \in Ids |-> IF id \in rows THEN Append(kv[id], search[id].token)
                            ELSE kv[id]]
  BY DEF DecodeBatch
<1>5. ASSUME NEW id \in rows
      PROVE  Append(kv[id], search[id].token) \in Seq(Tokens)
  <2>1. kv[id] \in Seq(Tokens) /\ search[id].token \in Tokens
    BY <1>1, <1>2 DEF TypeOK, SearchType, Ready
  <2> QED
    BY <2>1, AppendProperties
<1>6. \A e \in Selections' : e.token # Pad
  <2> DEFINE contents == [id \in Ids |-> IF id \in rows
                                         THEN Append(kv[id], search[id].token)
                                         ELSE kv[id]]
             selected == {[id |-> id, token |-> Select(contents[id])] : id \in rows}
  <2>1. batch = {} /\ pending = {}
    BY <1>3, AheadStages
  <2>2. rows \subseteq Ids
    BY <1>1, <1>2 DEF Ready, TypeOK
  <2>3. \A id \in rows : contents[id] \in Seq(Tokens)
    BY <1>5, <2>2
  <2>4. IF serving.deferred
        THEN pending' = pending \cup selected /\ UNCHANGED batch
        ELSE batch' = selected /\ UNCHANGED pending
    BY DEF DecodeBatch
  <2> HIDE DEF contents
  <2>5. \A e \in selected : e.token # Pad
    BY <2>3 DEF NoPadding
  <2> HIDE DEF selected
  <2> QED
    BY <2>1, <2>4, <2>5 DEF Selections
<1> HIDE DEF rows
<1>7. ASSUME NEW id \in running
      PROVE  Reads(id)'
  <2>1. /\ id \in Ids /\ id \in Held /\ task[id] \in TaskType
        /\ search[id] \in SearchType /\ kv[id] \in Seq(Tokens)
    BY ServedTyped
  <2>2. CASE id \notin rows
    <3>1. kv'[id] = kv[id]
      BY <1>4, <2>1, <2>2
    <3> QED
      BY <1>3, <3>1, ReadsKept DEF TextInv
  <2>3. CASE id \in rows
    <3> DEFINE t == task[id]
               s == search[id]
               d == decode[id]
               contents == kv[id]
    <3>1. ~d.on
      BY <1>3, <2>1 DEF FlowInv, ReadbacksOK
    <3>2. /\ s.steps > 0 /\ ~s.finished
          /\ Room(Len(t.prompt), t.maximum, Len(contents), s.steps, FALSE)
      BY <1>2, <1>3, <2>3, <3>1, ReadyRoom
    <3>3. ReadsAs(contents, t, s, d)
      BY DEF TextInv, Reads
    <3>4. kv'[id] = Append(contents, s.token)
      BY <1>4, <2>1, <2>3
    <3>5. t \in TaskType /\ s \in SearchType /\ contents \in Seq(Tokens)
      BY <2>1
    <3> HIDE DEF t, s, d, contents
    <3>6. Len(contents) + 1 = Len(t.prompt) + s.steps
      BY <3>2 DEF Room
    <3>7. ReadsAs(Append(contents, s.token), t, s, d)
      BY <3>1, <3>2, <3>3, <3>5, <3>6, FeedReads
    <3> QED
      BY <1>3, <3>4, <3>7 DEF Reads, t, s, d
  <2> QED
    BY <2>2, <2>3
<1>8. PrefixIsProcessed'
  BY <1>3, SamePrefix
<1> QED
  BY <1>3, <1>6, <1>7, <1>8 DEF TextInv

\* A chunk of the prompt is stored, and what is selected is no padding.
LEMMA PrefillText ==
  ASSUME NoPadding
  PROVE  IInv /\ FlowInv /\ StorageInv /\ TextInv /\ Prefill => TextInv'
<1> SUFFICES ASSUME IInv, FlowInv, StorageInv, TextInv, Prefill PROVE TextInv'
  OBVIOUS
<1>0. PICK id \in Unprefilled :
        LET end      == Len(kv[id]) + ChunkLength(id)
            contents == kv[id] \o SubSeq(task[id].prompt, Len(kv[id]) + 1, end)
            selected == {[id |-> id, token |-> Select(contents)]}
        IN  /\ kv' = [kv EXCEPT ![id] = contents]
            /\ batch' \subseteq batch \cup selected
            /\ pending' \subseteq pending \cup selected
  BY DEF Prefill
<1> DEFINE end == Len(kv[id]) + ChunkLength(id)
           contents == kv[id] \o SubSeq(task[id].prompt, Len(kv[id]) + 1, end)
           token == Select(contents)
<1>1. TypeOK
  BY DEF IInv
<1>2. /\ kv' = [kv EXCEPT ![id] = contents]
      /\ Selections' \subseteq Selections \cup {[id |-> id, token |-> token]}
  BY <1>0 DEF Selections
<1>3. /\ pc = "prefill"
      /\ UNCHANGED <<running, task, search, decode, servingPrefix>>
  BY DEF Prefill, arrivals, slots, results
<1>4. /\ id \in running /\ id \in Held /\ search[id].steps = 0
      /\ ~search[id].finished /\ ~decode[id].on /\ decode[id].pending = <<>>
  BY DEF Unprefilled, FlowInv, ReadbacksOK, Held
<1>5. /\ id \in Ids /\ task[id] \in TaskType /\ search[id] \in SearchType
      /\ kv[id] \in Seq(Tokens)
  BY <1>4, ServedTyped
<1>6. Len(kv[id]) <= Len(task[id].prompt)
  BY <1>4 DEF StorageInv, StoresOK, Stores, Room
<1>7. serving # None
  BY <1>3 DEF IInv, Configured
<1>8. /\ end \in Nat /\ end <= Len(task[id].prompt) /\ Len(kv[id]) <= end
      /\ contents \in Seq(Tokens)
  BY <1>4, <1>6, <1>7, ChunkFits DEF StorageInv
<1>9. ReadsAs(kv[id], task[id], search[id], decode[id])
  BY <1>4 DEF TextInv, Reads
<1> HIDE DEF end
<1>10. ReadsAs(contents, task[id], search[id], decode[id])
  BY <1>4, <1>5, <1>8, <1>9, ChunkReads
<1> HIDE DEF contents
<1>11. token # Pad
  BY <1>8 DEF NoPadding
<1> HIDE DEF token
<1>12. \A e \in Selections' : e.token # Pad
  BY <1>2, <1>11 DEF TextInv
<1>13. kv'[id] = contents /\ \A other \in Ids \ {id} : kv'[other] = kv[other]
  BY <1>1, <1>2, <1>5 DEF TypeOK
<1>14. Reads(id)'
  BY <1>3, <1>10, <1>13 DEF Reads
<1>15. \A other \in running \ {id} : kv'[other] = kv[other]
  BY <1>1, <1>13 DEF TypeOK
<1>16. PrefixIsProcessed'
  BY <1>3, SamePrefix
<1> QED
  BY <1>3, <1>4, <1>12, <1>14, <1>15, <1>16, OneText

\* Decoding ahead begins with the text that was accepted.
LEMMA AheadBeginText == IInv /\ FlowInv /\ StorageInv /\ TextInv /\ AheadBegin => TextInv'
<1> SUFFICES ASSUME IInv, FlowInv, StorageInv, TextInv, AheadBegin PROVE TextInv'
  OBVIOUS
<1>1. TypeOK
  BY DEF IInv
<1>2. PICK id \in Ready : decode' = IF decode[id].on THEN decode
                                    ELSE [decode EXCEPT ![id] = DecodeFrom(id)]
  BY DEF AheadBegin, DecodeRows
<1>3. /\ pc = "decode"
      /\ UNCHANGED <<running, task, kv, search, batch, pending, servingPrefix>>
  BY DEF AheadBegin, arrivals, slots, locals, others, results
<1>4. Selections' = Selections /\ PrefixIsProcessed'
  BY <1>3, SamePrefix DEF Selections
<1>5. CASE decode[id].on
  BY <1>2, <1>3, <1>4, <1>5, IdleText
<1>6. CASE ~decode[id].on
  <2> DEFINE t == task[id]
             s == search[id]
             d == decode[id]
             contents == kv[id]
             e == DecodeFrom(id)
  <2>1. /\ id \in running /\ s.steps > 0 /\ ~s.finished
        /\ Room(Len(t.prompt), t.maximum, Len(contents), s.steps, FALSE)
    BY <1>3, <1>6, ReadyRoom
  <2>2. /\ id \in Ids /\ t \in TaskType /\ s \in SearchType
        /\ contents \in Seq(Tokens)
    BY <2>1, ServedTyped
  <2>3. decode'[id] = e /\ \A other \in Ids \ {id} : decode'[other] = decode[other]
    BY <1>1, <1>2, <1>6, <2>2 DEF TypeOK
  <2>4. ReadsAs(contents, t, s, d)
    BY <2>1 DEF TextInv, Reads
  <2>5. /\ e.on /\ e.token = s.token /\ e.pending = <<>>
        /\ e.logical = Len(contents)
    BY DEF DecodeFrom
  <2>6. ~d.on
    BY <1>6
  <2> HIDE DEF t, s, d, contents, e
  <2>7. Len(contents) + 1 = Len(t.prompt) + s.steps
    BY <2>1 DEF Room
  <2>8. ReadsAs(contents, t, s, e)
    BY <2>1, <2>2, <2>4, <2>5, <2>6, <2>7, AheadReads
  <2>9. Reads(id)'
    BY <1>3, <2>3, <2>8 DEF Reads, t, s, contents
  <2>10. \A other \in running \ {id} : decode'[other] = decode[other]
    BY <1>1, <2>3 DEF TypeOK
  <2>11. \A f \in Selections' : f.token # Pad
    BY <1>4 DEF TextInv
  <2> QED
    BY <1>3, <1>4, <2>1, <2>9, <2>10, <2>11, OneText
<1> QED
  BY <1>5, <1>6

\* A readback continues the text; what completes is retained up to it.
LEMMA AheadPollText == IInv /\ FlowInv /\ TextInv /\ AheadPoll => TextInv'
<1> SUFFICES ASSUME IInv, FlowInv, TextInv, AheadPoll PROVE TextInv'
  OBVIOUS
<1>1. TypeOK
  BY DEF IInv
<1>2. PICK id \in running :
        LET d == decode[id]
            r == Head(d.pending)
            a == Accepted(search[id], r.token, task[id])
            dropped == [d EXCEPT !.pending = Tail(@), !.ready = @ - 1]
            taken == [d EXCEPT !.pending = Tail(@), !.ready = @ - 1,
                               !.logical = r.position]
        IN  /\ d.ready > 0
            /\ \/ /\ search[id].finished
                  /\ decode' = [decode EXCEPT ![id] = dropped]
                  /\ UNCHANGED <<search, servingPrefix>>
               \/ /\ ~search[id].finished
                  /\ decode' = [decode EXCEPT ![id] = taken]
                  /\ search' = [search EXCEPT ![id] = a]
                  /\ \/ servingPrefix' = Retained(task[id],
                                           SubSeq(kv[id], 1, r.position), a.ids)
                     \/ servingPrefix' = servingPrefix
  BY DEF AheadPoll, Complete, results
<1> DEFINE t == task[id]
           s == search[id]
           d == decode[id]
           contents == kv[id]
           r == Head(d.pending)
           a == Accepted(s, r.token, t)
           dropped == [d EXCEPT !.pending = Tail(@), !.ready = @ - 1]
           taken == [d EXCEPT !.pending = Tail(@), !.ready = @ - 1,
                              !.logical = r.position]
           part == SubSeq(contents, 1, r.position)
<1>3. /\ pc = "poll" /\ UNCHANGED <<running, task, kv, batch, pending>>
  BY DEF AheadPoll, arrivals, slots, locals, others
<1>4. d.on
  BY <1>3, AheadStages
<1>5. /\ id \in Ids /\ t \in TaskType /\ s \in SearchType /\ d \in DecodeType
      /\ contents \in Seq(Tokens) /\ DecoderSound(d, contents)
  BY ServedTyped
<1>6. ReadsAs(contents, t, s, d)
  BY DEF TextInv, Reads
<1>7. /\ d.ready > 0
      /\ \/ /\ s.finished
            /\ decode' = [decode EXCEPT ![id] = dropped]
            /\ UNCHANGED <<search, servingPrefix>>
         \/ /\ ~s.finished
            /\ decode' = [decode EXCEPT ![id] = taken]
            /\ search' = [search EXCEPT ![id] = a]
            /\ \/ servingPrefix' = Retained(t, part, a.ids)
               \/ servingPrefix' = servingPrefix
  BY <1>2
<1>8. /\ dropped.on = d.on /\ dropped.token = d.token
      /\ dropped.pending = Tail(d.pending) /\ dropped.logical = d.logical
      /\ taken.on = d.on /\ taken.token = d.token
      /\ taken.pending = Tail(d.pending) /\ taken.logical = r.position
  BY <1>5, PolledFields
<1>9. r.token \in Tokens
  BY <1>5, <1>7, PolledSound
<1>10. a \in SearchType
  BY <1>5, <1>9, AcceptedType
<1> HIDE DEF t, s, contents, dropped, taken
<1>11. s.finished => ReadsAs(contents, t, s, dropped)
  BY <1>4, <1>5, <1>6, <1>7, <1>8, PollReads
<1>12. ~s.finished => /\ ReadsAs(contents, t, a, taken)
                      /\ r.position \in 0 .. Len(contents)
                      /\ Agree(contents, TextOf(t, a), r.position)
  BY <1>4, <1>5, <1>6, <1>7, <1>8, PollReads
<1> HIDE DEF a, r, d
<1>13. \A other \in running \ {id} : /\ decode'[other] = decode[other]
                                     /\ search'[other] = search[other]
  BY <1>1, <1>5, <1>7 DEF TypeOK
<1>14. \A e \in Selections' : e.token # Pad
  BY <1>3 DEF TextInv, Selections
<1>15. CASE s.finished
  <2>1. /\ decode'[id] = dropped /\ search'[id] = s
        /\ servingPrefix' = servingPrefix
    BY <1>1, <1>5, <1>7, <1>15 DEF TypeOK, s
  <2>2. Reads(id)'
    BY <1>3, <1>11, <1>15, <2>1 DEF Reads, t, contents
  <2>3. PrefixIsProcessed'
    BY <2>1, SamePrefix
  <2> QED
    BY <1>3, <1>13, <1>14, <2>2, <2>3, OneText
<1>16. CASE ~s.finished
  <2>1. /\ decode'[id] = taken /\ search'[id] = a
        /\ \/ servingPrefix' = Retained(t, part, a.ids)
           \/ servingPrefix' = servingPrefix
    BY <1>1, <1>5, <1>7, <1>16 DEF TypeOK
  <2>2. Reads(id)'
    BY <1>3, <1>12, <1>16, <2>1 DEF Reads, t, contents
  <2>3. /\ part \in Seq(Tokens)
        /\ Agree(part, TextOf(t, a), Len(part))
    BY <1>5, <1>12, <1>16, AgreeCut
  <2> HIDE DEF part
  <2>4. PrefixIsProcessed'
    BY <1>5, <1>10, <2>1, <2>3, SamePrefix, PrefixAgrees
  <2> QED
    BY <1>3, <1>13, <1>14, <2>2, <2>4, OneText
<1> QED
  BY <1>15, <1>16

\* What ended is retained up to the last readback that counted.
LEMMA AheadSettleText == IInv /\ FlowInv /\ TextInv /\ AheadSettle => TextInv'
<1> SUFFICES ASSUME IInv, FlowInv, TextInv, AheadSettle PROVE TextInv'
  OBVIOUS
<1>1. PICK id \in running :
        \/ servingPrefix' = Retained(task[id], SubSeq(kv[id], 1, decode[id].logical),
                                     search[id].ids)
        \/ servingPrefix' = servingPrefix
  BY DEF AheadSettle, Complete, results
<1>2. /\ pc = "polled"
      /\ UNCHANGED <<running, task, kv, search, decode, batch, pending>>
  BY DEF AheadSettle, arrivals, slots, caches, locals, others
<1> DEFINE t == task[id]
           s == search[id]
           contents == kv[id]
           n == decode[id].logical
           part == SubSeq(contents, 1, n)
<1>3. decode[id].on
  BY <1>2, AheadStages
<1>4. /\ t \in TaskType /\ s \in SearchType /\ contents \in Seq(Tokens)
      /\ n \in Nat /\ n <= Len(contents) /\ Len(contents) \in Nat
  BY ServedTyped, LenProperties DEF DecodeType, DecoderSound
<1>5. Agree(contents, TextOf(t, s), n)
  BY <1>3 DEF TextInv, Reads, ReadsAs
<1>6. \/ servingPrefix' = Retained(t, part, s.ids)
      \/ servingPrefix' = servingPrefix
  BY <1>1
<1> HIDE DEF t, s, contents, n
<1>7. part \in Seq(Tokens) /\ Agree(part, TextOf(t, s), Len(part))
  BY <1>4, <1>5, AgreeCut
<1> HIDE DEF part
<1>8. PrefixIsProcessed'
  BY <1>4, <1>6, <1>7, SamePrefix, PrefixAgrees
<1> QED
  BY <1>2, <1>8, IdleText DEF Selections

\* What is submitted ahead of the host stores the token on the device.
LEMMA AheadSubmitText ==
  ASSUME NoPadding
  PROVE  IInv /\ FlowInv /\ TextInv /\ AheadSubmit => TextInv'
<1> SUFFICES ASSUME IInv, FlowInv, TextInv, AheadSubmit PROVE TextInv'
  OBVIOUS
<1>1. TypeOK
  BY DEF IInv
<1>2. PICK id \in running :
        LET contents == Append(kv[id], decode[id].token)
            token    == Select(contents)
        IN  /\ CanSubmit(id)
            /\ token \in Tokens
            /\ kv' = [kv EXCEPT ![id] = contents]
            /\ decode' = [decode EXCEPT
                 ![id].token = token,
                 ![id].pending =
                   Append(@, [token |-> token, position |-> Len(contents)]),
                 ![id].submitted = @ + 1]
  BY DEF AheadSubmit
<1> DEFINE t == task[id]
           s == search[id]
           d == decode[id]
           contents == kv[id]
           longer == Append(contents, d.token)
           token == Select(longer)
           r == [token |-> token, position |-> Len(longer)]
           e == [d EXCEPT !.token = token, !.pending = Append(@, r),
                          !.submitted = @ + 1]
<1>3. /\ pc = "submit"
      /\ UNCHANGED <<running, task, search, batch, pending, servingPrefix>>
  BY DEF AheadSubmit, arrivals, slots, results, locals, others
<1>4. d.on /\ ~s.finished
  BY <1>2, <1>3, AheadStages DEF CanSubmit
<1>5. /\ id \in Ids /\ t \in TaskType /\ s \in SearchType /\ d \in DecodeType
      /\ contents \in Seq(Tokens) /\ DecoderSound(d, contents)
      /\ d.token \in Tokens
  BY ServedTyped DEF DecodeType
<1>6. decode' = [decode EXCEPT ![id] = e]
  BY <1>1, <1>2, <1>5 DEF TypeOK
<1>7. kv' = [kv EXCEPT ![id] = longer] /\ token \in Tokens
  BY <1>2
<1>8. /\ decode'[id] = e /\ kv'[id] = longer
      /\ \A other \in running \ {id} : /\ decode'[other] = decode[other]
                                       /\ kv'[other] = kv[other]
  BY <1>1, <1>5, <1>6, <1>7 DEF TypeOK
<1>9. ReadsAs(contents, t, s, d)
  BY DEF TextInv, Reads
<1>10. /\ e.on = d.on /\ e.logical = d.logical /\ e.token = token
       /\ e.pending = Append(d.pending, r)
  BY <1>5, SubmittedFields
<1> HIDE DEF t, s, d, contents, e, token
<1>11. longer \in Seq(Tokens) /\ Len(longer) = Len(contents) + 1
  BY <1>5, AppendProperties
<1>12. token # Pad
  BY <1>11 DEF NoPadding, token
<1>13. e.pending = Append(d.pending,
                     [token |-> token, position |-> Len(contents) + 1])
  BY <1>10, <1>11
<1>14. ReadsAs(longer, t, s, e)
  BY <1>4, <1>5, <1>7, <1>9, <1>10, <1>12, <1>13, SubmitReads
<1> HIDE DEF longer
<1>15. Reads(id)'
  BY <1>3, <1>8, <1>14 DEF Reads, t, s
<1>16. \A f \in Selections' : f.token # Pad
  BY <1>3 DEF TextInv, Selections
<1>17. PrefixIsProcessed'
  BY <1>3, SamePrefix
<1> QED
  BY <1>3, <1>8, <1>15, <1>16, <1>17, OneText

\* The text invariant is kept, given the others.
LEMMA NextText ==
  ASSUME NoPadding
  PROVE  IInv /\ FlowInv /\ StorageInv /\ TextInv /\ [Next]_vars => TextInv'
<1> SUFFICES ASSUME IInv, FlowInv, StorageInv, TextInv, [Next]_vars
             PROVE  TextInv'
  OBVIOUS
<1>1. CASE Step
  BY <1>1, CallsText, MovesText, AdmitText, AcceptText, DecodeBatchText,
     AheadBeginText, AheadPollText, AheadSettleText, AheadSubmitText,
     PrefillText DEF Step
<1>2. CASE Callers
  BY <1>2, CallsText
<1>3. CASE Device \/ UNCHANGED vars
  BY <1>3, MovesText
<1>4. CASE Fail
  BY <1>4, CallsText
<1> QED
  BY <1>1, <1>2, <1>3, <1>4 DEF Next

\* Nothing is read at first.
LEMMA InitText == Init => TextInv
BY DEF Init, TextInv, Selections, PrefixIsProcessed

\* When the model never selects the padding, a retained prefix is a prefix of
\* what its request processed, token for token, whichever way its request was
\* decoded and however it ended; and nothing is stored past the end of a cache.
THEOREM StorageSound == NoPadding => (Spec => []StorageIsSound)
<1> SUFFICES ASSUME NoPadding PROVE Spec => []StorageIsSound
  OBVIOUS
<1> DEFINE Whole == IInv /\ FlowInv /\ StorageInv /\ TextInv
<1>1. Init => Whole
  BY InitEstablishes, InitFlow, InitStorage, InitText
<1>2. Whole /\ [Next]_vars => Whole'
  BY NextKeeps, NextFlow, NextStorage, NextText
<1>3. Whole => StorageIsSound
  BY DEF StorageInv, StoresOK, RetainedOK, RetainedFits, TextInv, StorageIsSound
<1> HIDE DEF Whole
<1> QED
  BY <1>1, <1>2, <1>3, PTL DEF Spec
=============================================================================
