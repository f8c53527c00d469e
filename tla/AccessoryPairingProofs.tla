---------------------- MODULE AccessoryPairingProofs ----------------------
(***************************************************************************)
(* Proofs about the registry of controllers: its one owner, what survives  *)
(* a restart, and what a pairing takes, for any clients, slots, fragments, *)
(* invitations, failed writes and restarts.                                *)
(***************************************************************************)
EXTENDS AccessoryPairing, FiniteSetTheorems, WellFoundedInduction, NaturalsInduction, TLAPS

IsClient(k) ==
  /\ k = [invite |-> k.invite, name |-> k.name, written |-> k.written, token |-> k.token, leaving |-> k.leaving]
  /\ k.invite \in Nat /\ k.written \in 0 .. Fragments /\ k.token \in Nat /\ k.leaving \in Clients \union {None}
  /\ k.invite # 0 => k.name \in Names
IsExchange(b) ==
  /\ b = [conn |-> b.conn, request |-> b.request, reply |-> b.reply, offset |-> b.offset, flight |-> b.flight,
          created |-> b.created, id |-> b.id, token |-> b.token, invite |-> b.invite]
  /\ b.conn \in Clients \union {None} /\ b.request \in Seq(Fragment) /\ Len(b.request) < Fragments
  /\ b.token \in Nat /\ b.invite \in Nat
  /\ b.reply = "pairing" => b.id = b.conn /\ b.conn # None

Types ==
  /\ up \in {"on", "off", "halted"} /\ trusted \in {"none", "identity", "ready"}
  /\ slots \in [Slots -> Record \union {None}] /\ flash \in [Slots -> Record \union {None}]
  /\ invitation \in [id : 1 .. invitations, expires : Nat] \union {None}
  /\ IsExchange(ble) /\ client = [c \in Clients |-> client[c]] /\ \A c \in Clients : IsClient(client[c])
  /\ ble.conn # None => client[ble.conn].invite # 0
  /\ acked \subseteq [invite : Nat, id : Clients, token : Nat] /\ left \subseteq Nat
  /\ invitations \in Nat /\ invitations <= MaxInvitations /\ tokens \in Nat /\ clock \in Nat /\ faults \in Nat /\ crashes \in Nat

\* A registry that is not empty has one owner.
OwnerOK == up = "on" => Occupied(slots) = {} \/ \E i \in Slots : Owners(slots) = {i}

\* What memory and storage hold: the slot, the controller and its token.  A token was issued once,
\* for one controller and one slot.
RecordsIn(s) == {<<i, s[i].id, s[i].token>> : i \in Occupied(s)}
Records == RecordsIn(slots) \union RecordsIn(flash)
TokensOK ==
  /\ \A x \in Records : x[3] \in 1 .. tokens
  /\ \A x, y \in Records : x[3] = y[3] => x = y
  /\ \A x \in Records, c \in Clients : x[3] = client[c].token => x[2] = c
  /\ ble.reply = "pairing" => ble.token \in 1 .. tokens /\ \A x \in Records : x[3] = ble.token => x[2] = ble.conn
  /\ \A a \in acked : a.token \in 1 .. tokens
  /\ left \subseteq 1 .. tokens
  /\ \A c \in Clients : client[c].token <= tokens

\* Who leaves gave up the token of its slot.
LeavingOK ==
  \A c \in Clients : client[c].leaving # None =>
    /\ client[c].leaving = c
    /\ faults = 0 => \A i \in SlotsOf(c) : slots[i].token \in left
    /\ up = "on" /\ Undone /\ ble.id = c => ble.token \in left

\* A controller is stored until it leaves, and one that is not acknowledged yet can be undone.
Stored(s, id, token) == \E i \in Occupied(s) : s[i].id = id /\ s[i].token = token
StoredOK ==
  /\ faults = 0 /\ up = "on" => flash = slots
  /\ faults = 0 => \A i, j \in Occupied(flash) : flash[i].id = flash[j].id => i = j
  /\ faults = 0 => \A a \in acked : a.token \in left \/ Stored(flash, a.id, a.token)
  /\ up = "on" /\ ble.reply = "pairing" /\ (faults = 0 \/ ble.created) =>
       ble.token \in left \/ \E i \in Occupied(slots) : slots[i].id = ble.id /\ slots[i].token = ble.token /\ (ble.created => i \in Occupied(flash))
  /\ up = "on" /\ Undone =>
       /\ \A i \in SlotsOf(ble.id) : slots[i].token = ble.token
       /\ \A a \in acked : a.token # ble.token

\* An invitation that is active, or in an exchange, was not acknowledged before.
InvitesOK ==
  /\ \A a \in acked : a.invite <= invitations
  /\ invitation # None => \A a \in acked : a.invite # invitation.id
  /\ ble.reply = "pairing" => ble.invite <= invitations /\ \A a \in acked : a.invite # ble.invite
  /\ InvitationUsedOnce

\* The tokens in memory or in storage that nobody acknowledged or gave up, and no exchange will undo.
Earned == left \union {a.token : a \in acked} \union (IF up = "on" /\ Undone THEN {ble.token} ELSE {})
Unearned == {x[3] : x \in Records} \ Earned
GhostsOK == Cardinality(Unearned) <= faults + crashes

IInv == Types /\ OwnerOK /\ TokensOK /\ LeavingOK /\ StoredOK /\ InvitesOK /\ GhostsOK

-----------------------------------------------------------------------------
(* Slots and records *)

\* A set of slots has a first one.
LEMMA FirstIn == ASSUME NEW S \in SUBSET Slots, S # {} PROVE First(S) \in S
<1>1. S \subseteq Nat
  BY PairingAssumption, FS_CardinalityType
<1>2. PICK x \in S : \A y \in S : ~(<<y, x>> \in OpToRel(<, Nat))
  BY <1>1, NatLessThanWellFounded, WFMin
<1>3. \A y \in S : ~(y < x)
  BY <1>1, <1>2 DEF OpToRel
<1>4. \A y \in S : x <= y
  BY <1>1, <1>3
<1> QED
  BY <1>4 DEF First

\* What is in a registry.
LEMMA RecordIs ==
  ASSUME NEW s
  PROVE  /\ \A i \in Occupied(s) : <<i, s[i].id, s[i].token>> \in RecordsIn(s)
         /\ \A x \in RecordsIn(s) : \E i \in Occupied(s) : x = <<i, s[i].id, s[i].token>> /\ x[1] = i /\ x[2] = s[i].id /\ x[3] = s[i].token
BY DEF RecordsIn

\* A slot that is written holds the record, the others what they held.
LEMMA WithIs ==
  ASSUME NEW s \in [Slots -> Record \union {None}], NEW i \in Slots, NEW c \in Clients, NEW name \in Names, tokens \in Nat
  PROVE  /\ With(s, i, c, name) \in [Slots -> Record \union {None}]
         /\ With(s, i, c, name)[i].id = c /\ With(s, i, c, name)[i].token = tokens + 1
         /\ With(s, i, c, name)[i].role = RoleFor(i)
         /\ With(s, i, c, name)[i] # None
         /\ \A j \in Slots \ {i} : With(s, i, c, name)[j] = s[j]
<1> DEFINE r == [id |-> c, name |-> name, token |-> tokens + 1, role |-> RoleFor(i)]
<1>1. r \in Record /\ r # None
  BY PairingAssumption DEF Record, RoleFor
<1> HIDE DEF r
<1>2. [s EXCEPT ![i] = r] \in [Slots -> Record \union {None}] /\ [s EXCEPT ![i] = r][i] = r
      /\ \A j \in Slots \ {i} : [s EXCEPT ![i] = r][j] = s[j]
  BY <1>1
<1>3. r.id = c /\ r.token = tokens + 1 /\ r.role = RoleFor(i)
  BY DEF r
<1>4. With(s, i, c, name) = [s EXCEPT ![i] = r]
  BY DEF With, r
<1> QED
  BY <1>1, <1>2, <1>3, <1>4

LEMMA WithRecords ==
  ASSUME NEW s \in [Slots -> Record \union {None}], NEW i \in Slots, NEW c \in Clients, NEW name \in Names, tokens \in Nat
  PROVE  RecordsIn(With(s, i, c, name)) \subseteq RecordsIn(s) \union {<<i, c, tokens + 1>>}
<1> DEFINE w == With(s, i, c, name)
<1> SUFFICES ASSUME NEW x \in RecordsIn(w) PROVE x \in RecordsIn(s) \/ x = <<i, c, tokens + 1>>
  OBVIOUS
<1>0. w[i].id = c /\ w[i].token = tokens + 1 /\ \A j \in Slots \ {i} : w[j] = s[j]
  BY WithIs
<1> HIDE DEF w
<1>1. PICK j \in Occupied(w) : x = <<j, w[j].id, w[j].token>>
  BY RecordIs
<1>2. CASE j = i
  BY <1>0, <1>1, <1>2
<1>3. CASE j # i
  <2>1. w[j] = s[j] /\ j \in Occupied(s)
    BY <1>0, <1>1, <1>3 DEF Occupied
  <2> QED
    BY <1>1, <2>1, RecordIs
<1> QED
  BY <1>2, <1>3 DEF w

-----------------------------------------------------------------------------
(* Writes to the registry *)

Registry == [Slots -> Record \union {None}]
Target == First(Slots \ Occupied(slots))
Heirs(i) == Occupied(slots) \ {i}
Promotes(i) == i \in Owners(slots) /\ Heirs(i) # {}
SameRecord(r, q) == r # None /\ q # None /\ r.id = q.id /\ r.token = q.token

\* A new record goes to a slot that is free in memory.
LEMMA TargetIs == ASSUME Occupied(slots) # Slots PROVE Target \in Slots /\ slots[Target] = None
<1>1. Slots \ Occupied(slots) # {}
  BY DEF Occupied
<1>2. Target \in Slots \ Occupied(slots)
  BY <1>1, FirstIn DEF Target
<1> QED
  BY <1>2 DEF Occupied

LEMMA HeirIs == ASSUME NEW i, Promotes(i) PROVE First(Heirs(i)) \in Slots \ {i} /\ slots[First(Heirs(i))] # None
<1>1. Heirs(i) \subseteq Slots /\ Heirs(i) # {}
  BY DEF Heirs, Promotes, Occupied
<1>2. First(Heirs(i)) \in Heirs(i)
  BY <1>1, FirstIn
<1> QED
  BY <1>2 DEF Heirs, Occupied

LEMMA WithoutIs ==
  ASSUME NEW s \in Registry, NEW i \in Slots
  PROVE  Without(s, i) \in Registry /\ Without(s, i)[i] = None /\ \A j \in Slots \ {i} : Without(s, i)[j] = s[j]
BY DEF Registry, Without

LEMMA OwnerAtIs ==
  ASSUME NEW s \in Registry, slots \in Registry, NEW h \in Slots, slots[h] # None
  PROVE  /\ OwnerAt(s, h) \in Registry /\ SameRecord(OwnerAt(s, h)[h], slots[h]) /\ OwnerAt(s, h)[h].role = "owner"
         /\ \A j \in Slots \ {h} : OwnerAt(s, h)[j] = s[j]
<1> DEFINE r == [slots[h] EXCEPT !.role = "owner"]
<1>1. slots[h] \in Record
  BY DEF Registry
<1>2. r \in Record /\ r.id = slots[h].id /\ r.token = slots[h].token /\ r.role = "owner"
  BY <1>1 DEF Record
<1>3. r # None
  BY <1>2, PairingAssumption DEF Record
<1>4. OwnerAt(s, h) = [s EXCEPT ![h] = r]
  BY DEF OwnerAt
<1> HIDE DEF r
<1> QED
  BY <1>2, <1>3, <1>4 DEF Registry, SameRecord

\* The contents of the storage during a removal, and after it.
LEMMA WritesAre ==
  ASSUME NEW i
  PROVE  /\ Promotes(i) => Last(Writes(i)) = OwnerAt(Without(flash, i), First(Heirs(i)))
         /\ ~Promotes(i) => Last(Writes(i)) = Without(flash, i)
         /\ \A f \in Range(Writes(i)) :
              f = flash \/ f = Without(flash, i) \/ (Promotes(i) /\ f = OwnerAt(Without(flash, i), First(Heirs(i))))
<1> DEFINE w == Without(flash, i)
           o == OwnerAt(Without(flash, i), First(Heirs(i)))
<1>1. Promotes(i) => Writes(i) = <<flash, w, o>>
  BY DEF Writes, Promotes, Heirs
<1>2. ~Promotes(i) => Writes(i) = <<flash, w>>
  BY DEF Writes, Promotes, Heirs
<1> HIDE DEF w, o
<1>3. Last(<<flash, w, o>>) = o /\ Last(<<flash, w>>) = w
  BY DEF Last
<1>4. Range(<<flash, w, o>>) = {flash, w, o} /\ Range(<<flash, w>>) = {flash, w}
  BY DEF Range
<1> QED
  BY <1>1, <1>2, <1>3, <1>4 DEF w, o

\* What a removal does: the slot's record leaves memory and storage, the others keep their controllers
\* and tokens, and one of them may become the owner.
OwnerIn(s) == Occupied(s) = {} \/ \E k \in Slots : Owners(s) = {k}
KeptSlot(s, j) == s[j] = slots[j] \/ SameRecord(s[j], slots[j])
KeptFlash(f, j) == f[j] = flash[j] \/ SameRecord(f[j], slots[j])
Removed(i) ==
  /\ slots' \in Registry /\ slots'[i] = None /\ \A j \in Slots \ {i} : KeptSlot(slots', j)
  /\ flash' \in Registry /\ flash'[i] = None /\ \A j \in Slots \ {i} : KeptFlash(flash', j)
  /\ flash = slots => flash' = slots'
  /\ OwnerIn(slots) => OwnerIn(slots')
  /\ NoFault
\* A removal that fails may erase the record in storage only.
Tried(i) ==
  /\ slots' = slots
  /\ flash' \in Registry /\ flash'[i] \in {flash[i], None} /\ \A j \in Slots \ {i} : KeptFlash(flash', j)
  /\ Fault \/ Dies

\* The owner of what is left is the one there was, or the first heir.
LEMMA OwnerLeft ==
  ASSUME slots \in Registry, NEW i \in Occupied(slots), OwnerIn(slots), NEW s,
         ~Promotes(i) => s = Without(slots, i),
         Promotes(i) => s = OwnerAt(Without(slots, i), First(Heirs(i)))
  PROVE  OwnerIn(s)
<1>0. i \in Slots /\ slots[i] # None
  BY DEF Occupied
<1> DEFINE w == Without(slots, i)
<1>1. w \in Registry /\ w[i] = None /\ \A j \in Slots \ {i} : w[j] = slots[j]
  BY <1>0, WithoutIs
<1> HIDE DEF w
<1>2. PICK k \in Slots : Owners(slots) = {k}
  BY DEF OwnerIn
<1>3. CASE ~Promotes(i) /\ i \notin Owners(slots)
  <2>1. s = w
    BY <1>3 DEF w
  <2>2. Owners(w) = {k}
    BY <1>1, <1>2, <1>3, <1>0 DEF Owners, Occupied
  <2> QED
    BY <2>1, <2>2 DEF OwnerIn
<1>4. CASE ~Promotes(i) /\ i \in Owners(slots)
  <2>1. s = w /\ Heirs(i) = {}
    BY <1>4 DEF w, Promotes
  <2>2. Occupied(w) = {}
    BY <1>1, <2>1 DEF Heirs, Occupied
  <2> QED
    BY <2>1, <2>2 DEF OwnerIn
<1>5. CASE Promotes(i)
  <2> DEFINE h == First(Heirs(i))
  <2>1. h \in Slots \ {i} /\ slots[h] # None
    BY <1>5, HeirIs
  <2>2. s = OwnerAt(w, h)
    BY <1>5 DEF w
  <2> HIDE DEF h
  <2>3. s[h] # None /\ s[h].role = "owner" /\ \A j \in Slots \ {h} : s[j] = w[j]
    BY <2>1, <2>2, <1>1, OwnerAtIs DEF SameRecord
  <2>4. i = k
    BY <1>5, <1>2 DEF Promotes
  <2>5. Owners(s) = {h}
    BY <1>1, <1>2, <2>1, <2>3, <2>4 DEF Owners, Occupied
  <2> QED
    BY <2>1, <2>5 DEF OwnerIn
<1> QED
  BY <1>3, <1>4, <1>5

LEMMA RemoveSlotIs ==
  ASSUME slots \in Registry, flash \in Registry, NEW i \in Occupied(slots), RemoveSlot(i), flash[i] # None
  PROVE  Removed(i) \/ Tried(i)
<1>0. i \in Slots
  BY DEF Occupied
<1> DEFINE h == First(Heirs(i))
           w == Without(slots, i)
           e == Without(flash, i)
<1>1. w \in Registry /\ w[i] = None /\ \A j \in Slots \ {i} : w[j] = slots[j]
  BY <1>0, WithoutIs
<1>2. e \in Registry /\ e[i] = None /\ \A j \in Slots \ {i} : e[j] = flash[j]
  BY <1>0, WithoutIs
<1>3. Promotes(i) => h \in Slots \ {i} /\ slots[h] # None
  BY HeirIs
<1>4. Promotes(i) => OwnerAt(w, h) \in Registry /\ SameRecord(OwnerAt(w, h)[h], slots[h]) /\ \A j \in Slots \ {h} : OwnerAt(w, h)[j] = w[j]
  BY <1>1, <1>3, OwnerAtIs
<1>5. Promotes(i) => OwnerAt(e, h) \in Registry /\ SameRecord(OwnerAt(e, h)[h], slots[h]) /\ \A j \in Slots \ {h} : OwnerAt(e, h)[j] = e[j]
  BY <1>2, <1>3, OwnerAtIs
<1>6. CASE /\ slots' = IF i \in Owners(slots) /\ Occupied(slots) \ {i} # {} THEN OwnerAt(Without(slots, i), First(Occupied(slots) \ {i})) ELSE Without(slots, i)
           /\ flash' = Last(Writes(i)) /\ NoFault
  <2>1. (Promotes(i) => slots' = OwnerAt(w, h)) /\ (~Promotes(i) => slots' = w)
    BY <1>6 DEF Promotes, Heirs
  <2>2. (Promotes(i) => flash' = OwnerAt(e, h)) /\ (~Promotes(i) => flash' = e)
    BY <1>6, WritesAre
  <2>3. OwnerIn(slots) => OwnerIn(slots')
    BY <2>1, OwnerLeft
  <2>4. flash = slots => flash' = slots'
    BY <2>1, <2>2
  <2> HIDE DEF h, w, e
  <2>5. slots' \in Registry /\ slots'[i] = None /\ \A j \in Slots \ {i} : KeptSlot(slots', j)
    BY <2>1, <1>0, <1>1, <1>3, <1>4 DEF KeptSlot
  <2>6. flash' \in Registry /\ flash'[i] = None /\ \A j \in Slots \ {i} : KeptFlash(flash', j)
    BY <2>2, <1>0, <1>2, <1>3, <1>5 DEF KeptFlash
  <2> QED
    BY <1>6, <2>3, <2>4, <2>5, <2>6 DEF Removed
<1>7. CASE flash' \in Range(Writes(i)) /\ UNCHANGED slots /\ (Fault \/ Dies)
  <2>1. flash' = flash \/ flash' = e \/ (Promotes(i) /\ flash' = OwnerAt(e, h))
    BY <1>7, WritesAre
  <2> HIDE DEF h, w, e
  <2>2. flash' \in Registry /\ flash'[i] \in {flash[i], None} /\ \A j \in Slots \ {i} : KeptFlash(flash', j)
    BY <2>1, <1>0, <1>2, <1>3, <1>5 DEF KeptFlash
  <2> QED
    BY <1>7, <2>2 DEF Tried
<1> QED
  BY <1>6, <1>7 DEF RemoveSlot

\* Removing a controller removes its first slot, unless its record was erased already.
LEMMA RemovalIs ==
  ASSUME slots \in Registry, flash \in Registry, NEW c, RemoveController(c)
  PROVE  \/ /\ NoFault /\ UNCHANGED registry
            /\ SlotsOf(c) = {} \/ \E i \in SlotsOf(c) : flash[i] = None
         \/ \E i \in SlotsOf(c) : i \in Slots /\ slots[i] # None /\ slots[i].id = c /\ (Removed(i) \/ Tried(i))
<1>1. CASE SlotsOf(c) = {}
  BY <1>1 DEF RemoveController
<1>2. CASE SlotsOf(c) # {}
  <2> DEFINE i == First(SlotsOf(c))
  <2>1. i \in SlotsOf(c)
    BY <1>2, FirstIn DEF SlotsOf, Occupied
  <2>2. RemoveSlot(i)
    BY <1>2 DEF RemoveController
  <2> HIDE DEF i
  <2>3. i \in Slots /\ slots[i] # None /\ slots[i].id = c /\ i \in Occupied(slots)
    BY <2>1 DEF SlotsOf, Occupied
  <2>4. CASE flash[i] = None
    BY <2>1, <2>2, <2>4 DEF RemoveSlot
  <2>5. CASE flash[i] # None
    BY <2>1, <2>2, <2>3, <2>5, RemoveSlotIs
  <2> QED
    BY <2>4, <2>5
<1> QED
  BY <1>1, <1>2

\* A removal brings no record that was not in memory or in storage.
LEMMA RemovalRecords ==
  ASSUME slots \in Registry, flash \in Registry, NEW i \in Slots, Removed(i) \/ Tried(i)
  PROVE  Records' \subseteq Records
<1>1. \A j \in Slots : slots'[j] = None \/ KeptSlot(slots', j)
  BY DEF Removed, Tried, KeptSlot
<1>2. \A j \in Slots : flash'[j] = None \/ KeptFlash(flash', j)
  BY DEF Removed, Tried, KeptFlash
<1> SUFFICES ASSUME NEW x \in Records' PROVE x \in Records
  OBVIOUS
<1>3. CASE x \in RecordsIn(slots')
  <2>1. PICK j \in Occupied(slots') : x = <<j, slots'[j].id, slots'[j].token>>
    BY <1>3, RecordIs
  <2>2. j \in Slots /\ slots'[j] # None
    BY DEF Occupied
  <2>3. KeptSlot(slots', j)
    BY <1>1, <2>2
  <2>4. j \in Occupied(slots) /\ x = <<j, slots[j].id, slots[j].token>>
    BY <2>1, <2>2, <2>3 DEF KeptSlot, SameRecord, Occupied
  <2> QED
    BY <2>4, RecordIs DEF Records
<1>4. CASE x \in RecordsIn(flash')
  <2>1. PICK j \in Occupied(flash') : x = <<j, flash'[j].id, flash'[j].token>>
    BY <1>4, RecordIs
  <2>2. j \in Slots /\ flash'[j] # None
    BY DEF Occupied
  <2>3. flash'[j] = flash[j] \/ SameRecord(flash'[j], slots[j])
    BY <1>2, <2>2 DEF KeptFlash
  <2>4. \/ j \in Occupied(flash) /\ x = <<j, flash[j].id, flash[j].token>>
        \/ j \in Occupied(slots) /\ x = <<j, slots[j].id, slots[j].token>>
    BY <2>1, <2>2, <2>3 DEF SameRecord, Occupied
  <2> QED
    BY <2>4, RecordIs DEF Records
<1> QED
  BY <1>3, <1>4 DEF Records

\* A slot that is emptied holds no record of memory or storage.
LEMMA RemovedRecords ==
  ASSUME NEW i \in Slots, Removed(i)
  PROVE  \A x \in Records' : x[1] # i
<1> SUFFICES ASSUME NEW x \in Records' PROVE x[1] # i
  OBVIOUS
<1>1. x \in RecordsIn(slots') \/ x \in RecordsIn(flash')
  BY DEF Records
<1>2. x[1] \in Occupied(slots') \/ x[1] \in Occupied(flash')
  BY <1>1, RecordIs
<1> QED
  BY <1>2 DEF Removed, Occupied

\* A record that is written is the only new one.
LEMMA AddRecords ==
  ASSUME slots \in Registry, flash \in Registry, tokens \in Nat, NEW i \in Slots, NEW c \in Clients, NEW name \in Names,
         slots' = slots \/ slots' = With(slots, i, c, name),
         flash' = flash \/ flash' = With(flash, i, c, name)
  PROVE  Records' \subseteq Records \union {<<i, c, tokens + 1>>}
<1>1. RecordsIn(slots') \subseteq RecordsIn(slots) \union {<<i, c, tokens + 1>>}
  BY WithRecords DEF Registry
<1>2. RecordsIn(flash') \subseteq RecordsIn(flash) \union {<<i, c, tokens + 1>>}
  BY WithRecords DEF Registry
<1>3. Records' = RecordsIn(slots') \union RecordsIn(flash')
  BY DEF Records
<1> QED
  BY <1>1, <1>2, <1>3 DEF Records

\* A new record makes an owner of the first controller only.
LEMMA AddOwner ==
  ASSUME slots \in Registry, tokens \in Nat, NEW i \in Slots, NEW c \in Clients, NEW name \in Names,
         slots[i] = None, OwnerIn(slots)
  PROVE  OwnerIn(With(slots, i, c, name))
<1> DEFINE w == With(slots, i, c, name)
<1>1. w[i] # None /\ w[i].role = RoleFor(i) /\ \A j \in Slots \ {i} : w[j] = slots[j]
  BY WithIs DEF Registry
<1> HIDE DEF w
<1>2. CASE Occupied(slots) = {}
  <2>1. Owners(w) = {i}
    BY <1>1, <1>2 DEF Owners, Occupied, RoleFor
  <2> QED
    BY <2>1 DEF OwnerIn, w
<1>3. CASE Occupied(slots) # {}
  <2>1. PICK k \in Slots : Owners(slots) = {k}
    BY <1>3 DEF OwnerIn
  <2>2. w[i].role = "member"
    BY <1>1, <1>3 DEF RoleFor
  <2>3. Owners(w) = {k}
    BY <1>1, <2>1, <2>2 DEF Owners, Occupied
  <2> QED
    BY <2>3 DEF OwnerIn, w
<1> QED
  BY <1>2, <1>3

-----------------------------------------------------------------------------
(* What a step must keep for each part of the invariant *)

\* The tokens that no one earned stay within the failures.
LEMMA UnearnedIsFinite == ASSUME TokensOK, tokens \in Nat PROVE IsFiniteSet(Unearned) /\ Cardinality(Unearned) \in Nat
<1>1. Unearned \subseteq 1 .. tokens
  BY DEF Unearned, TokensOK
<1>2. IsFiniteSet(1 .. tokens)
  BY FS_Interval
<1> QED
  BY <1>1, <1>2, FS_Subset, FS_CardinalityType

LEMMA GhostsKept ==
  ASSUME TokensOK, tokens \in Nat, GhostsOK, {faults, crashes, faults', crashes'} \subseteq Nat, faults + crashes <= faults' + crashes',
         Records' \subseteq Records, \A x \in Records' : x[3] \in Earned => x[3] \in Earned'
  PROVE  GhostsOK'
<1>1. Unearned' \subseteq Unearned
  BY DEF Unearned
<1>2. IsFiniteSet(Unearned) /\ Cardinality(Unearned) \in Nat
  BY UnearnedIsFinite
<1> DEFINE U == Unearned'
<1>3. Cardinality(U) <= Cardinality(Unearned) /\ Cardinality(U) \in Nat
  BY <1>1, <1>2, FS_Subset, FS_CardinalityType
<1>4. Cardinality(U) <= faults' + crashes'
  BY <1>2, <1>3 DEF GhostsOK
<1> QED
  BY <1>4 DEF GhostsOK

LEMMA GhostsMore ==
  ASSUME TokensOK, tokens \in Nat, GhostsOK, {faults, crashes, faults', crashes'} \subseteq Nat, faults + crashes + 1 <= faults' + crashes',
         NEW t, \A x \in Records' : x[3] = t \/ (x \in Records /\ (x[3] \in Earned => x[3] \in Earned'))
  PROVE  GhostsOK'
<1>1. Unearned' \subseteq Unearned \union {t}
  BY DEF Unearned
<1>2. IsFiniteSet(Unearned) /\ Cardinality(Unearned) \in Nat
  BY UnearnedIsFinite
<1> DEFINE V == Unearned
<1>0. IsFiniteSet(V \union {t}) /\ Cardinality(V \union {t}) = IF t \in V THEN Cardinality(V) ELSE Cardinality(V) + 1
  BY <1>2, FS_AddElement, Zenon
<1>3. IsFiniteSet(Unearned \union {t}) /\ Cardinality(Unearned \union {t}) <= Cardinality(Unearned) + 1
      /\ Cardinality(Unearned \union {t}) \in Nat
  BY <1>0, <1>2
<1> DEFINE U == Unearned'
<1>4. Cardinality(U) <= Cardinality(Unearned \union {t}) /\ Cardinality(U) \in Nat
  BY <1>1, <1>3, FS_Subset, FS_CardinalityType
<1>5. Cardinality(U) <= faults' + crashes'
  BY <1>2, <1>3, <1>4 DEF GhostsOK
<1> QED
  BY <1>5 DEF GhostsOK

\* Records that remain, and credentials that are handed on as they were, keep their meaning.
LEMMA TokensKept ==
  ASSUME TokensOK, tokens \in Nat, tokens' \in Nat, tokens <= tokens', Records' \subseteq Records, acked' = acked, left' = left,
         \A c \in Clients : client'[c].token = client[c].token,
         ble'.reply = "pairing" => ble.reply = "pairing" /\ ble'.token = ble.token /\ ble'.conn = ble.conn,
         \A c \in Clients : client[c].token \in Nat
  PROVE  TokensOK'
<1>1. \A x \in Records' : x \in Records
  OBVIOUS
<1>2. \A x \in Records' : x[3] \in 1 .. tokens'
  BY <1>1 DEF TokensOK
<1>3. \A x, y \in Records' : x[3] = y[3] => x = y
  BY <1>1 DEF TokensOK
<1>4. \A x \in Records', c \in Clients : x[3] = client'[c].token => x[2] = c
  BY <1>1 DEF TokensOK
<1>5. ble'.reply = "pairing" => ble'.token \in 1 .. tokens' /\ \A x \in Records' : x[3] = ble'.token => x[2] = ble'.conn
  BY <1>1 DEF TokensOK
<1>6. (\A a \in acked' : a.token \in 1 .. tokens') /\ left' \subseteq 1 .. tokens'
  BY DEF TokensOK
<1>7. \A c \in Clients : client'[c].token <= tokens'
  BY DEF TokensOK
<1> QED
  BY <1>2, <1>3, <1>4, <1>5, <1>6, <1>7 DEF TokensOK

\* A new record has a token of its own.
LEMMA TokensAdded ==
  ASSUME TokensOK, tokens \in Nat, tokens' = tokens + 1, acked' = acked, left' = left, NEW i, NEW d,
         Records' \subseteq Records \union {<<i, d, tokens + 1>>},
         \A c \in Clients : client'[c].token = client[c].token,
         ble'.reply = "pairing" => ble'.token = tokens + 1 /\ ble'.conn = d,
         \A c \in Clients : client[c].token \in Nat
  PROVE  TokensOK'
<1> DEFINE r == <<i, d, tokens + 1>>
<1>0. r[2] = d /\ r[3] = tokens + 1
  OBVIOUS
<1>1. \A x \in Records' : x = r \/ (x \in Records /\ x[3] \in 1 .. tokens)
  BY DEF TokensOK
<1> HIDE DEF r
<1>2. \A x \in Records' : x[3] \in 1 .. tokens'
  BY <1>0, <1>1
<1>3. \A x, y \in Records' : x[3] = y[3] => x = y
  BY <1>0, <1>1 DEF TokensOK
<1>4. \A x \in Records', c \in Clients : x[3] = client'[c].token => x[2] = c
  <2> SUFFICES ASSUME NEW x \in Records', NEW c \in Clients, x[3] = client'[c].token PROVE x[2] = c
    OBVIOUS
  <2>1. x[3] = client[c].token /\ client[c].token <= tokens
    BY DEF TokensOK
  <2>2. x # r
    BY <2>1, <1>0
  <2> QED
    BY <2>1, <2>2, <1>1 DEF TokensOK
<1>5. ble'.reply = "pairing" => ble'.token \in 1 .. tokens' /\ \A x \in Records' : x[3] = ble'.token => x[2] = ble'.conn
  BY <1>0, <1>1
<1>6. (\A a \in acked' : a.token \in 1 .. tokens') /\ left' \subseteq 1 .. tokens'
  BY DEF TokensOK
<1>7. \A c \in Clients : client'[c].token <= tokens'
  BY DEF TokensOK
<1> QED
  BY <1>2, <1>3, <1>4, <1>5, <1>6, <1>7 DEF TokensOK

\* What a removal keeps of the registry, when what it removes is not needed by anyone who was acknowledged.
LEMMA RemovalKeeps ==
  ASSUME Types, OwnerOK, StoredOK, up = "on", NEW c, RemoveController(c),
         faults = 0 => \A i \in SlotsOf(c), a \in acked : a.token = slots[i].token => a.token \in left
  PROVE  /\ slots' \in Registry /\ flash' \in Registry
         /\ up' = "on" => OwnerIn(slots')
         /\ Records' \subseteq Records
         /\ \A j \in Occupied(slots') : j \in Occupied(slots) /\ slots'[j].id = slots[j].id /\ slots'[j].token = slots[j].token
         /\ faults' = 0 /\ up' = "on" => flash' = slots'
         /\ faults' = 0 => \A i, j \in Occupied(flash') : flash'[i].id = flash'[j].id => i = j
         /\ faults' = 0 => \A a \in acked : a.token \in left \/ Stored(flash', a.id, a.token)
         /\ faults' \in Nat /\ crashes' \in Nat /\ faults <= faults' /\ crashes <= crashes' /\ up' \in {"on", "off"}
         /\ up' # "on" => faults + crashes + 1 <= faults' + crashes'
         /\ \/ faults + crashes + 1 <= faults' + crashes'
            \/ /\ UNCHANGED registry /\ NoFault
               /\ SlotsOf(c) = {} \/ \E i \in SlotsOf(c) : flash[i] = None
            \/ \E i \in SlotsOf(c) : \A x \in Records' : x[1] # i
         /\ \A j \in Occupied(slots) : slots[j].id # c =>
              /\ j \in Occupied(slots') /\ slots'[j].id = slots[j].id /\ slots'[j].token = slots[j].token
              /\ j \in Occupied(flash) => j \in Occupied(flash')
<1>0. slots \in Registry /\ flash \in Registry /\ faults \in Nat /\ crashes \in Nat /\ OwnerIn(slots)
  BY DEF Types, OwnerOK, OwnerIn, Registry
<1>1. CASE /\ NoFault /\ UNCHANGED registry
           /\ SlotsOf(c) = {} \/ \E i \in SlotsOf(c) : flash[i] = None
  <2>1. slots' = slots /\ flash' = flash /\ up' = up /\ faults' = faults /\ crashes' = crashes
    BY <1>1 DEF registry, NoFault
  <2>2. Records' = Records
    BY <2>1 DEF Records
  <2> QED
    BY <1>0, <1>1, <2>1, <2>2 DEF StoredOK
<1>2. ASSUME NEW i \in SlotsOf(c), i \in Slots /\ slots[i] # None /\ slots[i].id = c, Removed(i) \/ Tried(i)
      PROVE  /\ slots' \in Registry /\ flash' \in Registry
             /\ up' = "on" => OwnerIn(slots')
             /\ Records' \subseteq Records
             /\ \A j \in Occupied(slots') : j \in Occupied(slots) /\ slots'[j].id = slots[j].id /\ slots'[j].token = slots[j].token
             /\ faults' = 0 /\ up' = "on" => flash' = slots'
             /\ faults' = 0 => \A k, j \in Occupied(flash') : flash'[k].id = flash'[j].id => k = j
             /\ faults' = 0 => \A a \in acked : a.token \in left \/ Stored(flash', a.id, a.token)
             /\ faults' \in Nat /\ crashes' \in Nat /\ faults <= faults' /\ crashes <= crashes' /\ up' \in {"on", "off"}
             /\ up' # "on" => faults + crashes + 1 <= faults' + crashes'
             /\ faults + crashes + 1 <= faults' + crashes' \/ \A x \in Records' : x[1] # i
             /\ \A j \in Occupied(slots) : slots[j].id # c =>
                  /\ j \in Occupied(slots') /\ slots'[j].id = slots[j].id /\ slots'[j].token = slots[j].token
                  /\ j \in Occupied(flash) => j \in Occupied(flash')
  <2>1. slots' \in Registry /\ flash' \in Registry
    BY <1>0, <1>2 DEF Removed, Tried
  <2>2. \/ Removed(i) /\ up' = up /\ faults' = faults /\ crashes' = crashes
        \/ Tried(i) /\ up' = up /\ faults' = faults + 1 /\ crashes' = crashes
        \/ Tried(i) /\ up' = "off" /\ faults' = faults /\ crashes' = crashes + 1
    BY <1>2 DEF Removed, Tried, Fault, Dies, NoFault
  <2>3. \A j \in Slots : j # i => KeptSlot(slots', j) /\ KeptFlash(flash', j)
    BY <1>2 DEF Removed, Tried, KeptSlot
  <2>4. slots'[i] = None \/ slots'[i] = slots[i]
    BY <1>2 DEF Removed, Tried
  <2>5. flash'[i] = None \/ flash'[i] = flash[i]
    BY <1>2 DEF Removed, Tried
  <2>6. up' = "on" => OwnerIn(slots')
    BY <1>0, <1>2 DEF Removed, Tried
  <2>7. Records' \subseteq Records
    BY <1>0, <1>2, RemovalRecords
  <2>8. \A j \in Occupied(slots') : j \in Occupied(slots) /\ slots'[j].id = slots[j].id /\ slots'[j].token = slots[j].token
    BY <2>3, <2>4 DEF KeptSlot, SameRecord, Occupied
  <2>9. \A j \in Occupied(slots) : slots[j].id # c =>
          /\ j \in Occupied(slots') /\ slots'[j].id = slots[j].id /\ slots'[j].token = slots[j].token
          /\ j \in Occupied(flash) => j \in Occupied(flash')
    BY <1>2, <2>3 DEF KeptSlot, KeptFlash, SameRecord, Occupied
  <2>10. faults' = 0 => faults = 0 /\ flash = slots
    BY <1>0, <2>2 DEF StoredOK
  <2>11. faults' = 0 /\ up' = "on" => flash' = slots'
    BY <2>2, <2>10, <1>0 DEF Removed
  <2>12. faults' = 0 => \A j \in Occupied(flash') : j \in Occupied(flash) /\ flash'[j].id = flash[j].id /\ flash'[j].token = flash[j].token
    BY <2>3, <2>5, <2>10 DEF KeptFlash, SameRecord, Occupied
  <2>13. faults' = 0 => \A k, j \in Occupied(flash') : flash'[k].id = flash'[j].id => k = j
    BY <2>10, <2>12 DEF StoredOK
  <2>14. faults' = 0 => \A a \in acked : a.token \in left \/ Stored(flash', a.id, a.token)
    <3> SUFFICES ASSUME faults' = 0, NEW a \in acked, a.token \notin left PROVE Stored(flash', a.id, a.token)
      OBVIOUS
    <3>1. PICK j \in Occupied(flash) : flash[j].id = a.id /\ flash[j].token = a.token
      BY <2>10 DEF StoredOK, Stored
    <3>2. j # i
      BY <2>10, <1>2, <3>1
    <3>3. j \in Slots /\ flash[j] # None
      BY DEF Occupied
    <3>4. flash'[j] # None /\ flash'[j].id = flash[j].id /\ flash'[j].token = flash[j].token
      BY <2>3, <2>10, <3>2, <3>3 DEF KeptFlash, SameRecord
    <3>5. j \in Occupied(flash')
      BY <3>3, <3>4 DEF Occupied
    <3> QED
      BY <3>1, <3>4, <3>5 DEF Stored
  <2>15. faults + crashes + 1 <= faults' + crashes' \/ \A x \in Records' : x[1] # i
    BY <1>0, <1>2, <2>2, RemovedRecords
  <2>16. /\ faults' \in Nat /\ crashes' \in Nat /\ faults <= faults' /\ crashes <= crashes' /\ up' \in {"on", "off"}
         /\ up' # "on" => faults + crashes + 1 <= faults' + crashes'
    BY <1>0, <2>2
  <2> QED
    BY <2>1, <2>6, <2>7, <2>8, <2>9, <2>11, <2>13, <2>14, <2>15, <2>16
<1> QED
  BY <1>0, <1>1, <1>2, RemovalIs

-----------------------------------------------------------------------------
(* The clients and the exchange *)

LEMMA ExchangeIs ==
  ASSUME NEW d \in Clients \union {None}
  PROVE  /\ IsExchange(Exchange(d)) /\ Exchange(d).conn = d /\ Exchange(d).reply = "none"
<1>1. <<>> \in Seq(Fragment) /\ Len(<<>>) < Fragments
  BY PairingAssumption
<1> QED
  BY <1>1 DEF IsExchange, Exchange

\* A client that changes one thing keeps the others.
LEMMA ClientIs ==
  ASSUME NEW k, IsClient(k)
  PROVE  /\ \A n \in 0 .. Fragments :
              /\ IsClient([k EXCEPT !.written = n]) /\ [k EXCEPT !.written = n].token = k.token
              /\ [k EXCEPT !.written = n].leaving = k.leaving /\ [k EXCEPT !.written = n].invite = k.invite
         /\ \A n \in Nat :
              /\ IsClient([k EXCEPT !.token = n]) /\ [k EXCEPT !.token = n].token = n
              /\ [k EXCEPT !.token = n].leaving = k.leaving /\ [k EXCEPT !.token = n].invite = k.invite
         /\ \A d \in Clients \union {None} :
              /\ IsClient([k EXCEPT !.leaving = d]) /\ [k EXCEPT !.leaving = d].token = k.token
              /\ [k EXCEPT !.leaving = d].leaving = d /\ [k EXCEPT !.leaving = d].invite = k.invite
BY DEF IsClient

\* The clients stay as they are but for what they wrote.
SameClients ==
  /\ client' = [c \in Clients |-> client'[c]]
  /\ \A c \in Clients :
       IsClient(client'[c]) /\ client'[c].token = client[c].token /\ client'[c].leaving = client[c].leaving /\ client'[c].invite = client[c].invite

LEMMA WritesSameClients ==
  ASSUME Types, NEW c \in Clients, NEW n \in 0 .. Fragments, client' = [client EXCEPT ![c].written = n]
  PROVE  SameClients
<1>1. client = [d \in Clients |-> client[d]]
  BY DEF Types
<1>2. client' = [d \in Clients |-> IF d = c THEN [client[c] EXCEPT !.written = n] ELSE client[d]]
  BY <1>1
<1>3. \A d \in Clients : IsClient(client[d])
  BY DEF Types
<1>4. /\ IsClient([client[c] EXCEPT !.written = n]) /\ [client[c] EXCEPT !.written = n].token = client[c].token
      /\ [client[c] EXCEPT !.written = n].leaving = client[c].leaving /\ [client[c] EXCEPT !.written = n].invite = client[c].invite
  BY <1>3, ClientIs
<1> DEFINE k == [client[c] EXCEPT !.written = n]
<1> HIDE DEF k
<1>5. client' = [d \in Clients |-> IF d = c THEN k ELSE client[d]]
  BY <1>2 DEF k
<1>6. IsClient(k) /\ k.token = client[c].token /\ k.leaving = client[c].leaving /\ k.invite = client[c].invite
  BY <1>4 DEF k
<1> QED
  BY <1>3, <1>5, <1>6 DEF SameClients

LEMMA StaySameClients == ASSUME Types, client' = client PROVE SameClients
BY DEF Types, SameClients

-----------------------------------------------------------------------------
(* An exchange that ends early *)

LEMMA ResetKeeps ==
  ASSUME IInv, up = "on", NEW d \in Clients \union {None}, ResetExchange(d), SameClients,
         d # None => client[d].invite # 0,
         UNCHANGED <<invitation, trusted, acked, left, invitations, tokens, clock>>
  PROVE  IInv'
<1> USE DEF IInv
<1>1. ble' = Exchange(d) /\ ble'.reply = "none" /\ ble'.conn = d /\ IsExchange(ble')
  BY ExchangeIs DEF ResetExchange
<1>2. tokens' = tokens /\ acked' = acked /\ left' = left /\ invitation' = invitation /\ invitations' = invitations
  OBVIOUS
<1>3. CASE Undone
  <2> DEFINE c == ble.id
  <2>1. RemoveController(c)
    BY <1>3 DEF ResetExchange
  <2>2. faults = 0 => \A i \in SlotsOf(c), a \in acked : a.token = slots[i].token => a.token \in left
    BY <1>3 DEF StoredOK
  <2> HIDE DEF c
  <2>3. slots' \in Registry /\ flash' \in Registry
    BY <2>1, <2>2, RemovalKeeps
  <2>4. up' = "on" => OwnerIn(slots')
    BY <2>1, <2>2, RemovalKeeps
  <2>5. Records' \subseteq Records
    BY <2>1, <2>2, RemovalKeeps
  <2>6. \A j \in Occupied(slots') : j \in Occupied(slots) /\ slots'[j].id = slots[j].id /\ slots'[j].token = slots[j].token
    BY <2>1, <2>2, RemovalKeeps
  <2>7. /\ faults' = 0 /\ up' = "on" => flash' = slots'
        /\ faults' = 0 => \A i, j \in Occupied(flash') : flash'[i].id = flash'[j].id => i = j
        /\ faults' = 0 => \A a \in acked : a.token \in left \/ Stored(flash', a.id, a.token)
    BY <2>1, <2>2, RemovalKeeps
  <2>8. faults' \in Nat /\ crashes' \in Nat /\ faults <= faults' /\ crashes <= crashes' /\ up' \in {"on", "off"}
    BY <2>1, <2>2, RemovalKeeps
  <2>9. \/ faults + crashes + 1 <= faults' + crashes'
        \/ /\ UNCHANGED registry /\ NoFault
           /\ SlotsOf(c) = {} \/ \E i \in SlotsOf(c) : flash[i] = None
        \/ \E i \in SlotsOf(c) : \A x \in Records' : x[1] # i
    BY <2>1, <2>2, RemovalKeeps
  <2>10. Types'
    BY <1>1, <1>2, <2>3, <2>8 DEF Types, SameClients, Registry
  <2>11. OwnerOK'
    BY <2>4 DEF OwnerOK, OwnerIn
  <2>12. TokensOK'
    BY <1>1, <2>5, TokensKept DEF Types, SameClients, IsClient
  <2>13. LeavingOK'
    <3> SUFFICES ASSUME NEW e \in Clients, client'[e].leaving # None
                 PROVE  client'[e].leaving = e /\ (faults' = 0 => \A i \in SlotsOf(e)' : slots'[i].token \in left')
      BY <1>1 DEF LeavingOK, Undone
    <3>1. client[e].leaving = e /\ (faults = 0 => \A i \in SlotsOf(e) : slots[i].token \in left)
      BY DEF LeavingOK, SameClients
    <3>2. \A i \in SlotsOf(e)' : i \in SlotsOf(e) /\ slots'[i].token = slots[i].token
      BY <2>6 DEF SlotsOf
    <3>3. faults' = 0 => faults = 0
      BY <2>8 DEF Types
    <3> QED
      BY <3>1, <3>2, <3>3 DEF SameClients
  <2>14. StoredOK'
    BY <1>1, <2>7 DEF StoredOK, Undone, Stored
  <2>15. InvitesOK'
    BY <1>1 DEF InvitesOK, InvitationUsedOnce
  <2>16. GhostsOK'
    <3>1. {faults, crashes, faults', crashes'} \subseteq Nat /\ faults + crashes <= faults' + crashes' /\ tokens \in Nat
      BY <2>8 DEF Types
    <3>2. \A n : n \in Earned => n \in Earned' \/ n = ble.token
      BY DEF Earned
    <3>3. CASE faults + crashes + 1 <= faults' + crashes'
      BY <2>5, <3>1, <3>2, <3>3, GhostsMore
    <3>4. CASE ~(faults + crashes + 1 <= faults' + crashes')
      <4>1. \A x \in Records' : x[3] = ble.token => x[3] \in left
        <5> SUFFICES ASSUME ble.token \notin left, NEW x \in Records', x[3] = ble.token PROVE FALSE
          OBVIOUS
        <5>1. PICK i \in Occupied(slots) : slots[i].id = c /\ slots[i].token = ble.token /\ i \in Occupied(flash)
          BY <1>3 DEF StoredOK, Undone, c
        <5>2. i \in SlotsOf(c) /\ flash[i] # None
          BY <5>1 DEF SlotsOf, Occupied
        <5>3. \A j \in SlotsOf(c) : j = i
          <6> SUFFICES ASSUME NEW j \in SlotsOf(c) PROVE j = i
            OBVIOUS
          <6>1. j \in Occupied(slots) /\ slots[j].token = ble.token
            BY <1>3 DEF StoredOK, SlotsOf, c
          <6>2. <<i, slots[i].id, slots[i].token>> \in Records /\ <<j, slots[j].id, slots[j].token>> \in Records
            BY <5>1, <6>1, RecordIs DEF Records
          <6>3. <<i, slots[i].id, slots[i].token>> = <<j, slots[j].id, slots[j].token>>
            BY <5>1, <6>1, <6>2 DEF TokensOK
          <6> QED
            BY <6>3
        <5>4. x[1] # i
          BY <2>9, <3>4, <5>2, <5>3
        <5>5. x \in Records /\ <<i, slots[i].id, slots[i].token>> \in Records
          BY <2>5, <5>1, RecordIs DEF Records
        <5>6. x = <<i, slots[i].id, slots[i].token>>
          BY <5>1, <5>5 DEF TokensOK
        <5> QED
          BY <5>4, <5>6
      <4>2. \A x \in Records' : x[3] \in Earned => x[3] \in Earned'
        BY <3>2, <4>1 DEF Earned
      <4> QED
        BY <2>5, <3>1, <4>2, GhostsKept
    <3> QED
      BY <3>3, <3>4
  <2> QED
    BY <2>10, <2>11, <2>12, <2>13, <2>14, <2>15, <2>16
<1>4. CASE ~Undone
  <2>1. slots' = slots /\ flash' = flash /\ up' = up /\ faults' = faults /\ crashes' = crashes
    BY <1>4 DEF ResetExchange, NoFault, registry
  <2>2. Records' = Records /\ \A c : SlotsOf(c)' = SlotsOf(c)
    BY <2>1 DEF Records, SlotsOf
  <2>3. Types'
    BY <1>1, <1>2, <2>1 DEF Types, SameClients
  <2>4. OwnerOK'
    BY <2>1 DEF OwnerOK
  <2>5. TokensOK'
    BY <1>1, <2>2, TokensKept DEF Types, SameClients, IsClient
  <2>6. LeavingOK'
    BY <1>1, <2>1, <2>2 DEF LeavingOK, Undone, SameClients
  <2>7. StoredOK'
    BY <1>1, <2>1 DEF StoredOK, Undone, Stored
  <2>8. InvitesOK'
    BY <1>1 DEF InvitesOK, InvitationUsedOnce
  <2>9. GhostsOK'
    <3>1. Earned' = Earned
      BY <1>1, <1>4 DEF Earned, Undone
    <3> QED
      BY <2>1, <2>2, <3>1, GhostsKept DEF Types
  <2> QED
    BY <2>3, <2>4, <2>5, <2>6, <2>7, <2>8, <2>9
<1> QED
  BY <1>3, <1>4

-----------------------------------------------------------------------------
(* A controller that unpairs itself *)

LEMMA UnpairSelfKeeps == ASSUME IInv, NEW d \in Clients, UnpairSelf(d) PROVE IInv'
<1> USE DEF IInv
<1>1. up = "on" /\ RemoveController(client[d].leaving) /\ client[d].leaving = d /\ client[d].leaving # None
  BY DEF UnpairSelf, LeavingOK
<1>2. /\ tokens' = tokens /\ acked' = acked /\ left' = left /\ invitation' = invitation /\ invitations' = invitations
      /\ ble' = ble /\ trusted' = trusted /\ clock' = clock
  BY DEF UnpairSelf
<1>3. RemoveController(d) /\ (faults = 0 => \A i \in SlotsOf(d), a \in acked : a.token = slots[i].token => a.token \in left)
  BY <1>1 DEF LeavingOK
<1>4. slots' \in Registry /\ flash' \in Registry
  BY <1>1, <1>3, RemovalKeeps
<1>5. up' = "on" => OwnerIn(slots')
  BY <1>1, <1>3, RemovalKeeps
<1>6. Records' \subseteq Records
  BY <1>1, <1>3, RemovalKeeps
<1>7. \A j \in Occupied(slots') : j \in Occupied(slots) /\ slots'[j].id = slots[j].id /\ slots'[j].token = slots[j].token
  BY <1>1, <1>3, RemovalKeeps
<1>8. /\ faults' = 0 /\ up' = "on" => flash' = slots'
      /\ faults' = 0 => \A i, j \in Occupied(flash') : flash'[i].id = flash'[j].id => i = j
      /\ faults' = 0 => \A a \in acked : a.token \in left \/ Stored(flash', a.id, a.token)
  BY <1>1, <1>3, RemovalKeeps
<1>9. /\ faults' \in Nat /\ crashes' \in Nat /\ faults <= faults' /\ crashes <= crashes' /\ up' \in {"on", "off"}
      /\ up' # "on" => faults + crashes + 1 <= faults' + crashes'
  BY <1>1, <1>3, RemovalKeeps
<1>10. \A j \in Occupied(slots) : slots[j].id # d =>
          /\ j \in Occupied(slots') /\ slots'[j].id = slots[j].id /\ slots'[j].token = slots[j].token
          /\ j \in Occupied(flash) => j \in Occupied(flash')
  BY <1>1, <1>3, RemovalKeeps
<1> DEFINE n == IF \A i \in Slots : slots'[i] = None \/ slots'[i].id # d THEN 0 ELSE client[d].token
           k == [[client[d] EXCEPT !.leaving = None] EXCEPT !.token = n]
<1>11. client' = [c \in Clients |-> IF c = d THEN k ELSE client[c]]
  <2>1. client = [c \in Clients |-> client[c]]
    BY DEF Types
  <2>2. client' = [client EXCEPT ![d].leaving = None, ![d].token = IF \A i \in Slots : slots'[i] = None \/ slots'[i].id # d THEN 0 ELSE @]
    BY DEF UnpairSelf
  <2> QED
    BY <2>1, <2>2
<1>12. IsClient(client[d]) /\ n \in Nat /\ (n = 0 \/ n = client[d].token)
  BY DEF Types, IsClient
<1> HIDE DEF n
<1>13. IsClient(k) /\ k.token = n /\ k.leaving = None /\ k.invite = client[d].invite
  <2> DEFINE k0 == [client[d] EXCEPT !.leaving = None]
  <2>1. IsClient(k0) /\ k0.leaving = None /\ k0.invite = client[d].invite
    BY <1>12, ClientIs
  <2> HIDE DEF k0
  <2>2. IsClient([k0 EXCEPT !.token = n]) /\ [k0 EXCEPT !.token = n].token = n
        /\ [k0 EXCEPT !.token = n].leaving = k0.leaving /\ [k0 EXCEPT !.token = n].invite = k0.invite
    BY <1>12, <2>1, ClientIs
  <2> QED
    BY <2>1, <2>2 DEF k0
<1> HIDE DEF k
<1>14. faults' = 0 => faults = 0
  BY <1>9 DEF Types
<1>15. Types'
  <2>1. \A c \in Clients : IsClient(client'[c]) /\ client'[c].invite = client[c].invite
    BY <1>11, <1>13 DEF Types
  <2>2. client' = [c \in Clients |-> client'[c]]
    BY <1>11
  <2>3. ble.conn # None => ble.conn \in Clients
    BY DEF Types, IsExchange
  <2> QED
    BY <1>2, <1>4, <1>9, <2>1, <2>2, <2>3 DEF Types, Registry
<1>16. OwnerOK'
  BY <1>5 DEF OwnerOK, OwnerIn
<1>17. TokensOK'
  <2>1. \A x \in Records' : x \in Records
    BY <1>6
  <2>2. \A c \in Clients : client'[c].token = client[c].token \/ client'[c].token = 0
    BY <1>11, <1>12, <1>13
  <2>3. \A x \in Records : x[3] \in 1 .. tokens /\ tokens \in Nat
    BY DEF TokensOK, Types
  <2>4. \A x \in Records', c \in Clients : x[3] = client'[c].token => x[2] = c
    BY <2>1, <2>2, <2>3 DEF TokensOK
  <2>5. \A c \in Clients : client'[c].token <= tokens
    BY <2>2 DEF TokensOK, Types
  <2>6. /\ \A x \in Records' : x[3] \in 1 .. tokens'
        /\ \A x, y \in Records' : x[3] = y[3] => x = y
        /\ ble'.reply = "pairing" => ble'.token \in 1 .. tokens' /\ \A x \in Records' : x[3] = ble'.token => x[2] = ble'.conn
        /\ \A a \in acked' : a.token \in 1 .. tokens'
        /\ left' \subseteq 1 .. tokens'
    BY <1>2, <2>1 DEF TokensOK
  <2> QED
    BY <1>2, <2>4, <2>5, <2>6 DEF TokensOK
<1>18. LeavingOK'
  <2> SUFFICES ASSUME NEW e \in Clients, client'[e].leaving # None
               PROVE  /\ client'[e].leaving = e
                      /\ faults' = 0 => \A i \in SlotsOf(e)' : slots'[i].token \in left'
                      /\ up' = "on" /\ Undone' /\ ble'.id = e => ble'.token \in left'
    BY DEF LeavingOK
  <2>1. e # d /\ client'[e] = client[e]
    BY <1>11, <1>13
  <2>2. \A i \in SlotsOf(e)' : i \in SlotsOf(e) /\ slots'[i].token = slots[i].token
    BY <1>7 DEF SlotsOf
  <2> QED
    BY <1>1, <1>2, <1>14, <2>1, <2>2 DEF LeavingOK, Undone
<1>19. StoredOK'
  <2>1. ASSUME up' = "on", ble'.reply = "pairing", faults' = 0 \/ ble'.created, ble.token \notin left
        PROVE  \E i \in Occupied(slots)' : slots'[i].id = ble.id /\ slots'[i].token = ble.token /\ (ble.created => i \in Occupied(flash)')
    <3>1. PICK i \in Occupied(slots) : slots[i].id = ble.id /\ slots[i].token = ble.token /\ (ble.created => i \in Occupied(flash))
      BY <2>1, <1>1, <1>2, <1>14 DEF StoredOK
    <3>2. ble.id # d
      <4> SUFFICES ASSUME ble.id = d PROVE FALSE
        OBVIOUS
      <4>1. i \in SlotsOf(d)
        BY <3>1 DEF SlotsOf
      <4>2. client[d].leaving # None
        BY <1>1, PairingAssumption
      <4>3. CASE faults' = 0
        BY <4>1, <4>2, <4>3, <3>1, <2>1, <1>14 DEF LeavingOK
      <4>4. CASE ble.created
        BY <4>2, <4>4, <2>1, <1>1, <1>2 DEF LeavingOK, Undone
      <4> QED
        BY <4>3, <4>4, <2>1, <1>2
    <3> QED
      BY <3>1, <3>2, <1>10
  <2>2. ASSUME up' = "on", Undone'
        PROVE  (\A i \in SlotsOf(ble.id)' : slots'[i].token = ble.token) /\ (\A a \in acked : a.token # ble.token)
    <3>1. Undone
      BY <2>2, <1>2 DEF Undone
    <3>2. \A i \in SlotsOf(ble.id)' : i \in SlotsOf(ble.id) /\ slots'[i].token = slots[i].token
      BY <1>2, <1>7 DEF SlotsOf
    <3> QED
      BY <3>1, <3>2, <1>1 DEF StoredOK
  <2> QED
    BY <1>2, <1>8, <2>1, <2>2 DEF StoredOK, Stored
<1>20. InvitesOK'
  BY <1>2 DEF InvitesOK, InvitationUsedOnce
<1>21. GhostsOK'
  <2>1. {faults, crashes, faults', crashes'} \subseteq Nat /\ faults + crashes <= faults' + crashes' /\ tokens \in Nat
    BY <1>9 DEF Types
  <2>2. CASE up' = "on"
    <3>1. Earned' = Earned
      BY <1>1, <1>2, <2>2 DEF Earned, Undone
    <3> QED
      BY <1>6, <2>1, <3>1, GhostsKept
  <2>3. CASE up' # "on"
    <3>1. \A m : m \in Earned => m \in Earned' \/ m = ble.token
      BY <1>2 DEF Earned
    <3> QED
      BY <1>6, <1>9, <2>1, <2>3, <3>1, GhostsMore
  <2> QED
    BY <2>2, <2>3
<1> QED
  BY <1>15, <1>16, <1>17, <1>18, <1>19, <1>20, <1>21

-----------------------------------------------------------------------------
(* A fragment of the request *)

\* The answer to a request replaces the request.
LEMMA AnswerIs ==
  ASSUME Types, NEW kind \in {"error", "pairing"}, NEW created \in BOOLEAN, NEW token \in Nat, Answer(kind, created, token),
         ble.conn \in Clients, kind = "pairing" => invitation # None
  PROVE  /\ IsExchange(ble') /\ ble'.conn = ble.conn /\ ble'.reply = kind /\ ble'.token = token
         /\ ble'.created = created
         /\ kind = "pairing" => ble'.id = ble.conn /\ ble'.invite = invitation.id
<1> DEFINE d == IF kind = "pairing" THEN ble.conn ELSE None
           n == IF kind = "pairing" THEN invitation.id ELSE 0
<1>1. ble = [conn |-> ble.conn, request |-> ble.request, reply |-> ble.reply, offset |-> ble.offset, flight |-> ble.flight,
             created |-> ble.created, id |-> ble.id, token |-> ble.token, invite |-> ble.invite]
  BY DEF Types, IsExchange
<1>2. n \in Nat
  BY DEF Types
<1>3. ble' = [ble EXCEPT !.request = <<>>, !.reply = kind, !.offset = 1, !.flight = "sent", !.created = created,
                     !.id = d, !.token = token, !.invite = n]
  BY DEF Answer
<1> HIDE DEF d, n
<1>4. ble' = [conn |-> ble.conn, request |-> <<>>, reply |-> kind, offset |-> 1, flight |-> "sent",
              created |-> created, id |-> d, token |-> token, invite |-> n]
  BY <1>1, <1>3
<1>5. <<>> \in Seq(Fragment) /\ Len(<<>>) < Fragments
  BY PairingAssumption
<1>6. ble'.id = d /\ ble'.invite = n /\ ble'.conn = ble.conn /\ ble'.reply = kind /\ ble'.token = token /\ ble'.created = created
      /\ ble'.request = <<>>
  BY <1>4
<1>7. ble' = [conn |-> ble'.conn, request |-> ble'.request, reply |-> ble'.reply, offset |-> ble'.offset, flight |-> ble'.flight,
              created |-> ble'.created, id |-> ble'.id, token |-> ble'.token, invite |-> ble'.invite]
  BY <1>4
<1>8. kind = "pairing" => d = ble.conn /\ n = invitation.id
  BY DEF d, n
<1>9. ble.conn # None
  BY PairingAssumption
<1>10. IsExchange(ble')
  BY <1>2, <1>5, <1>6, <1>7, <1>8, <1>9 DEF IsExchange
<1> QED
  BY <1>6, <1>8, <1>10

\* Nothing is stored, and the exchange leads to no pairing.
LEMMA QuietKeeps ==
  ASSUME IInv, up = "on", ~Undone, IsExchange(ble'), ble'.reply # "pairing", ble'.conn = ble.conn, SameClients,
         slots' = slots, flash' = flash, up' = up, faults' \in Nat, faults <= faults', crashes' = crashes,
         tokens' \in Nat, tokens <= tokens',
         UNCHANGED <<invitation, trusted, acked, left, invitations, clock>>
  PROVE  IInv'
<1> USE DEF IInv
<1>1. tokens \in Nat /\ acked' = acked /\ left' = left /\ invitation' = invitation /\ invitations' = invitations
  BY DEF Types
<1>2. Records' = Records /\ \A c : SlotsOf(c)' = SlotsOf(c)
  BY DEF Records, SlotsOf
<1>3. faults' = 0 => faults = 0
  BY DEF Types
<1>4. Types'
  <2>1. ble.conn # None => ble.conn \in Clients
    BY DEF Types, IsExchange
  <2> QED
    BY <1>1, <2>1 DEF Types, SameClients
<1>5. OwnerOK'
  BY DEF OwnerOK
<1>6. TokensOK'
  BY <1>1, <1>2, TokensKept DEF Types, SameClients, IsClient
<1>7. LeavingOK'
  BY <1>1, <1>2, <1>3 DEF LeavingOK, Undone, SameClients
<1>8. StoredOK'
  BY <1>1, <1>3 DEF StoredOK, Undone, Stored
<1>9. InvitesOK'
  BY <1>1 DEF InvitesOK, InvitationUsedOnce
<1>10. GhostsOK'
  <2>1. Earned' = Earned
    BY <1>1 DEF Earned, Undone
  <2>2. {faults, crashes, faults', crashes'} \subseteq Nat /\ faults + crashes <= faults' + crashes'
    BY DEF Types
  <2> QED
    BY <1>1, <1>2, <2>1, <2>2, GhostsKept
<1> QED
  BY <1>4, <1>5, <1>6, <1>7, <1>8, <1>9, <1>10

\* A controller that is known gets its credentials again.
LEMMA RepeatKeeps ==
  ASSUME IInv, up = "on", ble.reply = "none", SameClients, NEW c \in Clients, ble.conn = c, NEW name, NEW request, Repeat(c, name, request),
         client[c].leaving = None,
         UNCHANGED <<invitation, trusted, acked, left, invitations, clock>>
  PROVE  IInv'
<1> USE DEF IInv
<1> DEFINE i == First(SlotsOf(c))
<1>1. i \in SlotsOf(c)
  BY FirstIn DEF Repeat, SlotsOf, Occupied
<1>2. TokenOf(c) = slots[i].token
  BY DEF TokenOf
<1>3. invitation # None
  BY DEF Repeat, Valid
<1>4. Answer("pairing", FALSE, TokenOf(c)) /\ NoFault /\ UNCHANGED <<registry, tokens>>
  BY DEF Repeat
<1> HIDE DEF i
<1>5. i \in Occupied(slots) /\ slots[i].id = c
  BY <1>1 DEF SlotsOf
<1>6. <<i, c, TokenOf(c)>> \in Records
  BY <1>2, <1>5, RecordIs DEF Records
<1>7. TokenOf(c) \in 1 .. tokens /\ tokens \in Nat
  BY <1>6 DEF TokensOK, Types
<1>8. TokenOf(c) \in Nat
  BY <1>7
<1>9. IsExchange(ble') /\ ble'.conn = c /\ ble'.reply = "pairing" /\ ble'.token = TokenOf(c) /\ ble'.created = FALSE
      /\ ble'.id = c /\ ble'.invite = invitation.id
  BY <1>3, <1>4, <1>8, AnswerIs
<1>10. /\ slots' = slots /\ flash' = flash /\ up' = up /\ faults' = faults /\ crashes' = crashes /\ tokens' = tokens
       /\ acked' = acked /\ left' = left /\ invitation' = invitation /\ invitations' = invitations
  BY <1>4 DEF NoFault, registry
<1>11. ~Undone /\ ~Undone'
  BY <1>9 DEF Undone
<1>12. Records' = Records /\ \A d : SlotsOf(d)' = SlotsOf(d)
  BY <1>10 DEF Records, SlotsOf
<1>13. Types'
  BY <1>9, <1>10 DEF Types, SameClients
<1>14. OwnerOK'
  BY <1>10 DEF OwnerOK
<1>15. TokensOK'
  <2>1. \A x \in Records : x[3] = TokenOf(c) => x[2] = c
    <3> SUFFICES ASSUME NEW x \in Records, x[3] = TokenOf(c) PROVE x[2] = c
      OBVIOUS
    <3>1. x = <<i, c, TokenOf(c)>>
      BY <1>6 DEF TokensOK
    <3> QED
      BY <3>1
  <2> QED
    BY <1>7, <1>9, <1>10, <1>12, <2>1 DEF TokensOK, SameClients
<1>16. LeavingOK'
  BY <1>10, <1>11, <1>12 DEF LeavingOK, SameClients
<1>17. StoredOK'
  BY <1>2, <1>5, <1>9, <1>10, <1>11 DEF StoredOK, Stored
<1>18. InvitesOK'
  <2>1. invitation.id \in 1 .. invitations /\ invitations \in Nat
    BY <1>3 DEF Types
  <2> QED
    BY <1>3, <1>9, <1>10, <2>1 DEF InvitesOK, InvitationUsedOnce
<1>19. GhostsOK'
  <2>1. Earned' = Earned
    BY <1>10, <1>11 DEF Earned
  <2>2. {faults, crashes, faults', crashes'} \subseteq Nat /\ faults + crashes <= faults' + crashes'
    BY <1>10 DEF Types
  <2> QED
    BY <1>7, <1>12, <2>1, <2>2, GhostsKept
<1> QED
  BY <1>13, <1>14, <1>15, <1>16, <1>17, <1>18, <1>19

\* A controller that is admitted is stored before it is answered, and undone when it is not.
LEMMA AddKeeps ==
  ASSUME IInv, up = "on", ~Undone, SameClients, NEW c \in Clients, NEW name \in Names,
         SlotsOf(c) = {}, Occupied(slots) # Slots, client[c].leaving = None,
         slots' = With(slots, Target, c, name), flash' = With(flash, Target, c, name),
         up' = up, crashes' = crashes, tokens' = tokens + 1,
         IsExchange(ble'), ble'.conn = ble.conn,
         \/ /\ ble'.reply = "pairing" /\ ble'.created /\ ble'.token = tokens + 1 /\ ble'.conn = c /\ ble'.id = c
            /\ invitation # None /\ ble'.invite = invitation.id /\ faults' = faults
         \/ ble'.reply # "pairing" /\ faults' = faults + 2,
         UNCHANGED <<invitation, trusted, acked, left, invitations, clock>>
  PROVE  IInv'
<1> USE DEF IInv
<1> DEFINE i == Target
<1>1. i \in Slots /\ slots[i] = None
  BY TargetIs
<1> HIDE DEF i
<1>2. slots \in Registry /\ flash \in Registry /\ tokens \in Nat /\ faults \in Nat /\ crashes \in Nat
  BY DEF Types, Registry
<1>3. slots' = With(slots, i, c, name) /\ flash' = With(flash, i, c, name)
  BY DEF i
<1>4. /\ slots' \in Registry /\ slots'[i] # None /\ slots'[i].id = c /\ slots'[i].token = tokens + 1
      /\ \A j \in Slots \ {i} : slots'[j] = slots[j]
  BY <1>1, <1>2, <1>3, WithIs DEF Registry
<1>5. /\ flash' \in Registry /\ flash'[i] # None /\ flash'[i].id = c /\ flash'[i].token = tokens + 1
      /\ \A j \in Slots \ {i} : flash'[j] = flash[j]
  BY <1>1, <1>2, <1>3, WithIs DEF Registry
<1>6. OwnerIn(slots')
  BY <1>1, <1>2, <1>3, AddOwner DEF OwnerOK, OwnerIn
<1>7. Records' \subseteq Records \union {<<i, c, tokens + 1>>}
  BY <1>1, <1>2, <1>3, AddRecords
<1>8. faults' \in Nat /\ (faults' = 0 => faults = 0 /\ flash = slots /\ ble'.reply = "pairing")
  BY <1>2 DEF StoredOK
<1>9. acked' = acked /\ left' = left /\ invitation' = invitation /\ invitations' = invitations
  OBVIOUS
<1>10. \A j \in SlotsOf(c)' : j = i
  BY <1>4 DEF SlotsOf, Occupied
<1>11. \A d \in Clients \ {c} : SlotsOf(d)' = SlotsOf(d) /\ \A j \in SlotsOf(d) : slots'[j] = slots[j]
  BY <1>1, <1>4 DEF SlotsOf, Occupied
<1>12. Types'
  <2>1. ble.conn # None => ble.conn \in Clients
    BY DEF Types, IsExchange
  <2> QED
    BY <1>2, <1>4, <1>5, <1>8, <1>9, <2>1 DEF Types, SameClients, Registry
<1>13. OwnerOK'
  BY <1>6 DEF OwnerOK, OwnerIn
<1>14. TokensOK'
  BY <1>2, <1>7, <1>9, TokensAdded DEF Types, SameClients, IsClient
<1>15. LeavingOK'
  <2> SUFFICES ASSUME NEW e \in Clients, client'[e].leaving # None
               PROVE  /\ client'[e].leaving = e
                      /\ faults' = 0 => \A j \in SlotsOf(e)' : slots'[j].token \in left'
                      /\ up' = "on" /\ Undone' /\ ble'.id = e => ble'.token \in left'
    BY DEF LeavingOK
  <2>1. client[e].leaving # None /\ e # c /\ client'[e].leaving = client[e].leaving
    BY DEF SameClients
  <2>2. Undone' => ble'.id = c
    BY DEF Undone
  <2> QED
    BY <1>8, <1>9, <1>11, <2>1, <2>2 DEF LeavingOK
<1>16. StoredOK'
  <2>1. faults' = 0 => flash' = slots'
    BY <1>3, <1>8
  <2>2. faults' = 0 => \A k, j \in Occupied(flash') : flash'[k].id = flash'[j].id => k = j
    <3> SUFFICES ASSUME faults' = 0, NEW k \in Occupied(flash'), NEW j \in Occupied(flash'), flash'[k].id = flash'[j].id PROVE k = j
      OBVIOUS
    <3>1. \A m \in Occupied(flash') : m = i \/ (m \in Occupied(flash) /\ flash'[m] = flash[m] /\ flash[m].id # c)
      BY <1>5, <1>8 DEF Occupied, SlotsOf
    <3> QED
      BY <1>5, <1>8, <3>1 DEF StoredOK
  <2>3. faults' = 0 => \A a \in acked : a.token \in left \/ Stored(flash', a.id, a.token)
    <3> SUFFICES ASSUME faults' = 0, NEW a \in acked, a.token \notin left PROVE Stored(flash', a.id, a.token)
      OBVIOUS
    <3>1. PICK j \in Occupied(flash) : flash[j].id = a.id /\ flash[j].token = a.token
      BY <1>8 DEF StoredOK, Stored
    <3>2. j \in Slots /\ j # i /\ flash[j] # None
      BY <1>1, <1>8, <3>1 DEF Occupied
    <3>3. j \in Occupied(flash') /\ flash'[j] = flash[j]
      BY <1>5, <3>2 DEF Occupied
    <3> QED
      BY <3>1, <3>3 DEF Stored
  <2>4. ble'.reply = "pairing" => ble'.created /\ i \in Occupied(slots') /\ slots'[i].id = ble'.id /\ slots'[i].token = ble'.token /\ i \in Occupied(flash')
    BY <1>1, <1>4, <1>5 DEF Occupied
  <2>5. Undone' => /\ \A j \in SlotsOf(ble.id)' : slots'[j].token = ble'.token
                   /\ \A a \in acked : a.token # ble'.token
    <3> SUFFICES ASSUME Undone' PROVE /\ \A j \in SlotsOf(ble.id)' : slots'[j].token = ble'.token
                                      /\ \A a \in acked : a.token # ble'.token
      OBVIOUS
    <3>1. ble'.id = c /\ ble'.token = tokens + 1
      BY DEF Undone
    <3>2. \A j \in SlotsOf(ble.id)' : j = i
      BY <1>4, <3>1 DEF SlotsOf, Occupied
    <3>3. \A a \in acked : a.token \in 1 .. tokens
      BY DEF TokensOK
    <3> QED
      BY <1>2, <1>4, <3>1, <3>2, <3>3
  <2> QED
    BY <1>9, <2>1, <2>2, <2>3, <2>4, <2>5 DEF StoredOK, Stored
<1>17. InvitesOK'
  <2>1. invitation # None => invitation.id \in 1 .. invitations /\ invitations \in Nat
    BY DEF Types
  <2> QED
    BY <1>9, <2>1 DEF InvitesOK, InvitationUsedOnce
<1>18. GhostsOK'
  <2>1. \A n : n \in Earned => n \in Earned'
    BY <1>9 DEF Earned
  <2>2. {faults, crashes, faults', crashes'} \subseteq Nat
    BY <1>2, <1>8
  <2>3. \A x \in Records' : x \in Records \/ x[3] = tokens + 1
    BY <1>7
  <2>4. CASE faults' = faults + 2
    BY <1>2, <2>1, <2>2, <2>3, <2>4, GhostsMore
  <2>5. CASE faults' # faults + 2
    <3>1. tokens + 1 \in Earned'
      BY <2>5 DEF Earned, Undone
    <3>2. faults' = faults
      BY <2>5
    <3>3. Unearned' \subseteq Unearned
      BY <2>1, <2>3, <3>1 DEF Unearned
    <3> DEFINE U == Unearned'
    <3>4. IsFiniteSet(Unearned) /\ Cardinality(Unearned) \in Nat
      BY <1>2, UnearnedIsFinite
    <3>5. Cardinality(U) <= Cardinality(Unearned) /\ Cardinality(U) \in Nat
      BY <3>3, <3>4, FS_Subset, FS_CardinalityType
    <3>6. Cardinality(U) <= faults' + crashes'
      BY <1>2, <3>2, <3>4, <3>5 DEF GhostsOK
    <3> QED
      BY <3>6 DEF GhostsOK
  <2> QED
    BY <2>4, <2>5
<1> QED
  BY <1>12, <1>13, <1>14, <1>15, <1>16, <1>17, <1>18

\* A controller that cannot be stored may be in storage only.
LEMMA NotAdmittedKeeps ==
  ASSUME IInv, up = "on", ~Undone, SameClients, NEW c \in Clients, NEW name \in Names,
         SlotsOf(c) = {}, Occupied(slots) # Slots,
         AddFails(c, name), tokens' = tokens + 1, IsExchange(ble'), ble'.conn = ble.conn, ble'.reply # "pairing",
         UNCHANGED <<invitation, trusted, acked, left, invitations, clock>>
  PROVE  IInv'
<1> USE DEF IInv
<1> DEFINE i == Target
<1>1. i \in Slots /\ slots[i] = None
  BY TargetIs
<1>2. slots' = slots /\ (flash' = flash \/ flash' = With(flash, i, c, name))
  BY DEF AddFails, Target
<1> HIDE DEF i
<1>3. slots \in Registry /\ flash \in Registry /\ tokens \in Nat /\ faults \in Nat /\ crashes \in Nat
  BY DEF Types, Registry
<1>4. /\ faults' \in Nat /\ crashes' \in Nat /\ faults + crashes + 1 <= faults' + crashes' /\ up' \in {"on", "off"}
      /\ faults' = 0 => faults = 0 /\ up' = "off"
  BY <1>3 DEF AddFails, Fault, Dies
<1>5. /\ flash' \in Registry
      /\ \A j \in Slots \ {i} : flash'[j] = flash[j]
      /\ flash'[i] = flash[i] \/ (flash'[i] # None /\ flash'[i].id = c)
  BY <1>1, <1>2, <1>3, WithIs DEF Registry
<1>6. Records' \subseteq Records \union {<<i, c, tokens + 1>>}
  BY <1>1, <1>2, <1>3, AddRecords
<1>7. acked' = acked /\ left' = left /\ invitation' = invitation /\ invitations' = invitations
  OBVIOUS
<1>8. faults' = 0 => flash = slots
  BY <1>4 DEF StoredOK
<1>9. Types'
  <2>1. ble.conn # None => ble.conn \in Clients
    BY DEF Types, IsExchange
  <2> QED
    BY <1>2, <1>3, <1>4, <1>5, <1>7, <2>1 DEF Types, SameClients, Registry
<1>10. OwnerOK'
  BY <1>2 DEF OwnerOK
<1>11. TokensOK'
  BY <1>3, <1>6, <1>7, TokensAdded DEF Types, SameClients, IsClient
<1>12. LeavingOK'
  BY <1>2, <1>4, <1>7 DEF LeavingOK, Undone, SameClients, SlotsOf
<1>13. StoredOK'
  <2>1. faults' = 0 => \A k, j \in Occupied(flash') : flash'[k].id = flash'[j].id => k = j
    <3> SUFFICES ASSUME faults' = 0, NEW k \in Occupied(flash'), NEW j \in Occupied(flash'), flash'[k].id = flash'[j].id PROVE k = j
      OBVIOUS
    <3>1. \A m \in Occupied(flash') : (m = i /\ flash'[i].id = c) \/ (m \in Occupied(flash) /\ flash'[m] = flash[m] /\ flash[m].id # c)
      BY <1>1, <1>5, <1>8 DEF Occupied, SlotsOf
    <3> QED
      BY <1>4, <3>1 DEF StoredOK
  <2>2. faults' = 0 => \A a \in acked : a.token \in left \/ Stored(flash', a.id, a.token)
    <3> SUFFICES ASSUME faults' = 0, NEW a \in acked, a.token \notin left PROVE Stored(flash', a.id, a.token)
      OBVIOUS
    <3>1. PICK j \in Occupied(flash) : flash[j].id = a.id /\ flash[j].token = a.token
      BY <1>4 DEF StoredOK, Stored
    <3>2. j \in Slots /\ j # i /\ flash[j] # None
      BY <1>1, <1>8, <3>1 DEF Occupied
    <3>3. j \in Occupied(flash') /\ flash'[j] = flash[j]
      BY <1>5, <3>2 DEF Occupied
    <3> QED
      BY <3>1, <3>3 DEF Stored
  <2> QED
    BY <1>4, <1>7, <2>1, <2>2 DEF StoredOK, Undone, Stored
<1>14. InvitesOK'
  BY <1>7 DEF InvitesOK, InvitationUsedOnce
<1>15. GhostsOK'
  <2>1. \A n : n \in Earned => n \in Earned'
    BY <1>7 DEF Earned, Undone
  <2>2. \A x \in Records' : x \in Records \/ x[3] = tokens + 1
    BY <1>6
  <2> QED
    BY <1>3, <1>4, <2>1, <2>2, GhostsMore
<1> QED
  BY <1>9, <1>10, <1>11, <1>12, <1>13, <1>14, <1>15

\* A request grows by a fragment of the client that is connected.
LEMMA RequestIs ==
  ASSUME Types, NEW c \in Clients, ble.conn = c, NEW n \in Nat, NEW name, n = client[c].invite, name = client[c].name
  PROVE  /\ Append(ble.request, [from |-> c, invite |-> n, name |-> name]) \in Seq(Fragment)
         /\ Len(Append(ble.request, [from |-> c, invite |-> n, name |-> name])) = Len(ble.request) + 1
         /\ name \in Names
<1>1. ble.conn # None /\ IsClient(client[c])
  BY PairingAssumption DEF Types
<1>2. client[c].invite # 0
  BY <1>1 DEF Types
<1>3. name \in Names
  BY <1>1, <1>2 DEF IsClient
<1>4. [from |-> c, invite |-> n, name |-> name] \in Fragment
  BY <1>3 DEF Fragment
<1> DEFINE f == [from |-> c, invite |-> n, name |-> name]
           q == ble.request
<1> HIDE DEF f
<1>5. q \in Seq(Fragment) /\ f \in Fragment
  BY <1>4 DEF Types, IsExchange, f
<1> HIDE DEF q
<1>6. Append(q, f) \in Seq(Fragment) /\ Len(Append(q, f)) = Len(q) + 1
  BY <1>5
<1> QED
  BY <1>3, <1>6 DEF f, q

LEMMA WriteKeeps == ASSUME IInv, NEW c \in Clients, Write(c) PROVE IInv'
<1> USE DEF IInv
<1> DEFINE request == Append(ble.request, [from |-> c, invite |-> client[c].invite, name |-> client[c].name])
           name == client[c].name
<1>1. up = "on" /\ ble.conn = c /\ ble.reply = "none" /\ client[c].written < Fragments /\ client[c].leaving = None
  BY DEF Write
<1>2. UNCHANGED <<invitation, trusted, acked, left, invitations, clock>>
  BY DEF Write
<1>3. client' = [client EXCEPT ![c].written = @ + 1]
  BY DEF Write
<1>4. IF Partial(request)
      THEN ble' = [ble EXCEPT !.request = request] /\ NoFault /\ UNCHANGED <<registry, tokens>>
      ELSE \/ Reject(c, name, request) \/ Repeat(c, name, request) \/ Admit(c, name, request)
           \/ NotAdmitted(c, name, request) \/ Unanswered(c, name, request)
  BY DEF Write
<1>5. IsClient(client[c]) /\ client[c].invite \in Nat
  BY DEF Types, IsClient
<1>6. request \in Seq(Fragment) /\ name \in Names
  BY <1>1, <1>5, RequestIs
<1> HIDE DEF request, name
<1>7. SameClients
  <2> DEFINE n == client[c].written + 1
  <2>1. n \in 0 .. Fragments
    BY <1>1, <1>5, PairingAssumption DEF IsClient
  <2>2. client' = [client EXCEPT ![c].written = n]
    BY <1>3
  <2> HIDE DEF n
  <2> QED
    BY <2>1, <2>2, WritesSameClients
<1>8. ~Undone /\ ble.conn \in Clients
  BY <1>1 DEF Undone
<1>9. tokens \in Nat /\ faults \in Nat /\ crashes \in Nat
  BY DEF Types
<1>10. CASE ble' = [ble EXCEPT !.request = request] /\ NoFault /\ UNCHANGED <<registry, tokens>> /\ Partial(request)
  <2>1. Len(request) < Fragments
    BY <1>10 DEF Partial
  <2>2. IsExchange(ble') /\ ble'.reply # "pairing" /\ ble'.conn = ble.conn
    BY <1>1, <1>6, <1>10, <2>1 DEF Types, IsExchange
  <2> QED
    BY <1>1, <1>2, <1>7, <1>8, <1>9, <1>10, <2>2, QuietKeeps DEF NoFault, registry
<1>11. CASE Reject(c, name, request)
  <2>1. Answer("error", FALSE, 0) /\ NoFault /\ UNCHANGED <<registry, tokens>>
    BY <1>11 DEF Reject
  <2>2. IsExchange(ble') /\ ble'.reply # "pairing" /\ ble'.conn = ble.conn
    BY <1>8, <2>1, AnswerIs
  <2> QED
    BY <1>1, <1>2, <1>7, <1>8, <1>9, <2>1, <2>2, QuietKeeps DEF NoFault, registry
<1>12. CASE Repeat(c, name, request)
  BY <1>1, <1>2, <1>7, <1>12, RepeatKeeps
<1>13. CASE Admit(c, name, request)
  <2>1. Add(c, name) /\ Answer("pairing", TRUE, tokens + 1) /\ tokens' = tokens + 1 /\ Admissible(c, request)
    BY <1>13 DEF Admit
  <2>2. invitation # None /\ SlotsOf(c) = {} /\ Occupied(slots) # Slots
    BY <2>1 DEF Admissible, Valid
  <2>3. tokens + 1 \in Nat
    BY <1>9
  <2>4. IsExchange(ble') /\ ble'.conn = c /\ ble'.reply = "pairing" /\ ble'.token = tokens + 1 /\ ble'.created = TRUE
        /\ ble'.id = c /\ ble'.invite = invitation.id
    BY <1>1, <1>8, <2>1, <2>2, <2>3, AnswerIs
  <2>5. slots' = With(slots, Target, c, name) /\ flash' = With(flash, Target, c, name) /\ up' = up /\ faults' = faults /\ crashes' = crashes
    BY <2>1 DEF Add, Target, NoFault
  <2> QED
    BY <1>1, <1>2, <1>6, <1>7, <1>8, <2>1, <2>2, <2>4, <2>5, AddKeeps
<1>14. CASE NotAdmitted(c, name, request)
  <2>1. AddFails(c, name) /\ Answer("error", FALSE, 0) /\ tokens' = tokens + 1 /\ SlotsOf(c) = {} /\ Occupied(slots) # Slots
    BY <1>14 DEF NotAdmitted, Admissible
  <2>2. IsExchange(ble') /\ ble'.reply # "pairing" /\ ble'.conn = ble.conn
    BY <1>8, <2>1, AnswerIs
  <2> QED
    BY <1>1, <1>2, <1>6, <1>7, <1>8, <2>1, <2>2, NotAdmittedKeeps
<1>15. CASE Unanswered(c, name, request)
  <2>1. /\ \/ Fault /\ UNCHANGED registry
           \/ /\ faults' = faults + 2 /\ UNCHANGED <<up, crashes>>
              /\ slots' = With(slots, Target, c, name) /\ flash' = With(flash, Target, c, name)
        /\ tokens' = tokens + 1
    BY <1>15 DEF Unanswered, Target
  <2>2. SlotsOf(c) = {} /\ Occupied(slots) # Slots
    BY <1>15 DEF Unanswered, Admissible
  <2>3. Answer("error", FALSE, 0) \/ ble' = Exchange(c)
    BY <1>15 DEF Unanswered
  <2>4. IsExchange(ble') /\ ble'.reply # "pairing" /\ ble'.conn = ble.conn
    BY <1>1, <1>8, <2>3, AnswerIs, ExchangeIs
  <2>5. CASE Fault /\ UNCHANGED registry
    BY <1>1, <1>2, <1>7, <1>8, <1>9, <2>1, <2>4, <2>5, QuietKeeps DEF Fault, registry
  <2>6. CASE /\ faults' = faults + 2 /\ UNCHANGED <<up, crashes>>
             /\ slots' = With(slots, Target, c, name) /\ flash' = With(flash, Target, c, name)
    BY <1>1, <1>2, <1>6, <1>7, <1>8, <2>1, <2>2, <2>4, <2>6, AddKeeps
  <2> QED
    BY <2>1, <2>5, <2>6
<1> QED
  BY <1>4, <1>10, <1>11, <1>12, <1>13, <1>14, <1>15

LEMMA WriteFailsKeeps == ASSUME IInv, NEW c \in Clients, WriteFails(c) PROVE IInv'
<1> USE DEF IInv
<1>1. up = "on" /\ ble.conn = c /\ ~Undone /\ Fault /\ ble' = Exchange(c) /\ client' = [client EXCEPT ![c].written = 0]
  BY DEF WriteFails, Undone
<1>2. UNCHANGED <<invitation, trusted, acked, left, invitations, clock>> /\ tokens' = tokens /\ slots' = slots /\ flash' = flash
  BY DEF WriteFails, registry
<1>3. IsExchange(ble') /\ ble'.reply # "pairing" /\ ble'.conn = ble.conn
  BY <1>1, ExchangeIs
<1>4. SameClients
  <2>1. 0 \in 0 .. Fragments
    BY PairingAssumption
  <2> QED
    BY <1>1, <2>1, WritesSameClients
<1>5. up' = up /\ faults' \in Nat /\ faults <= faults' /\ crashes' = crashes /\ tokens' \in Nat /\ tokens <= tokens'
  BY <1>1, <1>2 DEF Fault, Types
<1> QED
  BY <1>1, <1>2, <1>3, <1>4, <1>5, QuietKeeps

-----------------------------------------------------------------------------
(* Steps that leave the registry alone *)

\* A response on its way, a clock, an invitation: the registry and the exchange mean what they meant.
LEMMA StillKeeps ==
  ASSUME IInv, Types', UNCHANGED <<up, registry, acked, left, tokens>>, faults <= faults', crashes' = crashes,
         /\ ble'.reply = ble.reply /\ ble'.id = ble.id /\ ble'.token = ble.token /\ ble'.conn = ble.conn
         /\ ble'.created = ble.created /\ ble'.invite = ble.invite,
         \A c \in Clients :
           /\ client'[c].leaving = client[c].leaving
           /\ client'[c].token = client[c].token \/ (ble.reply = "pairing" /\ c = ble.conn /\ client'[c].token = ble.token),
         invitations <= invitations', invitation' = invitation \/ invitation'.id = invitations + 1
  PROVE  IInv'
<1> USE DEF IInv
<1>1. /\ slots' = slots /\ flash' = flash /\ up' = up /\ acked' = acked /\ left' = left /\ tokens' = tokens
      /\ tokens \in Nat /\ faults \in Nat /\ crashes \in Nat /\ faults' \in Nat
  BY DEF Types, registry
<1>2. Records' = Records /\ \A c : SlotsOf(c)' = SlotsOf(c)
  BY <1>1 DEF Records, SlotsOf
<1>3. Undone' <=> Undone
  BY DEF Undone
<1>4. faults' = 0 => faults = 0
  BY <1>1
<1>5. OwnerOK'
  BY <1>1 DEF OwnerOK
<1>6. TokensOK'
  <2>1. \A x \in Records, c \in Clients : x[3] = client'[c].token => x[2] = c
    BY DEF TokensOK
  <2>2. \A c \in Clients : client'[c].token <= tokens
    BY <1>1 DEF TokensOK
  <2>3. ble'.reply = "pairing" => ble'.token \in 1 .. tokens /\ \A x \in Records : x[3] = ble'.token => x[2] = ble'.conn
    BY DEF TokensOK
  <2> QED
    BY <1>1, <1>2, <2>1, <2>2, <2>3 DEF TokensOK
<1>7. LeavingOK'
  <2> SUFFICES ASSUME NEW e \in Clients, client'[e].leaving # None
               PROVE  /\ client'[e].leaving = e
                      /\ faults' = 0 => \A i \in SlotsOf(e)' : slots'[i].token \in left'
                      /\ up' = "on" /\ Undone' /\ ble'.id = e => ble'.token \in left'
    BY DEF LeavingOK
  <2>1. /\ client[e].leaving = e
        /\ faults = 0 => \A i \in SlotsOf(e) : slots[i].token \in left
        /\ up = "on" /\ Undone /\ ble.id = e => ble.token \in left
    BY DEF LeavingOK
  <2>2. client'[e].leaving = e
    BY <2>1
  <2>3. faults' = 0 => \A i \in SlotsOf(e)' : slots'[i].token \in left'
    BY <1>1, <1>2, <1>4, <2>1
  <2>4. up' = "on" /\ Undone' /\ ble'.id = e => ble'.token \in left'
    BY <1>1, <1>3, <2>1
  <2> QED
    BY <2>2, <2>3, <2>4
<1>8. StoredOK'
  <2>1. /\ faults' = 0 /\ up' = "on" => flash' = slots'
        /\ faults' = 0 => \A i, j \in Occupied(flash') : flash'[i].id = flash'[j].id => i = j
        /\ faults' = 0 => \A a \in acked' : a.token \in left' \/ Stored(flash', a.id, a.token)
    BY <1>1, <1>4 DEF StoredOK
  <2>2. Occupied(slots') = Occupied(slots) /\ Occupied(flash') = Occupied(flash)
    BY <1>1
  <2>3. up' = "on" /\ ble'.reply = "pairing" /\ (faults' = 0 \/ ble'.created) =>
          ble'.token \in left' \/ \E i \in Occupied(slots') : slots'[i].id = ble'.id /\ slots'[i].token = ble'.token /\ (ble'.created => i \in Occupied(flash'))
    BY <1>1, <1>4, <2>2 DEF StoredOK
  <2>4. SlotsOf(ble.id)' = {i \in Occupied(slots) : slots[i].id = ble.id}
    BY <1>1 DEF SlotsOf, Occupied
  <2>5. up' = "on" /\ Undone' => (\A i \in SlotsOf(ble.id)' : slots'[i].token = ble'.token) /\ \A a \in acked' : a.token # ble'.token
    BY <1>1, <1>3, <2>4 DEF StoredOK, SlotsOf
  <2> QED
    BY <2>1, <2>3, <2>5 DEF StoredOK, Stored
<1>9. InvitesOK'
  <2>1. invitations \in Nat /\ invitations' \in Nat /\ \A a \in acked : a.invite \in Nat /\ a.invite <= invitations
    BY DEF InvitesOK, Types
  <2>2. invitation' # None => \A a \in acked : a.invite # invitation'.id
    BY <2>1 DEF InvitesOK
  <2>3. (\A a \in acked : a.invite <= invitations')
    BY <2>1
  <2>4. ble'.reply = "pairing" => ble'.invite <= invitations' /\ \A a \in acked : a.invite # ble'.invite
    <3>1. ble.invite \in Nat
      BY DEF Types, IsExchange
    <3> QED
      BY <2>1, <3>1 DEF InvitesOK
  <2> QED
    BY <1>1, <2>2, <2>3, <2>4 DEF InvitesOK, InvitationUsedOnce
<1>10. GhostsOK'
  <2>1. Earned' = Earned
    BY <1>1, <1>3 DEF Earned
  <2>2. {faults, crashes, faults', crashes'} \subseteq Nat /\ faults + crashes <= faults' + crashes'
    BY <1>1
  <2> QED
    BY <1>1, <1>2, <2>1, <2>2, GhostsKept
<1> QED
  BY <1>5, <1>6, <1>7, <1>8, <1>9, <1>10

LEMMA ScanKeeps == ASSUME IInv, NEW c \in Clients, NEW name \in Names, Scan(c, name) PROVE IInv'
<1> USE DEF IInv
<1> DEFINE k == [[client[c] EXCEPT !.invite = invitations] EXCEPT !.name = name]
<1>1. invitations > 0 /\ UNCHANGED <<up, registry, invitation, trusted, ble, acked, left, counters>>
  BY DEF Scan
<1>2. client' = [d \in Clients |-> IF d = c THEN k ELSE client[d]]
  <2>1. client = [d \in Clients |-> client[d]]
    BY DEF Types
  <2>2. client' = [client EXCEPT ![c].invite = invitations, ![c].name = name]
    BY DEF Scan
  <2> QED
    BY <2>1, <2>2
<1>3. IsClient(client[c]) /\ invitations \in Nat
  BY DEF Types
<1>4. IsClient(k) /\ k.token = client[c].token /\ k.leaving = client[c].leaving /\ k.invite # 0
  <2> DEFINE q == client[c]
  <2>1. q = [invite |-> q.invite, name |-> q.name, written |-> q.written, token |-> q.token, leaving |-> q.leaving]
        /\ q.written \in 0 .. Fragments /\ q.token \in Nat /\ q.leaving \in Clients \union {None}
    BY <1>3 DEF IsClient
  <2> HIDE DEF q
  <2> DEFINE r == [[q EXCEPT !.invite = invitations] EXCEPT !.name = name]
  <2>2. r = [invite |-> invitations, name |-> name, written |-> q.written, token |-> q.token, leaving |-> q.leaving]
    <3> DEFINE w == q.written
               n == q.token
               l == q.leaving
               a == q.invite
               b == q.name
    <3>1. q = [invite |-> a, name |-> b, written |-> w, token |-> n, leaving |-> l]
      BY <2>1
    <3> HIDE DEF w, n, l, a, b
    <3>2. [[q EXCEPT !.invite = invitations] EXCEPT !.name = name] = [invite |-> invitations, name |-> name, written |-> w, token |-> n, leaving |-> l]
      <4> DEFINE z == [q EXCEPT !.invite = invitations]
      <4>1. z = [invite |-> invitations, name |-> b, written |-> w, token |-> n, leaving |-> l]
        BY <3>1
      <4> HIDE DEF z
      <4>2. [z EXCEPT !.name = name] = [invite |-> invitations, name |-> name, written |-> w, token |-> n, leaving |-> l]
        BY <4>1
      <4> QED
        BY <4>2 DEF z
    <3> QED
      BY <3>2 DEF w, n, l
  <2> HIDE DEF r
  <2>3. r.invite = invitations /\ r.name = name /\ r.written = q.written /\ r.token = q.token /\ r.leaving = q.leaving
        /\ r = [invite |-> r.invite, name |-> r.name, written |-> r.written, token |-> r.token, leaving |-> r.leaving]
    BY <2>2
  <2>4. IsClient(r)
    BY <1>3, <2>1, <2>3 DEF IsClient
  <2>5. r.invite # 0
    BY <1>1, <1>3, <2>3
  <2> QED
    BY <2>3, <2>4, <2>5 DEF r, q, k
<1> HIDE DEF k
<1>5. Types'
  <2>1. /\ client' = [d \in Clients |-> client'[d]]
        /\ \A d \in Clients : IsClient(client'[d]) /\ (client[d].invite # 0 => client'[d].invite # 0)
    BY <1>2, <1>4 DEF Types
  <2>2. ble.conn # None => ble.conn \in Clients
    BY DEF Types, IsExchange
  <2> QED
    BY <1>1, <2>1, <2>2 DEF Types, registry, counters
<1>6. \A d \in Clients : client'[d].leaving = client[d].leaving /\ client'[d].token = client[d].token
  BY <1>2, <1>4
<1>7. faults <= faults' /\ crashes' = crashes /\ tokens' = tokens /\ invitations <= invitations'
  BY <1>1 DEF Types, counters
<1> QED
  BY <1>1, <1>5, <1>6, <1>7, StillKeeps

LEMMA ReceiveKeeps == ASSUME IInv, Receive PROVE IInv'
<1> USE DEF IInv
<1>1. /\ ble' = [ble EXCEPT !.flight = "received"] /\ UNCHANGED <<up, registry, invitation, trusted, acked, left, counters>>
      /\ client' = IF ble.reply = "pairing" /\ ble.offset = Replies THEN [client EXCEPT ![ble.conn].token = ble.token] ELSE client
  BY DEF Receive
<1>2. /\ IsExchange(ble') /\ ble'.reply = ble.reply /\ ble'.id = ble.id /\ ble'.token = ble.token /\ ble'.conn = ble.conn
      /\ ble'.created = ble.created /\ ble'.invite = ble.invite
  BY <1>1 DEF Types, IsExchange
<1>3. client = [d \in Clients |-> client[d]] /\ \A d \in Clients : IsClient(client[d])
  BY DEF Types
<1>4. /\ client' = [d \in Clients |-> client'[d]]
      /\ \A d \in Clients : IsClient(client'[d]) /\ client'[d].leaving = client[d].leaving /\ client'[d].invite = client[d].invite
           /\ (client'[d].token = client[d].token \/ (ble.reply = "pairing" /\ d = ble.conn /\ client'[d].token = ble.token))
  <2>1. CASE ble.reply = "pairing" /\ ble.offset = Replies
    <3> DEFINE c == ble.conn
               k == [client[c] EXCEPT !.token = ble.token]
    <3>1. c \in Clients /\ ble.token \in Nat
      BY <2>1 DEF Types, IsExchange
    <3>2. IsClient(k) /\ k.token = ble.token /\ k.leaving = client[c].leaving /\ k.invite = client[c].invite
      BY <1>3, <3>1, ClientIs
    <3>3. client' = [d \in Clients |-> IF d = c THEN k ELSE client[d]]
      BY <1>1, <1>3, <2>1
    <3> HIDE DEF k, c
    <3>4. c = ble.conn
      BY DEF c
    <3> QED
      BY <1>3, <2>1, <3>2, <3>3, <3>4
  <2>2. CASE ~(ble.reply = "pairing" /\ ble.offset = Replies)
    BY <1>1, <1>3, <2>2
  <2> QED
    BY <2>1, <2>2
<1>5. Types'
  <2>1. ble.conn # None => ble.conn \in Clients
    BY DEF Types, IsExchange
  <2> QED
    BY <1>1, <1>2, <1>4, <2>1 DEF Types, registry, counters
<1>6. faults <= faults' /\ crashes' = crashes /\ tokens' = tokens /\ invitations <= invitations'
  BY <1>1 DEF Types, counters
<1> QED
  BY <1>1, <1>2, <1>4, <1>5, <1>6, StillKeeps

LEMMA InviteKeeps == ASSUME IInv, Invite PROVE IInv'
<1> USE DEF IInv
<1>1. /\ invitations' = invitations + 1 /\ invitation' = [id |-> invitations + 1, expires |-> clock + Lifetime] /\ invitations < MaxInvitations
      /\ trusted' = "ready"
      /\ UNCHANGED <<up, registry, ble, client, acked, left, tokens, clock, faults, crashes>>
  BY DEF Invite
<1>2. invitations \in Nat /\ clock \in Nat /\ clock + Lifetime \in Nat /\ invitations' <= MaxInvitations
  BY <1>1, PairingAssumption DEF Types
<1>3. invitation' \in [id : 1 .. invitations', expires : Nat]
  BY <1>1, <1>2
<1>4. Types'
  BY <1>1, <1>2, <1>3 DEF Types, registry
<1>5. faults <= faults' /\ crashes' = crashes /\ tokens' = tokens /\ invitations <= invitations' /\ invitation'.id = invitations + 1
  BY <1>1, <1>2 DEF Types
<1>6. client' = client /\ ble' = ble
  BY <1>1
<1> QED
  BY <1>1, <1>4, <1>5, <1>6, StillKeeps

LEMMA OtherStepsKeep == ASSUME IInv, Tick \/ \E t \in {"identity", "ready"} : Sync(t) PROVE IInv'
<1> USE DEF IInv
<1>1. /\ UNCHANGED <<up, registry, invitation, ble, client, acked, left, invitations, tokens, faults, crashes>>
      /\ clock' \in Nat /\ trusted' \in {"none", "identity", "ready"}
  BY DEF Tick, Sync, Types, counters
<1>2. Types'
  BY <1>1 DEF Types, registry
<1>3. faults <= faults' /\ invitations <= invitations'
  BY <1>1 DEF Types
<1>4. client' = client /\ ble' = ble
  BY <1>1
<1> QED
  BY <1>1, <1>2, <1>3, <1>4, StillKeeps

-----------------------------------------------------------------------------
(* The ends of an exchange, leaving, and restarts *)

LEMMA EndsKeep ==
  ASSUME IInv, Disconnect \/ Unacknowledged \/ \E c \in Clients : Connect(c)
  PROVE  IInv'
<1> USE DEF IInv
<1>1. CASE Disconnect
  <2>1. up = "on" /\ ResetExchange(None) /\ client' = client /\ UNCHANGED <<invitation, trusted, acked, left, invitations, tokens, clock>>
    BY <1>1 DEF Disconnect
  <2>2. SameClients
    BY <2>1, StaySameClients
  <2> QED
    BY <2>1, <2>2, ResetKeeps
<1>2. CASE Unacknowledged
  <2>1. up = "on" /\ ResetExchange(ble.conn) /\ client' = client /\ UNCHANGED <<invitation, trusted, acked, left, invitations, tokens, clock>>
    BY <1>2 DEF Unacknowledged
  <2>2. SameClients
    BY <2>1, StaySameClients
  <2>3. ble.conn \in Clients \union {None} /\ (ble.conn # None => client[ble.conn].invite # 0)
    BY DEF Types, IsExchange
  <2> QED
    BY <2>1, <2>2, <2>3, ResetKeeps
<1>3. ASSUME NEW c \in Clients, Connect(c) PROVE IInv'
  <2>1. up = "on" /\ ResetExchange(c) /\ client' = [client EXCEPT ![c].written = 0] /\ client[c].invite # 0
        /\ UNCHANGED <<invitation, trusted, acked, left, invitations, tokens, clock>>
    BY <1>3 DEF Connect
  <2>2. 0 \in 0 .. Fragments
    BY PairingAssumption
  <2>3. SameClients
    BY <2>1, <2>2, WritesSameClients
  <2> QED
    BY <2>1, <2>3, ResetKeeps
<1> QED
  BY <1>1, <1>2, <1>3

\* The acknowledgement of the last fragment earns the slot and takes the invitation.
LEMMA CompletedKeeps ==
  ASSUME IInv, up = "on", ble.flight = "received", Completed, NoFault,
         UNCHANGED <<registry, trusted, client, left, invitations, tokens, clock>>
  PROVE  IInv'
<1> USE DEF IInv
<1>1. /\ slots' = slots /\ flash' = flash /\ up' = up /\ left' = left /\ tokens' = tokens /\ faults' = faults /\ crashes' = crashes
      /\ client' = client /\ invitations' = invitations
      /\ tokens \in Nat /\ faults \in Nat /\ crashes \in Nat /\ invitations \in Nat
  BY DEF Types, registry, NoFault
<1>2. ble.conn \in Clients \union {None}
  BY DEF Types, IsExchange
<1>3. IsExchange(ble') /\ ble'.conn = ble.conn /\ ble'.reply = "none" /\ ~Undone'
  BY <1>2, ExchangeIs DEF Completed, Undone
<1> DEFINE r == [invite |-> ble.invite, id |-> ble.id, token |-> ble.token]
<1>4. r.invite = ble.invite /\ r.id = ble.id /\ r.token = ble.token
  OBVIOUS
<1>5. \/ ble.reply = "pairing" /\ invitation' = None /\ acked' = acked \union {r}
      \/ ble.reply # "pairing" /\ invitation' = invitation /\ acked' = acked
  BY DEF Completed
<1>6. ble.reply = "pairing" => r \in [invite : Nat, id : Clients, token : Nat]
  <2>1. ble.reply = "pairing" => ble.invite \in Nat /\ ble.id \in Clients /\ ble.token \in Nat
    BY <1>2 DEF Types, IsExchange
  <2> QED
    BY <2>1
<1> HIDE DEF r
<1>7. Records' = Records /\ \A c : SlotsOf(c)' = SlotsOf(c)
  BY <1>1 DEF Records, SlotsOf
<1>8. \A a \in acked' : a \in acked \/ (ble.reply = "pairing" /\ a = r)
  BY <1>5
<1>9. Types'
  <2>1. trusted' = trusted /\ clock' = clock
    OBVIOUS
  <2>2. acked' \subseteq [invite : Nat, id : Clients, token : Nat]
    BY <1>6, <1>8 DEF Types
  <2>3. invitation' \in [id : 1 .. invitations, expires : Nat] \union {None}
    BY <1>5 DEF Types
  <2> QED
    BY <1>1, <1>3, <2>1, <2>2, <2>3 DEF Types
<1>10. OwnerOK'
  BY <1>1 DEF OwnerOK
<1>11. TokensOK'
  <2>1. \A a \in acked' : a.token \in 1 .. tokens
    BY <1>4, <1>8 DEF TokensOK
  <2> QED
    BY <1>1, <1>3, <1>7, <2>1 DEF TokensOK
<1>12. LeavingOK'
  BY <1>1, <1>3, <1>7 DEF LeavingOK
<1>13. StoredOK'
  <2>1. faults = 0 => \A a \in acked' : a.token \in left \/ Stored(flash, a.id, a.token)
    <3> SUFFICES ASSUME faults = 0, NEW a \in acked', a.token \notin left PROVE Stored(flash, a.id, a.token)
      OBVIOUS
    <3>1. CASE a \in acked
      BY <3>1 DEF StoredOK
    <3>2. CASE ble.reply = "pairing" /\ a = r
      BY <1>4, <3>2 DEF StoredOK, Stored
    <3> QED
      BY <1>8, <3>1, <3>2
  <2> QED
    BY <1>1, <1>3, <2>1 DEF StoredOK, Stored
<1>14. InvitesOK'
  <2>1. \A a \in acked' : a.invite <= invitations
    BY <1>4, <1>8 DEF InvitesOK
  <2>2. invitation' # None => \A a \in acked' : a.invite # invitation'.id
    BY <1>5 DEF InvitesOK
  <2>3. \A a, b \in acked' : a.invite = b.invite => a = b
    BY <1>4, <1>8 DEF InvitesOK, InvitationUsedOnce
  <2> QED
    BY <1>1, <1>3, <2>1, <2>2, <2>3 DEF InvitesOK, InvitationUsedOnce
<1>15. GhostsOK'
  <2>1. acked \subseteq acked' /\ (ble.reply = "pairing" => r \in acked')
    BY <1>5
  <2>2. \A n : n \in Earned => n \in Earned'
    BY <1>1, <1>4, <2>1 DEF Earned, Undone
  <2>3. {faults, crashes, faults', crashes'} \subseteq Nat /\ faults + crashes <= faults' + crashes'
    BY <1>1
  <2> QED
    BY <1>1, <1>7, <2>2, <2>3, GhostsKept
<1> QED
  BY <1>9, <1>10, <1>11, <1>12, <1>13, <1>14, <1>15

LEMMA AcknowledgedKeeps == ASSUME IInv, Acknowledged PROVE IInv'
<1> USE DEF IInv
<1>1. up = "on" /\ ble.flight = "received" /\ UNCHANGED <<registry, trusted, client, left, invitations, tokens, clock>>
  BY DEF Acknowledged
<1>2. CASE NextFragment
  <2>1. faults' \in Nat /\ faults <= faults' /\ crashes' = crashes /\ up' = up /\ UNCHANGED <<invitation, acked>>
    BY <1>2 DEF NextFragment, NoFault, Fault, Types
  <2>2. ble' = [ble EXCEPT !.offset = @ + 1, !.flight = "sent"] \/ ble' = [ble EXCEPT !.flight = "none"]
    BY <1>2 DEF NextFragment
  <2>3. /\ IsExchange(ble') /\ ble'.reply = ble.reply /\ ble'.id = ble.id /\ ble'.token = ble.token /\ ble'.conn = ble.conn
        /\ ble'.created = ble.created /\ ble'.invite = ble.invite
    BY <2>2 DEF Types, IsExchange
  <2>4. Types'
    BY <1>1, <2>1, <2>3 DEF Types, registry
  <2>5. invitations <= invitations'
    BY <1>1 DEF Types
  <2>6. \A c \in Clients : client'[c].leaving = client[c].leaving /\ client'[c].token = client[c].token
    BY <1>1
  <2> QED
    BY <1>1, <2>1, <2>3, <2>4, <2>5, <2>6, StillKeeps
<1>3. CASE Completed /\ NoFault
  BY <1>1, <1>3, CompletedKeeps
<1> QED
  BY <1>2, <1>3 DEF Acknowledged

LEMMA AuthenticateKeeps == ASSUME IInv, NEW c \in Clients, Authenticate(c) PROVE IInv'
<1> USE DEF IInv
<1>1. up = "on" /\ UNCHANGED <<up, registry, invitation, trusted, ble, acked, counters>>
  BY DEF Authenticate
<1>2. PICK i \in Occupied(slots) :
        /\ slots[i].token = client[c].token
        /\ client' = [client EXCEPT ![c].leaving = slots[i].id] /\ left' = left \union {slots[i].token}
  BY DEF Authenticate
<1>3. /\ slots' = slots /\ flash' = flash /\ up' = up /\ tokens' = tokens /\ faults' = faults /\ crashes' = crashes /\ ble' = ble
      /\ acked' = acked /\ invitation' = invitation /\ invitations' = invitations /\ trusted' = trusted /\ clock' = clock
      /\ tokens \in Nat /\ faults \in Nat /\ crashes \in Nat
  BY <1>1 DEF Types, registry, counters
<1>4. <<i, slots[i].id, slots[i].token>> \in Records
  BY RecordIs DEF Records
<1>5. slots[i].id = c /\ slots[i].token \in 1 .. tokens
  BY <1>2, <1>4 DEF TokensOK
<1> DEFINE k == [client[c] EXCEPT !.leaving = c]
<1>6. client' = [d \in Clients |-> IF d = c THEN k ELSE client[d]]
  <2>1. client = [d \in Clients |-> client[d]]
    BY DEF Types
  <2> QED
    BY <1>2, <1>5, <2>1
<1>7. IsClient(client[c])
  BY DEF Types
<1>8. IsClient(k) /\ k.token = client[c].token /\ k.leaving = c /\ k.invite = client[c].invite
  BY <1>7, ClientIs
<1> HIDE DEF k
<1>9. /\ client' = [d \in Clients |-> client'[d]]
      /\ \A d \in Clients : IsClient(client'[d]) /\ client'[d].token = client[d].token /\ client'[d].invite = client[d].invite
           /\ (client'[d].leaving = client[d].leaving \/ (d = c /\ client'[d].leaving = c))
  BY <1>6, <1>8 DEF Types
<1>10. Records' = Records /\ (\A d : SlotsOf(d)' = SlotsOf(d)) /\ left \subseteq left' /\ slots[i].token \in left'
  BY <1>2, <1>3 DEF Records, SlotsOf
<1>11. Types'
  <2>1. ble.conn # None => ble.conn \in Clients
    BY DEF Types, IsExchange
  <2>2. left' \subseteq Nat
    BY <1>2, <1>5 DEF Types
  <2> QED
    BY <1>3, <1>9, <2>1, <2>2 DEF Types
<1>12. OwnerOK'
  BY <1>3 DEF OwnerOK
<1>13. TokensOK'
  <2>1. left' \subseteq 1 .. tokens
    BY <1>2, <1>5 DEF TokensOK
  <2> QED
    BY <1>3, <1>9, <1>10, <2>1 DEF TokensOK
<1>14. LeavingOK'
  <2> SUFFICES ASSUME NEW e \in Clients, client'[e].leaving # None
               PROVE  /\ client'[e].leaving = e
                      /\ faults = 0 => \A j \in SlotsOf(e) : slots[j].token \in left'
                      /\ up = "on" /\ Undone /\ ble.id = e => ble.token \in left'
    BY <1>3, <1>10 DEF LeavingOK, Undone
  <2>1. CASE client'[e].leaving = client[e].leaving
    BY <1>10, <2>1 DEF LeavingOK
  <2>2. CASE e = c /\ client'[e].leaving = c
    <3>1. i \in SlotsOf(c)
      BY <1>5 DEF SlotsOf
    <3>2. faults = 0 => \A j \in SlotsOf(c) : j = i
      BY <1>1, <1>5 DEF SlotsOf, StoredOK
    <3>3. Undone /\ ble.id = c => slots[i].token = ble.token
      BY <1>1, <3>1 DEF StoredOK
    <3> QED
      BY <1>10, <2>2, <3>2, <3>3
  <2> QED
    BY <1>9, <2>1, <2>2
<1>15. StoredOK'
  BY <1>3, <1>10 DEF StoredOK, Undone, Stored
<1>16. InvitesOK'
  BY <1>3 DEF InvitesOK, InvitationUsedOnce
<1>17. GhostsOK'
  <2>1. \A n : n \in Earned => n \in Earned'
    BY <1>3, <1>10 DEF Earned, Undone
  <2>2. {faults, crashes, faults', crashes'} \subseteq Nat /\ faults + crashes <= faults' + crashes'
    BY <1>3
  <2> QED
    BY <1>3, <1>10, <2>1, <2>2, GhostsKept
<1> QED
  BY <1>11, <1>12, <1>13, <1>14, <1>15, <1>16, <1>17

LEMMA CrashKeeps == ASSUME IInv, Crash PROVE IInv'
<1> USE DEF IInv
<1>1. /\ slots' = slots /\ flash' = flash /\ left' = left /\ tokens' = tokens /\ faults' = faults /\ crashes' = crashes + 1 /\ up' = "off"
      /\ client' = client /\ ble' = ble /\ acked' = acked /\ invitation' = invitation /\ invitations' = invitations
      /\ trusted' = trusted /\ clock' = clock
      /\ tokens \in Nat /\ faults \in Nat /\ crashes \in Nat
  BY DEF Crash, Dies, Types, registry
<1>2. Records' = Records /\ \A d : SlotsOf(d)' = SlotsOf(d)
  BY <1>1 DEF Records, SlotsOf
<1>3. Types'
  BY <1>1 DEF Types
<1>4. OwnerOK'
  BY <1>1 DEF OwnerOK
<1>5. TokensOK'
  BY <1>1, <1>2 DEF TokensOK
<1>6. LeavingOK'
  BY <1>1, <1>2 DEF LeavingOK
<1>7. StoredOK'
  BY <1>1 DEF StoredOK, Stored
<1>8. InvitesOK'
  BY <1>1 DEF InvitesOK, InvitationUsedOnce
<1>9. GhostsOK'
  <2>1. \A n : n \in Earned => n \in Earned' \/ n = ble.token
    BY <1>1 DEF Earned
  <2>2. {faults, crashes, faults', crashes'} \subseteq Nat /\ faults + crashes + 1 <= faults' + crashes'
    BY <1>1
  <2> QED
    BY <1>1, <1>2, <2>1, <2>2, GhostsMore
<1> QED
  BY <1>3, <1>4, <1>5, <1>6, <1>7, <1>8, <1>9

\* The registry that is loaded has one owner, or the chip halts.
LEMMA BootKeeps == ASSUME IInv, Boot PROVE IInv'
<1> USE DEF IInv
<1>1. /\ slots' = flash /\ flash' = flash /\ left' = left /\ tokens' = tokens /\ faults' = faults /\ crashes' = crashes
      /\ ble' = Exchange(None) /\ acked' = acked /\ invitation' = None /\ invitations' = invitations
      /\ trusted' = "none" /\ clock' = clock /\ up = "off"
      /\ up' = (IF Occupied(flash) # {} /\ Cardinality(Owners(flash)) # 1 THEN "halted" ELSE "on")
      /\ tokens \in Nat /\ faults \in Nat /\ crashes \in Nat
  BY DEF Boot, Types, counters
<1>2. client' = [c \in Clients |-> [client[c] EXCEPT !.leaving = None]]
  BY DEF Boot
<1>3. \A c \in Clients : IsClient(client'[c]) /\ client'[c].token = client[c].token /\ client'[c].leaving = None
  <2> SUFFICES ASSUME NEW c \in Clients
               PROVE  IsClient(client'[c]) /\ client'[c].token = client[c].token /\ client'[c].leaving = None
    OBVIOUS
  <2>1. client'[c] = [client[c] EXCEPT !.leaving = None]
    BY <1>2
  <2>2. IsClient(client[c])
    BY DEF Types
  <2> QED
    BY <2>1, <2>2, ClientIs
<1>4. IsExchange(ble') /\ ble'.conn = None /\ ble'.reply = "none" /\ ~Undone'
  BY <1>1, ExchangeIs DEF Undone
<1>5. \A x \in Records' : x \in Records
  BY <1>1 DEF Records
<1>6. Types'
  <2>1. client' = [c \in Clients |-> client'[c]]
    BY <1>2
  <2> QED
    BY <1>1, <1>3, <1>4, <2>1 DEF Types
<1>7. OwnerOK'
  <2> SUFFICES ASSUME up' = "on", Occupied(flash) # {} PROVE \E i \in Slots : Owners(flash) = {i}
    BY <1>1 DEF OwnerOK
  <2>1. Cardinality(Owners(flash)) = 1
    BY <1>1
  <2>2. Owners(flash) \subseteq Slots /\ IsFiniteSet(Slots)
    BY PairingAssumption DEF Owners, Occupied
  <2>3. IsFiniteSet(Owners(flash))
    BY <2>2, FS_Subset
  <2>4. \E x : Owners(flash) = {x}
    BY <2>1, <2>3, FS_Singleton
  <2> QED
    BY <2>2, <2>4
<1>8. TokensOK'
  BY <1>1, <1>3, <1>4, <1>5 DEF TokensOK
<1>9. LeavingOK'
  BY <1>3 DEF LeavingOK
<1>10. StoredOK'
  BY <1>1, <1>4 DEF StoredOK, Stored
<1>11. InvitesOK'
  BY <1>1, <1>4 DEF InvitesOK, InvitationUsedOnce
<1>12. GhostsOK'
  <2>1. \A n : n \in Earned => n \in Earned'
    BY <1>1 DEF Earned
  <2>2. {faults, crashes, faults', crashes'} \subseteq Nat /\ faults + crashes <= faults' + crashes'
    BY <1>1
  <2> QED
    BY <1>1, <1>5, <2>1, <2>2, GhostsKept
<1> QED
  BY <1>6, <1>7, <1>8, <1>9, <1>10, <1>11, <1>12

-----------------------------------------------------------------------------
(* The specification *)

LEMMA InitKeeps == ASSUME Init PROVE IInv
<1>1. /\ up = "on" /\ invitation = None /\ trusted = "none" /\ acked = {} /\ left = {} /\ flash = slots
      /\ slots = [i \in Slots |-> None] /\ ble = Exchange(None)
      /\ client = [c \in Clients |-> [invite |-> 0, name |-> None, written |-> 0, token |-> 0, leaving |-> None]]
      /\ invitations = 0 /\ tokens = 0 /\ clock = 0 /\ faults = 0 /\ crashes = 0
  BY DEF Init
<1>2. Occupied(slots) = {} /\ Records = {}
  BY <1>1 DEF Occupied, Records, RecordsIn
<1>3. IsExchange(ble) /\ ble.conn = None /\ ble.reply = "none" /\ ~Undone
  BY <1>1, ExchangeIs DEF Undone
<1>4. client = [c \in Clients |-> client[c]] /\ \A c \in Clients : IsClient(client[c]) /\ client[c].leaving = None /\ client[c].token = 0
  BY <1>1, PairingAssumption DEF IsClient
<1>5. Types
  BY <1>1, <1>3, <1>4, PairingAssumption DEF Types
<1>6. OwnerOK
  BY <1>2 DEF OwnerOK
<1>7. TokensOK
  BY <1>1, <1>2, <1>3, <1>4 DEF TokensOK
<1>8. LeavingOK
  BY <1>4 DEF LeavingOK
<1>9. StoredOK
  BY <1>1, <1>2, <1>3 DEF StoredOK, Stored
<1>10. InvitesOK
  BY <1>1, <1>3 DEF InvitesOK, InvitationUsedOnce
<1>11. GhostsOK
  <2>1. Unearned = {}
    BY <1>2 DEF Unearned
  <2>2. Cardinality({}) = 0
    BY FS_EmptySet
  <2> QED
    BY <1>1, <2>1, <2>2 DEF GhostsOK
<1> QED
  BY <1>5, <1>6, <1>7, <1>8, <1>9, <1>10, <1>11 DEF IInv

LEMMA StutterKeeps == ASSUME IInv, UNCHANGED vars PROVE IInv'
<1>1. /\ slots' = slots /\ flash' = flash /\ left' = left /\ tokens' = tokens /\ faults' = faults /\ crashes' = crashes /\ up' = up
      /\ client' = client /\ ble' = ble /\ acked' = acked /\ invitation' = invitation /\ invitations' = invitations
      /\ trusted' = trusted /\ clock' = clock
  BY DEF vars, registry, counters
<1>2. Types'
  BY <1>1 DEF IInv, Types
<1>3. ble'.created = ble.created
  BY <1>1
<1> QED
  BY <1>1, <1>2, <1>3, StillKeeps DEF IInv, Types, registry

LEMMA NextKeeps == ASSUME IInv, [Next]_vars PROVE IInv'
<1>1. CASE Disconnect \/ Unacknowledged \/ \E c \in Clients : Connect(c)
  BY <1>1, EndsKeep
<1>2. CASE Receive
  BY <1>2, ReceiveKeeps
<1>3. CASE Acknowledged
  BY <1>3, AcknowledgedKeeps
<1>4. CASE Invite
  BY <1>4, InviteKeeps
<1>5. CASE Tick \/ \E t \in {"identity", "ready"} : Sync(t)
  BY <1>5, OtherStepsKeep
<1>6. CASE Crash
  BY <1>6, CrashKeeps
<1>7. CASE Boot
  BY <1>7, BootKeeps
<1>8. ASSUME NEW c \in Clients, NEW name \in Names, Scan(c, name) PROVE IInv'
  BY <1>8, ScanKeeps
<1>9. ASSUME NEW c \in Clients, Write(c) PROVE IInv'
  BY <1>9, WriteKeeps
<1>10. ASSUME NEW c \in Clients, WriteFails(c) PROVE IInv'
  BY <1>10, WriteFailsKeeps
<1>11. ASSUME NEW c \in Clients, Authenticate(c) PROVE IInv'
  BY <1>11, AuthenticateKeeps
<1>12. ASSUME NEW c \in Clients, UnpairSelf(c) PROVE IInv'
  BY <1>12, UnpairSelfKeeps
<1>13. CASE UNCHANGED vars
  BY <1>13, StutterKeeps
<1> QED
  BY <1>1, <1>2, <1>3, <1>4, <1>5, <1>6, <1>7, <1>8, <1>9, <1>10, <1>11, <1>12, <1>13 DEF Next

\* The inductive invariant: what memory, storage and the exchange hold belongs together.
THEOREM PairingInvariant == Spec => []IInv
<1>1. Init => IInv
  BY InitKeeps
<1>2. IInv /\ [Next]_vars => IInv'
  BY NextKeeps
<1> QED
  BY <1>1, <1>2, PTL DEF Spec

\* A registry that is not empty has exactly one owner, after any pairings, rollbacks, removals, failed
\* writes and restarts.
THEOREM OwnerIsOne == Spec => []OneOwner
<1>1. IInv => OneOwner
  <2> SUFFICES ASSUME IInv, up = "on", Occupied(slots) # {} PROVE Cardinality(Owners(slots)) = 1
    BY DEF OneOwner
  <2>1. PICK i \in Slots : Owners(slots) = {i}
    BY DEF IInv, OwnerOK
  <2> QED
    BY <2>1, FS_Singleton
<1> QED
  BY <1>1, PairingInvariant, PTL

\* While no write fails, the storage is the registry, and holds everyone who acknowledged a pairing.
THEOREM RegistryIsKept == Spec => []RegistryIsDurable
<1>1. IInv => TypeOK
  <2> SUFFICES ASSUME IInv PROVE TypeOK
    OBVIOUS
  <2>1. up \in {"on", "off", "halted"} /\ trusted \in {"none", "identity", "ready"}
    BY DEF IInv, Types
  <2>2. {slots, flash} \subseteq [Slots -> Record \union {None}]
    BY DEF IInv, Types
  <2>3. invitation \in [id : 1 .. MaxInvitations, expires : Nat] \union {None}
    <3>1. 1 .. invitations \subseteq 1 .. MaxInvitations
      BY PairingAssumption DEF IInv, Types
    <3> QED
      BY <3>1 DEF IInv, Types
  <2>4. ble.conn \in Clients \union {None} /\ Len(ble.request) < Fragments /\ ble.request \in Seq(Fragment)
    BY DEF IInv, Types, IsExchange
  <2>5. Range(ble.request) \subseteq Fragment
    BY <2>4 DEF Range
  <2>6. \A c \in Clients : client[c].token <= tokens /\ client[c].written <= Fragments
    BY PairingAssumption DEF IInv, Types, TokensOK, IsClient
  <2> QED
    BY <2>1, <2>2, <2>3, <2>4, <2>5, <2>6 DEF TypeOK
<1>2. IInv => StoreIsDurable
  BY DEF IInv, StoredOK, StoreIsDurable
<1>3. IInv => AckedIsStored
  <2> SUFFICES ASSUME IInv, faults = 0, up = "on", NEW a \in acked, a.token \notin left
               PROVE  \E i \in Occupied(slots) : slots[i].id = a.id /\ slots[i].token = a.token
    BY DEF AckedIsStored
  <2>1. flash = slots /\ Stored(flash, a.id, a.token)
    BY DEF IInv, StoredOK
  <2> QED
    BY <2>1 DEF Stored
<1> QED
  BY <1>1, <1>2, <1>3, PairingInvariant, PTL DEF RegistryIsDurable

\* The slots that no one earned are as many as the tokens that no one earned, or fewer.
LEMMA GhostsAreUnearned == ASSUME IInv, up = "on" PROVE Cardinality(Ghosts) <= faults + crashes
<1> USE DEF IInv
<1> DEFINE f == [i \in Ghosts |-> slots[i].token]
           U == Unearned
<1>1. \A i \in Ghosts : i \in Occupied(slots) /\ i \in Slots /\ <<i, slots[i].id, slots[i].token>> \in Records
  BY RecordIs DEF Ghosts, Records, Occupied
<1>2. \A i \in Ghosts : slots[i].token \in U
  <2> SUFFICES ASSUME NEW i \in Ghosts PROVE slots[i].token \in Unearned
    OBVIOUS
  <2>1. slots[i].token \notin left \union {a.token : a \in acked}
    BY DEF Ghosts
  <2>2. Undone => slots[i].token # ble.token
    <3> SUFFICES ASSUME Undone, slots[i].token = ble.token PROVE FALSE
      OBVIOUS
    <3> DEFINE r == <<i, slots[i].id, slots[i].token>>
    <3>0. r \in Records /\ r[3] = ble.token /\ r[2] = slots[i].id
      BY <1>1
    <3>1. slots[i].id = ble.conn
      BY <3>0 DEF TokensOK, Undone
    <3>2. ble.id = ble.conn
      BY DEF Types, IsExchange, Undone
    <3> QED
      BY <3>1, <3>2 DEF Ghosts
  <2>3. slots[i].token \in {x[3] : x \in Records}
    <3> DEFINE r == <<i, slots[i].id, slots[i].token>>
    <3>1. r \in Records /\ r[3] = slots[i].token
      BY <1>1
    <3> QED
      BY <3>1
  <2> QED
    BY <2>1, <2>2, <2>3 DEF Unearned, Earned
<1>3. \A i, j \in Ghosts : slots[i].token = slots[j].token => i = j
  <2> SUFFICES ASSUME NEW i \in Ghosts, NEW j \in Ghosts, slots[i].token = slots[j].token PROVE i = j
    OBVIOUS
  <2>1. <<i, slots[i].id, slots[i].token>> = <<j, slots[j].id, slots[j].token>>
    BY <1>1 DEF TokensOK
  <2> QED
    BY <2>1
<1>4. f \in Injection(Ghosts, U)
  BY <1>2, <1>3 DEF Injection, IsInjective
<1>5. IsFiniteSet(U) /\ Cardinality(U) \in Nat /\ Cardinality(U) <= faults + crashes /\ faults \in Nat /\ crashes \in Nat
  BY UnearnedIsFinite DEF Types, GhostsOK
<1> HIDE DEF f, U
<1>6. IsFiniteSet(Ghosts) /\ Cardinality(Ghosts) <= Cardinality(U)
  BY <1>4, <1>5, FS_Injection
<1>7. Cardinality(Ghosts) \in Nat
  BY <1>6, FS_CardinalityType
<1> QED
  BY <1>5, <1>6, <1>7

\* A slot or an invitation is taken for good only by an acknowledgement: what is left of the other
\* pairings is bounded by the failed writes and the restarts.
THEOREM PairingsEarned == Spec => []PairingsAreEarned
<1>1. IInv => SlotsAreEarned
  BY GhostsAreUnearned DEF SlotsAreEarned
<1>2. IInv => InvitationUsedOnce
  BY DEF IInv, InvitesOK
<1> QED
  BY <1>1, <1>2, PairingInvariant, PTL DEF PairingsAreEarned
=============================================================================
