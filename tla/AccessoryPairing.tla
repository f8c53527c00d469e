-------------------------- MODULE AccessoryPairing --------------------------
(***************************************************************************)
(* The always-on chip (C6) of the wireless accessory: its registry of      *)
(* controllers, kept in memory and in non-volatile storage; the one-time   *)
(* invitation; and the Bluetooth exchange that turns an invitation into a  *)
(* controller.  A request and its response travel in fragments; the new    *)
(* controller is stored before the response is sent, and removed again     *)
(* unless the response is acknowledged.  The control server removes a      *)
(* controller that unpairs itself, from a task of its own.  Writes fail,   *)
(* and the chip restarts, between any two writes.                          *)
(*                                                                         *)
(* Keys, proofs and encryption are reduced to what they decide: a request  *)
(* is valid when its fragments are of one request and carry the active     *)
(* invitation.  Times proposed by the console are right, a client does not *)
(* pair while it unpairs, and indications report their acknowledgement.    *)
(***************************************************************************)
EXTENDS Integers, Sequences, FiniteSets, SequencesExt

CONSTANTS
  Clients, Names, Slots,
  Fragments, Replies,   \* of a request, and of a response with a profile
  Lifetime, MaxTime,    \* of an invitation; bound on the clock
  MaxInvitations, MaxPairings,   \* bounds on the console's invitations and on new records
  MaxFaults, MaxCrashes,
  None

ASSUME PairingAssumption ==
  /\ {Fragments, Replies, Lifetime, MaxTime, MaxInvitations, MaxPairings, MaxFaults, MaxCrashes} \subseteq Nat
  /\ IsFiniteSet(Slots) /\ Slots = 1 .. Cardinality(Slots) /\ Fragments > 0 /\ Replies > 0
  /\ None \notin Clients /\ None \notin [id : Clients, name : Names, token : Nat, role : {"owner", "member"}]

VARIABLES
  up,          \* "on", "off", or "halted" by a store that it refuses to load
  slots, flash,    \* the registry in memory and in storage
  invitation,  \* the active one
  trusted,     \* what the media chip told: "none", its "identity", or "ready" with the time too
  ble,         \* the exchange
  client,      \* what the clients hold and do
  acked, left, \* what was admitted and acknowledged; tokens that asked to leave
  invitations, tokens, clock, faults, crashes   \* counters
registry == <<slots, flash>>
counters == <<invitations, tokens, clock, faults, crashes>>
vars == <<up, registry, invitation, trusted, ble, client, acked, left, counters>>

Record == [id : Clients, name : Names, token : Nat, role : {"owner", "member"}]
Fragment == [from : Clients, invite : Nat, name : Names]
Exchange(c) == [conn |-> c, request |-> <<>>, reply |-> "none", offset |-> 0, flight |-> "none",
                created |-> FALSE, id |-> None, token |-> 0, invite |-> 0]

Init ==
  /\ up = "on" /\ invitation = None /\ trusted = "none" /\ acked = {} /\ left = {}
  /\ slots = [i \in Slots |-> None] /\ flash = slots
  /\ ble = Exchange(None)
  /\ client = [c \in Clients |-> [invite |-> 0, name |-> None, written |-> 0, token |-> 0, leaving |-> None]]
  /\ invitations = 0 /\ tokens = 0 /\ clock = 0 /\ faults = 0 /\ crashes = 0

-----------------------------------------------------------------------------
(* The registry *)

Occupied(s) == {i \in Slots : s[i] # None}
Owners(s) == {i \in Occupied(s) : s[i].role = "owner"}
First(S) == CHOOSE i \in S : \A j \in S : i <= j
SlotsOf(c) == {i \in Occupied(slots) : slots[i].id = c}

Fault == faults < MaxFaults /\ faults' = faults + 1 /\ UNCHANGED <<up, crashes>>
Dies == crashes < MaxCrashes /\ crashes' = crashes + 1 /\ up' = "off" /\ UNCHANGED faults
NoFault == UNCHANGED <<up, faults, crashes>>

RoleBySlot(i) == IF i = 1 THEN "owner" ELSE "member"  \* mutant: the first slot is the owner's
RoleFor(i) == IF Occupied(slots) = {} THEN "owner" ELSE "member"
With(s, i, c, name) ==
  [s EXCEPT ![i] = [id |-> c, name |-> name, token |-> tokens + 1, role |-> RoleFor(i)]]

\* save_slot writes one record: a failure or a restart leaves it or not.
Add(c, name) ==
  LET i == First(Slots \ Occupied(slots)) IN
  /\ slots' = With(slots, i, c, name) /\ flash' = With(flash, i, c, name) /\ NoFault
AddFails(c, name) ==
  LET i == First(Slots \ Occupied(slots)) IN
  /\ flash' \in {flash, With(flash, i, c, name)} /\ UNCHANGED slots
  /\ Fault \/ Dies

OwnerAt(s, i) == [s EXCEPT ![i] = [slots[i] EXCEPT !.role = "owner"]]
Without(s, i) == [s EXCEPT ![i] = None]
HeirlessWrites(i) == <<flash, Without(flash, i)>>  \* mutant: the new owner is not written
\* The contents of the storage while a controller leaves it: its record is
\* erased first, then the record of the new owner is written.
Writes(i) ==
  LET heirs == Occupied(slots) \ {i} IN
  IF i \in Owners(slots) /\ heirs # {}
  THEN <<flash, Without(flash, i), OwnerAt(Without(flash, i), First(heirs))>>
  ELSE <<flash, Without(flash, i)>>
\* An erased record cannot be erased again, as when an earlier removal failed after it.
RemoveSlot(i) ==
  LET heirs == Occupied(slots) \ {i} IN
  IF flash[i] = None THEN NoFault /\ UNCHANGED registry ELSE
  \/ /\ slots' = IF i \in Owners(slots) /\ heirs # {} THEN OwnerAt(Without(slots, i), First(heirs)) ELSE Without(slots, i)
     /\ flash' = Last(Writes(i)) /\ NoFault
  \/ /\ flash' \in Range(Writes(i)) /\ UNCHANGED slots
     /\ Fault \/ Dies
RemoveController(c) ==
  IF SlotsOf(c) = {} THEN NoFault /\ UNCHANGED registry ELSE RemoveSlot(First(SlotsOf(c)))

-----------------------------------------------------------------------------
(* The exchange *)

Kept == FALSE  \* mutant: an exchange that ends early is not rolled back
AnyPairing == ble.reply = "pairing"  \* mutant: a controller that was known is rolled back too
Undone == ble.reply = "pairing" /\ ble.created
ResetExchange(c) ==
  /\ IF Undone THEN RemoveController(ble.id) ELSE NoFault /\ UNCHANGED registry
  /\ ble' = Exchange(c)

\* A client pairs with the invitation that it scanned, under a name of its own.
Scan(c, name) ==
  /\ invitations > 0 /\ ble.conn # c /\ client[c].leaving = None
  /\ client' = [client EXCEPT ![c].invite = invitations, ![c].name = name]
  /\ UNCHANGED <<up, registry, invitation, trusted, ble, acked, left, counters>>
Connect(c) ==
  /\ up = "on" /\ ble.conn = None /\ client[c].invite # 0 /\ client[c].leaving = None
  /\ ResetExchange(c)
  /\ client' = [client EXCEPT ![c].written = 0]
  /\ UNCHANGED <<invitation, trusted, acked, left, invitations, tokens, clock>>
Disconnect ==
  /\ up = "on" /\ ble.conn # None
  /\ ResetExchange(None)
  /\ UNCHANGED <<invitation, trusted, client, acked, left, invitations, tokens, clock>>

Valid(request) ==
  /\ trusted = "ready" /\ invitation # None /\ clock <= invitation.expires
  /\ \A i \in DOMAIN request : request[i] = request[1]
  /\ request[1].invite = invitation.id

Answer(kind, created, token) ==
  ble' = [ble EXCEPT !.request = <<>>, !.reply = kind, !.offset = 1, !.flight = "sent", !.created = created,
                     !.id = IF kind = "pairing" THEN ble.conn ELSE None, !.token = token,
                     !.invite = IF kind = "pairing" THEN invitation.id ELSE 0]
TokenOf(c) == slots[First(SlotsOf(c))].token

Reject(c, name, request) ==
  /\ \/ ~Valid(request)
     \/ SlotsOf(c) # {} /\ slots[First(SlotsOf(c))].name # name
     \/ SlotsOf(c) = {} /\ Occupied(slots) = Slots
  /\ Answer("error", FALSE, 0) /\ NoFault /\ UNCHANGED <<registry, tokens>>
Repeat(c, name, request) ==
  /\ Valid(request) /\ SlotsOf(c) # {} /\ slots[First(SlotsOf(c))].name = name
  /\ Answer("pairing", FALSE, TokenOf(c)) /\ NoFault /\ UNCHANGED <<registry, tokens>>
Admissible(c, request) == Valid(request) /\ SlotsOf(c) = {} /\ Occupied(slots) # Slots
Admit(c, name, request) ==
  /\ Admissible(c, request)
  /\ Add(c, name) /\ Answer("pairing", TRUE, tokens + 1) /\ tokens' = tokens + 1
NotAdmitted(c, name, request) ==
  /\ Admissible(c, request)
  /\ AddFails(c, name) /\ Answer("error", FALSE, 0) /\ tokens' = tokens + 1
\* The response, or its first fragment, cannot be made: the new record is written
\* and erased, and stays when erasing it fails too.
Unanswered(c, name, request) ==
  /\ Admissible(c, request)
  /\ \/ Fault /\ UNCHANGED registry
     \/ /\ faults + 2 <= MaxFaults /\ faults' = faults + 2 /\ UNCHANGED <<up, crashes>>
        /\ LET i == First(Slots \ Occupied(slots)) IN
           slots' = With(slots, i, c, name) /\ flash' = With(flash, i, c, name)
  /\ Answer("error", FALSE, 0) \/ ble' = Exchange(c)
  /\ tokens' = tokens + 1

Late(request) == Len(request) <= Fragments  \* mutant: the last fragment does not complete the request
Partial(request) == Len(request) < Fragments
\* A fragment of the request arrives; the one that completes it is answered.
Write(c) ==
  LET k == client[c]
      request == Append(ble.request, [from |-> c, invite |-> k.invite, name |-> k.name]) IN
  /\ up = "on" /\ ble.conn = c /\ ble.reply = "none" /\ k.written < Fragments /\ k.leaving = None /\ tokens < MaxPairings
  /\ client' = [client EXCEPT ![c].written = @ + 1]
  /\ IF Partial(request)
     THEN ble' = [ble EXCEPT !.request = request] /\ NoFault /\ UNCHANGED <<registry, tokens>>
     ELSE \/ Reject(c, k.name, request) \/ Repeat(c, k.name, request) \/ Admit(c, k.name, request)
          \/ NotAdmitted(c, k.name, request) \/ Unanswered(c, k.name, request)
  /\ UNCHANGED <<invitation, trusted, acked, left, invitations, clock>>
\* A fragment that cannot be taken ends the exchange; the client writes it all again.
WriteFails(c) ==
  /\ up = "on" /\ ble.conn = c /\ ble.reply = "none" /\ ble.request # <<>> /\ Fault
  /\ ble' = Exchange(c) /\ client' = [client EXCEPT ![c].written = 0]
  /\ UNCHANGED <<registry, invitation, trusted, acked, left, invitations, tokens, clock>>

Length == IF ble.reply = "pairing" THEN Replies ELSE 1
\* The client has the fragment on its way; the last one of a pairing gives it the profile.
Receive ==
  /\ ble.flight = "sent" /\ ble' = [ble EXCEPT !.flight = "received"]
  /\ client' = IF ble.reply = "pairing" /\ ble.offset = Replies
               THEN [client EXCEPT ![ble.conn].token = ble.token] ELSE client
  /\ UNCHANGED <<up, registry, invitation, trusted, acked, left, counters>>
\* The acknowledgement of a fragment sends the next one, which may fail and leaves the exchange waiting.
NextFragment ==
  /\ ble.offset < Length
  /\ \/ ble' = [ble EXCEPT !.offset = @ + 1, !.flight = "sent"] /\ NoFault
     \/ ble' = [ble EXCEPT !.flight = "none"] /\ Fault
  /\ UNCHANGED <<invitation, acked>>
Reusable == ble' = Exchange(ble.conn) /\ acked' = acked \union {[invite |-> ble.invite, id |-> ble.id, token |-> ble.token]} /\ UNCHANGED invitation  \* mutant: the invitation stays
Completed ==
  /\ ble' = Exchange(ble.conn)
  /\ IF ble.reply = "pairing"
     THEN /\ invitation' = None
          /\ acked' = acked \union {[invite |-> ble.invite, id |-> ble.id, token |-> ble.token]}
     ELSE UNCHANGED <<invitation, acked>>
Acknowledged ==
  /\ up = "on" /\ ble.flight = "received"
  /\ NextFragment \/ (ble.offset = Length /\ Completed /\ NoFault)
  /\ UNCHANGED <<registry, trusted, client, left, invitations, tokens, clock>>
Unacknowledged ==
  /\ up = "on" /\ ble.flight \in {"sent", "received"}
  /\ ResetExchange(ble.conn)
  /\ UNCHANGED <<invitation, trusted, client, acked, left, invitations, tokens, clock>>

-----------------------------------------------------------------------------
(* The control server, the media chip, and the power *)

Authenticate(c) ==
  /\ up = "on" /\ client[c].leaving = None
  /\ \E i \in Occupied(slots) :
       /\ slots[i].token = client[c].token
       /\ client' = [client EXCEPT ![c].leaving = slots[i].id]
       /\ left' = left \union {slots[i].token}
  /\ UNCHANGED <<up, registry, invitation, trusted, ble, acked, counters>>
UnpairSelf(c) ==
  /\ up = "on" /\ client[c].leaving # None
  /\ RemoveController(client[c].leaving)
  /\ client' = [client EXCEPT ![c].leaving = None, ![c].token = IF \A i \in Slots : slots'[i] = None \/ slots'[i].id # c THEN 0 ELSE @]
  /\ UNCHANGED <<invitation, trusted, ble, acked, left, invitations, tokens, clock>>

Sync(t) ==
  /\ up = "on" /\ t \in {"identity", "ready"} /\ trusted # t /\ trusted # "ready"
  /\ trusted' = t
  /\ UNCHANGED <<up, registry, invitation, ble, client, acked, left, counters>>
Invite ==
  /\ up = "on" /\ trusted # "none" /\ invitations < MaxInvitations
  /\ invitations' = invitations + 1
  /\ invitation' = [id |-> invitations + 1, expires |-> clock + Lifetime]
  /\ trusted' = "ready"
  /\ UNCHANGED <<up, registry, ble, client, acked, left, tokens, clock, faults, crashes>>
Tick ==
  /\ clock < MaxTime /\ clock' = clock + 1
  /\ UNCHANGED <<up, registry, invitation, trusted, ble, client, acked, left, invitations, tokens, faults, crashes>>

Crash ==
  /\ up = "on" /\ Dies
  /\ UNCHANGED <<registry, invitation, trusted, ble, client, acked, left, invitations, tokens, clock>>
\* The store loads its records, and refuses those that do not have one owner; app_main then aborts.
Boot ==
  /\ up = "off"
  /\ up' = IF Occupied(flash) # {} /\ Cardinality(Owners(flash)) # 1 THEN "halted" ELSE "on"
  /\ slots' = flash /\ invitation' = None /\ trusted' = "none" /\ ble' = Exchange(None)
  /\ client' = [c \in Clients |-> [client[c] EXCEPT !.leaving = None]]
  /\ UNCHANGED <<flash, acked, left, counters>>

Next ==
  \/ Disconnect \/ Receive \/ Acknowledged \/ Unacknowledged \/ Invite \/ Tick \/ Crash \/ Boot
  \/ \E c \in Clients :
       \/ \E name \in Names : Scan(c, name)
       \/ Connect(c) \/ Write(c) \/ WriteFails(c) \/ Authenticate(c) \/ UnpairSelf(c)
  \/ \E t \in {"identity", "ready"} : Sync(t)

Spec == Init /\ [][Next]_vars

-----------------------------------------------------------------------------
(* Properties *)

\* The state stays in its types.
TypeOK ==
  /\ up \in {"on", "off", "halted"} /\ trusted \in {"none", "identity", "ready"}
  /\ {slots, flash} \subseteq [Slots -> Record \union {None}]
  /\ invitation \in [id : 1 .. MaxInvitations, expires : Nat] \union {None}
  /\ ble.conn \in Clients \union {None} /\ Len(ble.request) < Fragments
  /\ Range(ble.request) \subseteq Fragment
  /\ \A c \in Clients : client[c].token <= tokens /\ client[c].written <= Fragments

\* The first controller to pair owns the accessory and a removed owner hands it
\* to another: a registry that is not empty has exactly one owner, however
\* pairings, rollbacks and removals follow each other and fail.
OneOwner == up = "on" /\ Occupied(slots) # {} => Cardinality(Owners(slots)) = 1

\* Without failed writes the storage holds the registry that is in memory, the
\* promotion of an heir included, so that a restart changes no role.
StoreIsDurable == faults = 0 /\ up = "on" => flash = slots

\* A controller that never acknowledged its credentials does not keep a slot
\* (reset_ble_exchange rolls it back): one is left only by a fault or a crash.
Ghosts ==
  {i \in Occupied(slots) :
     /\ slots[i].token \notin left \union {a.token : a \in acked}
     /\ ~(Undone /\ ble.id = slots[i].id)}
SlotsAreEarned == up = "on" => Cardinality(Ghosts) <= faults + crashes

\* While the storage works, a controller whose credentials were acknowledged
\* stays known, through the rollback of other exchanges and restarts, until it
\* unpairs.
AckedIsStored ==
  faults = 0 /\ up = "on" => \A a \in acked : a.token \in left \/ \E i \in Occupied(slots) : slots[i].id = a.id /\ slots[i].token = a.token

\* An invitation pairs one controller: complete_ble_exchange consumes it, and no
\* second controller is acknowledged under the same one.
InvitationUsedOnce == \A a, b \in acked : a.invite = b.invite => a = b

\* A restart gives back the registry that was in memory, and in it everyone who
\* acknowledged a pairing.
RegistryIsDurable == TypeOK /\ StoreIsDurable /\ AckedIsStored

\* A pairing takes an invitation and a slot for good only by its acknowledgement.
PairingsAreEarned == SlotsAreEarned /\ InvitationUsedOnce

\* The registry can be loaded after any restart (kidi_controller_store_init).
StoreBoots == up # "halted"

\* What completes an exchange consumes the invitation that this exchange used,
\* and not another one that the console issued meanwhile.
ConsumesItsOwn == [][invitation # None /\ invitation' = None /\ up = "on" => ble.invite = invitation.id]_vars
=============================================================================
