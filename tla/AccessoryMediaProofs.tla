----------------------- MODULE AccessoryMediaProofs -----------------------
(***************************************************************************)
(* Proofs about the media tickets of the wireless accessory: that a ticket *)
(* is served once for each time that P4 receives the key, and that what    *)
(* ends a session is its own ticket or its own time, for any tickets,      *)
(* losses, restarts and times and any number of remembered tickets.        *)
(***************************************************************************)
EXTENDS AccessoryMedia, TLAPS

Messages == [type : {"sync", "invite"}, epoch : Int] \cup [type : {"complete"}, nonce : Nat]
IsClock(c) == c = [ready |-> c.ready, epoch |-> c.epoch, since |-> c.since] /\ c.epoch \in Int /\ c.since \in Int
HasTickets(b) == "tickets" \in DOMAIN b /\ b.tickets \in Nat
IsSession(s) == s = [active |-> s.active, nonce |-> s.nonce, deadline |-> s.deadline] /\ s.nonce \in Nat /\ s.deadline \in Int

Types ==
  /\ time \in Int
  /\ wall \in [epoch : Int, since : Int] \cup {NoTime}
  /\ toC6 \in Seq(Messages) /\ toP4 \in Seq([epoch : Int])
  /\ IsClock(clock) /\ IsClock(security) /\ IsSession(granted)
  /\ control \in [at : {"idle"}] \cup [at : {"epoch"}, elapsed : Int] \cup [at : {"session"}, now : Int]
  /\ tickets \subseteq [nonce : Nat, request : Requests, issued : Int, expires : Int]
  /\ replays \subseteq [nonce : Nat, expires : Int]
  /\ handler \in [at : {"idle"}] \cup [at : {"capture"}, nonce : Nat]
  /\ uses \in Seq(Nat \X Nat) /\ synchronizations \in Nat
  /\ HasTickets(left)
  /\ control.at # "idle" => left.tickets > 0

\* The nonces of tickets are their own.
NoncesOK ==
  /\ \A t, u \in tickets : t.nonce = u.nonce => t = u
  /\ \A t \in tickets : t.nonce > left.tickets

\* A ticket that was spent since the last synchronization is remembered, or has expired.
Spent(n) ==
  \E t \in tickets :
    /\ t.nonce = n
    /\ t.expires < Now(security) \/ \E e \in replays : e.nonce = n /\ e.expires = t.expires
UsesOK ==
  /\ \A i \in 1 .. Len(uses) : uses[i][2] <= synchronizations
  /\ security.ready => \A i \in 1 .. Len(uses) : uses[i][2] = synchronizations => Spent(uses[i][1])
  /\ \A i, j \in 1 .. Len(uses) : i # j => uses[i] # uses[j]

\* What is reported to C6 was spent.
Used(n) == \E j \in 1 .. Len(uses) : uses[j][1] = n
ReportsOK ==
  /\ handler.at = "capture" => Used(handler.nonce)
  /\ \A i \in 1 .. Len(toC6) : toC6[i].type = "complete" => Used(toC6[i].nonce)

IInv == Types /\ NoncesOK /\ UsesOK /\ ReportsOK

-----------------------------------------------------------------------------
(* Channels, and what most steps leave alone *)

\* Taking the first message of a channel leaves the others in their order.
LEMMA TailIs ==
  ASSUME NEW S, NEW s \in Seq(S), s # <<>>
  PROVE  /\ Head(s) \in S /\ Tail(s) \in Seq(S) /\ 1 \in 1 .. Len(s) /\ Head(s) = s[1]
         /\ \A i \in 1 .. Len(Tail(s)) : i + 1 \in 1 .. Len(s) /\ Tail(s)[i] = s[i + 1]
OBVIOUS

\* A message that is appended comes after those before it.
LEMMA AppendIs ==
  ASSUME NEW S, NEW s \in Seq(S), NEW m \in S
  PROVE  /\ Append(s, m) \in Seq(S) /\ Len(Append(s, m)) = Len(s) + 1 /\ Append(s, m)[Len(s) + 1] = m
         /\ \A i \in 1 .. Len(Append(s, m)) : i = Len(s) + 1 \/ (i \in 1 .. Len(s) /\ Append(s, m)[i] = s[i])
OBVIOUS

\* A message is sent behind the others or lost, and no ticket with it.
LEMMA SentIs ==
  ASSUME Types, NEW S, NEW s \in Seq(S), NEW m \in S, NEW s2, Sent(m, s, s2)
  PROVE  /\ s2 \in Seq(S) /\ HasTickets(left')
         /\ left'.tickets = left.tickets
         /\ \A i \in 1 .. Len(s2) : s2[i] = m \/ (i \in 1 .. Len(s) /\ s2[i] = s[i])
<1>1. CASE s2 = Append(s, m) /\ UNCHANGED left
  BY <1>1, AppendIs DEF Types
<1>2. CASE s2 = s /\ left' = [left EXCEPT !.losses = @ - 1]
  BY <1>2 DEF Types, HasTickets
<1> QED
  BY <1>1, <1>2 DEF Sent

\* Nonces and spent tickets depend on nothing else.
LEMMA UsesKept ==
  ASSUME UsesOK, UNCHANGED <<uses, synchronizations, security, time, tickets, replays>>
  PROVE  UsesOK'
BY DEF UsesOK, Spent, Now

\* What was spent stays spent, and reports are passed on in their order.
LEMMA ReportsKept ==
  ASSUME ReportsOK, UNCHANGED uses, handler' = handler \/ handler'.at # "capture",
         \A i \in 1 .. Len(toC6') : \/ toC6'[i].type = "complete" => Used(toC6'[i].nonce)
                                    \/ \E j \in 1 .. Len(toC6) : toC6'[i] = toC6[j]
  PROVE  ReportsOK'
<1>1. \A n : Used(n)' <=> Used(n)
  BY DEF Used
<1>2. handler'.at = "capture" => Used(handler.nonce) /\ handler' = handler
  BY DEF ReportsOK
<1>3. \A i \in 1 .. Len(toC6') : toC6'[i].type = "complete" => Used(toC6'[i].nonce)
  BY DEF ReportsOK
<1>4. (handler.at = "capture" => Used(handler.nonce))'
  BY <1>1, <1>2
<1>5. (\A i \in 1 .. Len(toC6) : toC6[i].type = "complete" => Used(toC6[i].nonce))'
  BY <1>1, <1>3
<1> QED
  BY <1>4, <1>5 DEF ReportsOK

LEMMA ReportsUnmoved ==
  ASSUME ReportsOK, UNCHANGED <<uses, toC6>>, handler' = handler \/ handler'.at # "capture"
  PROVE  ReportsOK'
BY ReportsKept

LEMMA ReportTaken ==
  ASSUME Types, ReportsOK, UNCHANGED <<uses, handler>>, toC6 # <<>>, toC6' = Tail(toC6)
  PROVE  ReportsOK'
<1>1. \A i \in 1 .. Len(toC6') : \E j \in 1 .. Len(toC6) : toC6'[i] = toC6[j]
  BY TailIs DEF Types
<1> QED
  BY <1>1, ReportsKept

-----------------------------------------------------------------------------
(* Time, and what P4 asks for *)

LEMMA TickStep == ASSUME IInv, Tick PROVE IInv'
<1> USE DEF IInv, Tick, c6, p4
<1>1. Types'
  BY DEF Types, IsClock, IsSession, HasTickets
<1>2. NoncesOK'
  BY DEF NoncesOK
<1>3. UsesOK'
  <2>1. ASSUME security.ready, NEW n, Spent(n) PROVE Spent(n)'
    <3>1. Now(security)' = Now(security) + 1 /\ Now(security) \in Int
      BY <2>1 DEF Types, IsClock, Now
    <3>2. PICK t \in tickets : t.nonce = n /\ (t.expires < Now(security) \/ \E e \in replays : e.nonce = n /\ e.expires = t.expires)
      BY <2>1 DEF Spent
    <3>3. t.expires < Now(security) => t.expires < Now(security)'
      BY <3>1 DEF Types
    <3> QED
      BY <3>2, <3>3 DEF Spent
  <2> QED
    BY <2>1 DEF UsesOK
<1>4. ReportsOK'
  BY ReportsUnmoved
<1> QED
  BY <1>1, <1>2, <1>3, <1>4

LEMMA AskSyncStep == ASSUME IInv, AskSync PROVE IInv'
<1> DEFINE m == [type |-> "sync", epoch |-> Wall]
<1>1. m \in Messages /\ m.type = "sync" /\ Sent(m, toC6, toC6')
  BY DEF IInv, Types, Wall, Messages, AskSync
<1> HIDE DEF m
<1>2. /\ toC6' \in Seq(Messages) /\ left'.tickets = left.tickets
      /\ HasTickets(left')
      /\ \A i \in 1 .. Len(toC6') : toC6'[i].type = "sync" \/ \E j \in 1 .. Len(toC6) : toC6'[i] = toC6[j]
  BY <1>1, SentIs, SMTT(40) DEF IInv, Types
<1>3. UNCHANGED <<time, toP4, c6, p4>>
  BY DEF AskSync
<1>4. Types'
  BY <1>2, <1>3 DEF IInv, Types, IsClock, IsSession, HasTickets, c6, p4
<1>5. NoncesOK' /\ UsesOK'
  BY <1>2, <1>3, UsesKept DEF IInv, NoncesOK, c6, p4
<1>6. ReportsOK'
  BY <1>2, <1>3, ReportsKept DEF IInv, p4
<1> QED
  BY <1>4, <1>5, <1>6 DEF IInv

LEMMA PairInviteStep == ASSUME IInv, NEW e \in Epochs, PairInvite(e) PROVE IInv'
<1> DEFINE m == [type |-> "invite", epoch |-> e]
<1>1. m \in Messages /\ m.type = "invite" /\ [epoch |-> e, since |-> time] \in [epoch : Int, since : Int]
  BY MediaAssumption DEF IInv, Types, Messages
<1>2. toC6' = Append(toC6, m) \/ toC6' = toC6
  BY DEF PairInvite
<1>3. HasTickets(left') /\ left'.tickets = left.tickets
  BY DEF IInv, Types, PairInvite, HasTickets
<1> HIDE DEF m
<1>4. /\ wall' = [epoch |-> e, since |-> time]
      /\ UNCHANGED <<time, toP4, c6, security, replays, synchronized, callback, handler, uses, synchronizations>>
  BY DEF PairInvite
<1>5. toC6' \in Seq(Messages)
  <2>1. toC6 \in Seq(Messages)
    BY DEF IInv, Types
  <2>2. Append(toC6, m) \in Seq(Messages)
    BY <1>1, <2>1, AppendIs
  <2> QED
    BY <1>2, <2>1, <2>2, Zenon
<1>6. \A i \in 1 .. Len(toC6') : toC6'[i].type = "invite" \/ \E j \in 1 .. Len(toC6) : toC6'[i] = toC6[j]
  <2>1. \A i \in 1 .. Len(Append(toC6, m)) : Append(toC6, m)[i] = m \/ (i \in 1 .. Len(toC6) /\ Append(toC6, m)[i] = toC6[i])
    BY <1>1, AppendIs DEF IInv, Types
  <2>2. CASE toC6' = Append(toC6, m)
    BY <1>1, <2>1, <2>2, Zenon
  <2>3. CASE toC6' = toC6
    BY <2>3, Zenon
  <2> QED
    BY <1>2, <2>2, <2>3
<1>7. Types'
  BY <1>1, <1>3, <1>4, <1>5 DEF IInv, Types, IsClock, IsSession, HasTickets, c6
<1>8. NoncesOK' /\ UsesOK'
  BY <1>3, <1>4, UsesKept DEF IInv, NoncesOK, c6
<1>9. ReportsOK'
  BY <1>4, <1>6, ReportsKept DEF IInv
<1> QED
  BY <1>7, <1>8, <1>9 DEF IInv

-----------------------------------------------------------------------------
(* C6 takes messages *)

LEMMA MediaCompleteStep == ASSUME IInv, MediaComplete PROVE IInv'
<1>1. toC6 # <<>> /\ toC6' = Tail(toC6) /\ granted' \in {Free, granted}
      /\ UNCHANGED <<time, toP4, clock, identity, peer, control, tickets, p4, left>>
  BY DEF MediaComplete, Completed
<1>2. toC6' \in Seq(Messages)
  <2>1. toC6 \in Seq(Messages)
    BY DEF IInv, Types
  <2> QED
    BY <1>1, <2>1, TailIs
<1>3. Types'
  BY <1>1, <1>2, SMTT(40) DEF IInv, Types, IsClock, IsSession, HasTickets, Free, p4
<1>4. NoncesOK' /\ UsesOK'
  BY <1>1, UsesKept DEF IInv, NoncesOK, p4
<1>5. ReportsOK'
  BY <1>1, ReportTaken DEF IInv, p4
<1> QED
  BY <1>3, <1>4, <1>5 DEF IInv

LEMMA TimeStep == ASSUME IInv, SyncRequest \/ InvitationRequest PROVE IInv'
<1>1. /\ toC6 # <<>> /\ toC6' = Tail(toC6) /\ Head(toC6).type \in {"sync", "invite"}
      /\ clock' \in {clock, [clock EXCEPT !.epoch = Head(toC6).epoch]}
      /\ UNCHANGED <<time, toP4, granted, control, tickets, p4, left>>
  BY DEF SyncRequest, InvitationRequest, Timed
<1>2. toC6' \in Seq(Messages) /\ Head(toC6) \in Messages
  BY <1>1, TailIs DEF IInv, Types
<1>3. IsClock(clock')
  <2>1. Head(toC6).epoch \in Int
    BY <1>1, <1>2 DEF Messages
  <2> QED
    BY <1>1, <2>1 DEF IInv, Types, IsClock
<1>4. Types'
  BY <1>1, <1>2, <1>3 DEF IInv, Types, IsClock, IsSession, HasTickets, p4
<1>5. NoncesOK' /\ UsesOK'
  BY <1>1, UsesKept DEF IInv, NoncesOK, p4
<1>6. ReportsOK'
  BY <1>1, ReportTaken DEF IInv, p4
<1> QED
  BY <1>4, <1>5, <1>6 DEF IInv

LEMMA SetClockStep == ASSUME IInv, NEW f, SetClock(f) PROVE IInv'
<1>1. /\ clock' \in {[clock EXCEPT !.since = time], [clock EXCEPT !.ready = TRUE]}
      /\ UNCHANGED <<time, toC6, toP4, granted, control, tickets, p4, left>>
  BY DEF SetClock
<1>2. Types'
  BY <1>1 DEF IInv, Types, IsClock, IsSession, HasTickets, p4
<1>3. NoncesOK' /\ UsesOK'
  BY <1>1, UsesKept DEF IInv, NoncesOK, p4
<1>4. ReportsOK'
  BY <1>1, ReportsUnmoved DEF IInv, p4
<1> QED
  BY <1>2, <1>3, <1>4 DEF IInv

LEMMA SyncRespondStep == ASSUME IInv, SyncRespond PROVE IInv'
<1>1. [epoch |-> Now(clock)] \in [epoch : Int]
  BY DEF IInv, Types, IsClock, Now
<1>2. /\ toP4' \in Seq([epoch : Int]) /\ left'.tickets = left.tickets
      /\ HasTickets(left')
  BY <1>1, SentIs DEF IInv, SyncRespond, Types
<1>3. UNCHANGED <<time, toC6, clock, identity, granted, control, tickets, p4>>
  BY DEF SyncRespond
<1>4. Types'
  BY <1>2, <1>3 DEF IInv, Types, IsClock, IsSession, HasTickets, p4
<1>5. NoncesOK' /\ UsesOK'
  BY <1>2, <1>3, UsesKept DEF IInv, NoncesOK, p4
<1>6. ReportsOK'
  BY <1>3, ReportsUnmoved DEF IInv, p4
<1> QED
  BY <1>4, <1>5, <1>6 DEF IInv

-----------------------------------------------------------------------------
(* C6 serves controllers *)

LEMMA ControlStep == ASSUME IInv, ReadTimer \/ ReadEpoch \/ MediaBusy \/ RunOut PROVE IInv'
<1>1. UNCHANGED <<time, toC6, toP4, clock, tickets, p4, left>>
  BY DEF ReadTimer, ReadEpoch, MediaBusy, RunOut
<1>2. IsSession(granted')
  <2>1. IsSession(granted) /\ (granted' = granted \/ granted' = [granted EXCEPT !.active = FALSE, !.nonce = 0])
    BY DEF ReadTimer, ReadEpoch, MediaBusy, RunOut, IInv, Types
  <2>2. CASE granted' = [granted EXCEPT !.active = FALSE, !.nonce = 0]
    <3>1. granted' = [active |-> FALSE, nonce |-> 0, deadline |-> granted.deadline]
      BY <2>1, <2>2 DEF IsSession
    <3> QED
      BY <2>1, <3>1 DEF IsSession
  <2> QED
    BY <2>1, <2>2 DEF IsSession
<1>3. /\ control' \in [at : {"idle"}] \cup [at : {"epoch"}, elapsed : Int] \cup [at : {"session"}, now : Int]
      /\ control'.at # "idle" => left.tickets > 0
  <2>1. CASE ReadTimer
    BY <2>1 DEF ReadTimer, IInv, Types, IsClock
  <2>2. CASE ReadEpoch
    <3>1. control.elapsed \in Int /\ left.tickets > 0
      BY <2>2 DEF ReadEpoch, IInv, Types
    <3>2. clock.epoch + control.elapsed \in Int
      BY <3>1 DEF IInv, Types, IsClock
    <3> QED
      BY <2>2, <3>1, <3>2 DEF ReadEpoch
  <2>3. CASE MediaBusy \/ RunOut
    BY <2>3 DEF MediaBusy, RunOut, Idle
  <2> QED
    BY <2>1, <2>2, <2>3
<1>4. Types'
  BY <1>1, <1>2, <1>3 DEF IInv, Types, IsClock, IsSession, HasTickets, p4
<1>5. NoncesOK' /\ UsesOK'
  BY <1>1, UsesKept DEF IInv, NoncesOK, p4
<1>6. ReportsOK'
  BY <1>1, ReportsUnmoved DEF IInv, p4
<1> QED
  BY <1>4, <1>5, <1>6 DEF IInv

LEMMA IssueTicketStep == ASSUME IInv, NEW r \in Requests, IssueTicket(r) PROVE IInv'
<1> DEFINE ticket == Ticket(left.tickets, r, control.now)
<1>1. /\ control.at = "session" /\ control' = Idle /\ left' = [left EXCEPT !.tickets = @ - 1]
      /\ UNCHANGED <<time, toC6, toP4, clock, identity, peer, p4>>
      /\ tickets' \in {tickets, tickets \cup {ticket}}
      /\ granted' \in {Free, [active |-> TRUE, nonce |-> ticket.nonce, deadline |-> control.now + SessionSeconds[r]]}
  BY DEF IssueTicket
<1>2. control.now \in Int /\ left.tickets \in Nat \ {0}
  BY <1>1 DEF IInv, Types, HasTickets
<1>3. ticket \in [nonce : Nat, request : Requests, issued : Int, expires : Int] /\ ticket.nonce = left.tickets
  BY <1>2, MediaAssumption DEF Ticket
<1>4. IsSession(granted')
  <2>1. SessionSeconds[r] \in Int
    BY MediaAssumption
  <2> QED
    BY <1>1, <1>2, <1>3, <2>1 DEF Free, IsSession
<1>5. HasTickets(left') /\ left'.tickets = left.tickets - 1
  BY <1>1, <1>2 DEF IInv, Types, HasTickets
<1> HIDE DEF ticket
<1>6. Types'
  BY <1>1, <1>3, <1>4, <1>5 DEF IInv, Types, IsClock, IsSession, HasTickets, Idle, p4
<1>7. NoncesOK'
  <2>1. \A t \in tickets : t.nonce > left.tickets /\ t.nonce > left'.tickets
    BY <1>2, <1>5 DEF IInv, Types, NoncesOK
  <2>2. ticket.nonce > left'.tickets
    BY <1>2, <1>3, <1>5
  <2>3. \A t \in tickets : t.nonce # ticket.nonce
    BY <1>2, <1>3, <2>1 DEF IInv, Types
  <2> QED
    BY <1>1, <2>1, <2>2, <2>3 DEF IInv, NoncesOK
<1>8. UsesOK'
  <2>1. UNCHANGED <<uses, synchronizations, security, time, replays>> /\ tickets \subseteq tickets'
    BY <1>1 DEF p4
  <2>2. \A n : Spent(n) => Spent(n)'
    BY <2>1 DEF Spent, Now
  <2> QED
    BY <2>1, <2>2 DEF IInv, UsesOK
<1>9. ReportsOK'
  BY <1>1, ReportsUnmoved DEF IInv, p4
<1> QED
  BY <1>6, <1>7, <1>8, <1>9 DEF IInv

-----------------------------------------------------------------------------
(* P4 takes the answer *)

LEMMA SyncMissingStep == ASSUME IInv, SyncMissing PROVE IInv'
<1>1. toP4 # <<>> /\ toP4' = Tail(toP4) /\ UNCHANGED <<time, toC6, c6, p4, left>>
  BY DEF SyncMissing
<1>2. toP4' \in Seq([epoch : Int])
  BY <1>1, TailIs DEF IInv, Types
<1>3. Types'
  BY <1>1, <1>2 DEF IInv, Types, IsClock, IsSession, HasTickets, c6, p4
<1>4. NoncesOK' /\ UsesOK'
  BY <1>1, UsesKept DEF IInv, NoncesOK, c6, p4
<1>5. ReportsOK'
  BY <1>1, ReportsUnmoved DEF IInv, p4
<1> QED
  BY <1>3, <1>4, <1>5 DEF IInv

LEMMA ConfigureMediaSecurityStep == ASSUME IInv, ConfigureMediaSecurity PROVE IInv'
<1>1. /\ toP4 # <<>> /\ toP4' = Tail(toP4) /\ security' = [ready |-> TRUE, epoch |-> Head(toP4).epoch, since |-> time]
      /\ replays' = {} /\ synchronizations' = synchronizations + 1
      /\ UNCHANGED <<time, toC6, c6, wall, handler, uses, left>>
  BY DEF ConfigureMediaSecurity
<1>2. toP4' \in Seq([epoch : Int]) /\ Head(toP4).epoch \in Int
  <2>1. toP4 \in Seq([epoch : Int]) /\ toP4 # <<>>
    BY <1>1 DEF IInv, Types
  <2>2. Tail(toP4) \in Seq([epoch : Int]) /\ Head(toP4) \in [epoch : Int]
    BY <2>1, TailIs
  <2>3. Head(toP4).epoch \in Int
    BY <2>2
  <2> QED
    BY <1>1, <2>2, <2>3, Zenon
<1>3. IsClock(security')
  BY <1>1, <1>2 DEF IInv, Types, IsClock
<1>4. Types'
  BY <1>1, <1>2, <1>3, SMTT(40) DEF IInv, Types, IsClock, IsSession, HasTickets, c6
<1>5. NoncesOK'
  BY <1>1 DEF IInv, NoncesOK, c6
<1>6. UsesOK'
  <2>1. \A i \in 1 .. Len(uses) : uses[i][2] \in Nat /\ uses[i][2] <= synchronizations
    BY DEF IInv, Types, UsesOK
  <2>2. \A i \in 1 .. Len(uses) : uses[i][2] <= synchronizations + 1 /\ uses[i][2] # synchronizations + 1
    BY <2>1 DEF IInv, Types
  <2> QED
    BY <1>1, <2>2 DEF IInv, UsesOK
<1>7. ReportsOK'
  BY <1>1, ReportsUnmoved DEF IInv
<1> QED
  BY <1>4, <1>5, <1>6, <1>7 DEF IInv

LEMMA SynchronizedStep == ASSUME IInv, Synchronized PROVE IInv'
<1>1. UNCHANGED <<time, toC6, toP4, c6, wall, security, replays, handler, uses, synchronizations, left>>
  BY DEF Synchronized
<1> QED
  BY <1>1, UsesKept, ReportsUnmoved DEF IInv, Types, NoncesOK, IsClock, IsSession, HasTickets, c6

-----------------------------------------------------------------------------
(* P4 serves media *)

LEMMA AuthorizeStep == ASSUME IInv, NEW t \in tickets, NEW r \in Requests, Authorize(t, r) PROVE IInv'
<1> DEFINE now == Now(security)
           entry == [nonce |-> t.nonce, expires |-> t.expires]
<1>1. /\ handler = Idle /\ security.ready /\ now <= t.expires
      /\ \A e \in Remembered(now) : e.nonce # t.nonce
      /\ replays' = Remembered(now) \cup {entry}
      /\ uses' = Append(uses, <<t.nonce, synchronizations>>)
      /\ handler' = [at |-> "capture", nonce |-> t.nonce]
      /\ UNCHANGED <<time, toC6, toP4, c6, wall, security, synchronized, callback, synchronizations, left>>
  BY DEF Authorize, Validates, Registers
<1>2. /\ t \in [nonce : Nat, request : Requests, issued : Int, expires : Int]
      /\ uses \in Seq(Nat \X Nat) /\ <<t.nonce, synchronizations>> \in Nat \X Nat /\ now \in Int
  BY DEF IInv, Types, IsClock, Now
<1>3. /\ uses' \in Seq(Nat \X Nat) /\ Len(uses') = Len(uses) + 1
      /\ uses'[Len(uses) + 1] = <<t.nonce, synchronizations>>
      /\ \A i \in 1 .. Len(uses') : i = Len(uses) + 1 \/ (i \in 1 .. Len(uses) /\ uses'[i] = uses[i])
      /\ \A i \in 1 .. Len(uses) : i \in 1 .. Len(uses') /\ uses'[i] = uses[i]
      /\ Len(uses) + 1 \in 1 .. Len(uses') /\ Len(uses) \in Nat
  <2> HIDE DEF now
  <2>1. /\ uses' \in Seq(Nat \X Nat) /\ Len(uses') = Len(uses) + 1
        /\ uses'[Len(uses) + 1] = <<t.nonce, synchronizations>> /\ Len(uses) \in Nat
        /\ \A i \in 1 .. Len(uses') : i = Len(uses) + 1 \/ (i \in 1 .. Len(uses) /\ uses'[i] = uses[i])
    BY <1>1, <1>2, AppendIs
  <2> QED
    BY <2>1
<1> HIDE DEF now, entry
<1>4. Types'
  <2>1. entry \in [nonce : Nat, expires : Int] /\ Remembered(now) \subseteq replays
    BY <1>2 DEF entry, Remembered
  <2>2. handler' \in [at : {"capture"}, nonce : Nat]
    BY <1>1, <1>2
  <2> QED
    BY <1>1, <1>3, <2>1, <2>2 DEF IInv, Types, IsClock, IsSession, HasTickets, c6
<1>5. NoncesOK'
  BY <1>1 DEF IInv, NoncesOK, c6
<1>6. UsesOK'
  <2>1. UNCHANGED <<time, security, tickets, synchronizations>>
    BY <1>1 DEF c6
  <2>2. ASSUME NEW n, Spent(n) PROVE Spent(n)' /\ n # t.nonce
    <3>1. PICK u \in tickets : u.nonce = n /\ (u.expires < now \/ \E e \in replays : e.nonce = n /\ e.expires = u.expires)
      BY <2>2 DEF Spent, now
    <3>2. CASE u.expires < now
      <4>1. n = t.nonce => u = t
        BY <3>1 DEF IInv, NoncesOK
      <4>2. u.expires \in Int /\ t.expires \in Int
        BY DEF IInv, Types
      <4>3. n # t.nonce
        BY <1>1, <1>2, <3>2, <4>1, <4>2
      <4> QED
        BY <2>1, <3>1, <3>2, <4>3 DEF Spent, Now, now
    <3>3. CASE ~(u.expires < now)
      <4>1. PICK e \in replays : e.nonce = n /\ e.expires = u.expires
        BY <3>1, <3>3
      <4>2. e \in Remembered(now)
        BY <1>2, <3>3, <4>1 DEF IInv, Types, Remembered
      <4> QED
        BY <1>1, <2>1, <3>1, <4>1, <4>2 DEF Spent, Now, now
    <3> QED
      BY <3>2, <3>3
  <2>3. Spent(t.nonce)'
    <3>1. entry \in replays' /\ entry.nonce = t.nonce /\ entry.expires = t.expires
      BY <1>1 DEF entry
    <3> HIDE DEF entry
    <3>2. t \in tickets'
      BY <2>1
    <3> QED
      BY <3>1, <3>2, Zenon DEF Spent
  <2>4. ASSUME NEW i \in 1 .. Len(uses') PROVE uses'[i][2] <= synchronizations
    <3>1. CASE i = Len(uses) + 1
      BY <1>3, <3>1 DEF IInv, Types
    <3>2. CASE i \in 1 .. Len(uses) /\ uses'[i] = uses[i]
      BY <3>2 DEF IInv, UsesOK
    <3> QED
      BY <1>3, <3>1, <3>2
  <2>5. ASSUME NEW i \in 1 .. Len(uses'), NEW n, n = uses'[i][1], uses'[i][2] = synchronizations PROVE Spent(n)'
    <3>1. CASE i = Len(uses) + 1
      BY <1>3, <2>3, <2>5, <3>1
    <3>2. CASE i \in 1 .. Len(uses) /\ uses'[i] = uses[i]
      BY <1>1, <2>2, <2>5, <3>2 DEF IInv, UsesOK
    <3> QED
      BY <1>3, <3>1, <3>2
  <2>6. \A i \in 1 .. Len(uses) : uses[i] # <<t.nonce, synchronizations>>
    BY <1>1, <2>2 DEF IInv, UsesOK
  <2>7. \A i, j \in 1 .. Len(uses') : i # j => uses'[i] # uses'[j]
    BY <1>3, <2>6 DEF IInv, UsesOK
  <2>8. (\A i \in 1 .. Len(uses) : uses[i][2] = synchronizations => Spent(uses[i][1]))'
    BY <2>1, <2>5
  <2> QED
    BY <2>1, <2>4, <2>7, <2>8 DEF UsesOK
<1>7. ReportsOK'
  <2>1. \A n : Used(n) => Used(n)'
    BY <1>3 DEF Used
  <2>2. Used(t.nonce)'
    BY <1>3 DEF Used
  <2> QED
    BY <1>1, <2>1, <2>2 DEF IInv, ReportsOK
<1> QED
  BY <1>4, <1>5, <1>6, <1>7 DEF IInv

LEMMA CompleteStep == ASSUME IInv, Complete PROVE IInv'
<1> DEFINE m == [type |-> "complete", nonce |-> handler.nonce]
<1>1. /\ handler.at = "capture" /\ handler' = Idle /\ Sent(m, toC6, toC6')
      /\ UNCHANGED <<time, toP4, c6, wall, security, replays, synchronized, callback, uses, synchronizations>>
  BY DEF Complete
<1>2. m \in Messages /\ Used(m.nonce)
  BY <1>1 DEF IInv, Types, ReportsOK, Messages
<1> HIDE DEF m
<1>3. /\ toC6' \in Seq(Messages) /\ left'.tickets = left.tickets
      /\ HasTickets(left')
      /\ \A i \in 1 .. Len(toC6') : toC6'[i] = m \/ \E j \in 1 .. Len(toC6) : toC6'[i] = toC6[j]
  BY <1>1, <1>2, SentIs DEF IInv, Types
<1>4. Types'
  BY <1>1, <1>3 DEF IInv, Types, IsClock, IsSession, HasTickets, Idle, c6
<1>5. NoncesOK' /\ UsesOK'
  BY <1>1, <1>3, UsesKept DEF IInv, NoncesOK, c6
<1>6. ReportsOK'
  BY <1>1, <1>2, <1>3, ReportsKept DEF IInv, Idle
<1> QED
  BY <1>4, <1>5, <1>6 DEF IInv

LEMMA RestartStep == ASSUME IInv, Restart PROVE IInv'
<1>1. /\ left' = [left EXCEPT !.restarts = @ - 1] /\ wall' \in {wall, NoTime} /\ security' = Unset /\ replays' = {}
      /\ handler' = Idle /\ toP4' = <<>> /\ UNCHANGED <<time, toC6, c6, uses, synchronizations>>
  BY DEF Restart
<1>2. HasTickets(left') /\ left'.tickets = left.tickets
  BY <1>1 DEF IInv, Types, HasTickets
<1>3. toP4' \in Seq([epoch : Int]) /\ IsClock(security')
  BY <1>1 DEF Unset, IsClock
<1>4. Types'
  BY <1>1, <1>2, <1>3 DEF IInv, Types, IsClock, IsSession, HasTickets, Idle, c6
<1>5. NoncesOK' /\ UsesOK'
  BY <1>1, <1>2 DEF IInv, NoncesOK, UsesOK, Unset, c6
<1>6. ReportsOK'
  BY <1>1, ReportsUnmoved DEF IInv, Idle
<1> QED
  BY <1>4, <1>5, <1>6 DEF IInv

-----------------------------------------------------------------------------
(* The invariant and the properties *)

LEMMA InitInv == ASSUME MediaInit PROVE IInv
<1>1. PICK budget \in Budgets : InitWith(budget)
  BY DEF MediaInit
<1>2. HasTickets(left)
  BY <1>1, MediaAssumption DEF InitWith, HasTickets
<1>3. Types
  BY <1>1, <1>2 DEF InitWith, Types, IsClock, IsSession, HasTickets, Unset, Free, Idle
<1> QED
  BY <1>1, <1>3 DEF InitWith, IInv, NoncesOK, UsesOK, ReportsOK, Unset, Idle

LEMMA NextInv == ASSUME IInv, [MediaNext]_chips PROVE IInv'
<1>1. CASE Tick \/ AskSync \/ \E e \in Epochs : PairInvite(e)
  BY <1>1, TickStep, AskSyncStep, PairInviteStep
<1>2. CASE Peer
  BY <1>2, MediaCompleteStep, TimeStep, SetClockStep, SyncRespondStep DEF Peer
<1>3. CASE Control
  BY <1>3, ControlStep, IssueTicketStep DEF Control
<1>4. CASE Callback
  BY <1>4, SyncMissingStep, ConfigureMediaSecurityStep, SynchronizedStep DEF Callback
<1>5. CASE Media
  BY <1>5, AuthorizeStep, CompleteStep DEF Media
<1>6. CASE Restart
  BY <1>6, RestartStep
<1>7. CASE UNCHANGED chips
  BY <1>7, UsesKept, ReportsUnmoved DEF IInv, Types, NoncesOK, IsClock, IsSession, HasTickets, chips, c6, p4
<1> QED
  BY <1>1, <1>2, <1>3, <1>4, <1>5, <1>6, <1>7 DEF MediaNext

\* What was spent since P4 received the key is remembered or has expired, and what is reported to C6
\* was spent (register_nonce, configure_media_security, the completion callback).
THEOREM MediaInvariant == MediaSpec => []IInv
<1>1. MediaInit => IInv
  BY InitInv
<1>2. IInv /\ [MediaNext]_chips => IInv'
  BY NextInv
<1> QED
  BY <1>1, <1>2, PTL DEF MediaSpec

\* The step that ends a session has its reason.
LEMMA SessionEnds ==
  ASSUME IInv, [MediaNext]_chips, granted.active, ~granted'.active \/ granted'.nonce # granted.nonce
  PROVE  \/ \E i \in DOMAIN uses : uses[i][1] = granted.nonce
         \/ control.at = "session" /\ control.now > granted.deadline
<1>1. CASE MediaComplete
  <2>1. toC6 # <<>> /\ Head(toC6).type = "complete" /\ Head(toC6).nonce = granted.nonce
    BY <1>1 DEF MediaComplete, Completed
  <2>2. Used(granted.nonce)
    BY <2>1, TailIs DEF IInv, Types, ReportsOK
  <2> QED
    BY <2>2 DEF Used, IInv, Types
<1>2. CASE RunOut \/ \E r \in Requests : IssueTicket(r)
  <2>1. control.at = "session" /\ ~(control.now <= granted.deadline)
    BY <1>2 DEF RunOut, IssueTicket, Busy
  <2> QED
    BY <2>1 DEF IInv, Types, IsSession
<1>3. CASE UNCHANGED granted
  BY <1>3
<1> QED
  BY <1>1, <1>2, <1>3 DEF MediaNext, Tick, AskSync, PairInvite, Peer, Control, Callback, Media, SyncRequest, InvitationRequest,
     SetClock, SyncRespond, ReadTimer, ReadEpoch, MediaBusy, SyncMissing, ConfigureMediaSecurity, Synchronized,
     Authorize, Complete, Restart, chips, c6

\* A ticket is served once for each time that P4 receives the key, and a session is ended by its own
\* ticket or time, for any tickets, losses and restarts, and any times that the console sets.
THEOREM TicketsSound == MediaSpec => TicketsAreSound
<1>1. ASSUME IInv PROVE ServedOnce
  <2>1. DOMAIN uses = 1 .. Len(uses)
    BY <1>1 DEF IInv, Types
  <2> QED
    BY <1>1, <2>1, Zenon DEF IInv, UsesOK, ServedOnce
<1>2. ASSUME IInv, [MediaNext]_chips
      PROVE  [granted.active /\ (~granted'.active \/ granted'.nonce # granted.nonce) =>
                \/ \E i \in DOMAIN uses : uses[i][1] = granted.nonce
                \/ control.at = "session" /\ control.now > granted.deadline]_chips
  BY <1>2, SessionEnds
<1> QED
  BY <1>1, <1>2, MediaInvariant, PTL DEF MediaSpec, TicketsAreSound, EndsItself
=============================================================================
