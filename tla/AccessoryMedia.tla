--------------------------- MODULE AccessoryMedia ---------------------------
(***************************************************************************)
(* Media tickets of the wireless accessory.  The always-on chip (C6) sells *)
(* a ticket per media session and the camera chip (P4) checks and spends   *)
(* it; the two exchange messages that may be lost.  P4 asks C6 for the     *)
(* ticket key and the time until it has them, forgets both and the tickets *)
(* it has seen when it restarts, and reports the tickets that are spent.   *)
(* The console of P4 sets the time of both chips.                          *)
(*                                                                         *)
(* The clock of C6 is three plain variables that one task writes and       *)
(* others read without a lock: the epoch is written first and read last,   *)
(* the other two in either order.  An epoch or a count of microseconds is  *)
(* read whole.  The ticket key never changes, a ticket is the claims under *)
(* its MAC, and a request that is malformed changes nothing.  C6 stays on. *)
(***************************************************************************)
EXTENDS Integers, Sequences, FiniteSets

CONSTANTS
  Requests,            \* the kinds of media with their parameters
  SessionSeconds,      \* how long a request may hold the session
  TicketSeconds, ReplaySlots,
  Epochs,              \* times that the console proposes, never 0
  Budgets,             \* bounds on tickets issued, invitations, restarts of P4, messages lost and under way
  MaxTime,
  NoTime               \* the system clock was not set

ASSUME MediaAssumption ==
  /\ SessionSeconds \in [Requests -> Nat \ {0}] /\ Epochs \subseteq Nat \ {0}
  /\ {TicketSeconds, ReplaySlots} \subseteq Nat \ {0}
  /\ MaxTime \in Nat /\ Budgets \subseteq [tickets : Nat, invitations : Nat, restarts : Nat, losses : Nat, messages : Nat \ {0}]

VARIABLES
  time,       \* of the timers of both chips
  wall,       \* the system clock of P4, which may survive its restarts
  toC6, toP4, \* messages between the chips
  clock,      \* C6: the epoch, the timer at that epoch, whether they are set
  identity,   \* C6: the certificate of P4 is known
  peer,       \* C6: the task that takes messages
  granted, control,   \* C6: the media session it granted, the task that serves controllers
  tickets,    \* what controllers hold
  security, replays, synchronized,   \* P4: its clock, the tickets it has seen, whether it stops asking
  callback, handler,  \* P4: the task that takes messages, the task that serves media
  uses, synchronizations,   \* the tickets spent, each with the number of the synchronization
  left        \* of the budget
c6 == <<clock, identity, peer, granted, control, tickets>>
p4 == <<wall, security, replays, synchronized, callback, handler, uses, synchronizations>>
chips == <<time, toC6, toP4, c6, p4, left>>

Unset == [ready |-> FALSE, epoch |-> 0, since |-> 0]
Free == [active |-> FALSE, nonce |-> 0, deadline |-> 0]
Idle == [at |-> "idle"]

InitWith(budget) ==
  /\ time = 0 /\ wall = NoTime /\ toC6 = <<>> /\ toP4 = <<>>
  /\ clock = Unset /\ identity = FALSE /\ peer = Idle /\ granted = Free /\ control = Idle /\ tickets = {}
  /\ security = Unset /\ replays = {} /\ synchronized = FALSE /\ callback = Idle /\ handler = Idle
  /\ uses = <<>> /\ synchronizations = 0
  /\ left = budget
MediaInit == \E budget \in Budgets : InitWith(budget)

\* 0 while the clock is not set.
Now(c) == IF c.ready THEN c.epoch + (time - c.since) ELSE 0
Wall == IF wall = NoTime THEN 0 ELSE wall.epoch + (time - wall.since)

\* A message arrives after those before it, or sending fails and nothing is tried again.
Sent(m, channel, channel2) ==
  \/ channel2 = Append(channel, m) /\ UNCHANGED left
  \/ channel2 = channel /\ left.losses > 0 /\ left' = [left EXCEPT !.losses = @ - 1]

Tick == time < MaxTime /\ time' = time + 1 /\ UNCHANGED <<toC6, toP4, c6, p4, left>>

-----------------------------------------------------------------------------
(* P4 asks for the key and the time, and its console invites *)

AskSync ==
  /\ ~synchronized /\ peer = Idle /\ Len(toC6) + Len(toP4) < left.messages
  /\ Sent([type |-> "sync", epoch |-> Wall], toC6, toC6')
  /\ UNCHANGED <<time, toP4, c6, p4>>

PairInvite(e) ==
  /\ left.invitations > 0 /\ Len(toC6) < left.messages
  /\ wall' = [epoch |-> e, since |-> time]
  /\ \/ toC6' = Append(toC6, [type |-> "invite", epoch |-> e])
        /\ left' = [left EXCEPT !.invitations = @ - 1]
     \/ toC6' = toC6 /\ left.losses > 0
        /\ left' = [left EXCEPT !.invitations = @ - 1, !.losses = @ - 1]
  /\ UNCHANGED <<time, toP4, c6, security, replays, synchronized, callback, handler, uses, synchronizations>>

-----------------------------------------------------------------------------
(* C6 takes the messages of P4 *)

CompletedAny(nonce) == Free  \* mutant: the nonce is not compared
\* What a nonce ends is its own session.
Completed(nonce) == IF granted.active /\ granted.nonce = nonce THEN Free ELSE granted

MediaComplete ==
  /\ peer = Idle /\ toC6 # <<>> /\ Head(toC6).type = "complete"
  /\ granted' = Completed(Head(toC6).nonce) /\ toC6' = Tail(toC6)
  /\ UNCHANGED <<time, toP4, clock, identity, peer, control, tickets, p4, left>>

\* The epoch is set, and the rest of the clock is about to be.
Timed(m) ==
  /\ clock' = [clock EXCEPT !.epoch = m.epoch]
  /\ peer' = [at |-> "clock", left |-> {"since", "ready"}, answers |-> m.type = "sync"]

SyncRequest ==
  /\ peer = Idle /\ toC6 # <<>> /\ Head(toC6).type = "sync"
  /\ identity' = TRUE /\ toC6' = Tail(toC6)
  /\ IF Head(toC6).epoch # 0 THEN Timed(Head(toC6))
     ELSE peer' = [at |-> "respond"] /\ UNCHANGED clock
  /\ UNCHANGED <<time, toP4, granted, control, tickets, p4, left>>

InvitationRequest ==
  /\ peer = Idle /\ toC6 # <<>> /\ Head(toC6).type = "invite"
  /\ toC6' = Tail(toC6)
  /\ IF identity THEN Timed(Head(toC6)) ELSE UNCHANGED <<clock, peer>>
  /\ UNCHANGED <<time, toP4, identity, granted, control, tickets, p4, left>>

SetClock(field) ==
  /\ peer.at = "clock" /\ field \in peer.left
  /\ clock' = IF field = "since" THEN [clock EXCEPT !.since = time] ELSE [clock EXCEPT !.ready = TRUE]
  /\ peer' = IF peer.left # {field} THEN [peer EXCEPT !.left = @ \ {field}]
             ELSE IF peer.answers THEN [at |-> "respond"] ELSE Idle
  /\ UNCHANGED <<time, toC6, toP4, identity, granted, control, tickets, p4, left>>

WaitsForTime == peer.at = "respond" /\ clock.ready /\ peer' = Idle /\ Sent([epoch |-> Now(clock)], toP4, toP4') /\ UNCHANGED <<time, toC6, clock, identity, granted, control, tickets, p4>>  \* mutant: the answer waits for the time
\* Without a time the answer carries no key.
SyncRespond ==
  /\ peer.at = "respond" /\ peer' = Idle
  /\ Sent([epoch |-> Now(clock)], toP4, toP4')
  /\ UNCHANGED <<time, toC6, clock, identity, granted, control, tickets, p4>>

-----------------------------------------------------------------------------
(* C6 serves controllers: tickets and the status *)

\* current_epoch reads the timer and when it was set, and then the epoch.
ReadTimer ==
  /\ control = Idle /\ clock.ready /\ left.tickets > 0
  /\ control' = [at |-> "epoch", elapsed |-> time - clock.since]
  /\ UNCHANGED <<time, toC6, toP4, clock, identity, peer, granted, tickets, p4, left>>

ReadEpoch ==
  /\ control.at = "epoch"
  /\ control' = [at |-> "session", now |-> clock.epoch + control.elapsed]
  /\ UNCHANGED <<time, toC6, toP4, clock, identity, peer, granted, tickets, p4, left>>

Ticket(nonce, request, now) == [nonce |-> nonce, request |-> request, issued |-> now, expires |-> now + TicketSeconds]

Busy == granted.active /\ control.now <= granted.deadline

\* A ticket is refused with 409, or the status says busy.
MediaBusy ==
  /\ control.at = "session" /\ Busy
  /\ control' = Idle
  /\ UNCHANGED <<time, toC6, toP4, clock, identity, peer, granted, tickets, p4, left>>

\* The ticket is sent, or sending fails though the controller may have the ticket.  Nobody can  \*
\* tell the session from the one that a failure leaves before the ticket is sent.               \*
IssueTicket(request) ==
  /\ control.at = "session" /\ ~Busy
  /\ LET ticket == Ticket(left.tickets, request, control.now)
     IN \/ /\ granted' = [active |-> TRUE, nonce |-> ticket.nonce, deadline |-> control.now + SessionSeconds[request]]
           /\ tickets' = tickets \cup {ticket}
        \/ granted' = Free /\ tickets' \in {tickets, tickets \cup {ticket}}
  /\ control' = Idle /\ left' = [left EXCEPT !.tickets = @ - 1]
  /\ UNCHANGED <<time, toC6, toP4, clock, identity, peer, p4>>

\* Making the ticket fails, or the status is asked for: the session has run out all the same.
RunOut ==
  /\ control.at = "session" /\ ~Busy
  /\ granted' = [granted EXCEPT !.active = FALSE, !.nonce = 0] /\ control' = Idle
  /\ UNCHANGED <<time, toC6, toP4, clock, identity, peer, tickets, p4, left>>

-----------------------------------------------------------------------------
(* P4 takes the answer of C6.  It holds the lock that a media request holds from its beginning  *)
(* to its end, so that it waits for the request, and a request that comes meanwhile is refused. *)

SyncMissing ==
  /\ callback = Idle /\ toP4 # <<>> /\ Head(toP4).epoch = 0
  /\ toP4' = Tail(toP4)
  /\ UNCHANGED <<time, toC6, c6, p4, left>>

ConfigureMediaSecurity ==
  /\ callback = Idle /\ toP4 # <<>> /\ Head(toP4).epoch # 0 /\ handler = Idle
  /\ security' = [ready |-> TRUE, epoch |-> Head(toP4).epoch, since |-> time]
  /\ replays' = {} /\ synchronizations' = synchronizations + 1
  /\ callback' = [at |-> "configured"] /\ toP4' = Tail(toP4)
  /\ UNCHANGED <<time, toC6, c6, wall, synchronized, handler, uses, left>>

Synchronized ==
  /\ callback.at = "configured"
  /\ synchronized' = TRUE /\ callback' = Idle
  /\ UNCHANGED <<time, toC6, toP4, c6, wall, security, replays, handler, uses, synchronizations, left>>

-----------------------------------------------------------------------------
(* P4 serves media *)

Validates(ticket, request, now) == ticket.request = request /\ ticket.issued <= now /\ now <= ticket.expires

RememberedLess(now) == {e \in replays : e.expires > now}  \* mutant: forgotten in the second in which the ticket is still valid
\* Entries whose ticket has expired are free again.
Remembered(now) == {e \in replays : e.expires >= now}
Registers(ticket, now) ==
  /\ \A e \in Remembered(now) : e.nonce # ticket.nonce
  /\ Cardinality(Remembered(now)) < ReplaySlots

\* Any other request is refused, and changes nothing.
Authorize(ticket, request) ==
  /\ handler = Idle /\ security.ready
  /\ LET now == Now(security)
     IN /\ Validates(ticket, request, now) /\ Registers(ticket, now)
        /\ replays' = Remembered(now) \cup {[nonce |-> ticket.nonce, expires |-> ticket.expires]}
  /\ uses' = Append(uses, <<ticket.nonce, synchronizations>>)
  /\ handler' = [at |-> "capture", nonce |-> ticket.nonce]
  /\ UNCHANGED <<time, toC6, toP4, c6, wall, security, synchronized, callback, synchronizations, left>>

\* The media or an error is sent, and whichever it is the ticket is reported.
Complete ==
  /\ handler.at = "capture" /\ handler' = Idle /\ Len(toC6) < left.messages
  /\ Sent([type |-> "complete", nonce |-> handler.nonce], toC6, toC6')
  /\ UNCHANGED <<time, toP4, c6, wall, security, replays, synchronized, callback, uses, synchronizations>>

\* P4 sleeps, wakes, or is reset: only its system clock may go on.
Restart ==
  /\ left.restarts > 0 /\ left' = [left EXCEPT !.restarts = @ - 1]
  /\ wall' \in {wall, NoTime} /\ security' = Unset /\ replays' = {} /\ synchronized' = FALSE
  /\ callback' = Idle /\ handler' = Idle /\ toP4' = <<>>
  /\ UNCHANGED <<time, toC6, c6, uses, synchronizations>>

-----------------------------------------------------------------------------
Peer == MediaComplete \/ SyncRequest \/ InvitationRequest \/ (\E f \in {"since", "ready"} : SetClock(f)) \/ SyncRespond
Control == ReadTimer \/ ReadEpoch \/ MediaBusy \/ (\E r \in Requests : IssueTicket(r)) \/ RunOut
Callback == SyncMissing \/ ConfigureMediaSecurity \/ Synchronized
Media == (\E t \in tickets, r \in Requests : Authorize(t, r)) \/ Complete

MediaNext == Tick \/ AskSync \/ (\E e \in Epochs : PairInvite(e)) \/ Peer \/ Control \/ Callback \/ Media \/ Restart

MediaSpec == MediaInit /\ [][MediaNext]_chips

(***************************************************************************)
(* P4 goes on asking and every task goes on with what it began and takes   *)
(* its messages; requests and faults need not happen.                      *)
(***************************************************************************)
Fairness == WF_chips(AskSync) /\ WF_chips(Peer) /\ WF_chips(Callback) /\ WF_chips(Complete)
MediaFairSpec == MediaSpec /\ Fairness

-----------------------------------------------------------------------------
(* Properties *)

\* Between two synchronizations P4 serves a ticket at most once: register_nonce forgets an entry  \*
\* only when kidi_ticket_validate would refuse the ticket as expired.  A synchronization forgets  \*
\* all of them: see TicketsServeOnce.                                                             \*
ServedOnce == \A i, j \in DOMAIN uses : i # j => uses[i] # uses[j]

\* A session ends when P4 has spent its ticket or when its time is over on the clock of C6, \*
\* never because of what is left of another session, such as a report that comes late.        \*
EndsItself ==
  [][granted.active /\ (~granted'.active \/ granted'.nonce # granted.nonce) =>
       \/ \E i \in DOMAIN uses : uses[i][1] = granted.nonce
       \/ control.at = "session" /\ control.now > granted.deadline]_chips

\* P4 serves a ticket at most once between two synchronizations, and a session is ended by its
\* own ticket or time.
TicketsAreSound == []ServedOnce /\ EndsItself

\* Tickets are valid for exactly one request.  (It does not hold: the table of the tickets seen is
\* cleared when P4 receives the key again, and lost when it restarts.)
TicketsServeOnce == \A i, j \in DOMAIN uses : i # j => uses[i][1] # uses[j][1]

\* With a system clock, P4 stops asking in the end, whatever was lost.
SynchronizesInTheEnd == <>[](wall # NoTime => synchronized)
=============================================================================
