----------------------------- MODULE WorkerPool -----------------------------
(***************************************************************************)
(* The thread pool of the CPU backend (worker_pool.cpp).  Threads fork     *)
(* parallel loops, join them, run atomic calls and wait for predicates;    *)
(* whoever waits helps with queued loops.  Idle threads poll an epoch and  *)
(* then block, so what could go wrong is a wake-up that is lost.           *)
(*                                                                         *)
(* What holds the queue lock is one action, except that a waiting thread   *)
(* checks its condition and then looks into the queue; what happens        *)
(* without the lock are actions of their own.  The loops themselves        *)
(* (slinky's task_impl) are external: a loop hands out worker slots and    *)
(* iterations.                                                             *)
(***************************************************************************)
EXTENDS Integers, Sequences, FiniteSets, Functions

CONSTANTS
  Workers,        \* the pool's threads
  Clients,        \* application threads
  Loops,          \* parallel loops, each enqueued at most once
  Ordered,        \* the loops enqueued with a bound on their workers
  Bound,          \* that bound, for ordered loops
  Body,           \* per loop and iteration: the calls its body makes
  Script,         \* per client: the calls it makes
  Flags           \* what predicates wait for and atomic calls set

\* A call: of enqueue(n, body), of wait_for(task), of atomic_call(set a flag)
\* or of wait_for(a flag is set).
CallType ==
  [do : {"enqueue", "join"}, on : Loops] \cup [do : {"set", "await"}, on : Flags]

Threads == Workers \cup Clients

ASSUME ThreadsAssumption ==
  /\ Workers \cap Clients = {}
  /\ Clients # {}
  /\ IsFiniteSet(Threads)
ASSUME LoopsAssumption ==
  /\ Ordered \subseteq Loops
  /\ Bound \in [Ordered -> Nat \ {0}]
  /\ Body \in [Loops -> Seq(Seq(CallType)) \ {<<>>}]
  /\ Script \in [Clients -> Seq(CallType)]

VARIABLES
  stack,          \* per thread: its frames, innermost first
  wake,           \* per thread: the notifications it is about to send
  queue,          \* queue_: the loops in it, in the order of "enqueued"
  claimed,        \* per loop: the iterations that were started
  performed,      \* per loop: the iterations that ended
  slots,          \* per loop: how many more threads may work on it
  flags,          \* the flags set by atomic calls
  stop,           \* stop_
  fresh,          \* idle threads whose seen epoch is still the epoch
  helpers,        \* waiting_helpers_
  enqueued,       \* history: the loops that were enqueued, in order
  joined          \* history: the loops whose join returned

loops    == <<claimed, performed, slots>>
idlers   == <<fresh, helpers>>
history  == <<enqueued, joined>>
vars     == <<stack, wake, queue, loops, flags, stop, idlers, history>>

----------------------------------------------------------------------------
(* Loops.                                                                   *)

Iterations(l) == 1 .. Len(Body[l])

\* max_workers: an unbounded loop admits a thread per iteration.
MaxWorkers(l) ==
  IF l \in Ordered /\ Bound[l] < Len(Body[l]) THEN Bound[l] ELSE Len(Body[l])

AllStarted(l) == claimed[l] = Iterations(l)
DoneWhenStarted(l) == claimed[l] = Iterations(l)  \* mutant: still running
Done(l) == performed[l] = Iterations(l)

\* allocate_worker() hands out a slot.
AnySlot(l) == TRUE  \* mutant: more threads than the loop admits
HasSlot(l) == slots[l] > 0

\* An ordered loop starts its iterations in order.
Startable(l) ==
  LET unclaimed == Iterations(l) \ claimed[l]
  IN  {i \in unclaimed : l \in Ordered => \A j \in unclaimed : i <= j}

----------------------------------------------------------------------------
(* Frames.  "in" is the function, "at" the place in it, "on" the loop or    *)
(* flag it is about, "calls" what the body or script has left to do, and    *)
(* "then" where a thread goes on after working on a loop.                   *)

Frame(in, at, on) ==
  [in |-> in, at |-> at, on |-> on, iteration |-> 0, calls |-> <<>>,
   then |-> at, completed |-> FALSE]

Top(t) == Head(stack[t])
Ready(t) == wake[t] = <<>>
Is(t, at) == Ready(t) /\ Top(t).at = at

\* Nobody holds the queue lock over the end of an action.
LockIsFree == \A t \in Threads : Top(t).at # "dequeue"

Goto(t, at) ==
  stack' = [stack EXCEPT ![t] = <<[Head(@) EXCEPT !.at = at]>> \o Tail(@)]
Return(t) == stack' = [stack EXCEPT ![t] = Tail(@)]
Call(t, caller, callee) ==
  stack' = [stack EXCEPT ![t] = <<callee, caller>> \o Tail(@)]

\* The loops a thread is inside of (running_loops).
Inside(t) ==
  {stack[t][i].on : i \in {j \in 1 .. Len(stack[t]) : stack[t][j].in = "work"}}

----------------------------------------------------------------------------
(* Waking: update() and the notifications it sends after unlocking.         *)

Class(f) == IF f.in = "serve" THEN "workers" ELSE "helpers"
Parked(who) == {t \in Threads : Top(t).at = "asleep" /\ Class(Top(t)) = who}
Sleeping(who) ==
  {t \in Threads : Top(t).at \in {"asleep", "woken"} /\ Class(Top(t)) = who}

\* A notification to one thread or to everyone who sleeps.
Notification(who, to) ==
  IF Sleeping(who) = {} THEN <<>> ELSE <<[who |-> who, to |-> to]>>

Notifications(notify) ==
  IF notify = "helpers" THEN Notification("helpers", "everyone")
  ELSE Notification("workers", notify) \o Notification("helpers", notify)

\* What update() does besides its change: the epoch moves and the sleepers
\* to notify are determined.
StaleUpdate(t, notify) ==  \* mutant: the epoch does not move
  /\ LockIsFree
  /\ wake' = [wake EXCEPT ![t] = Notifications(notify)]
  /\ UNCHANGED fresh

Update(t, notify) ==
  /\ LockIsFree
  /\ fresh' = {}
  /\ wake' = [wake EXCEPT ![t] = Notifications(notify)]

\* notify_one or notify_all, without the lock.
Notify(t) ==
  /\ wake[t] # <<>>
  /\ LET call   == Head(wake[t])
         parked == Parked(call.who)
     IN  \E S \in SUBSET parked :
           /\ call.to = "one" /\ parked # {} => Cardinality(S) = 1
           /\ call.to = "everyone" => S = parked
           /\ stack' = [u \in Threads |->
                IF u \in S THEN <<[Top(u) EXCEPT !.at = "woken"]>> \o Tail(stack[u])
                ELSE stack[u]]
  /\ wake' = [wake EXCEPT ![t] = Tail(@)]
  /\ UNCHANGED <<queue, loops, flags, stop, idlers, history>>

----------------------------------------------------------------------------
(* The calls a script or the body of an iteration makes.                    *)

Makes(t, do) ==
  /\ Is(t, "body")
  /\ Top(t).calls # <<>>
  /\ Head(Top(t).calls).do = do

Subject(t) == Head(Top(t).calls).on
Advanced(t) == [Top(t) EXCEPT !.calls = Tail(@)]
Advance(t) == stack' = [stack EXCEPT ![t] = <<Advanced(t)>> \o Tail(@)]

\* A loop for one thread wakes one, any other loop wakes everyone.
WakeOne(l) == "one"  \* mutant: one thread for every loop

Wake(l) == IF MaxWorkers(l) = 1 THEN "one" ELSE "everyone"

Enqueued == Range(enqueued)

Enqueue(t) ==
  /\ Makes(t, "enqueue")
  /\ Subject(t) \notin Enqueued
  /\ queue' = queue \cup {Subject(t)}
  /\ enqueued' = Append(enqueued, Subject(t))
  /\ Update(t, Wake(Subject(t)))
  /\ Advance(t)
  /\ UNCHANGED <<loops, flags, stop, helpers, joined>>

AtomicCall(t) ==
  /\ Makes(t, "set")
  /\ flags' = flags \cup {Subject(t)}
  /\ Update(t, "everyone")
  /\ Advance(t)
  /\ UNCHANGED <<queue, loops, stop, helpers, history>>

Await(t) ==
  /\ Makes(t, "await")
  /\ Call(t, Advanced(t), Frame("await", "enter", Subject(t)))
  /\ UNCHANGED <<wake, queue, loops, flags, stop, idlers, history>>

\* wait_for(task) takes what enqueue() returned, and first works on the loop
\* itself, if a slot is left.
Join(t) ==
  /\ Makes(t, "join")
  /\ Subject(t) \in Enqueued
  /\ LET l    == Subject(t)
         wait == Frame("join", "poll", l)
     IN  IF HasSlot(l)
         THEN /\ slots' = [slots EXCEPT ![l] = @ - 1]
              /\ stack' = [stack EXCEPT ![t] =
                   <<Frame("work", "claim", l), wait, Advanced(t)>> \o Tail(@)]
         ELSE /\ Call(t, Advanced(t), wait)
              /\ UNCHANGED slots
  /\ UNCHANGED <<wake, queue, claimed, performed, flags, stop, idlers, history>>

\* Then it polls for the completion, and finally helps.
JoinReturns(t) ==
  /\ Is(t, "poll")
  /\ Done(Top(t).on)
  /\ Return(t)
  /\ joined' = joined \cup {Top(t).on}
  /\ UNCHANGED <<wake, queue, loops, flags, stop, idlers, enqueued>>

StopPolling(t) ==
  /\ Is(t, "poll")
  /\ ~Done(Top(t).on)
  /\ Goto(t, "enter")
  /\ UNCHANGED <<wake, queue, loops, flags, stop, idlers, history>>

----------------------------------------------------------------------------
(* Working on a loop.                                                       *)

Claim(t) ==
  /\ Is(t, "claim")
  /\ LET l == Top(t).on
     IN  \E i \in Startable(l) :
           /\ claimed' = [claimed EXCEPT ![l] = @ \cup {i}]
           /\ stack' = [stack EXCEPT ![t] =
                <<[Head(@) EXCEPT !.at = "body", !.iteration = i,
                                  !.calls = Body[l][i]]>> \o Tail(@)]
  /\ UNCHANGED <<wake, queue, performed, slots, flags, stop, idlers, history>>

Finish(t) ==
  /\ Is(t, "body")
  /\ Top(t).in = "work"
  /\ Top(t).calls = <<>>
  /\ LET l    == Top(t).on
         last == performed[l] \cup {Top(t).iteration} = Iterations(l)
     IN  /\ performed' = [performed EXCEPT ![l] = @ \cup {Top(t).iteration}]
         /\ stack' = [stack EXCEPT ![t] =
              <<[Head(@) EXCEPT !.at = "claim", !.completed = last]>> \o Tail(@)]
  /\ UNCHANGED <<wake, queue, claimed, slots, flags, stop, idlers, history>>

\* work() returns whether this thread completed the loop.
WorkReturns(t) ==
  /\ Is(t, "claim")
  /\ AllStarted(Top(t).on)
  /\ LET caller == stack[t][2]
         next   == IF Top(t).completed THEN "completed" ELSE caller.then
     IN  stack' = [stack EXCEPT ![t] =
           <<[caller EXCEPT !.at = next]>> \o Tail(Tail(@))]
  /\ UNCHANGED <<wake, queue, loops, flags, stop, idlers, history>>

\* loop_completed: announced only when some thread may wait for it.
OtherHelpers == helpers > 1  \* mutant: does not count the first one
HelpersWait == helpers > 0

LoopCompleted(t) ==
  /\ Is(t, "completed")
  /\ Goto(t, IF HelpersWait THEN "announce" ELSE Top(t).then)
  /\ UNCHANGED <<wake, queue, loops, flags, stop, idlers, history>>

Announce(t) ==
  /\ Is(t, "announce")
  /\ Update(t, "helpers")
  /\ Goto(t, Top(t).then)
  /\ UNCHANGED <<queue, loops, flags, stop, helpers, history>>

----------------------------------------------------------------------------
(* Waiting: worker_main and wait_for(predicate).                            *)

Enter(t) ==
  /\ Is(t, "enter")
  /\ helpers' = helpers + 1
  /\ Goto(t, "look")
  /\ UNCHANGED <<wake, queue, loops, flags, stop, fresh, history>>

\* What a wait is for.
Satisfied(f) ==
  CASE f.in = "serve" -> stop
    [] f.in = "join"  -> Done(f.on)
    [] f.in = "await" -> f.on \in flags

\* A thread takes the lock at the head of its waiting loop: it arrived there,
\* or it saw the epoch move while it was spinning or blocked.
Looking(t) ==
  /\ Ready(t)
  /\ LockIsFree
  /\ \/ Top(t).at = "look"
     \/ Top(t).at \in {"spin", "park", "woken"} /\ t \notin fresh

WaitEnds(t) ==
  /\ Looking(t)
  /\ Satisfied(Top(t))
  /\ Goto(t, "leave")
  /\ UNCHANGED <<wake, queue, loops, flags, stop, idlers, history>>

\* The condition does not hold; a loop may complete from here on, since only
\* the announcement needs the lock.
WaitGoesOn(t) ==
  /\ Looking(t)
  /\ ~Satisfied(Top(t))
  /\ Goto(t, "dequeue")
  /\ UNCHANGED <<wake, queue, loops, flags, stop, idlers, history>>

\* Loops that dequeue() offers to a thread: with iterations to start and room
\* for one more thread, and not one the thread is inside of.
AnyLoop(t, l) == ~AllStarted(l) /\ HasSlot(l)  \* mutant: also its own
Offered(t, l) == ~AllStarted(l) /\ HasSlot(l) /\ l \notin Inside(t)

\* dequeue() drops the loops it passes that admit no more threads.
Kept(t, passed) == {l \in passed : ~AllStarted(l) /\ l \in Inside(t)}

Before(k, l) ==
  \E i, j \in 1 .. Len(enqueued) : enqueued[i] = k /\ enqueued[j] = l /\ i < j

Help(t) ==
  /\ Is(t, "dequeue")
  /\ \E l \in queue :
       LET passed == {k \in queue : Before(k, l)}
       IN  /\ Offered(t, l)
           /\ \A k \in passed : ~Offered(t, k)
           /\ slots' = [slots EXCEPT ![l] = @ - 1]
           /\ queue' = (queue \ (passed \cup IF slots[l] = 1 THEN {l} ELSE {}))
                       \cup Kept(t, passed)
           /\ Call(t, [Top(t) EXCEPT !.at = "look", !.then = "look"],
                   Frame("work", "claim", l))
  /\ UNCHANGED <<wake, claimed, performed, flags, stop, idlers, history>>

\* Nothing to do: remember the epoch and wait for it to move.
Idle(t) ==
  /\ Is(t, "dequeue")
  /\ \A l \in queue : ~Offered(t, l)
  /\ queue' = Kept(t, queue)
  /\ fresh' = fresh \cup {t}
  /\ Goto(t, "spin")
  /\ UNCHANGED <<wake, loops, flags, stop, helpers, history>>

\* Past its budget a spinning thread blocks, unless the epoch moved before it
\* had the lock.
StopSpinning(t) ==
  /\ Is(t, "spin")
  /\ t \in fresh
  /\ Goto(t, "park")
  /\ UNCHANGED <<wake, queue, loops, flags, stop, idlers, history>>

Park(t) ==
  /\ Top(t).at \in {"park", "woken"}
  /\ Ready(t)
  /\ LockIsFree
  /\ t \in fresh
  /\ Goto(t, "asleep")
  /\ UNCHANGED <<wake, queue, loops, flags, stop, idlers, history>>

Leave(t) ==
  /\ Is(t, "leave")
  /\ Top(t).in # "serve"
  /\ helpers' = helpers - 1
  /\ Return(t)
  /\ joined' = IF Top(t).in = "join" THEN joined \cup {Top(t).on} ELSE joined
  /\ UNCHANGED <<wake, queue, loops, flags, stop, fresh, enqueued>>

----------------------------------------------------------------------------
(* The destructor runs when no client uses the pool any more; then the      *)
(* threads end.                                                             *)

Returned(c) == Ready(c) /\ Len(stack[c]) = 1 /\ Top(c).calls = <<>>
Exited(w) == Ready(w) /\ Top(w).at = "leave"
Ended == stop /\ (\A c \in Clients : Returned(c)) /\ \A w \in Workers : Exited(w)

Destroy(t) ==
  /\ t \in Clients
  /\ \A c \in Clients : Returned(c)
  /\ ~stop
  /\ stop' = TRUE
  /\ Update(t, "everyone")
  /\ UNCHANGED <<stack, queue, loops, flags, helpers, history>>

Init ==
  /\ stack = [t \in Threads |->
       IF t \in Workers THEN <<Frame("serve", "look", "none")>>
       ELSE <<[Frame("script", "body", "none") EXCEPT !.calls = Script[t]]>>]
  /\ wake = [t \in Threads |-> <<>>]
  /\ queue = {}
  /\ claimed = [l \in Loops |-> {}]
  /\ performed = [l \in Loops |-> {}]
  /\ slots = [l \in Loops |-> MaxWorkers(l)]
  /\ flags = {}
  /\ stop = FALSE
  /\ fresh = {}
  /\ helpers = 0
  /\ enqueued = <<>>
  /\ joined = {}

Step(t) ==
  \/ Notify(t)
  \/ Enqueue(t) \/ AtomicCall(t) \/ Await(t) \/ Join(t)
  \/ JoinReturns(t) \/ StopPolling(t)
  \/ Claim(t) \/ Finish(t) \/ WorkReturns(t)
  \/ LoopCompleted(t) \/ Announce(t)
  \/ Enter(t) \/ WaitEnds(t) \/ WaitGoesOn(t) \/ Help(t) \/ Idle(t)
  \/ StopSpinning(t) \/ Park(t) \/ Leave(t)
  \/ Destroy(t)

Next == \E t \in Threads : Step(t)

Spec == Init /\ [][Next]_vars

\* The operating system runs every thread that can run.
Fairness == \A t \in Threads : WF_vars(Step(t))
FairSpec == Spec /\ Fairness

----------------------------------------------------------------------------
(* Types                                                                    *)

Places ==
  {"body", "poll", "enter", "look", "dequeue", "spin", "park", "asleep",
   "woken", "leave", "claim", "completed", "announce"}

FrameType ==
  [in : {"script", "work", "join", "await", "serve"}, at : Places,
   on : Loops \cup Flags \cup {"none"}, iteration : Nat, calls : Seq(CallType),
   then : Places, completed : BOOLEAN]

NotificationType == [who : {"workers", "helpers"}, to : {"one", "everyone"}]

\* The variables range over the values of the code's types.
TypeOK ==
  /\ stack \in [Threads -> Seq(FrameType) \ {<<>>}]
  /\ wake \in [Threads -> Seq(NotificationType)]
  /\ queue \subseteq Enqueued
  /\ claimed \in [Loops -> SUBSET Nat]
  /\ performed \in [Loops -> SUBSET Nat]
  /\ slots \in [Loops -> Nat]
  /\ flags \subseteq Flags
  /\ stop \in BOOLEAN
  /\ fresh \subseteq Threads
  /\ helpers \in Nat
  /\ enqueued \in Seq(Loops)
  /\ joined \subseteq Loops

----------------------------------------------------------------------------
(* Properties                                                               *)

\* worker_pool.cpp: "A thread never joins a loop it is already inside of,
\* which would run the loop's iterations recursively on its own stack."
NoReentry ==
  \A t \in Threads : \A i, j \in 1 .. Len(stack[t]) :
    /\ stack[t][i].in = "work"
    /\ stack[t][j].in = "work"
    /\ stack[t][i].on = stack[t][j].on
    => i = j

Notifies(t, who) ==
  \E i \in 1 .. Len(wake[t]) : wake[t][i] = [who |-> who, to |-> "everyone"]

\* A thread that is about to announce the completion of a loop.
Announces(t) ==
  \/ Top(t).at \in {"completed", "announce"}
  \/ Top(t).in = "work" /\ Top(t).completed

\* No wake-up is lost: whenever a thread is blocked although the loop it joins
\* is complete, the flag it awaits is set or the pool is stopped, another one
\* is about to notify all of its kind.  The registration of helpers, the load
\* of their number and the completion happen in any order without the lock.
SleepersAreWoken ==
  \A t \in Threads :
    Top(t).at = "asleep" /\ Satisfied(Top(t)) =>
      \E u \in Threads : Notifies(u, Class(Top(t))) \/ Announces(u)

\* Nobody sleeps over a loop with room for several threads: a thread that
\* could work on it is blocked only until its notification is sent.
LoopsAreShared ==
  \A t \in Threads, l \in queue :
    /\ Top(t).at = "asleep"
    /\ Offered(t, l)
    /\ MaxWorkers(l) > 1
    => \E u \in Threads : Notifies(u, Class(Top(t)))

\* A thread that sleeps cannot go on, and has nothing to help with.
SleepIsJustified == SleepersAreWoken /\ LoopsAreShared

\* The stacks of the threads are well formed.
StacksAreSound == TypeOK /\ NoReentry

\* The pool keeps the promise of fork and join.
Promise == INSTANCE ForkJoin WITH enqueued <- Enqueued
KeepsPromise == Promise!Spec

\* Every join and every predicate wait returns, however the threads help each
\* other, and the destructor ends every worker.
EverythingReturns == <>Ended
=============================================================================
