-------------------------- MODULE WorkerPoolProofs --------------------------
(***************************************************************************)
(* Proofs about the thread pool: no wake-up is lost, and it implements     *)
(* fork and join, for any threads, loops, bodies and scripts.              *)
(***************************************************************************)
EXTENDS WorkerPool, FiniteSetTheorems, TLAPS

\* The stack of a thread from its bottom: frame f is the d-th one.  What is said of a frame is said of a
\* value f that a thread holds, so that it is the same value before and after a step.
Height(t) == Len(stack[t])
Holds(t, d, f) == d \in 1 .. Len(stack[t]) /\ f = stack[t][Len(stack[t]) + 1 - d]

Idling == {"look", "dequeue", "spin", "park", "asleep", "woken", "leave"}
Blocking == {"spin", "park", "asleep", "woken"}
Runs(f) == f.in = "work" /\ f.at = "body"
BodyOf(f) == Body[f.on][f.iteration]
Made(f) == Len(BodyOf(f)) - Len(f.calls)

\* What a call has achieved when it returned.
Called(c) ==
  /\ c.do = "enqueue" => c.on \in Enqueued
  /\ c.do = "join" => c.on \in joined
  /\ c.do \in {"set", "await"} => c.on \in flags

\* Where a frame may be, and what it is about.
FrameOK(f) ==
  /\ f.in \in {"script", "work", "serve", "join", "await"}
  /\ f.in = "script" => f.at = "body"
  /\ f.in = "work" => f.at \in {"claim", "body"} /\ f.on \in Enqueued
  /\ f.in = "serve" => f.at \in Idling \cup {"completed", "announce"} /\ f.then = "look"
  /\ f.in = "join" =>
       /\ f.on \in Enqueued /\ f.then \in {"poll", "look"}
       /\ f.at \in Idling \cup {"completed", "announce"} \/ (f.at \in {"poll", "enter"} /\ f.then = "poll")
  /\ f.in = "await" =>
       \/ f.at \in Idling
       \/ f.at = "enter" /\ f.then = "enter"
       \/ f.at \in {"completed", "announce"} /\ f.then = "look"
  /\ f.completed => f.in = "work" /\ f.at = "claim" /\ Done(f.on)
  /\ f.at = "leave" => Satisfied(f)
  /\ Runs(f) => Len(f.calls) <= Len(BodyOf(f)) /\ \A k \in 1 .. Len(f.calls) : f.calls[k] = BodyOf(f)[Made(f) + k]

\* A frame and the one it called: the calls that were made have returned, the last one perhaps not.
LinkOK(f, g) ==
  /\ g.in = "work" => f.in \in {"serve", "join", "await"} /\ f.at = f.then /\ f.at \in {"look", "poll"}
  /\ g.in \in {"join", "await"} => f.in \in {"script", "work"} /\ f.at = "body"
  /\ g.in \notin {"script", "serve"}
  /\ Runs(f) => \A k \in 1 .. Made(f) :
       Called(BodyOf(f)[k]) \/ (k = Made(f) /\ g.in = BodyOf(f)[k].do /\ g.on = BodyOf(f)[k].on)
TopOK(f) == Runs(f) => \A k \in 1 .. Made(f) : Called(BodyOf(f)[k])

FramesOK == \A t \in Threads : \A d, f : Holds(t, d, f) => FrameOK(f) /\ (d = 1 => f.in \in {"script", "serve"})
LinksOK == \A t \in Threads : \A d, f, g : Holds(t, d, f) /\ Holds(t, d + 1, g) => LinkOK(f, g)
TopsOK == \A t \in Threads : \A f : f = Top(t) => TopOK(f)

\* An iteration that runs was started and has not ended, and runs once.
RunningOK ==
  /\ \A t \in Threads : \A d, f : Holds(t, d, f) /\ Runs(f) => f.iteration \in claimed[f.on] /\ f.iteration \notin performed[f.on]
  /\ \A t, u \in Threads : \A d, e, f, g :
       Holds(t, d, f) /\ Holds(u, e, g) /\ Runs(f) /\ Runs(g) /\ f.on = g.on /\ f.iteration = g.iteration => t = u /\ d = e
LoopsOK == \A l \in Loops : performed[l] \subseteq claimed[l] /\ claimed[l] \subseteq Iterations(l)

\* waiting_helpers_ counts the waits that are registered.
Registered(f) ==
  f.in \in {"join", "await"} /\ (f.at \in Idling \/ (f.at \in {"completed", "announce"} /\ f.then = "look"))
Waits(t, d) == \E f \in FrameType : Holds(t, d, f) /\ Registered(f)
Helping == {p \in Threads \X Nat : Waits(p[1], p[2])}
HelpersOK == IsFiniteSet(Helping) /\ helpers = Cardinality(Helping)

LockOK == \A t, u \in Threads : Top(t).at = "dequeue" /\ Top(u).at = "dequeue" => t = u
FreshOK == \A t \in fresh : Top(t).at \in Blocking

\* A thread that holds the lock, or whose epoch is current, has nothing to do, but for a join whose loop
\* completes meanwhile: then its completion is still to be announced.
SomeoneAnnounces == \E u \in Threads : Announces(u)
Notified(who) == \E u \in Threads : Notifies(u, who)
WaitingOK == \A t \in Threads : \A f :
  f = Top(t) /\ (f.at = "dequeue" \/ t \in fresh) /\ Satisfied(f) => f.in = "join" /\ SomeoneAnnounces
AsleepOK == \A t \in Threads : \A f :
  f = Top(t) /\ f.at = "asleep" /\ Satisfied(f) => Notified(Class(f)) \/ (f.in # "serve" /\ SomeoneAnnounces)
OffersOK == \A t \in Threads : \A l \in queue : \A f :
  f = Top(t) /\ Offered(t, l) =>
    /\ t \notin fresh
    /\ f.at = "asleep" /\ MaxWorkers(l) > 1 => Notified(Class(f))

StacksOK == FramesOK /\ LinksOK /\ TopsOK /\ RunningOK
SleepOK == LockOK /\ FreshOK /\ WaitingOK /\ AsleepOK /\ OffersOK
IInv == TypeOK /\ StacksOK /\ LoopsOK /\ HelpersOK /\ SleepOK

-----------------------------------------------------------------------------
(* Stacks *)

LEMMA TopIs ==
  ASSUME TypeOK, NEW t \in Threads
  PROVE  /\ stack[t] \in Seq(FrameType) /\ Height(t) \in Nat \ {0} /\ Top(t) = stack[t][1] /\ Top(t) \in FrameType
         /\ Holds(t, Height(t), Top(t))
<1>1. stack[t] \in Seq(FrameType) /\ stack[t] # <<>>
  BY DEF TypeOK
<1>2. Len(stack[t]) \in Nat \ {0} /\ stack[t][1] \in FrameType /\ Head(stack[t]) = stack[t][1]
  BY <1>1
<1> QED
  BY <1>1, <1>2 DEF Height, Top, Holds

LEMMA HoldsIs ==
  ASSUME TypeOK, NEW t \in Threads
  PROVE  /\ \A d, f : Holds(t, d, f) => f \in FrameType /\ d \in 1 .. Height(t)
         /\ \A d, f, g : Holds(t, d, f) /\ Holds(t, d, g) => f = g
         /\ \A d \in 1 .. Height(t) : \E f \in FrameType : Holds(t, d, f)
         /\ \A f : Holds(t, Height(t), f) => f = Top(t)
<1>1. stack[t] \in Seq(FrameType) /\ Height(t) \in Nat \ {0} /\ Top(t) = stack[t][1] /\ Height(t) = Len(stack[t])
  BY TopIs DEF Height
<1>2. \A d \in 1 .. Len(stack[t]) : Len(stack[t]) + 1 - d \in 1 .. Len(stack[t])
  BY <1>1
<1>3. \A d \in 1 .. Len(stack[t]) : stack[t][Len(stack[t]) + 1 - d] \in FrameType
  BY <1>1, <1>2
<1>4. Len(stack[t]) + 1 - Len(stack[t]) = 1
  BY <1>1
<1> QED
  BY <1>1, <1>3, <1>4 DEF Holds

\* What a thread is inside of is what its frames work on.
LEMMA InsideIs ==
  ASSUME TypeOK, NEW t \in Threads
  PROVE  \A l : l \in Inside(t) <=> \E d, f : Holds(t, d, f) /\ f.in = "work" /\ f.on = l
<1> TAKE l
<1> DEFINE s == stack[t]
           n == Len(s)
<1>1. s \in Seq(FrameType) /\ n \in Nat \ {0}
  BY TopIs DEF Height
<1>2. ASSUME NEW i \in 1 .. n, s[i].in = "work", s[i].on = l
      PROVE  \E d, f : Holds(t, d, f) /\ f.in = "work" /\ f.on = l
  <2>1. n + 1 - i \in 1 .. n /\ n + 1 - (n + 1 - i) = i
    BY <1>1
  <2>2. Holds(t, n + 1 - i, s[i])
    BY <2>1 DEF Holds
  <2> QED
    BY <1>2, <2>2
<1>3. ASSUME NEW d, NEW f, Holds(t, d, f), f.in = "work", f.on = l
      PROVE  l \in Inside(t)
  <2>1. n + 1 - d \in 1 .. n /\ f = s[n + 1 - d]
    BY <1>1, <1>3 DEF Holds
  <2> QED
    BY <1>3, <2>1 DEF Inside
<1>4. ASSUME l \in Inside(t) PROVE \E i \in 1 .. n : s[i].in = "work" /\ s[i].on = l
  BY <1>4 DEF Inside
<1> QED
  BY <1>2, <1>3, <1>4

\* The other threads are where they were.
Others(t) ==
  \A u \in Threads \ {t} :
    Top(u)' = Top(u) /\ Height(u)' = Height(u) /\ Inside(u)' = Inside(u) /\ \A d, f : Holds(u, d, f)' <=> Holds(u, d, f)

\* The lowest b frames of a stack stay, and others come on top.
LEMMA StackIs ==
  ASSUME TypeOK, NEW t \in Threads, NEW s \in Seq(FrameType), NEW b \in Nat, s # <<>>, b <= Len(s), b <= Height(t),
         \A d \in 1 .. b : s[Len(s) + 1 - d] = stack[t][Height(t) + 1 - d],
         stack' = [stack EXCEPT ![t] = s]
  PROVE  /\ stack' \in [Threads -> Seq(FrameType) \ {<<>>}]
         /\ Others(t) /\ Height(t)' = Len(s) /\ Top(t)' = s[1]
         /\ \A d, f : Holds(t, d, f)' <=> \/ Holds(t, d, f) /\ d <= b
                                          \/ d \in b + 1 .. Len(s) /\ f = s[Len(s) + 1 - d]
<1>1. stack' \in [Threads -> Seq(FrameType) \ {<<>>}] /\ stack'[t] = s /\ \A u \in Threads \ {t} : stack'[u] = stack[u]
  BY DEF TypeOK
<1>2. Others(t)
  BY <1>1 DEF Others, Top, Height, Inside, Holds
<1>3. Height(t)' = Len(s) /\ Top(t)' = s[1]
  BY <1>1 DEF Height, Top
<1>4. ASSUME NEW d, NEW f
      PROVE  Holds(t, d, f)' <=> \/ Holds(t, d, f) /\ d <= b
                                 \/ d \in b + 1 .. Len(s) /\ f = s[Len(s) + 1 - d]
  <2>1. Holds(t, d, f)' <=> d \in 1 .. Len(s) /\ f = s[Len(s) + 1 - d]
    BY <1>1 DEF Holds
  <2>2. Holds(t, d, f) <=> d \in 1 .. Height(t) /\ f = stack[t][Height(t) + 1 - d]
    BY DEF Holds, Height
  <2>3. Len(s) \in Nat /\ Height(t) \in Nat
    BY TopIs
  <2> QED
    BY <2>1, <2>2, <2>3
<1> QED
  BY <1>1, <1>2, <1>3, <1>4

\* The top frame changes; a call comes above it, or two; a call returns; a call returns and its caller goes on.
LEMMA SwapIs ==
  ASSUME TypeOK, NEW t \in Threads, NEW f \in FrameType, stack' = [stack EXCEPT ![t] = <<f>> \o Tail(@)]
  PROVE  /\ stack' \in [Threads -> Seq(FrameType) \ {<<>>}] /\ Others(t) /\ Height(t)' = Height(t) /\ Top(t)' = f
         /\ \A d, g : Holds(t, d, g)' <=> (Holds(t, d, g) /\ d < Height(t)) \/ (d = Height(t) /\ g = f)
<1> DEFINE s == <<f>> \o Tail(stack[t])
           b == Height(t) - 1
<1>1. stack[t] \in Seq(FrameType) /\ stack[t] # <<>> /\ Height(t) = Len(stack[t]) /\ Height(t) \in Nat \ {0}
  BY TopIs DEF TypeOK, Height
<1>2. s \in Seq(FrameType) /\ Len(s) = Height(t) /\ s # <<>> /\ s[1] = f /\ \A i \in 2 .. Len(s) : s[i] = stack[t][i]
  BY <1>1
<1>3. stack' = [stack EXCEPT ![t] = s]
  BY DEF TypeOK
<1> HIDE DEF s
<1>4. b \in Nat /\ \A d \in 1 .. b : Len(s) + 1 - d \in 2 .. Len(s)
  BY <1>1, <1>2
<1>5. \A d \in 1 .. b : s[Len(s) + 1 - d] = stack[t][Height(t) + 1 - d]
  BY <1>2, <1>4
<1>6. /\ stack' \in [Threads -> Seq(FrameType) \ {<<>>}]
      /\ Others(t) /\ Height(t)' = Len(s) /\ Top(t)' = s[1]
      /\ \A d, g : Holds(t, d, g)' <=> \/ Holds(t, d, g) /\ d <= b
                                       \/ d \in b + 1 .. Len(s) /\ g = s[Len(s) + 1 - d]
  <2>1. b <= Len(s) /\ b <= Height(t)
    BY <1>1, <1>2
  <2>2. s \in Seq(FrameType) /\ s # <<>> /\ b \in Nat
    BY <1>2, <1>4
  <2> HIDE DEF b
  <2> QED
    BY <1>3, <1>5, <2>1, <2>2, StackIs, Zenon
<1> QED
  <2>1. \A d, g : Holds(t, d, g) => d \in Nat
    BY HoldsIs, <1>1
  <2>2. \A d : d \in b + 1 .. Len(s) <=> d = Height(t)
    BY <1>1, <1>2
  <2>3. Len(s) + 1 - Height(t) = 1
    BY <1>1, <1>2
  <2>4. \A d \in Nat : d <= b <=> d < Height(t)
    BY <1>1
  <2> QED
    BY <1>2, <1>6, <2>1, <2>2, <2>3, <2>4, ZenonT(40)

LEMMA CallIs ==
  ASSUME TypeOK, NEW t \in Threads, NEW f \in FrameType, NEW g \in FrameType, stack' = [stack EXCEPT ![t] = <<g, f>> \o Tail(@)]
  PROVE  /\ stack' \in [Threads -> Seq(FrameType) \ {<<>>}] /\ Others(t) /\ Height(t)' = Height(t) + 1 /\ Top(t)' = g
         /\ \A d, h : Holds(t, d, h)' <=> \/ Holds(t, d, h) /\ d < Height(t)
                                          \/ d = Height(t) /\ h = f
                                          \/ d = Height(t) + 1 /\ h = g
<1> DEFINE s == <<g, f>> \o Tail(stack[t])
           b == Height(t) - 1
<1>1. stack[t] \in Seq(FrameType) /\ stack[t] # <<>> /\ Height(t) = Len(stack[t]) /\ Height(t) \in Nat \ {0}
  BY TopIs DEF TypeOK, Height
<1>2. s \in Seq(FrameType) /\ Len(s) = Height(t) + 1 /\ s # <<>> /\ s[1] = g /\ s[2] = f
      /\ \A i \in 3 .. Len(s) : s[i] = stack[t][i - 1]
  BY <1>1
<1>3. stack' = [stack EXCEPT ![t] = s]
  BY DEF TypeOK
<1> HIDE DEF s
<1>4. b \in Nat /\ \A d \in 1 .. b : Len(s) + 1 - d \in 3 .. Len(s) /\ Len(s) + 1 - d - 1 = Height(t) + 1 - d
  <2>1. Len(s) = Height(t) + 1 /\ Height(t) \in Nat \ {0}
    BY <1>1, <1>2
  <2> QED
    BY <2>1
<1>5. \A d \in 1 .. b : s[Len(s) + 1 - d] = stack[t][Height(t) + 1 - d]
  BY <1>2, <1>4
<1>6. /\ stack' \in [Threads -> Seq(FrameType) \ {<<>>}]
      /\ Others(t) /\ Height(t)' = Len(s) /\ Top(t)' = s[1]
      /\ \A d, h : Holds(t, d, h)' <=> \/ Holds(t, d, h) /\ d <= b
                                       \/ d \in b + 1 .. Len(s) /\ h = s[Len(s) + 1 - d]
  <2>1. b <= Len(s) /\ b <= Height(t)
    BY <1>1, <1>2
  <2>2. s \in Seq(FrameType) /\ s # <<>> /\ b \in Nat
    BY <1>2, <1>4
  <2> HIDE DEF b
  <2> QED
    BY <1>3, <1>5, <2>1, <2>2, StackIs, Zenon
<1> QED
  <2>1. \A d, h : Holds(t, d, h) => d \in Nat
    BY HoldsIs, <1>1
  <2>2. \A d : d \in b + 1 .. Len(s) <=> d = Height(t) \/ d = Height(t) + 1
    BY <1>1, <1>2
  <2>3. Len(s) + 1 - Height(t) = 2 /\ Len(s) + 1 - (Height(t) + 1) = 1
    BY <1>1, <1>2
  <2>4. \A d \in Nat : d <= b <=> d < Height(t)
    BY <1>1
  <2>5. \A d, h : Holds(t, d, h)' <=> (Holds(t, d, h) /\ d < Height(t)) \/ (d \in b + 1 .. Len(s) /\ h = s[Len(s) + 1 - d])
    BY <1>6, <2>1, <2>4
  <2>6. ASSUME NEW d, NEW h
        PROVE  d \in b + 1 .. Len(s) /\ h = s[Len(s) + 1 - d] <=> (d = Height(t) /\ h = f) \/ (d = Height(t) + 1 /\ h = g)
    BY <1>2, <2>2, <2>3
  <2> QED
    BY <1>2, <1>6, <2>5, <2>6

LEMMA CallTwiceIs ==
  ASSUME TypeOK, NEW t \in Threads, NEW f \in FrameType, NEW g \in FrameType, NEW k \in FrameType,
         stack' = [stack EXCEPT ![t] = <<k, g, f>> \o Tail(@)]
  PROVE  /\ stack' \in [Threads -> Seq(FrameType) \ {<<>>}] /\ Others(t) /\ Height(t)' = Height(t) + 2 /\ Top(t)' = k
         /\ \A d, h : Holds(t, d, h)' <=> \/ Holds(t, d, h) /\ d < Height(t)
                                          \/ d = Height(t) /\ h = f
                                          \/ d = Height(t) + 1 /\ h = g
                                          \/ d = Height(t) + 2 /\ h = k
<1> DEFINE s == <<k, g, f>> \o Tail(stack[t])
           b == Height(t) - 1
<1>1. stack[t] \in Seq(FrameType) /\ stack[t] # <<>> /\ Height(t) = Len(stack[t]) /\ Height(t) \in Nat \ {0}
  BY TopIs DEF TypeOK, Height
<1>2. s \in Seq(FrameType) /\ Len(s) = Height(t) + 2 /\ s # <<>> /\ s[1] = k /\ s[2] = g /\ s[3] = f
      /\ \A i \in 4 .. Len(s) : s[i] = stack[t][i - 2]
  BY <1>1
<1>3. stack' = [stack EXCEPT ![t] = s]
  BY DEF TypeOK
<1> HIDE DEF s
<1>4. b \in Nat /\ \A d \in 1 .. b : Len(s) + 1 - d \in 4 .. Len(s) /\ Len(s) + 1 - d - 2 = Height(t) + 1 - d
  BY <1>1, <1>2
<1>5. \A d \in 1 .. b : s[Len(s) + 1 - d] = stack[t][Height(t) + 1 - d]
  BY <1>2, <1>4
<1>6. /\ stack' \in [Threads -> Seq(FrameType) \ {<<>>}]
      /\ Others(t) /\ Height(t)' = Len(s) /\ Top(t)' = s[1]
      /\ \A d, h : Holds(t, d, h)' <=> \/ Holds(t, d, h) /\ d <= b
                                       \/ d \in b + 1 .. Len(s) /\ h = s[Len(s) + 1 - d]
  <2>1. b <= Len(s) /\ b <= Height(t)
    BY <1>1, <1>2
  <2>2. s \in Seq(FrameType) /\ s # <<>> /\ b \in Nat
    BY <1>2, <1>4
  <2> HIDE DEF b
  <2> QED
    BY <1>3, <1>5, <2>1, <2>2, StackIs, Zenon
<1> QED
  <2>1. \A d, h : Holds(t, d, h) => d \in Nat
    BY HoldsIs, <1>1
  <2>2. \A d : d \in b + 1 .. Len(s) <=> d = Height(t) \/ d = Height(t) + 1 \/ d = Height(t) + 2
    BY <1>1, <1>2
  <2>3. Len(s) + 1 - Height(t) = 3 /\ Len(s) + 1 - (Height(t) + 1) = 2 /\ Len(s) + 1 - (Height(t) + 2) = 1
    BY <1>1, <1>2
  <2>4. \A d \in Nat : d <= b <=> d < Height(t)
    BY <1>1
  <2>5. \A d, h : Holds(t, d, h)' <=> (Holds(t, d, h) /\ d < Height(t)) \/ (d \in b + 1 .. Len(s) /\ h = s[Len(s) + 1 - d])
    BY <1>6, <2>1, <2>4
  <2>6. ASSUME NEW d, NEW h
        PROVE  d \in b + 1 .. Len(s) /\ h = s[Len(s) + 1 - d] <=> (d = Height(t) /\ h = f) \/ (d = Height(t) + 1 /\ h = g) \/ (d = Height(t) + 2 /\ h = k)
    BY <1>2, <2>2, <2>3
  <2> QED
    BY <1>2, <1>6, <2>5, <2>6, ZenonT(40)

LEMMA ReturnIs ==
  ASSUME TypeOK, NEW t \in Threads, Height(t) > 1, stack' = [stack EXCEPT ![t] = Tail(@)]
  PROVE  /\ stack' \in [Threads -> Seq(FrameType) \ {<<>>}] /\ Others(t) /\ Height(t)' = Height(t) - 1
         /\ Top(t)' \in FrameType /\ Holds(t, Height(t) - 1, Top(t)')
         /\ \A d, h : Holds(t, d, h)' <=> Holds(t, d, h) /\ d < Height(t)
<1> DEFINE s == Tail(stack[t])
           b == Height(t) - 1
<1>1. stack[t] \in Seq(FrameType) /\ stack[t] # <<>> /\ Height(t) = Len(stack[t]) /\ Height(t) \in Nat \ {0}
  BY TopIs DEF TypeOK, Height
<1>2. s \in Seq(FrameType) /\ Len(s) = Height(t) - 1 /\ s # <<>> /\ \A i \in 1 .. Len(s) : s[i] = stack[t][i + 1]
  <2>1. s \in Seq(FrameType) /\ Len(s) = Len(stack[t]) - 1 /\ \A i \in 1 .. Len(stack[t]) - 1 : s[i] = stack[t][i + 1]
    BY <1>1
  <2> HIDE DEF s
  <2>2. s # <<>>
    BY <1>1, <2>1
  <2> QED
    BY <1>1, <2>1, <2>2
<1>3. stack' = [stack EXCEPT ![t] = s]
  BY DEF TypeOK
<1> HIDE DEF s
<1>4. b \in Nat /\ \A d \in 1 .. b : Len(s) + 1 - d \in 1 .. Len(s) /\ Len(s) + 1 - d + 1 = Height(t) + 1 - d
  BY <1>1, <1>2
<1>5. \A d \in 1 .. b : s[Len(s) + 1 - d] = stack[t][Height(t) + 1 - d]
  BY <1>2, <1>4
<1>6. /\ stack' \in [Threads -> Seq(FrameType) \ {<<>>}]
      /\ Others(t) /\ Height(t)' = Len(s) /\ Top(t)' = s[1]
      /\ \A d, h : Holds(t, d, h)' <=> \/ Holds(t, d, h) /\ d <= b
                                       \/ d \in b + 1 .. Len(s) /\ h = s[Len(s) + 1 - d]
  <2>1. b <= Len(s) /\ b <= Height(t)
    BY <1>1, <1>2
  <2>2. s \in Seq(FrameType) /\ s # <<>> /\ b \in Nat
    BY <1>2, <1>4
  <2> HIDE DEF b
  <2> QED
    BY <1>3, <1>5, <2>1, <2>2, StackIs, Zenon
<1>7. \A d, h : Holds(t, d, h)' <=> Holds(t, d, h) /\ d < Height(t)
  <2>1. \A d, h : Holds(t, d, h) => d \in Nat
    BY HoldsIs, <1>1
  <2>2. \A d : ~(d \in b + 1 .. Len(s))
    BY <1>1, <1>2
  <2>3. \A d \in Nat : d <= b <=> d < Height(t)
    BY <1>1
  <2> QED
    BY <1>6, <2>1, <2>2, <2>3
<1>8. Top(t)' \in FrameType /\ Holds(t, Height(t) - 1, Top(t)')
  <2>1. s[1] \in FrameType /\ s[1] = stack[t][2]
    BY <1>1, <1>2
  <2>2. Height(t) - 1 \in 1 .. Len(stack[t]) /\ Len(stack[t]) + 1 - (Height(t) - 1) = 2
    BY <1>1
  <2> QED
    BY <1>6, <2>1, <2>2 DEF Holds
<1> QED
  BY <1>2, <1>6, <1>7, <1>8

LEMMA ReturnAndSwapIs ==
  ASSUME TypeOK, NEW t \in Threads, NEW f \in FrameType, Height(t) > 1, stack' = [stack EXCEPT ![t] = <<f>> \o Tail(Tail(@))]
  PROVE  /\ stack' \in [Threads -> Seq(FrameType) \ {<<>>}] /\ Others(t) /\ Height(t)' = Height(t) - 1 /\ Top(t)' = f
         /\ stack[t][2] \in FrameType /\ Holds(t, Height(t) - 1, stack[t][2])
         /\ \A d, h : Holds(t, d, h)' <=> (Holds(t, d, h) /\ d < Height(t) - 1) \/ (d = Height(t) - 1 /\ h = f)
<1> DEFINE s == <<f>> \o Tail(Tail(stack[t]))
           b == Height(t) - 2
<1>1. stack[t] \in Seq(FrameType) /\ stack[t] # <<>> /\ Height(t) = Len(stack[t]) /\ Height(t) \in Nat \ {0}
  BY TopIs DEF TypeOK, Height
<1>2. s \in Seq(FrameType) /\ Len(s) = Height(t) - 1 /\ s # <<>> /\ s[1] = f /\ \A i \in 2 .. Len(s) : s[i] = stack[t][i + 1]
  <2> DEFINE w == Tail(stack[t])
             r == <<f>> \o Tail(w)
  <2>1. w \in Seq(FrameType) /\ Len(w) = Height(t) - 1 /\ \A i \in 1 .. Height(t) - 1 : w[i] = stack[t][i + 1]
    BY <1>1
  <2>2. s = r
    OBVIOUS
  <2> HIDE DEF w, s
  <2>3. w # <<>>
    BY <1>1, <2>1
  <2>4. r \in Seq(FrameType) /\ Len(r) = Len(w) /\ r[1] = f /\ \A i \in 2 .. Len(w) : r[i] = w[i]
    BY <2>1, <2>3
  <2> HIDE DEF r
  <2>5. r # <<>>
    BY <1>1, <2>1, <2>4
  <2> QED
    BY <1>1, <2>1, <2>2, <2>4, <2>5
<1>3. stack' = [stack EXCEPT ![t] = s]
  BY DEF TypeOK
<1> HIDE DEF s
<1>4. b \in Nat /\ \A d \in 1 .. b : Len(s) + 1 - d \in 2 .. Len(s) /\ Len(s) + 1 - d + 1 = Height(t) + 1 - d
  BY <1>1, <1>2
<1>5. \A d \in 1 .. b : s[Len(s) + 1 - d] = stack[t][Height(t) + 1 - d]
  BY <1>2, <1>4
<1>6. /\ stack' \in [Threads -> Seq(FrameType) \ {<<>>}]
      /\ Others(t) /\ Height(t)' = Len(s) /\ Top(t)' = s[1]
      /\ \A d, h : Holds(t, d, h)' <=> \/ Holds(t, d, h) /\ d <= b
                                       \/ d \in b + 1 .. Len(s) /\ h = s[Len(s) + 1 - d]
  <2>1. b <= Len(s) /\ b <= Height(t)
    BY <1>1, <1>2
  <2>2. s \in Seq(FrameType) /\ s # <<>> /\ b \in Nat
    BY <1>2, <1>4
  <2> HIDE DEF b
  <2> QED
    BY <1>3, <1>5, <2>1, <2>2, StackIs, Zenon
<1>7. \A d, h : Holds(t, d, h)' <=> (Holds(t, d, h) /\ d < Height(t) - 1) \/ (d = Height(t) - 1 /\ h = f)
  <2>1. \A d, h : Holds(t, d, h) => d \in Nat
    BY HoldsIs, <1>1
  <2>2. \A d : d \in b + 1 .. Len(s) <=> d = Height(t) - 1
    BY <1>1, <1>2
  <2>3. \A d \in Nat : d <= b <=> d < Height(t) - 1
    BY <1>1
  <2>4. Len(s) + 1 - (Height(t) - 1) = 1
    BY <1>1, <1>2
  <2> QED
    BY <1>2, <1>6, <2>1, <2>2, <2>3, <2>4, SMTT(40)
<1>8. stack[t][2] \in FrameType /\ Holds(t, Height(t) - 1, stack[t][2])
  <2>1. stack[t][2] \in FrameType
    BY <1>1
  <2>2. Height(t) - 1 \in 1 .. Len(stack[t]) /\ Len(stack[t]) + 1 - (Height(t) - 1) = 2
    BY <1>1
  <2> QED
    BY <2>1, <2>2 DEF Holds
<1> QED
  BY <1>2, <1>6, <1>7, <1>8

-----------------------------------------------------------------------------
(* What only grows, and what is said of frames *)

Grown ==
  /\ Enqueued \subseteq Enqueued' /\ joined \subseteq joined' /\ flags \subseteq flags' /\ (stop => stop')
  /\ \A l \in Loops : (Done(l) => Done(l)') /\ claimed[l] \subseteq claimed'[l]

LEMMA EnqueuedIs == ASSUME TypeOK PROVE Enqueued \subseteq Loops /\ \A i \in 1 .. Len(enqueued) : enqueued[i] \in Enqueued
BY DEF TypeOK, Enqueued, Range

LEMMA FrameGrows == ASSUME TypeOK, Grown, NEW f, FrameOK(f) PROVE FrameOK(f)'
<1>1. Satisfied(f) /\ f.at = "leave" => Satisfied(f)'
  <2>1. f.at = "leave" => f.in \in {"serve", "join", "await"}
    BY DEF FrameOK
  <2>2. f.in = "join" => f.on \in Loops
    BY EnqueuedIs DEF FrameOK
  <2> QED
    BY <2>1, <2>2 DEF Satisfied, Grown
<1>2. f.completed => Done(f.on)'
  BY EnqueuedIs DEF FrameOK, Grown
<1>3. f.on \in Enqueued => f.on \in Enqueued'
  BY DEF Grown
<1> QED
  BY <1>1, <1>2, <1>3 DEF FrameOK, Runs, BodyOf, Made

LEMMA CallsGrow == ASSUME Grown, NEW c, Called(c) PROVE Called(c)'
BY DEF Grown, Called

LEMMA TopGrows == ASSUME Grown, NEW f, TopOK(f) PROVE TopOK(f)'
BY CallsGrow DEF TopOK, Runs, BodyOf, Made

LEMMA LinkGrows ==
  ASSUME Grown, NEW f, NEW g, NEW h, LinkOK(f, g), h.in = g.in, h.on = g.on
  PROVE  LinkOK(f, h)'
<1>1. Runs(f) => \A k \in 1 .. Made(f) :
        Called(BodyOf(f)[k])' \/ (k = Made(f) /\ h.in = BodyOf(f)[k].do /\ h.on = BodyOf(f)[k].on)
  BY CallsGrow DEF LinkOK
<1> QED
  BY <1>1 DEF LinkOK, Runs, BodyOf, Made

\* The frames of the other threads are as good as they were.
LEMMA OthersKeep ==
  ASSUME TypeOK, StacksOK, NEW t \in Threads, Grown, Others(t), NEW u \in Threads \ {t}
  PROVE  /\ \A d, f : Holds(u, d, f)' => FrameOK(f)' /\ (d = 1 => f.in \in {"script", "serve"})
         /\ \A d, f, g : Holds(u, d, f)' /\ Holds(u, d + 1, g)' => LinkOK(f, g)'
         /\ \A f : f = Top(u)' => TopOK(f)'
<1>1. \A d, f : Holds(u, d, f)' => Holds(u, d, f)
  BY DEF Others
<1>2. \A d, f : Holds(u, d, f) => FrameOK(f)' /\ (d = 1 => f.in \in {"script", "serve"})
  BY FrameGrows DEF StacksOK, FramesOK
<1>3. \A d, f, g : Holds(u, d, f) /\ Holds(u, d + 1, g) => LinkOK(f, g)'
  BY LinkGrows DEF StacksOK, LinksOK
<1>4. \A f : f = Top(u) => TopOK(f)'
  BY TopGrows DEF StacksOK, TopsOK
<1>5. Top(u)' = Top(u)
  BY DEF Others
<1> QED
  BY <1>1, <1>2, <1>3, <1>4, <1>5

\* To be shown of the thread that moves.
LEMMA FramesByThread ==
  ASSUME TypeOK, StacksOK, NEW t \in Threads, Grown, Others(t),
         \A d, f : Holds(t, d, f)' => FrameOK(f)' /\ (d = 1 => f.in \in {"script", "serve"}),
         \A d, f, g : Holds(t, d, f)' /\ Holds(t, d + 1, g)' => LinkOK(f, g)',
         \A f : f = Top(t)' => TopOK(f)'
  PROVE  FramesOK' /\ LinksOK' /\ TopsOK'
<1>1. FramesOK'
  <2>1. ASSUME NEW u \in Threads PROVE \A d, f : Holds(u, d, f)' => FrameOK(f)' /\ (d = 1 => f.in \in {"script", "serve"})
    BY OthersKeep
  <2> QED
    BY <2>1 DEF FramesOK
<1>2. LinksOK'
  <2>1. ASSUME NEW u \in Threads PROVE \A d, f, g : Holds(u, d, f)' /\ Holds(u, d + 1, g)' => LinkOK(f, g)'
    BY OthersKeep
  <2> QED
    BY <2>1 DEF LinksOK
<1>3. TopsOK'
  <2>1. ASSUME NEW u \in Threads PROVE \A f : f = Top(u)' => TopOK(f)'
    BY OthersKeep
  <2> QED
    BY <2>1 DEF TopsOK
<1> QED
  BY <1>1, <1>2, <1>3

\* What a thread holds below its top, and the top itself.
LEMMA TopFacts ==
  ASSUME TypeOK, StacksOK, NEW t \in Threads
  PROVE  /\ \A g : g = Top(t) => FrameOK(g) /\ TopOK(g) /\ (Height(t) = 1 => g.in \in {"script", "serve"})
         /\ \A d, f : Holds(t, d, f) /\ d < Height(t) => d \in Nat \ {0}
         /\ \A d, f, g : g = Top(t) /\ Holds(t, d, f) /\ d + 1 = Height(t) => LinkOK(f, g)
<1>1. Holds(t, Height(t), Top(t)) /\ Height(t) \in Nat \ {0}
  BY TopIs
<1>2. \A d, f : Holds(t, d, f) => d \in 1 .. Height(t)
  BY HoldsIs
<1> QED
  BY <1>1, <1>2 DEF StacksOK, FramesOK, LinksOK, TopsOK

LEMMA SwapKeeps ==
  ASSUME TypeOK, StacksOK, NEW t \in Threads, NEW f \in FrameType, NEW g, g = Top(t), Grown,
         stack' = [stack EXCEPT ![t] = <<f>> \o Tail(@)],
         f.in = g.in, f.on = g.on, FrameOK(f)', TopOK(f)'
  PROVE  FramesOK' /\ LinksOK' /\ TopsOK'
<1>1. Others(t) /\ Top(t)' = f /\ Height(t) \in Nat \ {0}
      /\ \A d, h : Holds(t, d, h)' <=> (Holds(t, d, h) /\ d < Height(t)) \/ (d = Height(t) /\ h = f)
  BY SwapIs, TopIs
<1>2. \A d, h : Holds(t, d, h)' => FrameOK(h)' /\ (d = 1 => h.in \in {"script", "serve"})
  <2>1. \A d, h : Holds(t, d, h) => FrameOK(h)' /\ (d = 1 => h.in \in {"script", "serve"})
    BY FrameGrows DEF StacksOK, FramesOK
  <2>2. Height(t) = 1 => f.in \in {"script", "serve"}
    BY TopFacts
  <2> QED
    BY <1>1, <2>1, <2>2
<1>3. ASSUME NEW d, NEW h, NEW k, Holds(t, d, h)', Holds(t, d + 1, k)' PROVE LinkOK(h, k)'
  <2>1. d \in Nat
    BY <1>1, <1>3, TopFacts
  <2>2. CASE d + 1 < Height(t)
    <3>1. Holds(t, d, h) /\ Holds(t, d + 1, k)
      BY <1>1, <1>3, <2>1, <2>2
    <3> QED
      BY <3>1, LinkGrows DEF StacksOK, LinksOK
  <2>3. CASE d + 1 = Height(t)
    <3>1. Holds(t, d, h) /\ k = f
      BY <1>1, <1>3, <2>1, <2>3
    <3>2. LinkOK(h, g)
      BY <2>3, <3>1, TopFacts
    <3> QED
      BY <3>1, <3>2, LinkGrows
  <2>4. CASE d >= Height(t)
    BY <1>1, <1>3, <2>1, <2>4
  <2> QED
    BY <1>1, <2>1, <2>2, <2>3, <2>4
<1> QED
  BY <1>1, <1>2, <1>3, FramesByThread

LEMMA CallKeeps ==
  ASSUME TypeOK, StacksOK, NEW t \in Threads, NEW f \in FrameType, NEW k \in FrameType, NEW g, g = Top(t), Grown,
         stack' = [stack EXCEPT ![t] = <<k, f>> \o Tail(@)],
         f.in = g.in, f.on = g.on, FrameOK(f)', FrameOK(k)', LinkOK(f, k)', TopOK(k)'
  PROVE  FramesOK' /\ LinksOK' /\ TopsOK'
<1>1. Others(t) /\ Top(t)' = k /\ Height(t) \in Nat \ {0}
      /\ \A d, h : Holds(t, d, h)' <=> \/ Holds(t, d, h) /\ d < Height(t)
                                       \/ d = Height(t) /\ h = f
                                       \/ d = Height(t) + 1 /\ h = k
  BY CallIs, TopIs
<1>2. \A d, h : Holds(t, d, h)' => FrameOK(h)' /\ (d = 1 => h.in \in {"script", "serve"})
  <2>1. \A d, h : Holds(t, d, h) => FrameOK(h)' /\ (d = 1 => h.in \in {"script", "serve"})
    BY FrameGrows DEF StacksOK, FramesOK
  <2>2. Height(t) = 1 => f.in \in {"script", "serve"}
    BY TopFacts
  <2> QED
    BY <1>1, <2>1, <2>2
<1>3. ASSUME NEW d, NEW h, NEW j, Holds(t, d, h)', Holds(t, d + 1, j)' PROVE LinkOK(h, j)'
  <2>1. d \in Nat
    BY <1>1, <1>3, TopFacts
  <2>2. CASE d + 1 < Height(t)
    <3>1. Holds(t, d, h) /\ Holds(t, d + 1, j)
      BY <1>1, <1>3, <2>1, <2>2
    <3> QED
      BY <3>1, LinkGrows DEF StacksOK, LinksOK
  <2>3. CASE d + 1 = Height(t)
    <3>1. Holds(t, d, h) /\ j = f
      BY <1>1, <1>3, <2>1, <2>3
    <3>2. LinkOK(h, g)
      BY <2>3, <3>1, TopFacts
    <3> QED
      BY <3>1, <3>2, LinkGrows
  <2>4. CASE d = Height(t)
    <3>1. h = f /\ j = k
      BY <1>1, <1>3, <2>1, <2>4, TopFacts
    <3> QED
      BY <3>1
  <2>5. CASE d > Height(t)
    BY <1>1, <1>3, <2>1, <2>5, TopFacts
  <2> QED
    BY <1>1, <2>1, <2>2, <2>3, <2>4, <2>5
<1> QED
  BY <1>1, <1>2, <1>3, FramesByThread

LEMMA CallTwiceKeeps ==
  ASSUME TypeOK, StacksOK, NEW t \in Threads, NEW f \in FrameType, NEW k \in FrameType, NEW m \in FrameType, NEW g, g = Top(t), Grown,
         stack' = [stack EXCEPT ![t] = <<m, k, f>> \o Tail(@)],
         f.in = g.in, f.on = g.on, FrameOK(f)', FrameOK(k)', FrameOK(m)', LinkOK(f, k)', LinkOK(k, m)', TopOK(m)'
  PROVE  FramesOK' /\ LinksOK' /\ TopsOK'
<1>1. Others(t) /\ Top(t)' = m /\ Height(t) \in Nat \ {0}
      /\ \A d, h : Holds(t, d, h)' <=> \/ Holds(t, d, h) /\ d < Height(t)
                                       \/ d = Height(t) /\ h = f
                                       \/ d = Height(t) + 1 /\ h = k
                                       \/ d = Height(t) + 2 /\ h = m
  <2>1. Height(t) \in Nat \ {0}
    BY TopIs
  <2>2. Others(t) /\ Top(t)' = m
    BY CallTwiceIs
  <2>3. \A d, h : Holds(t, d, h)' <=> \/ Holds(t, d, h) /\ d < Height(t)
                                      \/ d = Height(t) /\ h = f
                                      \/ d = Height(t) + 1 /\ h = k
                                      \/ d = Height(t) + 2 /\ h = m
    BY CallTwiceIs
  <2> QED
    BY <2>1, <2>2, <2>3
<1>2. \A d, h : Holds(t, d, h)' => FrameOK(h)' /\ (d = 1 => h.in \in {"script", "serve"})
  <2>1. \A d, h : Holds(t, d, h) => FrameOK(h)' /\ (d = 1 => h.in \in {"script", "serve"})
    BY FrameGrows DEF StacksOK, FramesOK
  <2>2. Height(t) = 1 => f.in \in {"script", "serve"}
    BY TopFacts
  <2> QED
    BY <1>1, <2>1, <2>2
<1>3. ASSUME NEW d, NEW h, NEW j, Holds(t, d, h)', Holds(t, d + 1, j)' PROVE LinkOK(h, j)'
  <2>1. d \in Nat
    BY <1>1, <1>3, TopFacts
  <2>2. CASE d + 1 < Height(t)
    <3>1. Holds(t, d, h) /\ Holds(t, d + 1, j)
      BY <1>1, <1>3, <2>1, <2>2
    <3> QED
      BY <3>1, LinkGrows DEF StacksOK, LinksOK
  <2>3. CASE d + 1 = Height(t)
    <3>1. Holds(t, d, h) /\ j = f
      BY <1>1, <1>3, <2>1, <2>3
    <3>2. LinkOK(h, g)
      BY <2>3, <3>1, TopFacts
    <3> QED
      BY <3>1, <3>2, LinkGrows
  <2>4. CASE d = Height(t)
    <3>1. h = f /\ j = k
      BY <1>1, <1>3, <2>1, <2>4, TopFacts
    <3> QED
      BY <3>1
  <2>5. CASE d = Height(t) + 1
    <3>1. h = k /\ j = m
      BY <1>1, <1>3, <2>1, <2>5, TopFacts
    <3> QED
      BY <3>1
  <2>6. CASE d > Height(t) + 1
    BY <1>1, <1>3, <2>1, <2>6, TopFacts
  <2> QED
    BY <1>1, <2>1, <2>2, <2>3, <2>4, <2>5, <2>6
<1> QED
  BY <1>1, <1>2, <1>3, FramesByThread

LEMMA ReturnKeeps ==
  ASSUME TypeOK, StacksOK, NEW t \in Threads, NEW g, g = Top(t), Grown, Height(t) > 1,
         stack' = [stack EXCEPT ![t] = Tail(@)],
         \A c : c.do = g.in /\ c.on = g.on => Called(c)'
  PROVE  FramesOK' /\ LinksOK' /\ TopsOK'
<1>1. Others(t) /\ Holds(t, Height(t) - 1, Top(t)') /\ Height(t) \in Nat \ {0}
      /\ \A d, h : Holds(t, d, h)' <=> Holds(t, d, h) /\ d < Height(t)
  BY ReturnIs, TopIs
<1>2. \A d, h : Holds(t, d, h)' => FrameOK(h)' /\ (d = 1 => h.in \in {"script", "serve"})
  <2>1. \A d, h : Holds(t, d, h) => FrameOK(h)' /\ (d = 1 => h.in \in {"script", "serve"})
    BY FrameGrows DEF StacksOK, FramesOK
  <2> QED
    BY <1>1, <2>1
<1>3. \A d, h, j : Holds(t, d, h)' /\ Holds(t, d + 1, j)' => LinkOK(h, j)'
  BY <1>1, LinkGrows DEF StacksOK, LinksOK
<1>4. ASSUME NEW h, h = Top(t)' PROVE TopOK(h)'
  <2>1. LinkOK(h, g)
    <3>1. Holds(t, Height(t) - 1, h) /\ Height(t) - 1 + 1 = Height(t)
      BY <1>1, <1>4
    <3> QED
      BY <3>1, TopFacts
  <2>2. Runs(h) => \A k \in 1 .. Made(h) : Called(BodyOf(h)[k])'
    BY <2>1, CallsGrow DEF LinkOK
  <2> QED
    BY <2>2 DEF TopOK, Runs, BodyOf, Made
<1> QED
  BY <1>1, <1>2, <1>3, <1>4, FramesByThread

LEMMA ReturnAndSwapKeeps ==
  ASSUME TypeOK, StacksOK, NEW t \in Threads, NEW f \in FrameType, NEW g, Holds(t, Height(t) - 1, g), Grown, Height(t) > 1,
         stack' = [stack EXCEPT ![t] = <<f>> \o Tail(Tail(@))],
         f.in = g.in, f.on = g.on, FrameOK(f)', TopOK(f)'
  PROVE  FramesOK' /\ LinksOK' /\ TopsOK'
<1>1. Others(t) /\ Top(t)' = f /\ Height(t) \in Nat \ {0}
      /\ \A d, h : Holds(t, d, h)' <=> (Holds(t, d, h) /\ d < Height(t) - 1) \/ (d = Height(t) - 1 /\ h = f)
  BY ReturnAndSwapIs, TopIs
<1>2. \A d, h : Holds(t, d, h)' => FrameOK(h)' /\ (d = 1 => h.in \in {"script", "serve"})
  <2>1. \A d, h : Holds(t, d, h) => FrameOK(h)' /\ (d = 1 => h.in \in {"script", "serve"})
    BY FrameGrows DEF StacksOK, FramesOK
  <2>2. Height(t) - 1 = 1 => f.in \in {"script", "serve"}
    BY <2>1
  <2>3. ASSUME NEW d, NEW h, Holds(t, d, h)' PROVE FrameOK(h)' /\ (d = 1 => h.in \in {"script", "serve"})
    <3>1. CASE Holds(t, d, h)
      BY <2>1, <3>1
    <3>2. CASE d = Height(t) - 1 /\ h = f
      BY <2>2, <3>2
    <3> QED
      BY <1>1, <2>3, <3>1, <3>2
  <2> QED
    BY <2>3
<1>3. ASSUME NEW d, NEW h, NEW j, Holds(t, d, h)', Holds(t, d + 1, j)' PROVE LinkOK(h, j)'
  <2>1. d \in Nat
    <3>1. CASE Holds(t, d, h)
      BY <1>1, <3>1, HoldsIs
    <3>2. CASE d = Height(t) - 1
      BY <1>1, <3>2
    <3> QED
      BY <1>1, <1>3, <3>1, <3>2
  <2>2. CASE d + 1 < Height(t) - 1
    <3>1. Holds(t, d, h) /\ Holds(t, d + 1, j)
      BY <1>1, <1>3, <2>1, <2>2
    <3> QED
      BY <3>1, LinkGrows DEF StacksOK, LinksOK
  <2>3. CASE d + 1 = Height(t) - 1
    <3>1. Holds(t, d, h) /\ j = f
      BY <1>1, <1>3, <2>1, <2>3
    <3>2. LinkOK(h, g)
      BY <2>3, <3>1 DEF StacksOK, LinksOK
    <3> QED
      BY <3>1, <3>2, LinkGrows
  <2>4. CASE d >= Height(t) - 1
    BY <1>1, <1>3, <2>1, <2>4
  <2> QED
    BY <1>1, <2>1, <2>2, <2>3, <2>4
<1> QED
  BY <1>1, <1>2, <1>3, FramesByThread

-----------------------------------------------------------------------------
(* What runs, and who is registered *)

LEMMA RunningKept ==
  ASSUME TypeOK, StacksOK, claimed' = claimed, performed' = performed,
         \A u \in Threads : \A d, f : Holds(u, d, f)' /\ Runs(f) =>
           \E g : Holds(u, d, g) /\ Runs(g) /\ g.on = f.on /\ g.iteration = f.iteration
  PROVE  RunningOK'
<1>1. \A u \in Threads : \A d, f :
        Holds(u, d, f)' /\ Runs(f) => f.iteration \in claimed[f.on] /\ f.iteration \notin performed[f.on]
  BY DEF StacksOK, RunningOK
<1>2. ASSUME NEW u \in Threads, NEW v \in Threads, NEW d, NEW e, NEW f, NEW g,
             Holds(u, d, f)', Holds(v, e, g)', Runs(f), Runs(g), f.on = g.on, f.iteration = g.iteration
      PROVE  u = v /\ d = e
  <2>1. PICK h : Holds(u, d, h) /\ Runs(h) /\ h.on = f.on /\ h.iteration = f.iteration
    BY <1>2
  <2>2. PICK k : Holds(v, e, k) /\ Runs(k) /\ k.on = g.on /\ k.iteration = g.iteration
    BY <1>2
  <2> QED
    BY <1>2, <2>1, <2>2 DEF StacksOK, RunningOK
<1> QED
  BY <1>1, <1>2 DEF RunningOK, Runs

LEMMA HelpersKept ==
  ASSUME HelpersOK, helpers' = helpers, \A u \in Threads : \A d \in Nat : Waits(u, d)' <=> Waits(u, d)
  PROVE  HelpersOK'
<1>1. Helping' = Helping
  BY DEF Helping
<1> QED
  BY <1>1 DEF HelpersOK

LEMMA OthersWait ==
  ASSUME NEW t \in Threads, Others(t), NEW u \in Threads \ {t}
  PROVE  \A d : Waits(u, d)' <=> Waits(u, d)
BY DEF Waits, Others

\* When the top frame changes.
LEMMA SwapWaits ==
  ASSUME TypeOK, NEW t \in Threads, NEW f \in FrameType, NEW g, g = Top(t), stack' = [stack EXCEPT ![t] = <<f>> \o Tail(@)]
  PROVE  /\ Waits(t, Height(t)) <=> Registered(g)
         /\ \A u \in Threads : \A d \in Nat :
              Waits(u, d)' <=> (u = t /\ d = Height(t) /\ Registered(f)) \/ (Waits(u, d) /\ <<u, d>> # <<t, Height(t)>>)
<1>1. Others(t) /\ \A d, h : Holds(t, d, h)' <=> (Holds(t, d, h) /\ d < Height(t)) \/ (d = Height(t) /\ h = f)
  BY SwapIs
<1>2. Holds(t, Height(t), g) /\ \A h : Holds(t, Height(t), h) => h = g
  BY TopIs, HoldsIs
<1>3. \A d, h : Holds(t, d, h) => d \in Nat /\ d <= Height(t)
  BY HoldsIs, TopIs
<1>4. Waits(t, Height(t)) <=> Registered(g)
  BY <1>2, TopIs DEF Waits
<1>5. ASSUME NEW n \in Nat, n = Height(t) PROVE Waits(t, n)' <=> Registered(f)
  <2>1. \A h \in FrameType : Holds(t, n, h)' <=> h = f
    BY <1>1, <1>5
  <2> QED
    BY <2>1 DEF Waits
<1>6. \A u \in Threads \ {t} : \A d : Waits(u, d)' <=> Waits(u, d)
  BY <1>1, OthersWait
<1>7. ASSUME NEW d \in Nat, d # Height(t) PROVE Waits(t, d)' <=> Waits(t, d)
  <2>1. \A h : Holds(t, d, h)' <=> Holds(t, d, h)
    BY <1>1, <1>3, <1>7, TopIs
  <2> QED
    BY <2>1 DEF Waits
<1>8. ASSUME NEW u \in Threads, NEW d \in Nat
      PROVE  Waits(u, d)' <=> (u = t /\ d = Height(t) /\ Registered(f)) \/ (Waits(u, d) /\ <<u, d>> # <<t, Height(t)>>)
  BY <1>5, <1>6, <1>7
<1> QED
  BY <1>4, <1>8

\* The steps that leave the loops and the number of helpers alone.
LEMMA SwapStep ==
  ASSUME TypeOK, StacksOK, HelpersOK, NEW t \in Threads, NEW f \in FrameType, NEW g, g = Top(t), Grown,
         stack' = [stack EXCEPT ![t] = <<f>> \o Tail(@)],
         f.in = g.in, f.on = g.on, FrameOK(f)', TopOK(f)', UNCHANGED <<claimed, performed, helpers>>,
         Runs(f) => Runs(g) /\ f.iteration = g.iteration, Registered(f) <=> Registered(g)
  PROVE  StacksOK' /\ HelpersOK'
<1>1. Others(t) /\ \A d, h : Holds(t, d, h)' <=> (Holds(t, d, h) /\ d < Height(t)) \/ (d = Height(t) /\ h = f)
  BY SwapIs
<1>2. Holds(t, Height(t), g)
  BY TopIs
<1>3. FramesOK' /\ LinksOK' /\ TopsOK'
  BY SwapKeeps
<1>4. RunningOK'
  <2>1. ASSUME NEW u \in Threads, NEW d, NEW h, Holds(u, d, h)', Runs(h)
        PROVE  \E k : Holds(u, d, k) /\ Runs(k) /\ k.on = h.on /\ k.iteration = h.iteration
    <3>1. CASE Holds(u, d, h)
      BY <2>1, <3>1
    <3>2. CASE u = t /\ d = Height(t) /\ h = f
      BY <1>2, <2>1, <3>2
    <3> QED
      BY <1>1, <2>1, <3>1, <3>2 DEF Others
  <2> QED
    BY <2>1, RunningKept
<1>5. HelpersOK'
  <2>1. ASSUME NEW u \in Threads, NEW d \in Nat PROVE Waits(u, d)' <=> Waits(u, d)
    <3>1. /\ Waits(t, Height(t)) <=> Registered(g)
          /\ Waits(u, d)' <=> (u = t /\ d = Height(t) /\ Registered(f)) \/ (Waits(u, d) /\ <<u, d>> # <<t, Height(t)>>)
      BY SwapWaits
    <3> QED
      BY <3>1
  <2> QED
    BY <2>1, HelpersKept
<1> QED
  BY <1>3, <1>4, <1>5 DEF StacksOK

LEMMA CallStep ==
  ASSUME TypeOK, StacksOK, HelpersOK, NEW t \in Threads, NEW f \in FrameType, NEW k \in FrameType, NEW g, g = Top(t), Grown,
         stack' = [stack EXCEPT ![t] = <<k, f>> \o Tail(@)],
         f.in = g.in, f.on = g.on, FrameOK(f)', FrameOK(k)', LinkOK(f, k)', TopOK(k)',
         UNCHANGED <<claimed, performed, helpers>>,
         Runs(f) => Runs(g) /\ f.iteration = g.iteration, Registered(f) <=> Registered(g),
         ~Runs(k), ~Registered(k)
  PROVE  StacksOK' /\ HelpersOK'
<1>1. Others(t)
  BY CallIs
<1>2. \A d, h : Holds(t, d, h)' <=> \/ Holds(t, d, h) /\ d < Height(t)
                                    \/ d = Height(t) /\ h = f
                                    \/ d = Height(t) + 1 /\ h = k
  BY CallIs
<1>3. Holds(t, Height(t), g) /\ \A h : Holds(t, Height(t), h) => h = g
  BY TopIs, HoldsIs
<1>4. Height(t) \in Nat /\ \A d, h : Holds(t, d, h) => d \in Nat /\ d <= Height(t)
  BY HoldsIs, TopIs
<1>5. FramesOK' /\ LinksOK' /\ TopsOK'
  BY CallKeeps, Zenon
<1>6. RunningOK'
  <2>1. ASSUME NEW u \in Threads, NEW d, NEW h, Holds(u, d, h)', Runs(h)
        PROVE  \E j : Holds(u, d, j) /\ Runs(j) /\ j.on = h.on /\ j.iteration = h.iteration
    <3>1. CASE Holds(u, d, h)
      BY <2>1, <3>1
    <3>2. CASE u = t /\ d = Height(t) /\ h = f
      BY <1>3, <2>1, <3>2
    <3> QED
      BY <1>1, <1>2, <2>1, <3>1, <3>2 DEF Others
  <2> QED
    BY <2>1, RunningKept
<1>7. HelpersOK'
  <2>1. ASSUME NEW d \in Nat PROVE Waits(t, d)' <=> Waits(t, d)
    <3>1. CASE d = Height(t)
      <4>1. Waits(t, d)' <=> Registered(f)
        <5>1. \A h \in FrameType : Holds(t, d, h)' <=> h = f
          <6>1. d = Height(t) /\ ~(d < Height(t)) /\ d # Height(t) + 1 /\ d # Height(t) + 2
            BY <1>4, <3>1
          <6> QED
            BY <1>2, <6>1
        <5> QED
          BY <5>1 DEF Waits
      <4>2. Waits(t, d) <=> Registered(g)
        BY <1>3, <3>1, TopIs DEF Waits
      <4> QED
        BY <4>1, <4>2
    <3>2. CASE d > Height(t)
      <4>1. \A h \in FrameType : ~Holds(t, d, h) /\ (Holds(t, d, h)' => ~Registered(h))
        BY <1>2, <1>4, <3>2
      <4> QED
        BY <4>1 DEF Waits
    <3>3. CASE d < Height(t)
      <4>1. \A h : Holds(t, d, h)' <=> Holds(t, d, h)
        <5>1. d < Height(t) /\ d # Height(t) /\ d # Height(t) + 1 /\ d # Height(t) + 2
          BY <1>4, <3>3
        <5> QED
          BY <1>2, <5>1
      <4> QED
        BY <4>1 DEF Waits
    <3> QED
      BY <1>4, <3>1, <3>2, <3>3
  <2> QED
    BY <1>1, <2>1, OthersWait, HelpersKept
<1> QED
  BY <1>5, <1>6, <1>7 DEF StacksOK

LEMMA CallTwiceStep ==
  ASSUME TypeOK, StacksOK, HelpersOK, NEW t \in Threads, NEW f \in FrameType, NEW k \in FrameType, NEW m \in FrameType, NEW g, g = Top(t), Grown,
         stack' = [stack EXCEPT ![t] = <<m, k, f>> \o Tail(@)],
         f.in = g.in, f.on = g.on, FrameOK(f)', FrameOK(k)', FrameOK(m)', LinkOK(f, k)', LinkOK(k, m)', TopOK(m)',
         UNCHANGED <<claimed, performed, helpers>>,
         Runs(f) => Runs(g) /\ f.iteration = g.iteration, Registered(f) <=> Registered(g),
         ~Runs(k), ~Registered(k), ~Runs(m), ~Registered(m)
  PROVE  StacksOK' /\ HelpersOK'
<1>1. Others(t)
  BY CallTwiceIs
<1>2. \A d, h : Holds(t, d, h)' <=> \/ Holds(t, d, h) /\ d < Height(t)
                                    \/ d = Height(t) /\ h = f
                                    \/ d = Height(t) + 1 /\ h = k
                                    \/ d = Height(t) + 2 /\ h = m
  BY CallTwiceIs
<1>3. Holds(t, Height(t), g) /\ \A h : Holds(t, Height(t), h) => h = g
  BY TopIs, HoldsIs
<1>4. Height(t) \in Nat /\ \A d, h : Holds(t, d, h) => d \in Nat /\ d <= Height(t)
  BY HoldsIs, TopIs
<1>5. FramesOK' /\ LinksOK' /\ TopsOK'
  BY CallTwiceKeeps, Zenon
<1>6. RunningOK'
  <2>1. ASSUME NEW u \in Threads, NEW d, NEW h, Holds(u, d, h)', Runs(h)
        PROVE  \E j : Holds(u, d, j) /\ Runs(j) /\ j.on = h.on /\ j.iteration = h.iteration
    <3>1. CASE Holds(u, d, h)
      BY <2>1, <3>1
    <3>2. CASE u = t /\ d = Height(t) /\ h = f
      BY <1>3, <2>1, <3>2
    <3> QED
      BY <1>1, <1>2, <2>1, <3>1, <3>2 DEF Others
  <2> QED
    BY <2>1, RunningKept
<1>7. HelpersOK'
  <2>1. ASSUME NEW d \in Nat PROVE Waits(t, d)' <=> Waits(t, d)
    <3>1. CASE d = Height(t)
      <4>1. Waits(t, d)' <=> Registered(f)
        <5>1. \A h \in FrameType : Holds(t, d, h)' <=> h = f
          <6>1. d = Height(t) /\ ~(d < Height(t)) /\ d # Height(t) + 1 /\ d # Height(t) + 2
            BY <1>4, <3>1
          <6> QED
            BY <1>2, <6>1
        <5> QED
          BY <5>1 DEF Waits
      <4>2. Waits(t, d) <=> Registered(g)
        BY <1>3, <3>1, TopIs DEF Waits
      <4> QED
        BY <4>1, <4>2
    <3>2. CASE d > Height(t)
      <4>1. \A h \in FrameType : ~Holds(t, d, h) /\ (Holds(t, d, h)' => ~Registered(h))
        BY <1>2, <1>4, <3>2
      <4> QED
        BY <4>1 DEF Waits
    <3>3. CASE d < Height(t)
      <4>1. \A h : Holds(t, d, h)' <=> Holds(t, d, h)
        <5>1. d < Height(t) /\ d # Height(t) /\ d # Height(t) + 1 /\ d # Height(t) + 2
          BY <1>4, <3>3
        <5> QED
          BY <1>2, <5>1
      <4> QED
        BY <4>1 DEF Waits
    <3> QED
      BY <1>4, <3>1, <3>2, <3>3
  <2> QED
    BY <1>1, <2>1, OthersWait, HelpersKept
<1> QED
  BY <1>5, <1>6, <1>7 DEF StacksOK

LEMMA ReturnStep ==
  ASSUME TypeOK, StacksOK, NEW t \in Threads, NEW g, g = Top(t), Grown, Height(t) > 1,
         stack' = [stack EXCEPT ![t] = Tail(@)],
         \A c : c.do = g.in /\ c.on = g.on => Called(c)', UNCHANGED <<claimed, performed>>
  PROVE  /\ StacksOK'
         /\ \A u \in Threads : \A d \in Nat : Waits(u, d)' <=> Waits(u, d) /\ <<u, d>> # <<t, Height(t)>>
<1>1. Others(t) /\ \A d, h : Holds(t, d, h)' <=> Holds(t, d, h) /\ d < Height(t)
  BY ReturnIs
<1>2. Height(t) \in Nat /\ \A d, h : Holds(t, d, h) => d \in Nat /\ d <= Height(t)
  BY HoldsIs, TopIs
<1>3. FramesOK' /\ LinksOK' /\ TopsOK'
  BY ReturnKeeps
<1>4. RunningOK'
  <2>1. ASSUME NEW u \in Threads, NEW d, NEW h, Holds(u, d, h)', Runs(h)
        PROVE  \E j : Holds(u, d, j) /\ Runs(j) /\ j.on = h.on /\ j.iteration = h.iteration
    BY <1>1, <2>1 DEF Others
  <2> QED
    BY <2>1, RunningKept
<1>5. ASSUME NEW d \in Nat PROVE Waits(t, d)' <=> Waits(t, d) /\ d # Height(t)
  <2>1. \A h : Holds(t, d, h)' <=> Holds(t, d, h) /\ d # Height(t)
    BY <1>1, <1>2
  <2> QED
    BY <2>1 DEF Waits
<1>6. \A u \in Threads \ {t} : \A d : Waits(u, d)' <=> Waits(u, d)
  BY <1>1, OthersWait
<1>7. ASSUME NEW u \in Threads, NEW d \in Nat
      PROVE  Waits(u, d)' <=> Waits(u, d) /\ <<u, d>> # <<t, Height(t)>>
  BY <1>5, <1>6
<1> QED
  BY <1>3, <1>4, <1>7 DEF StacksOK

LEMMA ReturnAndSwapStep ==
  ASSUME TypeOK, StacksOK, HelpersOK, NEW t \in Threads, NEW f \in FrameType, NEW g, NEW j, j = Top(t), Holds(t, Height(t) - 1, g),
         Grown, Height(t) > 1,
         stack' = [stack EXCEPT ![t] = <<f>> \o Tail(Tail(@))],
         f.in = g.in, f.on = g.on, FrameOK(f)', TopOK(f)', UNCHANGED <<claimed, performed, helpers>>,
         ~Runs(f), Registered(f) <=> Registered(g), ~Registered(j)
  PROVE  StacksOK' /\ HelpersOK'
<1>1. Others(t) /\ \A d, h : Holds(t, d, h)' <=> (Holds(t, d, h) /\ d < Height(t) - 1) \/ (d = Height(t) - 1 /\ h = f)
  BY ReturnAndSwapIs
<1>2. Holds(t, Height(t), j) /\ \A h : Holds(t, Height(t), h) => h = j
  BY TopIs, HoldsIs
<1>3. Height(t) \in Nat /\ \A d, h : Holds(t, d, h) => h \in FrameType /\ d \in Nat /\ d <= Height(t)
  BY HoldsIs, TopIs
<1>4. FramesOK' /\ LinksOK' /\ TopsOK'
  BY ReturnAndSwapKeeps
<1>5. RunningOK'
  <2>1. ASSUME NEW u \in Threads, NEW d, NEW h, Holds(u, d, h)', Runs(h)
        PROVE  \E k : Holds(u, d, k) /\ Runs(k) /\ k.on = h.on /\ k.iteration = h.iteration
    BY <1>1, <2>1 DEF Others
  <2> QED
    BY <2>1, RunningKept
<1>6. HelpersOK'
  <2>1. ASSUME NEW d \in Nat PROVE Waits(t, d)' <=> Waits(t, d)
    <3>1. CASE d = Height(t) - 1
      <4>1. Waits(t, d)' <=> Registered(f)
        <5>1. \A h \in FrameType : Holds(t, d, h)' <=> h = f
          BY <1>1, <1>3, <3>1
        <5> QED
          BY <5>1 DEF Waits
      <4>2. Waits(t, d) <=> Registered(g)
        <5>1. \A h : Holds(t, d, h) => h = g
          BY <3>1, HoldsIs
        <5> QED
          BY <1>3, <3>1, <5>1 DEF Waits
      <4> QED
        BY <4>1, <4>2
    <3>2. CASE d >= Height(t)
      <4>1. \A h \in FrameType : ~Holds(t, d, h)' /\ (Holds(t, d, h) => ~Registered(h))
        BY <1>1, <1>2, <1>3, <3>2
      <4> QED
        BY <4>1 DEF Waits
    <3>3. CASE d < Height(t) - 1
      <4>1. \A h : Holds(t, d, h)' <=> Holds(t, d, h)
        BY <1>1, <1>3, <3>3
      <4> QED
        BY <4>1 DEF Waits
    <3> QED
      BY <1>3, <3>1, <3>2, <3>3
  <2> QED
    BY <1>1, <2>1, OthersWait, HelpersKept
<1> QED
  BY <1>4, <1>5, <1>6 DEF StacksOK

-----------------------------------------------------------------------------
(* Sleeping *)

\* Who waits and was registered is counted.
LEMMA WaitersCount ==
  ASSUME TypeOK, HelpersOK, NEW u \in Threads, NEW f, f = Top(u), Registered(f)
  PROVE  helpers > 0
<1>1. Waits(u, Height(u)) /\ Height(u) \in Nat
  BY TopIs DEF Waits
<1>2. <<u, Height(u)>> \in Helping
  BY <1>1 DEF Helping
<1>3. Cardinality(Helping) # 0
  BY <1>2, FS_EmptySet DEF HelpersOK
<1> QED
  BY <1>3 DEF HelpersOK, TypeOK

\* A completion is announced until nobody waits.
LEMMA AnnouncedStill ==
  ASSUME TypeOK, NEW t \in Threads, Others(t), helpers # 0, SomeoneAnnounces, Announces(t) => Announces(t)' \/ helpers = 0
  PROVE  SomeoneAnnounces'
<1>1. PICK v \in Threads : Announces(v)
  BY DEF SomeoneAnnounces
<1>2. CASE v = t
  BY <1>1, <1>2 DEF SomeoneAnnounces
<1>3. CASE v # t
  BY <1>1, <1>3 DEF SomeoneAnnounces, Announces, Others
<1> QED
  BY <1>2, <1>3

LEMMA BlockedIs ==
  ASSUME TypeOK, StacksOK, SleepOK, NEW u \in Threads, NEW f, f = Top(u), f.at \in {"dequeue", "asleep"} \/ u \in fresh
  PROVE  /\ f.in \in {"serve", "join", "await"} /\ (f.in # "serve" => Registered(f))
         /\ f.in = "join" => f.on \in Loops
<1>1. f.at \in Idling
  BY DEF SleepOK, FreshOK, Blocking, Idling
<1>2. FrameOK(f)
  BY TopFacts
<1> QED
  BY <1>1, <1>2, EnqueuedIs DEF FrameOK, Registered, Idling

\* To be shown of the thread that moves, when no thread is notified.
LEMMA SleepByThread ==
  ASSUME TypeOK, StacksOK, HelpersOK, SleepOK, LoopsOK', NEW t \in Threads, Others(t), Grown, NEW f, f = Top(t)',
         UNCHANGED <<wake, stop, flags>>, fresh' \subseteq fresh \cup {t}, queue' \subseteq queue,
         \A l \in Loops : slots'[l] <= slots[l] /\ slots'[l] \in Nat, \A l \in Loops : slots[l] \in Nat,
         \A l \in Loops : Done(l)' /\ ~Done(l) => Announces(t)',
         Announces(t) => Announces(t)' \/ helpers = 0,
         f.at = "dequeue" => LockIsFree,
         t \in fresh' => f.at \in Blocking,
         (f.at = "dequeue" \/ t \in fresh') /\ Satisfied(f)' => f.in = "join" /\ SomeoneAnnounces',
         f.at = "asleep" /\ Satisfied(f)' => f.in # "serve" /\ SomeoneAnnounces',
         \A l \in queue' : Offered(t, l)' => t \notin fresh' /\ f.at # "asleep"
  PROVE  SleepOK'
<1>1. LockOK'
  <2>1. \A u \in Threads \ {t} : Top(u)' = Top(u)
    BY DEF Others
  <2>2. \A u, v \in Threads : Top(u).at = "dequeue" /\ Top(v).at = "dequeue" => u = v
    BY DEF SleepOK, LockOK
  <2>3. f.at = "dequeue" => \A u \in Threads : Top(u).at # "dequeue"
    BY DEF LockIsFree
  <2>4. ASSUME NEW u \in Threads, NEW v \in Threads, Top(u)'.at = "dequeue", Top(v)'.at = "dequeue" PROVE u = v
    BY <2>1, <2>2, <2>3, <2>4
  <2> QED
    BY <2>4 DEF LockOK
<1>2. FreshOK'
  BY DEF SleepOK, FreshOK, Others, TypeOK
\* What else is satisfied now is a join whose loop has completed.
<1>3. ASSUME NEW u \in Threads \ {t}, NEW g, g = Top(u), Satisfied(g)', g.at \in {"dequeue", "asleep"} \/ u \in fresh
      PROVE  Satisfied(g) \/ (g.in = "join" /\ SomeoneAnnounces')
  <2>1. g.in \in {"serve", "join", "await"} /\ (g.in = "join" => g.on \in Loops)
    BY <1>3, BlockedIs
  <2>2. CASE g.in = "join"
    BY <1>3, <2>1, <2>2 DEF Satisfied, SomeoneAnnounces
  <2>3. CASE g.in # "join"
    BY <1>3, <2>1, <2>3 DEF Satisfied
  <2> QED
    BY <2>2, <2>3
<1>4. ASSUME NEW u \in Threads \ {t}, NEW g, g = Top(u), g.at \in {"dequeue", "asleep"} \/ u \in fresh, g.in # "serve", SomeoneAnnounces
      PROVE  SomeoneAnnounces'
  <2>1. helpers > 0
    BY <1>4, BlockedIs, WaitersCount
  <2>2. helpers # 0
    BY <2>1
  <2> QED
    BY <1>4, <2>2, AnnouncedStill
<1>5. WaitingOK'
  <2>1. ASSUME NEW u \in Threads, NEW g, g = Top(u)', g.at = "dequeue" \/ u \in fresh', Satisfied(g)'
        PROVE  g.in = "join" /\ SomeoneAnnounces'
    <3>1. CASE u = t
      BY <2>1, <3>1
    <3>2. CASE u # t
      <4>1. u \in Threads \ {t} /\ g = Top(u) /\ (g.at = "dequeue" \/ u \in fresh)
        BY <2>1, <3>2 DEF Others
      <4>2. Satisfied(g) \/ (g.in = "join" /\ SomeoneAnnounces')
        BY <1>3, <2>1, <4>1
      <4>3. Satisfied(g) => g.in = "join" /\ SomeoneAnnounces
        BY <4>1 DEF SleepOK, WaitingOK
      <4>4. g.in = "join" /\ SomeoneAnnounces => SomeoneAnnounces'
        BY <1>4, <4>1
      <4> QED
        BY <4>2, <4>3, <4>4
    <3> QED
      BY <3>1, <3>2
  <2> QED
    BY <2>1 DEF WaitingOK
<1>6. \A who : Notified(who)' <=> Notified(who)
  BY DEF Notified, Notifies
<1>7. AsleepOK'
  <2>1. ASSUME NEW u \in Threads, NEW g, g = Top(u)', g.at = "asleep", Satisfied(g)'
        PROVE  Notified(Class(g))' \/ (g.in # "serve" /\ SomeoneAnnounces')
    <3>1. CASE u = t
      BY <2>1, <3>1
    <3>2. CASE u # t
      <4>1. u \in Threads \ {t} /\ g = Top(u)
        BY <2>1, <3>2 DEF Others
      <4>2. Satisfied(g) \/ (g.in = "join" /\ SomeoneAnnounces')
        BY <1>3, <2>1, <4>1
      <4>3. Satisfied(g) => Notified(Class(g)) \/ (g.in # "serve" /\ SomeoneAnnounces)
        BY <2>1, <4>1 DEF SleepOK, AsleepOK
      <4>4. g.in # "serve" /\ SomeoneAnnounces => SomeoneAnnounces'
        BY <1>4, <2>1, <4>1
      <4>5. Notified(Class(g)) => Notified(Class(g))'
        BY <1>6
      <4> QED
        BY <4>2, <4>3, <4>4, <4>5
    <3> QED
      BY <3>1, <3>2
  <2> QED
    BY <2>1 DEF AsleepOK
<1>8. OffersOK'
  <2>1. ASSUME NEW u \in Threads, NEW l \in queue', NEW g, g = Top(u)', Offered(u, l)'
        PROVE  u \notin fresh' /\ (g.at = "asleep" /\ MaxWorkers(l) > 1 => Notified(Class(g))')
    <3>1. CASE u = t
      BY <2>1, <3>1
    <3>2. CASE u # t
      <4>1. u \in Threads \ {t} /\ g = Top(u) /\ l \in queue /\ l \in Loops
        BY <2>1, <3>2, EnqueuedIs DEF Others, TypeOK
      <4>2. Offered(u, l)
        <5>1. l \notin Inside(u)
          BY <2>1, <4>1 DEF Offered, Others
        <5>2. ~AllStarted(l)
          BY <2>1, <4>1 DEF Offered, AllStarted, Grown, LoopsOK, Iterations
        <5>3. HasSlot(l)
          BY <2>1, <4>1 DEF Offered, HasSlot
        <5> QED
          BY <5>1, <5>2, <5>3 DEF Offered
      <4>3. u \notin fresh /\ (g.at = "asleep" /\ MaxWorkers(l) > 1 => Notified(Class(g)))
        BY <4>1, <4>2 DEF SleepOK, OffersOK
      <4> QED
        BY <1>6, <3>2, <4>3
    <3> QED
      BY <2>1, <3>1, <3>2
  <2> QED
    BY <2>1 DEF OffersOK, MaxWorkers
<1> QED
  BY <1>1, <1>2, <1>5, <1>7, <1>8 DEF SleepOK

\* A thread moves on outside of the lock, or takes it.
LEMMA SleepKept ==
  ASSUME TypeOK, StacksOK, HelpersOK, SleepOK, LoopsOK', NEW t \in Threads, Others(t), Grown, NEW f, f = Top(t)',
         t \notin fresh, UNCHANGED <<wake, stop, flags, fresh>>, queue' \subseteq queue,
         \A l \in Loops : slots'[l] <= slots[l] /\ slots'[l] \in Nat,
         \A l \in Loops : Done(l)' /\ ~Done(l) => Announces(t)',
         Announces(t) => Announces(t)' \/ helpers = 0,
         f.at = "dequeue" => LockIsFree /\ ~Satisfied(f)', f.at # "asleep"
  PROVE  SleepOK'
<1>1. \A l \in Loops : slots[l] \in Nat
  BY DEF TypeOK
<1>2. t \notin fresh' /\ fresh' \subseteq fresh \cup {t}
  OBVIOUS
<1> QED
  BY <1>1, <1>2, SleepByThread, Zenon

\* A thread that has nothing to do waits for the epoch to move.
LEMMA SleepMoves ==
  ASSUME TypeOK, StacksOK, HelpersOK, SleepOK, LoopsOK', NEW t \in Threads, Others(t), Grown, NEW f, f = Top(t)', NEW g, g = Top(t),
         UNCHANGED <<wake, stop, flags, loops>>, fresh' = fresh \cup {t}, queue' \subseteq queue, Inside(t)' = Inside(t),
         g.at = "dequeue" \/ t \in fresh, f.at \in Blocking, f.in = g.in, f.on = g.on,
         \A l \in queue' : ~Offered(t, l)
  PROVE  SleepOK'
<1>1. \A l \in Loops : slots[l] \in Nat /\ slots'[l] <= slots[l] /\ slots'[l] \in Nat
  BY DEF TypeOK, loops
<1>2. Satisfied(f)' <=> Satisfied(g)
  BY DEF Satisfied, Done, Iterations, loops
<1>3. ~Announces(t)
  <2>1. g.at \in {"dequeue"} \cup Blocking /\ g.in # "work"
    BY BlockedIs DEF SleepOK, FreshOK
  <2> QED
    BY <2>1 DEF Announces, Blocking
<1>4. SomeoneAnnounces => SomeoneAnnounces'
  BY <1>3 DEF SomeoneAnnounces, Announces, Others
<1>5. Satisfied(f)' => f.in = "join" /\ SomeoneAnnounces'
  BY <1>2, <1>4 DEF SleepOK, WaitingOK
<1>6. \A l \in queue' : ~Offered(t, l)'
  BY DEF Offered, AllStarted, HasSlot, Iterations, loops
<1>7. f.at # "dequeue"
  BY DEF Blocking
<1>8. \A l \in Loops : ~(Done(l)' /\ ~Done(l))
  BY DEF Done, loops, Iterations
<1> QED
  BY <1>1, <1>3, <1>5, <1>6, <1>7, <1>8, SleepByThread

\* The change under the lock moves the epoch and notifies.
LEMMA SleepUpdated ==
  ASSUME TypeOK, StacksOK, HelpersOK, SleepOK, NEW t \in Threads, Others(t), NEW f, f = Top(t)', NEW notify,
         notify \in {"one", "everyone", "helpers"}, wake[t] = <<>>, Update(t, notify), UNCHANGED loops,
         f.at # "dequeue", f.at = "asleep" => Top(t)' = Top(t) /\ Inside(t)' = Inside(t),
         \A l \in queue' : l \in queue \/ MaxWorkers(l) = 1 \/ notify = "everyone",
         notify # "everyone" => UNCHANGED <<flags, stop>>,
         Announces(t) => Announces(t)' \/ notify # "one"
  PROVE  SleepOK'
<1>1. LockOK' /\ FreshOK'
  <2>1. \A u \in Threads \ {t} : Top(u)' = Top(u) /\ Top(u).at # "dequeue"
    BY DEF Others, Update, LockIsFree
  <2>2. \A u \in Threads : Top(u)'.at # "dequeue"
    BY <2>1
  <2>3. fresh' = {}
    BY DEF Update
  <2> QED
    BY <2>2, <2>3 DEF LockOK, FreshOK
<1>2. WaitingOK'
  <2>1. \A u \in Threads \ {t} : Top(u)' = Top(u) /\ Top(u).at # "dequeue"
    BY DEF Others, Update, LockIsFree
  <2>2. \A u \in Threads : Top(u)'.at # "dequeue" /\ u \notin fresh'
    BY <2>1 DEF Update
  <2> QED
    BY <2>2 DEF WaitingOK
<1>3. \A who : Notified(who) => Notified(who)'
  <2>1. \A u \in Threads \ {t} : wake'[u] = wake[u]
    BY DEF Update, TypeOK
  <2>2. \A who : ~Notifies(t, who)
    BY DEF Notifies
  <2> QED
    BY <2>1, <2>2 DEF Notified, Notifies
<1>4. wake'[t] = Notifications(notify)
  BY DEF Update, TypeOK
<1>5. ASSUME NEW u \in Threads, NEW g, g = Top(u), g.at = "asleep", notify = "everyone" \/ (notify = "helpers" /\ Class(g) = "helpers")
      PROVE  Notified(Class(g))'
  <2>1. Sleeping(Class(g)) # {}
    BY <1>5 DEF Sleeping
  <2>2. Class(g) \in {"workers", "helpers"}
    BY DEF Class
  <2>3. Notifies(t, Class(g))'
    <3>1. Notification(Class(g), "everyone") = <<[who |-> Class(g), to |-> "everyone"]>>
      BY <2>1 DEF Notification
    <3>2. CASE notify = "helpers"
      BY <1>4, <1>5, <3>1, <3>2 DEF Notifications, Notifies
    <3>3. CASE notify = "everyone" /\ Class(g) = "workers"
      <4>1. \/ wake'[t] = <<[who |-> "workers", to |-> "everyone"]>> \o <<>>
            \/ wake'[t] = <<[who |-> "workers", to |-> "everyone"]>> \o <<[who |-> "helpers", to |-> "everyone"]>>
        BY <1>4, <3>1, <3>3 DEF Notifications, Notification
      <4>2. Len(wake'[t]) >= 1 /\ wake'[t][1] = [who |-> "workers", to |-> "everyone"]
        BY <4>1
      <4> QED
        BY <3>3, <4>2 DEF Notifies
    <3>4. CASE notify = "everyone" /\ Class(g) = "helpers"
      <4>1. \/ wake'[t] = <<>> \o <<[who |-> "helpers", to |-> "everyone"]>>
            \/ wake'[t] = <<[who |-> "workers", to |-> "everyone"]>> \o <<[who |-> "helpers", to |-> "everyone"]>>
        BY <1>4, <3>1, <3>4 DEF Notifications, Notification
      <4>2. \E i \in 1 .. Len(wake'[t]) : wake'[t][i] = [who |-> "helpers", to |-> "everyone"]
        BY <4>1
      <4> QED
        BY <3>4, <4>2 DEF Notifies
    <3> QED
      BY <1>5, <2>2, <3>2, <3>3, <3>4
  <2> QED
    BY <2>3 DEF Notified
<1>6. \A u \in Threads : \A g : g = Top(u)' /\ g.at = "asleep" => g = Top(u) /\ Inside(u)' = Inside(u)
  BY DEF Others
<1>7. AsleepOK'
  <2>1. ASSUME NEW u \in Threads, NEW g, g = Top(u)', g.at = "asleep", Satisfied(g)'
        PROVE  Notified(Class(g))' \/ (g.in # "serve" /\ SomeoneAnnounces')
    <3>1. g = Top(u)
      BY <1>6, <2>1
    <3>2. CASE notify = "everyone"
      BY <1>5, <2>1, <3>1, <3>2
    <3>3. CASE notify # "everyone"
      <4>1. Satisfied(g)
        BY <2>1, <3>3 DEF Satisfied, Done, Iterations, loops
      <4>2. Notified(Class(g)) \/ (g.in # "serve" /\ SomeoneAnnounces)
        BY <2>1, <3>1, <4>1 DEF SleepOK, AsleepOK
      <4>3. CASE notify = "helpers"
        BY <1>3, <1>5, <2>1, <3>1, <4>2, <4>3 DEF Class
      <4>4. CASE notify = "one"
        BY <1>3, <4>2, <4>4 DEF SomeoneAnnounces, Announces, Others
      <4> QED
        BY <3>3, <4>3, <4>4
    <3> QED
      BY <3>2, <3>3
  <2> QED
    BY <2>1 DEF AsleepOK
<1>8. OffersOK'
  <2>1. ASSUME NEW u \in Threads, NEW l \in queue', NEW g, g = Top(u)', Offered(u, l)', g.at = "asleep", MaxWorkers(l) > 1
        PROVE  Notified(Class(g))'
    <3>1. g = Top(u) /\ Inside(u)' = Inside(u)
      BY <1>6, <2>1
    <3>2. CASE notify = "everyone"
      BY <1>5, <2>1, <3>1, <3>2
    <3>3. CASE notify # "everyone"
      <4>1. l \in queue
        BY <2>1, <3>3
      <4>2. Offered(u, l)
        BY <2>1, <3>1 DEF Offered, AllStarted, HasSlot, Iterations, loops
      <4>3. Notified(Class(g))
        BY <2>1, <3>1, <4>1, <4>2 DEF SleepOK, OffersOK
      <4> QED
        BY <1>3, <4>3
    <3> QED
      BY <3>2, <3>3
  <2>2. fresh' = {}
    BY DEF Update
  <2> QED
    BY <2>1, <2>2 DEF OffersOK, MaxWorkers
<1> QED
  BY <1>1, <1>2, <1>7, <1>8 DEF SleepOK

-----------------------------------------------------------------------------
(* The calls of a body *)

LEMMA BodyIs ==
  ASSUME NEW l \in Loops, NEW i \in Iterations(l)
  PROVE  Body[l][i] \in Seq(CallType) /\ Len(Body[l][i]) \in Nat /\ i \in Nat
BY LoopsAssumption DEF Iterations

\* A thread makes the next call of its body or script.
LEMMA AdvanceIs ==
  ASSUME TypeOK, StacksOK, LoopsOK, NEW t \in Threads, NEW g, g = Top(t), g.at = "body", g.calls # <<>>,
         NEW c, c = Head(g.calls), NEW f, f = [g EXCEPT !.calls = Tail(g.calls)]
  PROVE  /\ f \in FrameType /\ f.in = g.in /\ f.on = g.on /\ f.at = "body" /\ FrameOK(f) /\ c \in CallType
         /\ g.in \in {"script", "work"} /\ ~Announces(t) /\ ~Registered(f) /\ ~Registered(g)
         /\ Runs(f) => Runs(g) /\ f.iteration = g.iteration
         /\ Runs(f) => \A k \in 1 .. Made(f) : Called(BodyOf(f)[k]) \/ (k = Made(f) /\ BodyOf(f)[k] = c)
<1>1. g \in FrameType /\ FrameOK(g) /\ TopOK(g) /\ Holds(t, Height(t), g)
  BY TopFacts, TopIs
<1>2. g.calls \in Seq(CallType) /\ Len(g.calls) \in Nat \ {0} /\ c \in CallType /\ c = g.calls[1] /\ Tail(g.calls) \in Seq(CallType)
  BY <1>1 DEF FrameType
<1>3. f.in = g.in /\ f.on = g.on /\ f.at = "body" /\ f.iteration = g.iteration /\ f.calls = Tail(g.calls)
      /\ f.completed = g.completed /\ f.then = g.then
  BY <1>1 DEF FrameType
<1>4. f \in FrameType
  BY <1>1, <1>2 DEF FrameType
<1>5. g.in \in {"script", "work"} /\ ~g.completed
  BY <1>1 DEF FrameOK, Idling
<1>6. Len(f.calls) = Len(g.calls) - 1 /\ \A k \in 1 .. Len(f.calls) : f.calls[k] = g.calls[k + 1]
  BY <1>2, <1>3
<1>7. Runs(g) => Len(BodyOf(g)) \in Nat
  <2>1. Runs(g) => g.on \in Loops /\ g.iteration \in Iterations(g.on)
    BY <1>1, EnqueuedIs DEF StacksOK, RunningOK, LoopsOK, FrameOK, Runs
  <2> QED
    BY <2>1, BodyIs DEF BodyOf
<1>8. Runs(f) => Runs(g) /\ BodyOf(f) = BodyOf(g) /\ Made(f) = Made(g) + 1 /\ Made(g) \in Nat
  <2>1. Runs(f) => Runs(g) /\ BodyOf(f) = BodyOf(g)
    BY <1>3 DEF Runs, BodyOf
  <2>2. Runs(g) => Len(g.calls) <= Len(BodyOf(g))
    BY <1>1 DEF FrameOK
  <2>3. Made(f) = Len(BodyOf(f)) - Len(f.calls) /\ Made(g) = Len(BodyOf(g)) - Len(g.calls)
    BY DEF Made
  <2>4. Len(f.calls) = Len(g.calls) - 1 /\ Len(g.calls) \in Nat
    BY <1>2, <1>6
  <2>5. Runs(f) => Made(f) = Made(g) + 1 /\ Made(g) \in Nat
    <3> SUFFICES ASSUME Runs(f) PROVE Made(f) = Made(g) + 1 /\ Made(g) \in Nat
      OBVIOUS
    <3>1. Len(BodyOf(f)) = Len(BodyOf(g)) /\ Len(BodyOf(g)) \in Nat /\ Len(g.calls) <= Len(BodyOf(g))
      BY <1>7, <2>1, <2>2
    <3> DEFINE n == Len(BodyOf(g))
               m == Len(g.calls)
    <3>2. n \in Nat /\ m \in Nat /\ m <= n
      BY <2>4, <3>1
    <3>3. Made(g) = n - m /\ Made(f) = n - (m - 1)
      BY <2>3, <2>4, <3>1, Zenon
    <3> HIDE DEF n, m
    <3> QED
      BY <3>2, <3>3
  <2> QED
    BY <2>1, <2>5
<1>9. ASSUME Runs(f)
      PROVE  /\ Len(f.calls) <= Len(BodyOf(f)) /\ \A k \in 1 .. Len(f.calls) : f.calls[k] = BodyOf(f)[Made(f) + k]
             /\ \A k \in 1 .. Made(f) : Called(BodyOf(f)[k]) \/ (k = Made(f) /\ BodyOf(f)[k] = c)
  <2>1. Len(g.calls) <= Len(BodyOf(g)) /\ \A k \in 1 .. Len(g.calls) : g.calls[k] = BodyOf(g)[Made(g) + k]
    BY <1>1, <1>8, <1>9 DEF FrameOK
  <2>2. \A k \in 1 .. Made(g) : Called(BodyOf(g)[k])
    BY <1>1, <1>8, <1>9 DEF TopOK
  <2>3. Len(f.calls) <= Len(BodyOf(f))
    BY <1>2, <1>6, <1>7, <1>8, <1>9, <2>1
  <2>4. ASSUME NEW k \in 1 .. Len(f.calls) PROVE f.calls[k] = BodyOf(f)[Made(f) + k]
    <3>1. k + 1 \in 1 .. Len(g.calls) /\ Made(g) + (k + 1) = Made(f) + k
      BY <1>2, <1>6, <1>8, <1>9
    <3> QED
      BY <1>6, <1>8, <1>9, <2>1, <3>1
  <2>5. BodyOf(f)[Made(f)] = c
    <3>1. 1 \in 1 .. Len(g.calls)
      BY <1>2
    <3> QED
      BY <1>2, <1>8, <1>9, <2>1, <3>1
  <2>6. \A k \in 1 .. Made(f) : k \in 1 .. Made(g) \/ k = Made(f)
    BY <1>8, <1>9
  <2> QED
    BY <1>8, <1>9, <2>2, <2>3, <2>4, <2>5, <2>6
<1>10. FrameOK(f)
  BY <1>1, <1>3, <1>5, <1>9 DEF FrameOK, Idling, Satisfied
<1>11. ~Announces(t)
  BY <1>5 DEF Announces
<1>12. ~Registered(f) /\ ~Registered(g)
  BY <1>3, <1>5 DEF Registered
<1> QED
  BY <1>2, <1>3, <1>4, <1>5, <1>8, <1>9, <1>10, <1>11, <1>12

\* The call is made at once, or by a frame that comes on top.
LEMMA AdvanceCalled ==
  ASSUME TypeOK, StacksOK, LoopsOK, Grown, NEW t \in Threads, NEW g, g = Top(t), g.at = "body", g.calls # <<>>,
         NEW c, c = Head(g.calls), NEW f, f = [g EXCEPT !.calls = Tail(g.calls)]
  PROVE  /\ FrameOK(f)'
         /\ Called(c)' => TopOK(f)'
         /\ \A k : k.in = c.do /\ k.on = c.on /\ k.in \in {"join", "await"} => LinkOK(f, k)'
<1>1. /\ f.in = g.in /\ f.at = "body" /\ FrameOK(f) /\ g.in \in {"script", "work"}
      /\ Runs(f) => \A k \in 1 .. Made(f) : Called(BodyOf(f)[k]) \/ (k = Made(f) /\ BodyOf(f)[k] = c)
  BY AdvanceIs
<1>2. FrameOK(f)'
  BY <1>1, FrameGrows
<1>3. Runs(f) => \A k \in 1 .. Made(f) : Called(BodyOf(f)[k])' \/ (k = Made(f) /\ BodyOf(f)[k] = c)
  BY <1>1, CallsGrow
<1>4. Called(c)' => TopOK(f)'
  BY <1>3 DEF TopOK, Runs, BodyOf, Made
<1>5. ASSUME NEW k, k.in = c.do, k.on = c.on, k.in \in {"join", "await"} PROVE LinkOK(f, k)'
  BY <1>1, <1>3, <1>5 DEF LinkOK, Runs, BodyOf, Made
<1> QED
  BY <1>2, <1>4, <1>5

-----------------------------------------------------------------------------
(* Each action keeps the invariant *)

\* An idle thread whose epoch is current is at one of a few places.
LEMMA NotFresh == ASSUME SleepOK, NEW t, Top(t).at \notin Blocking PROVE t \notin fresh
BY DEF SleepOK, FreshOK

LEMMA LoopsSame == ASSUME LoopsOK, claimed' = claimed, performed' = performed PROVE LoopsOK'
BY DEF LoopsOK, Iterations

LEMMA SlotsSame ==
  ASSUME TypeOK, slots' = slots
  PROVE  \A l \in Loops : slots'[l] <= slots[l] /\ slots'[l] \in Nat
BY DEF TypeOK

LEMMA CallsAre ==
  ASSUME NEW c \in CallType
  PROVE  /\ c.do \in {"enqueue", "join"} => c.on \in Loops
         /\ c.do \in {"set", "await"} => c.on \in Flags
         /\ c.do \in {"enqueue", "join", "set", "await"}
BY DEF CallType

LEMMA AwaitKeeps == ASSUME IInv, NEW t \in Threads, Await(t) PROVE IInv'
<1>1. TypeOK /\ StacksOK /\ LoopsOK /\ HelpersOK /\ SleepOK
  BY DEF IInv
<1>2. PICK g : g = Top(t)
  OBVIOUS
<1>3. g.at = "body" /\ g.calls # <<>> /\ Head(g.calls).do = "await"
  BY <1>2 DEF Await, Makes, Is
<1>4. PICK c : c = Head(g.calls)
  OBVIOUS
<1>5. PICK f : f = [g EXCEPT !.calls = Tail(g.calls)]
  OBVIOUS
<1>6. PICK k : k = Frame("await", "enter", c.on)
  OBVIOUS
<1>7. stack' = [stack EXCEPT ![t] = <<k, f>> \o Tail(@)] /\ UNCHANGED <<wake, queue, loops, flags, stop, idlers, history>>
  BY <1>2, <1>4, <1>5, <1>6 DEF Await, Call, Advanced, Subject
<1>8. Grown
  BY <1>7 DEF Grown, Enqueued, Done, Iterations, loops, history
<1>9. /\ f \in FrameType /\ f.in = g.in /\ f.on = g.on /\ c \in CallType /\ ~Announces(t) /\ ~Registered(f) /\ ~Registered(g)
      /\ Runs(f) => Runs(g) /\ f.iteration = g.iteration
  BY <1>1, <1>2, <1>3, <1>4, <1>5, AdvanceIs
<1>10. c.on \in Flags
  BY <1>3, <1>4, <1>9, CallsAre
<1>11. /\ k \in FrameType /\ k.in = "await" /\ k.at = "enter" /\ k.on = c.on /\ FrameOK(k)' /\ TopOK(k)'
       /\ ~Runs(k) /\ ~Registered(k) /\ ~k.completed
  BY <1>6, <1>10 DEF Frame, FrameType, FrameOK, TopOK, Runs, Registered, Idling, Places
<1>12. FrameOK(f)' /\ LinkOK(f, k)'
  BY <1>1, <1>2, <1>3, <1>4, <1>5, <1>8, <1>11, AdvanceCalled
<1>13. Others(t) /\ Top(t)' = k /\ stack' \in [Threads -> Seq(FrameType) \ {<<>>}]
  BY <1>1, <1>7, <1>9, <1>11, CallIs
<1>14. TypeOK'
  BY <1>1, <1>7, <1>13 DEF TypeOK, loops, idlers, history, Enqueued
<1>15. claimed' = claimed /\ performed' = performed /\ helpers' = helpers /\ slots' = slots /\ fresh' = fresh
  BY <1>7 DEF loops, idlers
<1>16. StacksOK' /\ HelpersOK'
  BY <1>1, <1>2, <1>7, <1>8, <1>9, <1>11, <1>12, <1>15, CallStep
<1>17. LoopsOK'
  BY <1>1, <1>15, LoopsSame
<1>18. SleepOK'
  <2>1. t \notin fresh
    BY <1>1, <1>2, <1>3, NotFresh DEF Blocking
  <2>2. \A l \in Loops : slots'[l] <= slots[l] /\ slots'[l] \in Nat
    BY <1>1, <1>15, SlotsSame
  <2>3. \A l \in Loops : ~(Done(l)' /\ ~Done(l))
    BY <1>15 DEF Done, Iterations
  <2>4. k.at # "dequeue" /\ k.at # "asleep" /\ queue' \subseteq queue
    BY <1>7, <1>11
  <2> QED
    BY <1>1, <1>7, <1>8, <1>9, <1>13, <1>15, <1>17, <2>1, <2>2, <2>3, <2>4, SleepKept
<1> QED
  BY <1>14, <1>16, <1>17, <1>18 DEF IInv

LEMMA NotificationsAre ==
  ASSUME NEW notify \in {"one", "everyone", "helpers"}
  PROVE  Notifications(notify) \in Seq(NotificationType)
<1>1. \A who \in {"workers", "helpers"}, to \in {"one", "everyone"} : Notification(who, to) \in Seq(NotificationType)
  <2>1. ASSUME NEW who \in {"workers", "helpers"}, NEW to \in {"one", "everyone"} PROVE Notification(who, to) \in Seq(NotificationType)
    <3>1. [who |-> who, to |-> to] \in NotificationType
      BY DEF NotificationType
    <3>2. <<[who |-> who, to |-> to]>> \in Seq(NotificationType) /\ <<>> \in Seq(NotificationType)
      BY <3>1
    <3> QED
      BY <3>2 DEF Notification
  <2> QED
    BY <2>1
<1> QED
  BY <1>1 DEF Notifications

LEMMA EnqueuedAppend ==
  ASSUME TypeOK, NEW l \in Loops, enqueued' = Append(enqueued, l)
  PROVE  enqueued' \in Seq(Loops) /\ Enqueued' = Enqueued \cup {l}
<1>1. enqueued \in Seq(Loops) /\ enqueued' \in Seq(Loops)
  BY DEF TypeOK
<1>2. DOMAIN enqueued' = DOMAIN enqueued \cup {Len(enqueued) + 1} /\ enqueued'[Len(enqueued) + 1] = l
      /\ \A i \in DOMAIN enqueued : enqueued'[i] = enqueued[i]
  BY <1>1
<1> QED
  BY <1>1, <1>2 DEF Enqueued, Range

LEMMA EnqueueKeeps == ASSUME IInv, NEW t \in Threads, Enqueue(t) PROVE IInv'
<1>1. TypeOK /\ StacksOK /\ LoopsOK /\ HelpersOK /\ SleepOK
  BY DEF IInv
<1>2. PICK g : g = Top(t)
  OBVIOUS
<1>3. g.at = "body" /\ g.calls # <<>> /\ Head(g.calls).do = "enqueue" /\ wake[t] = <<>>
  BY <1>2 DEF Enqueue, Makes, Is, Ready
<1>4. PICK c : c = Head(g.calls)
  OBVIOUS
<1>5. PICK f : f = [g EXCEPT !.calls = Tail(g.calls)]
  OBVIOUS
<1>6. PICK notify : notify = Wake(c.on)
  OBVIOUS
<1>7. /\ stack' = [stack EXCEPT ![t] = <<f>> \o Tail(@)]
      /\ Update(t, notify) /\ queue' = queue \cup {c.on} /\ enqueued' = Append(enqueued, c.on) /\ UNCHANGED <<loops, flags, stop, helpers, joined>>
  BY <1>2, <1>4, <1>5, <1>6 DEF Enqueue, Advance, Advanced, Subject
<1>8. /\ f \in FrameType /\ f.in = g.in /\ f.on = g.on /\ f.at = "body" /\ c \in CallType /\ ~Announces(t)
      /\ ~Registered(f) /\ ~Registered(g)
      /\ Runs(f) => Runs(g) /\ f.iteration = g.iteration
  BY <1>1, <1>2, <1>3, <1>4, <1>5, AdvanceIs
<1>9. c.on \in Loops
  BY <1>3, <1>4, <1>8, CallsAre
<1>10. enqueued' \in Seq(Loops) /\ Enqueued' = Enqueued \cup {c.on}
  BY <1>1, <1>7, <1>9, EnqueuedAppend
<1>11. Grown
  BY <1>7, <1>10 DEF Grown, Done, Iterations, loops, history, Enqueued
<1>12. Called(c)'
  BY <1>3, <1>4, <1>7, <1>10 DEF Called
<1>13. FrameOK(f)' /\ TopOK(f)'
  BY <1>1, <1>2, <1>3, <1>4, <1>5, <1>11, <1>12, AdvanceCalled
<1>14. Others(t) /\ Top(t)' = f /\ stack' \in [Threads -> Seq(FrameType) \ {<<>>}]
  BY <1>1, <1>7, <1>8, SwapIs
<1>15. notify \in {"one", "everyone", "helpers"} /\ wake' \in [Threads -> Seq(NotificationType)]
  <2>1. notify \in {"one", "everyone", "helpers"}
    BY <1>6 DEF Wake
  <2> QED
    BY <1>1, <1>7, <2>1, NotificationsAre DEF Update, TypeOK
<1>16. TypeOK'
  BY <1>1, <1>7, <1>9, <1>10, <1>14, <1>15 DEF TypeOK, Update, loops, idlers, history, Enqueued
<1>17. claimed' = claimed /\ performed' = performed /\ helpers' = helpers
  BY <1>7 DEF loops
<1>18. StacksOK' /\ HelpersOK'
  BY <1>1, <1>2, <1>7, <1>8, <1>11, <1>13, <1>17, SwapStep
<1>19. LoopsOK'
  BY <1>1, <1>17, LoopsSame
<1>20. SleepOK'
  <2>1. \A l \in queue' : l \in queue \/ MaxWorkers(l) = 1 \/ notify = "everyone"
    BY <1>6, <1>7 DEF Wake
  <2>2. notify # "everyone" => UNCHANGED <<flags, stop>>
    BY <1>6, <1>7
  <2>3. f.at \notin {"dequeue", "asleep"}
    BY <1>8
  <2> QED
    BY <1>1, <1>3, <1>7, <1>8, <1>14, <1>15, <2>1, <2>2, <2>3, SleepUpdated
<1> QED
  BY <1>16, <1>18, <1>19, <1>20 DEF IInv

LEMMA AtomicCallKeeps == ASSUME IInv, NEW t \in Threads, AtomicCall(t) PROVE IInv'
<1>1. TypeOK /\ StacksOK /\ LoopsOK /\ HelpersOK /\ SleepOK
  BY DEF IInv
<1>2. PICK g : g = Top(t)
  OBVIOUS
<1>3. g.at = "body" /\ g.calls # <<>> /\ Head(g.calls).do = "set" /\ wake[t] = <<>>
  BY <1>2 DEF AtomicCall, Makes, Is, Ready
<1>4. PICK c : c = Head(g.calls)
  OBVIOUS
<1>5. PICK f : f = [g EXCEPT !.calls = Tail(g.calls)]
  OBVIOUS
<1>6. PICK notify : notify = "everyone"
  OBVIOUS
<1>7. /\ stack' = [stack EXCEPT ![t] = <<f>> \o Tail(@)]
      /\ Update(t, notify) /\ flags' = flags \cup {c.on} /\ UNCHANGED <<queue, loops, stop, helpers, history>>
  BY <1>2, <1>4, <1>5, <1>6 DEF AtomicCall, Advance, Advanced, Subject
<1>8. /\ f \in FrameType /\ f.in = g.in /\ f.on = g.on /\ f.at = "body" /\ c \in CallType /\ ~Announces(t)
      /\ ~Registered(f) /\ ~Registered(g)
      /\ Runs(f) => Runs(g) /\ f.iteration = g.iteration
  BY <1>1, <1>2, <1>3, <1>4, <1>5, AdvanceIs
<1>9. c.on \in Flags
  BY <1>3, <1>4, <1>8, CallsAre
<1>10. Enqueued' = Enqueued
  BY <1>7 DEF Enqueued, history
<1>11. Grown
  BY <1>7, <1>10 DEF Grown, Done, Iterations, loops, history, Enqueued
<1>12. Called(c)'
  BY <1>3, <1>4, <1>7, <1>10 DEF Called
<1>13. FrameOK(f)' /\ TopOK(f)'
  BY <1>1, <1>2, <1>3, <1>4, <1>5, <1>11, <1>12, AdvanceCalled
<1>14. Others(t) /\ Top(t)' = f /\ stack' \in [Threads -> Seq(FrameType) \ {<<>>}]
  BY <1>1, <1>7, <1>8, SwapIs
<1>15. notify \in {"one", "everyone", "helpers"} /\ wake' \in [Threads -> Seq(NotificationType)]
  <2>1. notify \in {"one", "everyone", "helpers"}
    BY <1>6 DEF Wake
  <2> QED
    BY <1>1, <1>7, <2>1, NotificationsAre DEF Update, TypeOK
<1>16. TypeOK'
  BY <1>1, <1>7, <1>9, <1>10, <1>14, <1>15 DEF TypeOK, Update, loops, idlers, history, Enqueued
<1>17. claimed' = claimed /\ performed' = performed /\ helpers' = helpers
  BY <1>7 DEF loops
<1>18. StacksOK' /\ HelpersOK'
  BY <1>1, <1>2, <1>7, <1>8, <1>11, <1>13, <1>17, SwapStep
<1>19. LoopsOK'
  BY <1>1, <1>17, LoopsSame
<1>20. SleepOK'
  <2>1. \A l \in queue' : l \in queue \/ MaxWorkers(l) = 1 \/ notify = "everyone"
    BY <1>6, <1>7 DEF Wake
  <2>2. notify # "everyone" => UNCHANGED <<flags, stop>>
    BY <1>6, <1>7
  <2>3. f.at \notin {"dequeue", "asleep"}
    BY <1>8
  <2> QED
    BY <1>1, <1>3, <1>7, <1>8, <1>14, <1>15, <2>1, <2>2, <2>3, SleepUpdated
<1> QED
  BY <1>16, <1>18, <1>19, <1>20 DEF IInv

LEMMA JoinKeeps == ASSUME IInv, NEW t \in Threads, Join(t) PROVE IInv'
<1>1. TypeOK /\ StacksOK /\ LoopsOK /\ HelpersOK /\ SleepOK
  BY DEF IInv
<1>2. PICK g : g = Top(t)
  OBVIOUS
<1>3. g.at = "body" /\ g.calls # <<>> /\ Head(g.calls).do = "join" /\ Head(g.calls).on \in Enqueued
  BY <1>2 DEF Join, Makes, Is, Subject
<1>4. PICK c : c = Head(g.calls)
  OBVIOUS
<1>5. PICK f : f = [g EXCEPT !.calls = Tail(g.calls)]
  OBVIOUS
<1>6. PICK k : k = Frame("join", "poll", c.on)
  OBVIOUS
<1>7. PICK m : m = Frame("work", "claim", c.on)
  OBVIOUS
<1>8. /\ \/ /\ slots[c.on] > 0 /\ slots' = [slots EXCEPT ![c.on] = @ - 1]
            /\ stack' = [stack EXCEPT ![t] = <<m, k, f>> \o Tail(@)]
         \/ slots' = slots /\ stack' = [stack EXCEPT ![t] = <<k, f>> \o Tail(@)]
      /\ UNCHANGED <<wake, queue, claimed, performed, flags, stop, idlers, history>>
  BY <1>2, <1>4, <1>5, <1>6, <1>7 DEF Join, Call, Advanced, Subject, HasSlot
<1>9. Grown
  BY <1>8 DEF Grown, Enqueued, Done, Iterations, history
<1>10. /\ f \in FrameType /\ f.in = g.in /\ f.on = g.on /\ c \in CallType /\ ~Announces(t) /\ ~Registered(f) /\ ~Registered(g)
       /\ Runs(f) => Runs(g) /\ f.iteration = g.iteration
  BY <1>1, <1>2, <1>3, <1>4, <1>5, AdvanceIs
<1>11. c.on \in Loops /\ c.on \in Enqueued /\ c.on \in Enqueued'
  BY <1>1, <1>3, <1>4, <1>9, EnqueuedIs DEF Grown
<1>12. /\ k \in FrameType /\ k.in = "join" /\ k.at = "poll" /\ k.on = c.on /\ FrameOK(k)' /\ TopOK(k)'
       /\ ~Runs(k) /\ ~Registered(k) /\ ~k.completed /\ k.then = "poll"
  BY <1>6, <1>11 DEF Frame, FrameType, FrameOK, TopOK, Runs, Registered, Idling, Places
<1>13. /\ m \in FrameType /\ m.in = "work" /\ m.at = "claim" /\ m.on = c.on /\ FrameOK(m)' /\ TopOK(m)'
       /\ ~Runs(m) /\ ~Registered(m) /\ ~m.completed
  BY <1>7, <1>11 DEF Frame, FrameType, FrameOK, TopOK, Runs, Registered, Idling, Places
<1>14. FrameOK(f)' /\ LinkOK(f, k)'
  BY <1>1, <1>2, <1>3, <1>4, <1>5, <1>9, <1>12, AdvanceCalled
<1>15. LinkOK(k, m)'
  BY <1>12, <1>13 DEF LinkOK
<1>16. Others(t) /\ Top(t)' \in {k, m} /\ stack' \in [Threads -> Seq(FrameType) \ {<<>>}]
  BY <1>1, <1>8, <1>10, <1>12, <1>13, CallIs, CallTwiceIs
<1>17. slots' \in [Loops -> Nat] /\ \A l \in Loops : slots'[l] <= slots[l] /\ slots'[l] \in Nat
  BY <1>1, <1>8, <1>11 DEF TypeOK
<1>18. TypeOK'
  BY <1>1, <1>8, <1>16, <1>17 DEF TypeOK, idlers, history, Enqueued
<1>19. claimed' = claimed /\ performed' = performed /\ helpers' = helpers /\ fresh' = fresh
  BY <1>8 DEF idlers
<1>20. StacksOK' /\ HelpersOK'
  <2>1. CASE stack' = [stack EXCEPT ![t] = <<m, k, f>> \o Tail(@)]
    BY <1>1, <1>2, <1>9, <1>10, <1>12, <1>13, <1>14, <1>15, <1>19, <2>1, CallTwiceStep
  <2>2. CASE stack' = [stack EXCEPT ![t] = <<k, f>> \o Tail(@)]
    BY <1>1, <1>2, <1>9, <1>10, <1>12, <1>14, <1>19, <2>2, CallStep
  <2> QED
    BY <1>8, <2>1, <2>2
<1>21. LoopsOK'
  BY <1>1, <1>19, LoopsSame
<1>22. SleepOK'
  <2>1. t \notin fresh
    BY <1>1, <1>2, <1>3, NotFresh DEF Blocking
  <2>2. \A l \in Loops : ~(Done(l)' /\ ~Done(l))
    BY <1>19 DEF Done, Iterations
  <2>3. PICK p : p = Top(t)'
    OBVIOUS
  <2>4. p.at # "dequeue" /\ p.at # "asleep" /\ queue' \subseteq queue
    BY <1>8, <1>12, <1>13, <1>16, <2>3
  <2> QED
    BY <1>1, <1>8, <1>9, <1>10, <1>16, <1>17, <1>19, <1>21, <2>1, <2>2, <2>3, <2>4, SleepKept
<1> QED
  BY <1>18, <1>20, <1>21, <1>22 DEF IInv

\* The frame that a call on top of a stack returns to.
LEMMA CallerIs ==
  ASSUME TypeOK, StacksOK, NEW t \in Threads, NEW g, g = Top(t), g.in \notin {"script", "serve"}
  PROVE  Height(t) > 1 /\ \E h \in FrameType : Holds(t, Height(t) - 1, h) /\ FrameOK(h) /\ LinkOK(h, g) /\ h = stack[t][2]
<1>1. PICK n : n = Height(t)
  OBVIOUS
<1>2. n \in Nat \ {0} /\ n # 1 /\ n = Len(stack[t]) /\ stack[t] \in Seq(FrameType)
  BY <1>1, TopIs, TopFacts DEF Height
<1>3. n > 1 /\ n - 1 \in 1 .. n /\ n + 1 - (n - 1) = 2 /\ 2 \in 1 .. n /\ n - 1 + 1 = n
  <2>1. n \in Nat /\ n # 0 /\ n # 1
    BY <1>2
  <2>2. n > 1
    BY <2>1
  <2> QED
    BY <2>1, <2>2
<1>4. PICK h : h = stack[t][2]
  OBVIOUS
<1>5. h \in FrameType
  BY <1>2, <1>3, <1>4
<1>6. Holds(t, n - 1, h)
  BY <1>2, <1>3, <1>4 DEF Holds
<1>7. FrameOK(h)
  BY <1>6 DEF StacksOK, FramesOK
<1>8. LinkOK(h, g)
  BY <1>1, <1>3, <1>6, TopFacts
<1> QED
  BY <1>1, <1>3, <1>4, <1>5, <1>6, <1>7, <1>8

LEMMA JoinReturnsKeeps == ASSUME IInv, NEW t \in Threads, JoinReturns(t) PROVE IInv'
<1>1. TypeOK /\ StacksOK /\ LoopsOK /\ HelpersOK /\ SleepOK
  BY DEF IInv
<1>2. PICK g : g = Top(t)
  OBVIOUS
<1>3. g.at = "poll" /\ Done(g.on) /\ stack' = [stack EXCEPT ![t] = Tail(@)] /\ joined' = joined \cup {g.on}
      /\ UNCHANGED <<wake, queue, loops, flags, stop, idlers, enqueued>>
  BY <1>2 DEF JoinReturns, Is, Return
<1>4. g.in = "join" /\ g.on \in Enqueued /\ g.on \in Loops
  <2>1. FrameOK(g)
    BY <1>1, <1>2, TopFacts
  <2> QED
    BY <1>1, <1>3, <2>1, EnqueuedIs DEF FrameOK, Idling
<1>5. Grown
  BY <1>3 DEF Grown, Enqueued, Done, Iterations, loops
<1>6. Height(t) > 1 /\ \E h \in FrameType : Holds(t, Height(t) - 1, h) /\ LinkOK(h, g)
  BY <1>1, <1>2, <1>4, CallerIs
<1>7. PICK h : h = Top(t)'
  OBVIOUS
<1>8. Others(t) /\ stack' \in [Threads -> Seq(FrameType) \ {<<>>}] /\ Holds(t, Height(t) - 1, h)
  BY <1>1, <1>3, <1>6, <1>7, ReturnIs
<1>9. h.at = "body"
  BY <1>1, <1>4, <1>6, <1>8, HoldsIs DEF LinkOK
<1>10. TypeOK'
  BY <1>1, <1>3, <1>4, <1>8 DEF TypeOK, loops, idlers, Enqueued
<1>11. claimed' = claimed /\ performed' = performed /\ helpers' = helpers /\ fresh' = fresh /\ slots' = slots
  BY <1>3 DEF idlers, loops
<1>12. /\ StacksOK'
       /\ \A u \in Threads : \A d \in Nat : Waits(u, d)' <=> Waits(u, d) /\ <<u, d>> # <<t, Height(t)>>
  <2>1. \A c : c.do = g.in /\ c.on = g.on => Called(c)'
    BY <1>3, <1>4 DEF Called
  <2> QED
    BY <1>1, <1>2, <1>3, <1>5, <1>6, <1>11, <2>1, ReturnStep
<1>13. HelpersOK'
  <2>1. ~Waits(t, Height(t))
    BY <1>1, <1>2, <1>3, HoldsIs DEF Waits, Registered, Idling
  <2> QED
    BY <1>1, <1>11, <1>12, <2>1, HelpersKept
<1>14. LoopsOK'
  BY <1>1, <1>11, LoopsSame
<1>15. SleepOK'
  <2>1. t \notin fresh
    BY <1>1, <1>2, <1>3, NotFresh DEF Blocking
  <2>2. \A l \in Loops : slots'[l] <= slots[l] /\ slots'[l] \in Nat
    BY <1>1, <1>11, SlotsSame
  <2>3. \A l \in Loops : ~(Done(l)' /\ ~Done(l))
    BY <1>11 DEF Done, Iterations
  <2>4. h.at # "dequeue" /\ h.at # "asleep" /\ queue' \subseteq queue
    BY <1>3, <1>9
  <2>5. ~Announces(t)
    BY <1>2, <1>3, <1>4 DEF Announces
  <2> QED
    BY <1>1, <1>3, <1>5, <1>7, <1>8, <1>11, <1>14, <2>1, <2>2, <2>3, <2>4, <2>5, SleepKept
<1> QED
  BY <1>10, <1>12, <1>13, <1>14, <1>15 DEF IInv

\* A thread goes to another place in the same function.
LEMMA GotoIs ==
  ASSUME TypeOK, StacksOK, NEW t \in Threads, NEW g, g = Top(t), NEW at \in Places, Goto(t, at), NEW f, f = [g EXCEPT !.at = at]
  PROVE  /\ f \in FrameType /\ f.in = g.in /\ f.on = g.on /\ f.then = g.then /\ f.completed = g.completed /\ f.at = at
         /\ f.iteration = g.iteration /\ f.calls = g.calls /\ FrameOK(g)
         /\ stack' = [stack EXCEPT ![t] = <<f>> \o Tail(@)]
<1>1. g \in FrameType /\ FrameOK(g)
  BY TopIs, TopFacts
<1>2. f \in FrameType /\ f.in = g.in /\ f.on = g.on /\ f.then = g.then /\ f.completed = g.completed /\ f.at = at
      /\ f.iteration = g.iteration /\ f.calls = g.calls
  BY <1>1 DEF FrameType
<1>3. stack' = [stack EXCEPT ![t] = <<f>> \o Tail(@)]
  BY DEF Goto, Top
<1> QED
  BY <1>1, <1>2, <1>3

LEMMA SameInside ==
  ASSUME TypeOK, NEW t \in Threads, NEW g, g = Top(t), NEW f \in FrameType, f.in = g.in, f.on = g.on,
         stack'[t] = <<f>> \o Tail(stack[t])
  PROVE  Inside(t)' = Inside(t)
<1> DEFINE s == <<f>> \o Tail(stack[t])
<1>1. stack[t] \in Seq(FrameType) /\ stack[t] # <<>> /\ g = stack[t][1]
  BY TopIs DEF TypeOK
<1>2. stack'[t] = s
  OBVIOUS
<1>3. Len(s) = Len(stack[t]) /\ s[1] = f /\ \A i \in 2 .. Len(s) : s[i] = stack[t][i]
  BY <1>1
<1>4. Len(stack[t]) \in Nat
  BY <1>1
<1> HIDE DEF s
<1>5. \A i \in 1 .. Len(s) : s[i].in = stack[t][i].in /\ s[i].on = stack[t][i].on
  <2>1. \A i \in 1 .. Len(s) : i = 1 \/ i \in 2 .. Len(s)
    BY <1>3, <1>4
  <2> QED
    BY <1>1, <1>3, <2>1
<1>6. Inside(t)' = {s[i].on : i \in {j \in 1 .. Len(s) : s[j].in = "work"}}
  BY <1>2 DEF Inside
<1>7. {j \in 1 .. Len(s) : s[j].in = "work"} = {j \in 1 .. Len(stack[t]) : stack[t][j].in = "work"}
  BY <1>3, <1>5
<1>8. \A i \in {j \in 1 .. Len(s) : s[j].in = "work"} : s[i].on = stack[t][i].on
  BY <1>5
<1> QED
  BY <1>6, <1>7, <1>8 DEF Inside

LEMMA GotoInside ==
  ASSUME TypeOK, NEW t \in Threads, NEW g, g = Top(t), NEW f \in FrameType, f.in = g.in, f.on = g.on,
         stack' = [stack EXCEPT ![t] = <<f>> \o Tail(@)]
  PROVE  Inside(t)' = Inside(t)
<1>1. stack'[t] = <<f>> \o Tail(stack[t])
  BY DEF TypeOK
<1> QED
  BY <1>1, SameInside

\* A step to another place that touches neither loops nor helpers.
LEMMA GotoStep ==
  ASSUME TypeOK, StacksOK, LoopsOK, HelpersOK, NEW t \in Threads, NEW g, g = Top(t), NEW at \in Places, Goto(t, at),
         NEW f, f = [g EXCEPT !.at = at], Grown, FrameOK(f)', ~Runs(f), Registered(f) <=> Registered(g),
         UNCHANGED <<claimed, performed, helpers>>
  PROVE  StacksOK' /\ HelpersOK' /\ LoopsOK'
<1>1. /\ f \in FrameType /\ f.in = g.in /\ f.on = g.on /\ f.iteration = g.iteration
      /\ stack' = [stack EXCEPT ![t] = <<f>> \o Tail(@)]
  BY GotoIs
<1>2. TopOK(f)'
  BY DEF TopOK, Runs
<1>3. StacksOK' /\ HelpersOK'
  BY <1>1, <1>2, SwapStep, Zenon
<1> QED
  BY <1>3, LoopsSame

LEMMA StopPollingKeeps == ASSUME IInv, NEW t \in Threads, StopPolling(t) PROVE IInv'
<1>1. TypeOK /\ StacksOK /\ LoopsOK /\ HelpersOK /\ SleepOK
  BY DEF IInv
<1>2. PICK g : g = Top(t)
  OBVIOUS
<1>3. PICK at \in Places : at = "enter"
  BY DEF Places
<1>4. g.at = "poll" /\ Goto(t, at) /\ UNCHANGED <<wake, queue, loops, flags, stop, idlers, history>>
  BY <1>2, <1>3 DEF StopPolling, Is
<1>5. PICK f : f = [g EXCEPT !.at = at]
  OBVIOUS
<1>6. /\ f.in = g.in /\ f.on = g.on /\ f.then = g.then /\ f.completed = g.completed /\ f.at = at /\ FrameOK(g)
      /\ Others(t) /\ Top(t)' = f /\ stack' \in [Threads -> Seq(FrameType) \ {<<>>}]
  <2>1. f \in FrameType /\ f.in = g.in /\ f.on = g.on /\ f.then = g.then /\ f.completed = g.completed /\ f.at = at /\ FrameOK(g)
        /\ stack' = [stack EXCEPT ![t] = <<f>> \o Tail(@)]
    BY <1>1, <1>2, <1>3, <1>4, <1>5, GotoIs
  <2>2. Others(t) /\ Top(t)' = f /\ stack' \in [Threads -> Seq(FrameType) \ {<<>>}]
    BY <1>1, <2>1, SwapIs
  <2> QED
    BY <2>1, <2>2
<1>7. g.in = "join" /\ ~g.completed
  BY <1>4, <1>6 DEF FrameOK, Idling
<1>8. Grown
  BY <1>4 DEF Grown, Enqueued, Done, Iterations, loops, history
<1>9. FrameOK(f)'
  <2>1. FrameOK(f)
    BY <1>3, <1>4, <1>6, <1>7 DEF FrameOK, Idling, Runs
  <2> QED
    BY <1>1, <1>8, <2>1, FrameGrows
<1>10. TypeOK'
  BY <1>1, <1>4, <1>6 DEF TypeOK, loops, idlers, history, Enqueued
<1>11. claimed' = claimed /\ performed' = performed /\ helpers' = helpers /\ slots' = slots /\ fresh' = fresh
  BY <1>4 DEF loops, idlers
<1>12. StacksOK' /\ HelpersOK' /\ LoopsOK'
  <2>1. ~Runs(f) /\ (Registered(f) <=> Registered(g))
    BY <1>3, <1>4, <1>6 DEF Runs, Registered, Idling
  <2> QED
    BY <1>1, <1>2, <1>3, <1>4, <1>5, <1>8, <1>9, <1>11, <2>1, GotoStep
<1>13. SleepOK'
  <2>1. t \notin fresh
    BY <1>1, <1>2, <1>4, NotFresh DEF Blocking
  <2>2. \A l \in Loops : slots'[l] <= slots[l] /\ slots'[l] \in Nat
    BY <1>1, <1>11, SlotsSame
  <2>3. \A l \in Loops : ~(Done(l)' /\ ~Done(l))
    BY <1>11 DEF Done, Iterations
  <2>4. f.at # "dequeue" /\ f.at # "asleep" /\ queue' \subseteq queue
    BY <1>3, <1>4, <1>6
  <2>5. ~Announces(t)
    BY <1>2, <1>4, <1>7 DEF Announces
  <2> QED
    BY <1>1, <1>4, <1>6, <1>8, <1>11, <1>12, <2>1, <2>2, <2>3, <2>4, <2>5, SleepKept
<1> QED
  BY <1>10, <1>12, <1>13 DEF IInv

LEMMA WaitEndsKeeps == ASSUME IInv, NEW t \in Threads, WaitEnds(t) PROVE IInv'
<1>1. TypeOK /\ StacksOK /\ LoopsOK /\ HelpersOK /\ SleepOK
  BY DEF IInv
<1>2. PICK g : g = Top(t)
  OBVIOUS
<1>3. /\ g.at \in {"look", "spin", "park", "woken"} /\ (g.at = "look" \/ t \notin fresh) /\ Satisfied(g)
      /\ UNCHANGED <<wake, queue, loops, flags, stop, idlers, history>>
  BY <1>2 DEF WaitEnds, Looking
<1>4. g.in \in {"serve", "join", "await"} /\ ~g.completed /\ ~Announces(t)
  <2>1. FrameOK(g)
    BY <1>1, <1>2, TopFacts
  <2> QED
    BY <1>2, <1>3, <2>1 DEF FrameOK, Idling, Announces
<1>5. PICK at \in Places : at = "leave"
  BY <1>3, <1>4 DEF Places
<1>6. PICK f : f = [g EXCEPT !.at = at]
  OBVIOUS
<1>7. Goto(t, at)
  BY <1>2, <1>5 DEF WaitEnds, HelpersWait
<1>8. /\ f \in FrameType /\ f.in = g.in /\ f.on = g.on /\ f.then = g.then /\ f.completed = g.completed /\ f.at = at /\ FrameOK(g)
      /\ stack' = [stack EXCEPT ![t] = <<f>> \o Tail(@)]
  BY <1>1, <1>2, <1>6, <1>7, GotoIs
<1>9. Others(t) /\ Top(t)' = f /\ stack' \in [Threads -> Seq(FrameType) \ {<<>>}]
  BY <1>1, <1>8, SwapIs
<1>10. Grown
  BY <1>3 DEF Grown, Enqueued, Done, Iterations, loops, history
<1>11. FrameOK(f)'
  <2>1. Satisfied(f) <=> Satisfied(g)
    BY <1>8 DEF Satisfied
  <2>2. FrameOK(f)
    BY <1>3, <1>4, <1>5, <1>8, <2>1 DEF FrameOK, Idling, Runs
  <2> QED
    BY <1>1, <1>10, <2>2, FrameGrows
<1>12. claimed' = claimed /\ performed' = performed /\ helpers' = helpers /\ slots' = slots
  BY <1>3 DEF loops, idlers
<1>13. StacksOK' /\ HelpersOK' /\ LoopsOK'
  <2>1. ~Runs(f) /\ (Registered(f) <=> Registered(g))
    BY <1>3, <1>4, <1>5, <1>8 DEF Runs, Registered, Idling, FrameOK
  <2> QED
    BY <1>1, <1>2, <1>6, <1>7, <1>10, <1>11, <1>12, <2>1, GotoStep
<1>14. TypeOK'
  BY <1>1, <1>3, <1>9 DEF TypeOK, loops, idlers, history, Enqueued
<1>15. SleepOK'
  <2>1. t \notin fresh
    BY <1>1, <1>2, <1>3, NotFresh DEF Blocking
  <2>2. \A l \in Loops : slots'[l] <= slots[l] /\ slots'[l] \in Nat
    BY <1>1, <1>12, SlotsSame
  <2>3. \A l \in Loops : ~(Done(l)' /\ ~Done(l))
    BY <1>12 DEF Done, Iterations
  <2>4. f.at # "dequeue" /\ f.at # "asleep"
    BY <1>3, <1>4, <1>5, <1>8
  <2>5. queue' \subseteq queue /\ fresh' = fresh
    BY <1>3 DEF idlers
  <2>6. ~Announces(t)
    BY <1>4
  <2> QED
    BY <1>1, <1>3, <1>9, <1>10, <1>13, <2>1, <2>2, <2>3, <2>4, <2>5, <2>6, SleepKept
<1> QED
  BY <1>13, <1>14, <1>15 DEF IInv


LEMMA WaitGoesOnKeeps == ASSUME IInv, NEW t \in Threads, WaitGoesOn(t) PROVE IInv'
<1>1. TypeOK /\ StacksOK /\ LoopsOK /\ HelpersOK /\ SleepOK
  BY DEF IInv
<1>2. PICK g : g = Top(t)
  OBVIOUS
<1>3. /\ g.at \in {"look", "spin", "park", "woken"} /\ (g.at = "look" \/ t \notin fresh) /\ ~Satisfied(g) /\ LockIsFree
      /\ UNCHANGED <<wake, queue, loops, flags, stop, idlers, history>>
  BY <1>2 DEF WaitGoesOn, Looking
<1>4. g.in \in {"serve", "join", "await"} /\ ~g.completed /\ ~Announces(t)
  <2>1. FrameOK(g)
    BY <1>1, <1>2, TopFacts
  <2> QED
    BY <1>2, <1>3, <2>1 DEF FrameOK, Idling, Announces
<1>5. PICK at \in Places : at = "dequeue"
  BY <1>3, <1>4 DEF Places
<1>6. PICK f : f = [g EXCEPT !.at = at]
  OBVIOUS
<1>7. Goto(t, at)
  BY <1>2, <1>5 DEF WaitGoesOn, HelpersWait
<1>8. /\ f \in FrameType /\ f.in = g.in /\ f.on = g.on /\ f.then = g.then /\ f.completed = g.completed /\ f.at = at /\ FrameOK(g)
      /\ stack' = [stack EXCEPT ![t] = <<f>> \o Tail(@)]
  BY <1>1, <1>2, <1>6, <1>7, GotoIs
<1>9. Others(t) /\ Top(t)' = f /\ stack' \in [Threads -> Seq(FrameType) \ {<<>>}]
  BY <1>1, <1>8, SwapIs
<1>10. Grown
  BY <1>3 DEF Grown, Enqueued, Done, Iterations, loops, history
<1>11. FrameOK(f)'
  <2>1. Satisfied(f) <=> Satisfied(g)
    BY <1>8 DEF Satisfied
  <2>2. FrameOK(f)
    BY <1>3, <1>4, <1>5, <1>8, <2>1 DEF FrameOK, Idling, Runs
  <2> QED
    BY <1>1, <1>10, <2>2, FrameGrows
<1>12. claimed' = claimed /\ performed' = performed /\ helpers' = helpers /\ slots' = slots
  BY <1>3 DEF loops, idlers
<1>13. StacksOK' /\ HelpersOK' /\ LoopsOK'
  <2>1. ~Runs(f) /\ (Registered(f) <=> Registered(g))
    BY <1>3, <1>4, <1>5, <1>8 DEF Runs, Registered, Idling, FrameOK
  <2> QED
    BY <1>1, <1>2, <1>6, <1>7, <1>10, <1>11, <1>12, <2>1, GotoStep
<1>14. TypeOK'
  BY <1>1, <1>3, <1>9 DEF TypeOK, loops, idlers, history, Enqueued
<1>15. SleepOK'
  <2>1. t \notin fresh
    BY <1>1, <1>2, <1>3, NotFresh DEF Blocking
  <2>2. \A l \in Loops : slots'[l] <= slots[l] /\ slots'[l] \in Nat
    BY <1>1, <1>12, SlotsSame
  <2>3. \A l \in Loops : ~(Done(l)' /\ ~Done(l))
    BY <1>12 DEF Done, Iterations
  <2>4. f.at # "asleep" /\ LockIsFree /\ ~Satisfied(f)'
    <3>1. Satisfied(f)' <=> Satisfied(g)
      BY <1>3, <1>8 DEF Satisfied, Done, Iterations, loops
    <3> QED
      BY <1>3, <1>5, <1>8, <3>1
  <2>5. queue' \subseteq queue /\ fresh' = fresh
    BY <1>3 DEF idlers
  <2>6. ~Announces(t)
    BY <1>4
  <2> QED
    BY <1>1, <1>3, <1>9, <1>10, <1>13, <2>1, <2>2, <2>3, <2>4, <2>5, <2>6, SleepKept
<1> QED
  BY <1>13, <1>14, <1>15 DEF IInv


LEMMA LoopCompletedKeeps == ASSUME IInv, NEW t \in Threads, LoopCompleted(t) PROVE IInv'
<1>1. TypeOK /\ StacksOK /\ LoopsOK /\ HelpersOK /\ SleepOK
  BY DEF IInv
<1>2. PICK g : g = Top(t)
  OBVIOUS
<1>3. /\ g.at = "completed"
      /\ UNCHANGED <<wake, queue, loops, flags, stop, idlers, history>>
  BY <1>2 DEF LoopCompleted, Is
<1>4. g.in \in {"serve", "join", "await"} /\ ~g.completed /\ g.then \in {"look", "poll"} /\ (g.then = "poll" => g.in = "join")
  <2>1. FrameOK(g)
    BY <1>1, <1>2, TopFacts
  <2> QED
    BY <1>2, <1>3, <2>1 DEF FrameOK, Idling, Announces
<1>5. PICK at \in Places : at = IF helpers > 0 THEN "announce" ELSE g.then
  BY <1>3, <1>4 DEF Places
<1>6. PICK f : f = [g EXCEPT !.at = at]
  OBVIOUS
<1>7. Goto(t, at)
  BY <1>2, <1>5 DEF LoopCompleted, HelpersWait
<1>8. /\ f \in FrameType /\ f.in = g.in /\ f.on = g.on /\ f.then = g.then /\ f.completed = g.completed /\ f.at = at /\ FrameOK(g)
      /\ stack' = [stack EXCEPT ![t] = <<f>> \o Tail(@)]
  BY <1>1, <1>2, <1>6, <1>7, GotoIs
<1>9. Others(t) /\ Top(t)' = f /\ stack' \in [Threads -> Seq(FrameType) \ {<<>>}]
  BY <1>1, <1>8, SwapIs
<1>10. Grown
  BY <1>3 DEF Grown, Enqueued, Done, Iterations, loops, history
<1>11. FrameOK(f)'
  <2>1. Satisfied(f) <=> Satisfied(g)
    BY <1>8 DEF Satisfied
  <2>2. FrameOK(f)
    BY <1>3, <1>4, <1>5, <1>8, <2>1 DEF FrameOK, Idling, Runs
  <2> QED
    BY <1>1, <1>10, <2>2, FrameGrows
<1>12. claimed' = claimed /\ performed' = performed /\ helpers' = helpers /\ slots' = slots
  BY <1>3 DEF loops, idlers
<1>13. StacksOK' /\ HelpersOK' /\ LoopsOK'
  <2>1. ~Runs(f) /\ (Registered(f) <=> Registered(g))
    BY <1>3, <1>4, <1>5, <1>8 DEF Runs, Registered, Idling, FrameOK
  <2> QED
    BY <1>1, <1>2, <1>6, <1>7, <1>10, <1>11, <1>12, <2>1, GotoStep
<1>14. TypeOK'
  BY <1>1, <1>3, <1>9 DEF TypeOK, loops, idlers, history, Enqueued
<1>15. SleepOK'
  <2>1. t \notin fresh
    BY <1>1, <1>2, <1>3, NotFresh DEF Blocking
  <2>2. \A l \in Loops : slots'[l] <= slots[l] /\ slots'[l] \in Nat
    BY <1>1, <1>12, SlotsSame
  <2>3. \A l \in Loops : ~(Done(l)' /\ ~Done(l))
    BY <1>12 DEF Done, Iterations
  <2>4. f.at # "dequeue" /\ f.at # "asleep"
    BY <1>3, <1>4, <1>5, <1>8
  <2>5. queue' \subseteq queue /\ fresh' = fresh
    BY <1>3 DEF idlers
  <2>6. Announces(t) => Announces(t)' \/ helpers = 0
    <3>1. helpers > 0 => f.at = "announce"
      BY <1>5, <1>8
    <3>2. helpers > 0 \/ helpers = 0
      BY <1>1 DEF TypeOK
    <3> QED
      BY <1>9, <3>1, <3>2 DEF Announces
  <2> QED
    BY <1>1, <1>3, <1>9, <1>10, <1>13, <2>1, <2>2, <2>3, <2>4, <2>5, <2>6, SleepKept
<1> QED
  BY <1>13, <1>14, <1>15 DEF IInv


LEMMA AnnounceKeeps == ASSUME IInv, NEW t \in Threads, Announce(t) PROVE IInv'
<1>1. TypeOK /\ StacksOK /\ LoopsOK /\ HelpersOK /\ SleepOK
  BY DEF IInv
<1>2. PICK g : g = Top(t)
  OBVIOUS
<1>3. /\ g.at = "announce" /\ wake[t] = <<>> /\ Update(t, "helpers")
      /\ UNCHANGED <<queue, loops, flags, stop, helpers, history>>
  BY <1>2 DEF Announce, Is, Ready
<1>4. g.in \in {"serve", "join", "await"} /\ ~g.completed /\ g.then \in {"look", "poll"} /\ (g.then = "poll" => g.in = "join")
  <2>1. FrameOK(g)
    BY <1>1, <1>2, TopFacts
  <2> QED
    BY <1>2, <1>3, <2>1 DEF FrameOK, Idling, Announces
<1>5. PICK at \in Places : at = g.then
  BY <1>3, <1>4 DEF Places
<1>6. PICK f : f = [g EXCEPT !.at = at]
  OBVIOUS
<1>7. Goto(t, at)
  BY <1>2, <1>5 DEF Announce, HelpersWait
<1>8. /\ f \in FrameType /\ f.in = g.in /\ f.on = g.on /\ f.then = g.then /\ f.completed = g.completed /\ f.at = at /\ FrameOK(g)
      /\ stack' = [stack EXCEPT ![t] = <<f>> \o Tail(@)]
  BY <1>1, <1>2, <1>6, <1>7, GotoIs
<1>9. Others(t) /\ Top(t)' = f /\ stack' \in [Threads -> Seq(FrameType) \ {<<>>}]
  BY <1>1, <1>8, SwapIs
<1>10. Grown
  BY <1>3 DEF Grown, Enqueued, Done, Iterations, loops, history
<1>11. FrameOK(f)'
  <2>1. Satisfied(f) <=> Satisfied(g)
    BY <1>8 DEF Satisfied
  <2>2. FrameOK(f)
    BY <1>3, <1>4, <1>5, <1>8, <2>1 DEF FrameOK, Idling, Runs
  <2> QED
    BY <1>1, <1>10, <2>2, FrameGrows
<1>12. claimed' = claimed /\ performed' = performed /\ helpers' = helpers /\ slots' = slots
  BY <1>3 DEF loops
<1>13. StacksOK' /\ HelpersOK' /\ LoopsOK'
  <2>1. ~Runs(f) /\ (Registered(f) <=> Registered(g))
    BY <1>3, <1>4, <1>5, <1>8 DEF Runs, Registered, Idling, FrameOK
  <2> QED
    BY <1>1, <1>2, <1>6, <1>7, <1>10, <1>11, <1>12, <2>1, GotoStep
<1>14. TypeOK'
  <2>1. fresh' = {} /\ wake' \in [Threads -> Seq(NotificationType)]
    BY <1>1, <1>3, NotificationsAre DEF Update, TypeOK
  <2> QED
    BY <1>1, <1>3, <1>9, <2>1 DEF TypeOK, loops, history, Enqueued
<1>15. SleepOK'
  <2>1. PICK notify \in {"one", "everyone", "helpers"} : notify = "helpers"
    OBVIOUS
  <2>2. f.at \notin {"dequeue", "asleep"}
    BY <1>4, <1>5, <1>8
  <2> QED
    BY <1>1, <1>3, <1>9, <2>1, <2>2, SleepUpdated
<1> QED
  BY <1>13, <1>14, <1>15 DEF IInv


LEMMA IdleKeeps == ASSUME IInv, NEW t \in Threads, Idle(t) PROVE IInv'
<1>1. TypeOK /\ StacksOK /\ LoopsOK /\ HelpersOK /\ SleepOK
  BY DEF IInv
<1>2. PICK g : g = Top(t)
  OBVIOUS
<1>3. /\ g.at = "dequeue" /\ (\A l \in queue : ~Offered(t, l)) /\ queue' \subseteq queue /\ fresh' = fresh \cup {t}
      /\ UNCHANGED <<wake, loops, flags, stop, helpers, history>>
  BY <1>2 DEF Idle, Is, Kept
<1>4. g.in \in {"serve", "join", "await"} /\ ~g.completed /\ ~Announces(t)
  <2>1. FrameOK(g)
    BY <1>1, <1>2, TopFacts
  <2> QED
    BY <1>2, <1>3, <2>1 DEF FrameOK, Idling, Announces
<1>5. PICK at \in Places : at = "spin"
  BY <1>3, <1>4 DEF Places
<1>6. PICK f : f = [g EXCEPT !.at = at]
  OBVIOUS
<1>7. Goto(t, at)
  BY <1>2, <1>5 DEF Idle, HelpersWait
<1>8. /\ f \in FrameType /\ f.in = g.in /\ f.on = g.on /\ f.then = g.then /\ f.completed = g.completed /\ f.at = at /\ FrameOK(g)
      /\ stack' = [stack EXCEPT ![t] = <<f>> \o Tail(@)]
  BY <1>1, <1>2, <1>6, <1>7, GotoIs
<1>9. Others(t) /\ Top(t)' = f /\ stack' \in [Threads -> Seq(FrameType) \ {<<>>}]
  BY <1>1, <1>8, SwapIs
<1>10. Grown
  BY <1>3 DEF Grown, Enqueued, Done, Iterations, loops, history
<1>11. FrameOK(f)'
  <2>1. Satisfied(f) <=> Satisfied(g)
    BY <1>8 DEF Satisfied
  <2>2. FrameOK(f)
    BY <1>3, <1>4, <1>5, <1>8, <2>1 DEF FrameOK, Idling, Runs
  <2> QED
    BY <1>1, <1>10, <2>2, FrameGrows
<1>12. claimed' = claimed /\ performed' = performed /\ helpers' = helpers /\ slots' = slots
  BY <1>3 DEF loops
<1>13. StacksOK' /\ HelpersOK' /\ LoopsOK'
  <2>1. ~Runs(f) /\ (Registered(f) <=> Registered(g))
    BY <1>3, <1>4, <1>5, <1>8 DEF Runs, Registered, Idling, FrameOK
  <2> QED
    BY <1>1, <1>2, <1>6, <1>7, <1>10, <1>11, <1>12, <2>1, GotoStep
<1>14. TypeOK'
  BY <1>1, <1>3, <1>9 DEF TypeOK, loops, idlers, history, Enqueued
<1>15. SleepOK'
  <2>1. Inside(t)' = Inside(t)
    BY <1>1, <1>2, <1>8, GotoInside
  <2>2. f.at \in Blocking
    BY <1>5, <1>8 DEF Blocking
  <2>3. \A l \in queue' : ~Offered(t, l)
    BY <1>3
  <2>4. fresh' = fresh \cup {t} /\ queue' \subseteq queue
    BY <1>3
  <2> QED
    BY <1>1, <1>2, <1>3, <1>8, <1>9, <1>10, <1>13, <2>1, <2>2, <2>3, <2>4, SleepMoves
<1> QED
  BY <1>13, <1>14, <1>15 DEF IInv


LEMMA StopSpinningKeeps == ASSUME IInv, NEW t \in Threads, StopSpinning(t) PROVE IInv'
<1>1. TypeOK /\ StacksOK /\ LoopsOK /\ HelpersOK /\ SleepOK
  BY DEF IInv
<1>2. PICK g : g = Top(t)
  OBVIOUS
<1>3. /\ g.at = "spin" /\ t \in fresh
      /\ UNCHANGED <<wake, queue, loops, flags, stop, idlers, history>>
  BY <1>2 DEF StopSpinning, Is
<1>4. g.in \in {"serve", "join", "await"} /\ ~g.completed /\ ~Announces(t)
  <2>1. FrameOK(g)
    BY <1>1, <1>2, TopFacts
  <2> QED
    BY <1>2, <1>3, <2>1 DEF FrameOK, Idling, Announces
<1>5. PICK at \in Places : at = "park"
  BY <1>3, <1>4 DEF Places
<1>6. PICK f : f = [g EXCEPT !.at = at]
  OBVIOUS
<1>7. Goto(t, at)
  BY <1>2, <1>5 DEF StopSpinning, HelpersWait
<1>8. /\ f \in FrameType /\ f.in = g.in /\ f.on = g.on /\ f.then = g.then /\ f.completed = g.completed /\ f.at = at /\ FrameOK(g)
      /\ stack' = [stack EXCEPT ![t] = <<f>> \o Tail(@)]
  BY <1>1, <1>2, <1>6, <1>7, GotoIs
<1>9. Others(t) /\ Top(t)' = f /\ stack' \in [Threads -> Seq(FrameType) \ {<<>>}]
  BY <1>1, <1>8, SwapIs
<1>10. Grown
  BY <1>3 DEF Grown, Enqueued, Done, Iterations, loops, history
<1>11. FrameOK(f)'
  <2>1. Satisfied(f) <=> Satisfied(g)
    BY <1>8 DEF Satisfied
  <2>2. FrameOK(f)
    BY <1>3, <1>4, <1>5, <1>8, <2>1 DEF FrameOK, Idling, Runs
  <2> QED
    BY <1>1, <1>10, <2>2, FrameGrows
<1>12. claimed' = claimed /\ performed' = performed /\ helpers' = helpers /\ slots' = slots
  BY <1>3 DEF loops, idlers
<1>13. StacksOK' /\ HelpersOK' /\ LoopsOK'
  <2>1. ~Runs(f) /\ (Registered(f) <=> Registered(g))
    BY <1>3, <1>4, <1>5, <1>8 DEF Runs, Registered, Idling, FrameOK
  <2> QED
    BY <1>1, <1>2, <1>6, <1>7, <1>10, <1>11, <1>12, <2>1, GotoStep
<1>14. TypeOK'
  BY <1>1, <1>3, <1>9 DEF TypeOK, loops, idlers, history, Enqueued
<1>15. SleepOK'
  <2>1. Inside(t)' = Inside(t)
    BY <1>1, <1>2, <1>8, GotoInside
  <2>2. f.at \in Blocking
    BY <1>5, <1>8 DEF Blocking
  <2>3. \A l \in queue' : ~Offered(t, l)
    BY <1>1, <1>2, <1>3 DEF SleepOK, OffersOK
  <2>4. fresh' = fresh \cup {t} /\ queue' \subseteq queue
    BY <1>3 DEF idlers
  <2> QED
    BY <1>1, <1>2, <1>3, <1>8, <1>9, <1>10, <1>13, <2>1, <2>2, <2>3, <2>4, SleepMoves
<1> QED
  BY <1>13, <1>14, <1>15 DEF IInv


LEMMA ParkKeeps == ASSUME IInv, NEW t \in Threads, Park(t) PROVE IInv'
<1>1. TypeOK /\ StacksOK /\ LoopsOK /\ HelpersOK /\ SleepOK
  BY DEF IInv
<1>2. PICK g : g = Top(t)
  OBVIOUS
<1>3. /\ g.at \in {"park", "woken"} /\ t \in fresh
      /\ UNCHANGED <<wake, queue, loops, flags, stop, idlers, history>>
  BY <1>2 DEF Park, Ready
<1>4. g.in \in {"serve", "join", "await"} /\ ~g.completed /\ ~Announces(t)
  <2>1. FrameOK(g)
    BY <1>1, <1>2, TopFacts
  <2> QED
    BY <1>2, <1>3, <2>1 DEF FrameOK, Idling, Announces
<1>5. PICK at \in Places : at = "asleep"
  BY <1>3, <1>4 DEF Places
<1>6. PICK f : f = [g EXCEPT !.at = at]
  OBVIOUS
<1>7. Goto(t, at)
  BY <1>2, <1>5 DEF Park, HelpersWait
<1>8. /\ f \in FrameType /\ f.in = g.in /\ f.on = g.on /\ f.then = g.then /\ f.completed = g.completed /\ f.at = at /\ FrameOK(g)
      /\ stack' = [stack EXCEPT ![t] = <<f>> \o Tail(@)]
  BY <1>1, <1>2, <1>6, <1>7, GotoIs
<1>9. Others(t) /\ Top(t)' = f /\ stack' \in [Threads -> Seq(FrameType) \ {<<>>}]
  BY <1>1, <1>8, SwapIs
<1>10. Grown
  BY <1>3 DEF Grown, Enqueued, Done, Iterations, loops, history
<1>11. FrameOK(f)'
  <2>1. Satisfied(f) <=> Satisfied(g)
    BY <1>8 DEF Satisfied
  <2>2. FrameOK(f)
    BY <1>3, <1>4, <1>5, <1>8, <2>1 DEF FrameOK, Idling, Runs
  <2> QED
    BY <1>1, <1>10, <2>2, FrameGrows
<1>12. claimed' = claimed /\ performed' = performed /\ helpers' = helpers /\ slots' = slots
  BY <1>3 DEF loops, idlers
<1>13. StacksOK' /\ HelpersOK' /\ LoopsOK'
  <2>1. ~Runs(f) /\ (Registered(f) <=> Registered(g))
    BY <1>3, <1>4, <1>5, <1>8 DEF Runs, Registered, Idling, FrameOK
  <2> QED
    BY <1>1, <1>2, <1>6, <1>7, <1>10, <1>11, <1>12, <2>1, GotoStep
<1>14. TypeOK'
  BY <1>1, <1>3, <1>9 DEF TypeOK, loops, idlers, history, Enqueued
<1>15. SleepOK'
  <2>1. Inside(t)' = Inside(t)
    BY <1>1, <1>2, <1>8, GotoInside
  <2>2. f.at \in Blocking
    BY <1>5, <1>8 DEF Blocking
  <2>3. \A l \in queue' : ~Offered(t, l)
    BY <1>1, <1>2, <1>3 DEF SleepOK, OffersOK
  <2>4. fresh' = fresh \cup {t} /\ queue' \subseteq queue
    BY <1>3 DEF idlers
  <2> QED
    BY <1>1, <1>2, <1>3, <1>8, <1>9, <1>10, <1>13, <2>1, <2>2, <2>3, <2>4, SleepMoves
<1> QED
  BY <1>13, <1>14, <1>15 DEF IInv

LEMMA ClaimKeeps == ASSUME IInv, NEW t \in Threads, Claim(t) PROVE IInv'
<1>1. TypeOK /\ StacksOK /\ LoopsOK /\ HelpersOK /\ SleepOK
  BY DEF IInv
<1>2. PICK g : g = Top(t)
  OBVIOUS
<1>3. PICK l : l = g.on
  OBVIOUS
<1>4. PICK i \in Startable(l) :
        /\ claimed' = [claimed EXCEPT ![l] = @ \cup {i}]
        /\ stack' = [stack EXCEPT ![t] = <<[Head(@) EXCEPT !.at = "body", !.iteration = i, !.calls = Body[l][i]]>> \o Tail(@)]
  BY <1>2, <1>3 DEF Claim
<1>5. g.at = "claim" /\ UNCHANGED <<wake, queue, performed, slots, flags, stop, idlers, history>>
  BY <1>2 DEF Claim, Is
<1>6. g \in FrameType /\ FrameOK(g) /\ Holds(t, Height(t), g)
  BY <1>1, <1>2, TopFacts, TopIs
<1>7. g.in = "work" /\ l \in Loops /\ l \in Enqueued
  BY <1>1, <1>3, <1>5, <1>6, EnqueuedIs DEF FrameOK, Idling
<1>8. i \in Iterations(l) /\ i \notin claimed[l] /\ i \notin performed[l]
  BY <1>1, <1>4, <1>7 DEF Startable, LoopsOK
<1>9. ~g.completed
  BY <1>3, <1>6, <1>8 DEF FrameOK, Done
<1>10. Body[l][i] \in Seq(CallType) /\ i \in Nat
  BY <1>7, <1>8, BodyIs
<1>11. PICK f : f = [g EXCEPT !.at = "body", !.iteration = i, !.calls = Body[l][i]]
  OBVIOUS
<1>12. f \in FrameType /\ f.in = "work" /\ f.on = l /\ f.at = "body" /\ f.iteration = i /\ f.calls = Body[l][i] /\ ~f.completed
  <2>1. "body" \in Places
    BY DEF Places
  <2> QED
    BY <1>3, <1>6, <1>7, <1>9, <1>10, <1>11, <2>1 DEF FrameType
<1>13. stack' = [stack EXCEPT ![t] = <<f>> \o Tail(@)]
  BY <1>2, <1>4, <1>11 DEF Top
<1>14. Others(t) /\ Top(t)' = f /\ stack' \in [Threads -> Seq(FrameType) \ {<<>>}]
       /\ \A d, h : Holds(t, d, h)' <=> (Holds(t, d, h) /\ d < Height(t)) \/ (d = Height(t) /\ h = f)
  BY <1>1, <1>12, <1>13, SwapIs
<1>15. \A k \in Loops : claimed'[k] = IF k = l THEN claimed[k] \cup {i} ELSE claimed[k]
  BY <1>1, <1>4, <1>7 DEF TypeOK
<1>16. Grown
  BY <1>5, <1>15 DEF Grown, Enqueued, Done, Iterations, history
<1>17. Len(f.calls) = Len(BodyOf(f)) /\ Made(f) = 0 /\ BodyOf(f) = Body[l][i] /\ Len(f.calls) \in Nat
  BY <1>10, <1>12 DEF Made, BodyOf
<1>18. FrameOK(f)'
  <2>1. Len(f.calls) <= Len(BodyOf(f)) /\ \A k \in 1 .. Len(f.calls) : f.calls[k] = BodyOf(f)[Made(f) + k]
    <3>1. \A k \in 1 .. Len(f.calls) : 0 + k = k
      BY <1>17
    <3> QED
      BY <1>12, <1>17, <3>1
  <2>2. FrameOK(f)
    BY <1>7, <1>12, <2>1 DEF FrameOK
  <2> QED
    BY <1>1, <1>16, <2>2, FrameGrows
<1>19. TopOK(f)'
  BY <1>17 DEF TopOK, Made, BodyOf
<1>20. claimed' \in [Loops -> SUBSET Nat]
  BY <1>1, <1>4, <1>7, <1>10 DEF TypeOK
<1>21. TypeOK'
  BY <1>1, <1>5, <1>14, <1>20 DEF TypeOK, idlers, history, Enqueued
<1>22. FramesOK' /\ LinksOK' /\ TopsOK'
  BY <1>1, <1>2, <1>3, <1>7, <1>12, <1>13, <1>16, <1>18, <1>19, SwapKeeps
\* What ran before was not this iteration.
<1>23. \A u \in Threads : \A d, h : Holds(u, d, h)' => Holds(u, d, h) \/ (u = t /\ d = Height(t) /\ h = f)
  BY <1>14 DEF Others
<1>24. \A u \in Threads : \A d, h : Holds(u, d, h) /\ Runs(h) =>
         h.on \in Loops /\ h.iteration \in claimed[h.on] /\ h.iteration \notin performed[h.on] /\ (h.on = l => h.iteration # i)
  <2>1. ASSUME NEW u \in Threads, NEW d, NEW h, Holds(u, d, h), Runs(h)
        PROVE  h.on \in Loops /\ h.iteration \in claimed[h.on] /\ h.iteration \notin performed[h.on]
    BY <1>1, <2>1, EnqueuedIs DEF StacksOK, FramesOK, FrameOK, Runs, RunningOK
  <2> QED
    BY <1>8, <2>1
<1>25. RunningOK'
  <2>1. performed' = performed
    BY <1>5
  <2>2. ASSUME NEW u \in Threads, NEW d, NEW h, Holds(u, d, h)', Runs(h)
        PROVE  h.iteration \in claimed'[h.on] /\ h.iteration \notin performed'[h.on]
    BY <1>7, <1>8, <1>12, <1>15, <1>23, <1>24, <2>1, <2>2, ZenonT(40)
  <2>3. ASSUME NEW u \in Threads, NEW v \in Threads, NEW d, NEW e, NEW h, NEW k, Holds(u, d, h)', Holds(v, e, k)',
               Runs(h), Runs(k), h.on = k.on, h.iteration = k.iteration
        PROVE  u = v /\ d = e
    <3>1. CASE Holds(u, d, h) /\ Holds(v, e, k)
      BY <1>1, <2>3, <3>1 DEF StacksOK, RunningOK
    <3>2. CASE Holds(u, d, h) /\ v = t /\ e = Height(t) /\ k = f
      BY <1>12, <1>24, <2>3, <3>2
    <3>3. CASE Holds(v, e, k) /\ u = t /\ d = Height(t) /\ h = f
      BY <1>12, <1>24, <2>3, <3>3
    <3> QED
      BY <1>23, <2>3, <3>1, <3>2, <3>3
  <2> QED
    BY <2>2, <2>3 DEF RunningOK, Runs
<1>26. HelpersOK'
  <2>1. ~Registered(f) /\ ~Registered(g) /\ helpers' = helpers
    BY <1>5, <1>7, <1>12 DEF Registered, idlers
  <2>2. ASSUME NEW u \in Threads, NEW d \in Nat PROVE Waits(u, d)' <=> Waits(u, d)
    <3>1. /\ Waits(t, Height(t)) <=> Registered(g)
          /\ Waits(u, d)' <=> (u = t /\ d = Height(t) /\ Registered(f)) \/ (Waits(u, d) /\ <<u, d>> # <<t, Height(t)>>)
      BY <1>1, <1>2, <1>12, <1>13, SwapWaits
    <3> QED
      BY <2>1, <3>1
  <2> QED
    BY <1>1, <2>1, <2>2, HelpersKept
<1>27. LoopsOK'
  BY <1>1, <1>5, <1>8, <1>15 DEF LoopsOK, Iterations
<1>28. SleepOK'
  <2>1. t \notin fresh
    BY <1>1, <1>2, <1>5, NotFresh DEF Blocking
  <2>2. \A k \in Loops : slots'[k] <= slots[k] /\ slots'[k] \in Nat
    BY <1>1, <1>5, SlotsSame
  <2>3. \A k \in Loops : ~(Done(k)' /\ ~Done(k))
    BY <1>5 DEF Done, Iterations
  <2>4. f.at # "dequeue" /\ f.at # "asleep"
    BY <1>12
  <2>5. queue' \subseteq queue /\ fresh' = fresh
    BY <1>5 DEF idlers
  <2>6. ~Announces(t)
    BY <1>2, <1>5, <1>9 DEF Announces
  <2> QED
    BY <1>1, <1>5, <1>14, <1>16, <1>27, <2>1, <2>2, <2>3, <2>4, <2>5, <2>6, SleepKept
<1> QED
  BY <1>21, <1>22, <1>25, <1>26, <1>27, <1>28 DEF IInv, StacksOK

LEMMA FinishKeeps == ASSUME IInv, NEW t \in Threads, Finish(t) PROVE IInv'
<1>1. TypeOK /\ StacksOK /\ LoopsOK /\ HelpersOK /\ SleepOK
  BY DEF IInv
<1>2. PICK g : g = Top(t)
  OBVIOUS
<1>3. PICK l : l = g.on
  OBVIOUS
<1>4. PICK i : i = g.iteration
  OBVIOUS
<1>5. PICK last : last = (performed[l] \cup {i} = Iterations(l))
  OBVIOUS
<1>6. /\ g.at = "body" /\ g.in = "work" /\ g.calls = <<>>
      /\ performed' = [performed EXCEPT ![l] = @ \cup {i}]
      /\ stack' = [stack EXCEPT ![t] = <<[Head(@) EXCEPT !.at = "claim", !.completed = last]>> \o Tail(@)]
      /\ UNCHANGED <<wake, queue, claimed, slots, flags, stop, idlers, history>>
  BY <1>2, <1>3, <1>4, <1>5 DEF Finish, Is
<1>7. g \in FrameType /\ FrameOK(g) /\ Holds(t, Height(t), g)
  BY <1>1, <1>2, TopFacts, TopIs
<1>8. l \in Loops /\ l \in Enqueued /\ Runs(g) /\ ~g.completed
  BY <1>1, <1>3, <1>6, <1>7, EnqueuedIs DEF FrameOK, Runs
<1>9. i \in claimed[l] /\ i \notin performed[l] /\ i \in Iterations(l) /\ i \in Nat
  BY <1>1, <1>3, <1>4, <1>7, <1>8 DEF StacksOK, RunningOK, LoopsOK, FrameType
<1>10. PICK f : f = [g EXCEPT !.at = "claim", !.completed = last]
  OBVIOUS
<1>11. f \in FrameType /\ f.in = "work" /\ f.on = l /\ f.at = "claim" /\ f.completed = last
  <2>1. "claim" \in Places /\ last \in BOOLEAN
    BY <1>5 DEF Places
  <2> QED
    BY <1>3, <1>6, <1>7, <1>10, <2>1 DEF FrameType
<1>12. stack' = [stack EXCEPT ![t] = <<f>> \o Tail(@)]
  BY <1>2, <1>6, <1>10 DEF Top
<1>13. Others(t) /\ Top(t)' = f /\ stack' \in [Threads -> Seq(FrameType) \ {<<>>}]
       /\ \A d, h : Holds(t, d, h)' <=> (Holds(t, d, h) /\ d < Height(t)) \/ (d = Height(t) /\ h = f)
  BY <1>1, <1>11, <1>12, SwapIs
<1>14. \A k \in Loops : performed'[k] = IF k = l THEN performed[k] \cup {i} ELSE performed[k]
  BY <1>1, <1>6, <1>8 DEF TypeOK
<1>15. \A k \in Loops : (Done(k) => Done(k)') /\ (Done(k)' /\ ~Done(k) => k = l) /\ (k = l => (Done(k)' <=> last))
  BY <1>5, <1>9, <1>14 DEF Done, Iterations
<1>16. Grown
  BY <1>6, <1>15 DEF Grown, Enqueued, history
<1>17. FrameOK(f)' /\ TopOK(f)' /\ ~Runs(f)
  <2>1. l \in Enqueued' /\ (f.completed => Done(f.on)')
    BY <1>8, <1>11, <1>15, <1>16 DEF Grown
  <2> QED
    BY <1>11, <2>1 DEF FrameOK, TopOK, Runs
<1>18. performed' \in [Loops -> SUBSET Nat]
  BY <1>1, <1>6, <1>8, <1>9 DEF TypeOK
<1>19. TypeOK'
  BY <1>1, <1>6, <1>13, <1>18 DEF TypeOK, idlers, history, Enqueued
<1>20. FramesOK' /\ LinksOK' /\ TopsOK'
  BY <1>1, <1>2, <1>3, <1>6, <1>11, <1>12, <1>16, <1>17, SwapKeeps, ZenonT(40)
\* What still runs is another iteration.
<1>21. ASSUME NEW u \in Threads, NEW d, NEW h, Holds(u, d, h)', Runs(h)
       PROVE  Holds(u, d, h) /\ (h.on = l => h.iteration # i)
  <2>1. Holds(u, d, h) /\ (u = t => d < Height(t))
    BY <1>13, <1>17, <1>21 DEF Others
  <2>2. u # t \/ d # Height(t)
    BY <1>1, <2>1, TopIs
  <2>3. h.on = l /\ h.iteration = i => u = t /\ d = Height(t)
    BY <1>1, <1>3, <1>4, <1>7, <1>8, <1>21, <2>1 DEF StacksOK, RunningOK
  <2> QED
    BY <2>1, <2>2, <2>3
<1>22. RunningOK'
  <2>1. ASSUME NEW u \in Threads, NEW d, NEW h, Holds(u, d, h)', Runs(h)
        PROVE  h.iteration \in claimed'[h.on] /\ h.iteration \notin performed'[h.on]
    <3>1. Holds(u, d, h) /\ (h.on = l => h.iteration # i)
      BY <1>21, <2>1
    <3>2. h.on \in Loops /\ h.iteration \in claimed[h.on] /\ h.iteration \notin performed[h.on]
      BY <1>1, <2>1, <3>1, EnqueuedIs DEF StacksOK, FramesOK, FrameOK, Runs, RunningOK
    <3> QED
      BY <1>6, <1>14, <3>1, <3>2
  <2>2. ASSUME NEW u \in Threads, NEW v \in Threads, NEW d, NEW e, NEW h, NEW k, Holds(u, d, h)', Holds(v, e, k)',
               Runs(h), Runs(k), h.on = k.on, h.iteration = k.iteration
        PROVE  u = v /\ d = e
    <3>1. Holds(u, d, h) /\ Holds(v, e, k)
      BY <1>21, <2>2
    <3> QED
      BY <1>1, <2>2, <3>1 DEF StacksOK, RunningOK
  <2> QED
    BY <2>1, <2>2 DEF RunningOK, Runs
<1>23. HelpersOK'
  <2>1. ~Registered(f) /\ ~Registered(g) /\ helpers' = helpers
    BY <1>6, <1>11 DEF Registered, idlers
  <2>2. ASSUME NEW u \in Threads, NEW d \in Nat PROVE Waits(u, d)' <=> Waits(u, d)
    <3>1. /\ Waits(t, Height(t)) <=> Registered(g)
          /\ Waits(u, d)' <=> (u = t /\ d = Height(t) /\ Registered(f)) \/ (Waits(u, d) /\ <<u, d>> # <<t, Height(t)>>)
      BY <1>1, <1>2, <1>11, <1>12, SwapWaits
    <3> QED
      BY <2>1, <3>1
  <2> QED
    BY <1>1, <2>1, <2>2, HelpersKept
<1>24. LoopsOK'
  BY <1>1, <1>6, <1>9, <1>14 DEF LoopsOK, Iterations
<1>25. SleepOK'
  <2>1. t \notin fresh
    BY <1>1, <1>2, <1>6, NotFresh DEF Blocking
  <2>2. \A k \in Loops : slots'[k] <= slots[k] /\ slots'[k] \in Nat
    BY <1>1, <1>6, SlotsSame
  <2>3. \A k \in Loops : Done(k)' /\ ~Done(k) => Announces(t)'
    BY <1>11, <1>13, <1>15 DEF Announces
  <2>4. f.at # "dequeue" /\ f.at # "asleep"
    BY <1>11
  <2>5. queue' \subseteq queue /\ fresh' = fresh
    BY <1>6 DEF idlers
  <2>6. ~Announces(t)
    BY <1>2, <1>6, <1>8 DEF Announces
  <2> QED
    BY <1>1, <1>6, <1>13, <1>16, <1>24, <2>1, <2>2, <2>3, <2>4, <2>5, <2>6, SleepKept
<1> QED
  BY <1>19, <1>20, <1>22, <1>23, <1>24, <1>25 DEF IInv, StacksOK

LEMMA WorkReturnsKeeps == ASSUME IInv, NEW t \in Threads, WorkReturns(t) PROVE IInv'
<1>1. TypeOK /\ StacksOK /\ LoopsOK /\ HelpersOK /\ SleepOK
  BY DEF IInv
<1>2. PICK j : j = Top(t)
  OBVIOUS
<1>3. PICK g : g = stack[t][2]
  OBVIOUS
<1>4. PICK next : next = IF j.completed THEN "completed" ELSE g.then
  OBVIOUS
<1>5. /\ j.at = "claim"
      /\ stack' = [stack EXCEPT ![t] = <<[g EXCEPT !.at = next]>> \o Tail(Tail(@))]
      /\ UNCHANGED <<wake, queue, loops, flags, stop, idlers, history>>
  BY <1>2, <1>3, <1>4 DEF WorkReturns, Is
<1>6. j.in = "work"
  <2>1. FrameOK(j)
    BY <1>1, <1>2, TopFacts
  <2> QED
    BY <1>5, <2>1 DEF FrameOK, Idling
<1>7. Height(t) > 1 /\ g \in FrameType /\ Holds(t, Height(t) - 1, g) /\ FrameOK(g) /\ LinkOK(g, j)
  BY <1>1, <1>2, <1>3, <1>6, CallerIs
<1>8. /\ g.in \in {"serve", "join", "await"} /\ g.at = g.then /\ g.at \in {"look", "poll"} /\ ~g.completed
      /\ (g.at = "poll" => g.in = "join") /\ g.at # "leave"
  BY <1>6, <1>7 DEF LinkOK, FrameOK, Idling
<1>9. PICK f : f = [g EXCEPT !.at = next]
  OBVIOUS
<1>10. f \in FrameType /\ f.in = g.in /\ f.on = g.on /\ f.at = next /\ f.then = g.then /\ f.completed = g.completed
  <2>1. next \in Places
    BY <1>4, <1>8 DEF Places
  <2> QED
    BY <1>7, <1>9, <2>1 DEF FrameType
<1>11. stack' = [stack EXCEPT ![t] = <<f>> \o Tail(Tail(@))]
  BY <1>5, <1>9
<1>12. Others(t) /\ Top(t)' = f /\ stack' \in [Threads -> Seq(FrameType) \ {<<>>}]
  BY <1>1, <1>7, <1>10, <1>11, ReturnAndSwapIs
<1>13. Grown
  BY <1>5 DEF Grown, Enqueued, Done, Iterations, loops, history
<1>14. FrameOK(f)'
  <2>1. FrameOK(f)
    BY <1>4, <1>7, <1>8, <1>10 DEF FrameOK, Idling, Runs
  <2> QED
    BY <1>1, <1>13, <2>1, FrameGrows
<1>15. TypeOK'
  BY <1>1, <1>5, <1>12 DEF TypeOK, loops, idlers, history, Enqueued
<1>16. claimed' = claimed /\ performed' = performed /\ helpers' = helpers /\ slots' = slots /\ fresh' = fresh
  BY <1>5 DEF loops, idlers
<1>17. StacksOK' /\ HelpersOK'
  <2>1. ~Runs(f) /\ (Registered(f) <=> Registered(g)) /\ ~Registered(j)
    BY <1>4, <1>6, <1>8, <1>10 DEF Runs, Registered, Idling
  <2>2. TopOK(f)'
    BY <2>1 DEF TopOK, Runs
  <2> QED
    BY <1>1, <1>2, <1>7, <1>10, <1>11, <1>13, <1>14, <1>16, <2>1, <2>2, ReturnAndSwapStep
<1>18. LoopsOK'
  BY <1>1, <1>16, LoopsSame
<1>19. SleepOK'
  <2>1. t \notin fresh
    BY <1>1, <1>2, <1>5, NotFresh DEF Blocking
  <2>2. \A l \in Loops : slots'[l] <= slots[l] /\ slots'[l] \in Nat
    BY <1>1, <1>16, SlotsSame
  <2>3. \A l \in Loops : ~(Done(l)' /\ ~Done(l))
    BY <1>16 DEF Done, Iterations
  <2>4. f.at # "dequeue" /\ f.at # "asleep" /\ queue' \subseteq queue
    BY <1>4, <1>5, <1>8, <1>10
  <2>5. Announces(t) => Announces(t)'
    <3>1. Announces(t) => j.completed
      BY <1>2, <1>5 DEF Announces
    <3> QED
      BY <1>4, <1>10, <1>12, <3>1 DEF Announces
  <2> QED
    BY <1>1, <1>5, <1>12, <1>13, <1>16, <1>18, <2>1, <2>2, <2>3, <2>4, <2>5, SleepKept
<1> QED
  BY <1>15, <1>17, <1>18, <1>19 DEF IInv

LEMMA EnterKeeps == ASSUME IInv, NEW t \in Threads, Enter(t) PROVE IInv'
<1>1. TypeOK /\ StacksOK /\ LoopsOK /\ HelpersOK /\ SleepOK
  BY DEF IInv
<1>2. PICK g : g = Top(t)
  OBVIOUS
<1>3. PICK at \in Places : at = "look"
  BY DEF Places
<1>4. PICK f : f = [g EXCEPT !.at = at]
  OBVIOUS
<1>5. g.at = "enter" /\ Goto(t, at) /\ helpers' = helpers + 1 /\ UNCHANGED <<wake, queue, loops, flags, stop, fresh, history>>
  BY <1>2, <1>3 DEF Enter, Is
<1>6. /\ f \in FrameType /\ f.in = g.in /\ f.on = g.on /\ f.then = g.then /\ f.completed = g.completed /\ f.at = at /\ FrameOK(g)
      /\ stack' = [stack EXCEPT ![t] = <<f>> \o Tail(@)] /\ f.iteration = g.iteration
  BY <1>1, <1>2, <1>4, <1>5, GotoIs
<1>7. Others(t) /\ Top(t)' = f /\ stack' \in [Threads -> Seq(FrameType) \ {<<>>}]
  BY <1>1, <1>6, SwapIs
<1>8. g.in \in {"join", "await"} /\ ~g.completed
  BY <1>5, <1>6 DEF FrameOK, Idling
<1>9. Grown
  BY <1>5 DEF Grown, Enqueued, Done, Iterations, loops, history
<1>10. FrameOK(f)'
  <2>1. FrameOK(f)
    BY <1>3, <1>5, <1>6, <1>8 DEF FrameOK, Idling, Runs
  <2> QED
    BY <1>1, <1>9, <2>1, FrameGrows
<1>11. TypeOK'
  BY <1>1, <1>5, <1>7 DEF TypeOK, loops, history, Enqueued
<1>12. claimed' = claimed /\ performed' = performed /\ slots' = slots
  BY <1>5 DEF loops
<1>13. ~Runs(f) /\ Registered(f) /\ ~Registered(g)
  BY <1>3, <1>5, <1>6, <1>8 DEF Runs, Registered, Idling
<1>14. TopOK(f)'
  BY <1>13 DEF TopOK, Runs
<1>15. FramesOK' /\ LinksOK' /\ TopsOK'
  BY <1>1, <1>2, <1>6, <1>9, <1>10, <1>14, SwapKeeps
<1>16. RunningOK'
  <2>1. \A d, h : Holds(t, d, h)' <=> (Holds(t, d, h) /\ d < Height(t)) \/ (d = Height(t) /\ h = f)
    BY <1>1, <1>6, SwapIs
  <2>2. ASSUME NEW u \in Threads, NEW d, NEW h, Holds(u, d, h)', Runs(h)
        PROVE  \E k : Holds(u, d, k) /\ Runs(k) /\ k.on = h.on /\ k.iteration = h.iteration
    BY <1>7, <1>13, <2>1, <2>2 DEF Others
  <2> QED
    BY <1>1, <1>12, <2>2, RunningKept
<1>17. HelpersOK'
  <2>1. PICK n \in Nat : n = Height(t)
    BY <1>1, TopIs
  <2>2. Helping' = Helping \cup {<<t, n>>} /\ <<t, n>> \notin Helping
    <3>1. ASSUME NEW u \in Threads, NEW d \in Nat PROVE Waits(u, d)' <=> Waits(u, d) \/ <<u, d>> = <<t, n>>
      <4>1. /\ Waits(t, Height(t)) <=> Registered(g)
            /\ Waits(u, d)' <=> (u = t /\ d = Height(t) /\ Registered(f)) \/ (Waits(u, d) /\ <<u, d>> # <<t, Height(t)>>)
        BY <1>1, <1>2, <1>6, SwapWaits
      <4> QED
        BY <1>13, <2>1, <4>1
    <3>2. ~Waits(t, n)
      <4>1. Waits(t, Height(t)) <=> Registered(g)
        BY <1>1, <1>2, <1>6, SwapWaits
      <4> QED
        BY <1>13, <2>1, <4>1
    <3> QED
      BY <3>1, <3>2 DEF Helping
  <2>3. IsFiniteSet(Helping) /\ helpers = Cardinality(Helping)
    BY <1>1 DEF HelpersOK
  <2>4. IsFiniteSet(Helping') /\ Cardinality(Helping') = Cardinality(Helping) + 1
    BY <2>2, <2>3, FS_AddElement
  <2> QED
    BY <1>5, <2>3, <2>4 DEF HelpersOK
<1>18. LoopsOK'
  BY <1>1, <1>12, LoopsSame
<1>19. SleepOK'
  <2>1. t \notin fresh
    BY <1>1, <1>2, <1>5, NotFresh DEF Blocking
  <2>2. \A l \in Loops : slots'[l] <= slots[l] /\ slots'[l] \in Nat
    BY <1>1, <1>12, SlotsSame
  <2>3. \A l \in Loops : ~(Done(l)' /\ ~Done(l))
    BY <1>12 DEF Done, Iterations
  <2>4. f.at # "dequeue" /\ f.at # "asleep" /\ queue' \subseteq queue
    BY <1>3, <1>5, <1>6
  <2>5. ~Announces(t)
    BY <1>2, <1>5, <1>8 DEF Announces
  <2> QED
    BY <1>1, <1>5, <1>7, <1>9, <1>12, <1>18, <2>1, <2>2, <2>3, <2>4, <2>5, SleepKept
<1> QED
  BY <1>11, <1>15, <1>16, <1>17, <1>18, <1>19 DEF IInv, StacksOK

LEMMA LeaveKeeps == ASSUME IInv, NEW t \in Threads, Leave(t) PROVE IInv'
<1>1. TypeOK /\ StacksOK /\ LoopsOK /\ HelpersOK /\ SleepOK
  BY DEF IInv
<1>2. PICK g : g = Top(t)
  OBVIOUS
<1>3. /\ g.at = "leave" /\ g.in # "serve" /\ helpers' = helpers - 1 /\ stack' = [stack EXCEPT ![t] = Tail(@)]
      /\ joined' = IF g.in = "join" THEN joined \cup {g.on} ELSE joined
      /\ UNCHANGED <<wake, queue, loops, flags, stop, fresh, enqueued>>
  BY <1>2 DEF Leave, Is, Return
<1>4. FrameOK(g)
  BY <1>1, <1>2, TopFacts
<1>5. g.in \in {"join", "await"} /\ Satisfied(g) /\ (g.in = "join" => g.on \in Enqueued /\ g.on \in Loops) /\ Registered(g)
  BY <1>1, <1>3, <1>4, EnqueuedIs DEF FrameOK, Idling, Registered
<1>6. Grown
  BY <1>3 DEF Grown, Enqueued, Done, Iterations, loops
<1>7. Height(t) > 1 /\ \E h \in FrameType : Holds(t, Height(t) - 1, h) /\ LinkOK(h, g)
  BY <1>1, <1>2, <1>5, CallerIs
<1>8. PICK h : h = Top(t)'
  OBVIOUS
<1>9. Others(t) /\ stack' \in [Threads -> Seq(FrameType) \ {<<>>}] /\ Holds(t, Height(t) - 1, h)
  BY <1>1, <1>3, <1>7, <1>8, ReturnIs
<1>10. h.at = "body"
  BY <1>1, <1>5, <1>7, <1>9, HoldsIs DEF LinkOK
<1>11. claimed' = claimed /\ performed' = performed /\ fresh' = fresh /\ slots' = slots
  BY <1>3 DEF loops
<1>12. /\ StacksOK'
       /\ \A u \in Threads : \A d \in Nat : Waits(u, d)' <=> Waits(u, d) /\ <<u, d>> # <<t, Height(t)>>
  <2>1. \A c : c.do = g.in /\ c.on = g.on => Called(c)'
    BY <1>3, <1>5 DEF Called, Satisfied
  <2> QED
    BY <1>1, <1>2, <1>3, <1>6, <1>7, <1>11, <2>1, ReturnStep
<1>13. HelpersOK' /\ helpers' \in Nat
  <2>1. PICK n \in Nat : n = Height(t)
    BY <1>1, TopIs
  <2>2. Waits(t, n)
    BY <1>1, <1>2, <1>5, <2>1, TopIs DEF Waits
  <2>3. Helping' = Helping \ {<<t, n>>} /\ <<t, n>> \in Helping
    <3>1. \A u \in Threads : \A d \in Nat : Waits(u, d)' <=> Waits(u, d) /\ <<u, d>> # <<t, n>>
      BY <1>12, <2>1
    <3> QED
      BY <2>2, <3>1 DEF Helping
  <2>4. IsFiniteSet(Helping) /\ helpers = Cardinality(Helping)
    BY <1>1 DEF HelpersOK
  <2>5. IsFiniteSet(Helping') /\ Cardinality(Helping') = Cardinality(Helping) - 1
    BY <2>3, <2>4, FS_RemoveElement
  <2>6. Cardinality(Helping') \in Nat
    BY <2>5, FS_CardinalityType
  <2> QED
    BY <1>3, <2>4, <2>5, <2>6 DEF HelpersOK
<1>14. TypeOK'
  BY <1>1, <1>3, <1>5, <1>9, <1>13 DEF TypeOK, loops, Enqueued
<1>15. LoopsOK'
  BY <1>1, <1>11, LoopsSame
<1>16. SleepOK'
  <2>1. t \notin fresh
    BY <1>1, <1>2, <1>3, NotFresh DEF Blocking
  <2>2. \A l \in Loops : slots'[l] <= slots[l] /\ slots'[l] \in Nat
    BY <1>1, <1>11, SlotsSame
  <2>3. \A l \in Loops : ~(Done(l)' /\ ~Done(l))
    BY <1>11 DEF Done, Iterations
  <2>4. h.at # "dequeue" /\ h.at # "asleep" /\ queue' \subseteq queue
    BY <1>3, <1>10
  <2>5. ~Announces(t)
    BY <1>2, <1>3, <1>5 DEF Announces
  <2> QED
    BY <1>1, <1>3, <1>6, <1>8, <1>9, <1>11, <1>15, <2>1, <2>2, <2>3, <2>4, <2>5, SleepKept
<1> QED
  BY <1>12, <1>13, <1>14, <1>15, <1>16 DEF IInv

LEMMA HelpKeeps == ASSUME IInv, NEW t \in Threads, Help(t) PROVE IInv'
<1>1. TypeOK /\ StacksOK /\ LoopsOK /\ HelpersOK /\ SleepOK
  BY DEF IInv
<1>2. PICK g : g = Top(t)
  OBVIOUS
<1>3. PICK l \in queue :
        /\ slots[l] > 0 /\ slots' = [slots EXCEPT ![l] = @ - 1]
        /\ queue' \subseteq queue
        /\ stack' = [stack EXCEPT ![t] = <<Frame("work", "claim", l), [g EXCEPT !.at = "look", !.then = "look"]>> \o Tail(@)]
  BY <1>2 DEF Help, Call, Kept, Offered, HasSlot
<1>4. g.at = "dequeue" /\ UNCHANGED <<wake, claimed, performed, flags, stop, idlers, history>>
  BY <1>2 DEF Help, Is
<1>5. g \in FrameType /\ FrameOK(g)
  BY <1>1, <1>2, TopFacts, TopIs
<1>6. g.in \in {"serve", "join", "await"} /\ ~g.completed
  BY <1>4, <1>5 DEF FrameOK
<1>7. l \in Loops /\ l \in Enqueued
  BY <1>1, EnqueuedIs DEF TypeOK
<1>8. PICK f : f = [g EXCEPT !.at = "look", !.then = "look"]
  OBVIOUS
<1>9. PICK k : k = Frame("work", "claim", l)
  OBVIOUS
<1>10. stack' = [stack EXCEPT ![t] = <<k, f>> \o Tail(@)]
  BY <1>3, <1>8, <1>9
<1>11. /\ f \in FrameType /\ f.in = g.in /\ f.on = g.on /\ f.at = "look" /\ f.then = "look" /\ ~f.completed
       /\ ~Runs(f) /\ (Registered(f) <=> Registered(g))
  <2>1. "look" \in Places
    BY DEF Places
  <2>2. f \in FrameType /\ f.in = g.in /\ f.on = g.on /\ f.at = "look" /\ f.then = "look" /\ ~f.completed
    BY <1>5, <1>6, <1>8, <2>1 DEF FrameType
  <2> QED
    BY <1>4, <2>2 DEF Runs, Registered, Idling
<1>12. Grown
  BY <1>4 DEF Grown, Enqueued, Done, Iterations, history
<1>13. FrameOK(f)'
  <2>1. FrameOK(f)
    BY <1>5, <1>6, <1>11 DEF FrameOK, Idling
  <2> QED
    BY <1>1, <1>12, <2>1, FrameGrows
<1>14. /\ k \in FrameType /\ k.in = "work" /\ k.at = "claim" /\ k.on = l /\ FrameOK(k)' /\ TopOK(k)'
       /\ ~Runs(k) /\ ~Registered(k) /\ ~k.completed
  <2>1. l \in Enqueued'
    BY <1>7, <1>12 DEF Grown
  <2> QED
    BY <1>7, <1>9, <2>1 DEF Frame, FrameType, FrameOK, TopOK, Runs, Registered, Idling, Places
<1>15. LinkOK(f, k)'
  BY <1>6, <1>11, <1>14 DEF LinkOK
<1>16. Others(t) /\ Top(t)' = k /\ stack' \in [Threads -> Seq(FrameType) \ {<<>>}]
  BY <1>1, <1>10, <1>11, <1>14, CallIs
<1>17. slots' \in [Loops -> Nat] /\ \A j \in Loops : slots'[j] <= slots[j] /\ slots'[j] \in Nat
  BY <1>1, <1>3, <1>7 DEF TypeOK
<1>18. TypeOK'
  BY <1>1, <1>3, <1>4, <1>16, <1>17 DEF TypeOK, idlers, history, Enqueued
<1>19. claimed' = claimed /\ performed' = performed /\ helpers' = helpers /\ fresh' = fresh
  BY <1>4 DEF idlers
<1>20. StacksOK' /\ HelpersOK'
  BY <1>1, <1>2, <1>10, <1>11, <1>12, <1>13, <1>14, <1>15, <1>19, CallStep
<1>21. LoopsOK'
  BY <1>1, <1>19, LoopsSame
<1>22. SleepOK'
  <2>1. t \notin fresh
    BY <1>1, <1>2, <1>4, NotFresh DEF Blocking
  <2>2. \A j \in Loops : ~(Done(j)' /\ ~Done(j))
    BY <1>19 DEF Done, Iterations
  <2>3. k.at # "dequeue" /\ k.at # "asleep"
    BY <1>14
  <2>4. ~Announces(t)
    BY <1>2, <1>4, <1>6 DEF Announces
  <2> QED
    BY <1>1, <1>3, <1>4, <1>12, <1>16, <1>17, <1>19, <1>21, <2>1, <2>2, <2>3, <2>4, SleepKept
<1> QED
  BY <1>18, <1>20, <1>21, <1>22 DEF IInv

LEMMA DestroyKeeps == ASSUME IInv, NEW t \in Threads, Destroy(t) PROVE IInv'
<1>1. TypeOK /\ StacksOK /\ LoopsOK /\ HelpersOK /\ SleepOK
  BY DEF IInv
<1>2. PICK g : g = Top(t)
  OBVIOUS
<1>3. wake[t] = <<>> /\ Update(t, "everyone") /\ stop' = TRUE
      /\ UNCHANGED <<stack, queue, loops, flags, helpers, history>>
  BY DEF Destroy, Returned, Ready
<1>4. \A u \in Threads : Top(u)' = Top(u) /\ Height(u)' = Height(u) /\ Inside(u)' = Inside(u)
  BY <1>3 DEF Top, Height, Inside
<1>5. \A u \in Threads : \A d, f : Holds(u, d, f)' <=> Holds(u, d, f)
  BY <1>3 DEF Holds
<1>6. Others(t)
  BY <1>4, <1>5 DEF Others
<1>7. Grown
  BY <1>3 DEF Grown, Enqueued, Done, Iterations, loops, history
<1>8. FramesOK' /\ LinksOK' /\ TopsOK'
  <2>1. \A d, f : Holds(t, d, f)' => FrameOK(f)' /\ (d = 1 => f.in \in {"script", "serve"})
    BY <1>1, <1>5, <1>7, FrameGrows DEF StacksOK, FramesOK
  <2>2. \A d, f, h : Holds(t, d, f)' /\ Holds(t, d + 1, h)' => LinkOK(f, h)'
    BY <1>1, <1>5, <1>7, LinkGrows DEF StacksOK, LinksOK
  <2>3. \A f : f = Top(t)' => TopOK(f)'
    BY <1>1, <1>4, <1>7, TopGrows DEF StacksOK, TopsOK
  <2> QED
    BY <1>1, <1>6, <1>7, <2>1, <2>2, <2>3, FramesByThread
<1>9. claimed' = claimed /\ performed' = performed
  BY <1>3 DEF loops
<1>10. RunningOK'
  BY <1>1, <1>5, <1>9, RunningKept
<1>11. HelpersOK'
  <2>1. \A u \in Threads : \A d \in Nat : Waits(u, d)' <=> Waits(u, d)
    BY <1>5 DEF Waits
  <2> QED
    BY <1>1, <1>3, <2>1, HelpersKept
<1>12. LoopsOK'
  BY <1>1, <1>9, LoopsSame
<1>13. PICK notify \in {"one", "everyone", "helpers"} : notify = "everyone"
  OBVIOUS
<1>14. TypeOK'
  <2>1. fresh' = {} /\ wake' \in [Threads -> Seq(NotificationType)]
    BY <1>1, <1>3, NotificationsAre DEF Update, TypeOK
  <2> QED
    BY <1>1, <1>3, <2>1 DEF TypeOK, loops, history, Enqueued
<1>15. SleepOK'
  <2>1. g = Top(t)' /\ g.at # "dequeue"
    BY <1>2, <1>3, <1>4 DEF Update, LockIsFree
  <2> QED
    BY <1>1, <1>3, <1>4, <1>6, <1>13, <2>1, SleepUpdated
<1> QED
  BY <1>8, <1>10, <1>11, <1>12, <1>14, <1>15 DEF IInv, StacksOK

\* A notified thread is woken.
LEMMA WokenIs ==
  ASSUME TypeOK, NEW u \in Threads, NEW f \in FrameType, stack'[u] = <<f>> \o Tail(stack[u])
  PROVE  /\ stack'[u] \in Seq(FrameType) \ {<<>>} /\ Height(u)' = Height(u) /\ Top(u)' = f
         /\ \A d, h : Holds(u, d, h)' <=> (Holds(u, d, h) /\ d < Height(u)) \/ (d = Height(u) /\ h = f)
<1> DEFINE s == <<f>> \o Tail(stack[u])
<1>1. PICK n : n = Height(u)
  OBVIOUS
<1>2. stack[u] \in Seq(FrameType) /\ stack[u] # <<>> /\ n = Len(stack[u]) /\ n \in Nat /\ n # 0
  BY <1>1, TopIs DEF TypeOK, Height
<1>3. s \in Seq(FrameType) /\ Len(s) = n /\ s # <<>> /\ s[1] = f /\ \A i \in 2 .. n : s[i] = stack[u][i]
  BY <1>2
<1>4. stack'[u] = s
  OBVIOUS
<1> HIDE DEF s
<1>5. Height(u)' = n /\ Top(u)' = f
  BY <1>3, <1>4 DEF Height, Top
<1>6. ASSUME NEW d, NEW h PROVE Holds(u, d, h)' <=> (Holds(u, d, h) /\ d < n) \/ (d = n /\ h = f)
  <2>1. Holds(u, d, h)' <=> d \in 1 .. n /\ h = s[n + 1 - d]
    BY <1>3, <1>4 DEF Holds
  <2>2. Holds(u, d, h) <=> d \in 1 .. n /\ h = stack[u][n + 1 - d]
    BY <1>2 DEF Holds
  <2>3. CASE d \in 1 .. n - 1
    <3>1. n + 1 - d \in 2 .. n /\ d \in 1 .. n /\ d < n /\ d # n
      BY <1>2, <2>3
    <3>2. s[n + 1 - d] = stack[u][n + 1 - d]
      BY <1>3, <3>1
    <3> QED
      BY <2>1, <2>2, <3>1, <3>2
  <2>4. CASE d = n
    <3>1. n + 1 - n = 1 /\ n \in 1 .. n /\ ~(n < n)
      BY <1>2
    <3> QED
      BY <1>3, <2>1, <2>4, <3>1
  <2>5. CASE d \notin 1 .. n
    <3>1. d # n
      BY <1>2, <2>5
    <3> QED
      BY <2>1, <2>2, <2>5, <3>1
  <2>6. d \in 1 .. n => d \in 1 .. n - 1 \/ d = n
    BY <1>2
  <2> QED
    BY <2>3, <2>4, <2>5, <2>6
<1>7. stack'[u] \in Seq(FrameType) \ {<<>>} /\ Height(u)' = Height(u) /\ Top(u)' = f
  BY <1>1, <1>3, <1>4, <1>5
<1>8. \A d, h : Holds(u, d, h)' <=> (Holds(u, d, h) /\ d < Height(u)) \/ (d = Height(u) /\ h = f)
  BY <1>1, <1>6
<1> QED
  BY <1>7, <1>8

\* What a notification does to a thread: nothing, or it ends its sleep.
Woken(u, g, f) ==
  /\ f \in FrameType /\ f = Top(u)' /\ FrameOK(g)
  /\ f = g \/ (g.at = "asleep" /\ f = [g EXCEPT !.at = "woken"])
  /\ f.in = g.in /\ f.on = g.on /\ f.completed = g.completed /\ f.then = g.then
  /\ Height(u)' = Height(u) /\ Inside(u)' = Inside(u)
  /\ \A d, h : Holds(u, d, h)' <=> (Holds(u, d, h) /\ d < Height(u)) \/ (d = Height(u) /\ h = f)

LEMMA NotifyIs ==
  ASSUME TypeOK, StacksOK, NEW S \in SUBSET Threads, \A u \in S : Top(u).at = "asleep",
         stack' = [u \in Threads |->
           IF u \in S THEN <<[Top(u) EXCEPT !.at = "woken"]>> \o Tail(stack[u]) ELSE stack[u]]
  PROVE  /\ stack' \in [Threads -> Seq(FrameType) \ {<<>>}]
         /\ \A u \in Threads : \A g : g = Top(u) => \E f : Woken(u, g, f) /\ (u \in S => f.at = "woken")
<1>1. ASSUME NEW u \in Threads, NEW g, g = Top(u)
      PROVE  stack'[u] \in Seq(FrameType) \ {<<>>} /\ \E f : Woken(u, g, f) /\ (u \in S => f.at = "woken")
  <2>1. g \in FrameType /\ FrameOK(g) /\ Holds(u, Height(u), g) /\ Height(u) \in Nat
    BY <1>1, TopIs, TopFacts
  <2>2. CASE u \in S
    <3>1. PICK f : f = [g EXCEPT !.at = "woken"]
      OBVIOUS
    <3>2. f \in FrameType /\ f.in = g.in /\ f.on = g.on /\ f.completed = g.completed /\ f.then = g.then /\ f.at = "woken"
      <4>1. "woken" \in Places
        BY DEF Places
      <4> QED
        BY <2>1, <3>1, <4>1 DEF FrameType
    <3>3. stack'[u] = <<f>> \o Tail(stack[u])
      BY <1>1, <2>2, <3>1
    <3>4. /\ stack'[u] \in Seq(FrameType) \ {<<>>} /\ Height(u)' = Height(u) /\ Top(u)' = f
          /\ \A d, h : Holds(u, d, h)' <=> (Holds(u, d, h) /\ d < Height(u)) \/ (d = Height(u) /\ h = f)
      BY <3>2, <3>3, WokenIs
    <3>5. Inside(u)' = Inside(u)
      BY <1>1, <3>2, <3>3, SameInside
    <3> QED
      BY <1>1, <2>1, <2>2, <3>1, <3>2, <3>4, <3>5 DEF Woken
  <2>3. CASE u \notin S
    <3>1. stack'[u] = stack[u]
      BY <2>3
    <3>2. Top(u)' = g /\ Height(u)' = Height(u) /\ Inside(u)' = Inside(u)
      BY <1>1, <3>1 DEF Top, Height, Inside
    <3>3. \A d, h : Holds(u, d, h)' <=> Holds(u, d, h)
      BY <3>1 DEF Holds
    <3>4. \A d, h : Holds(u, d, h) => d \in Nat /\ d <= Height(u)
      BY <2>1, HoldsIs
    <3>5. \A h : Holds(u, Height(u), h) <=> h = g
      BY <2>1, HoldsIs
    <3>6. \A d, h : Holds(u, d, h)' <=> (Holds(u, d, h) /\ d < Height(u)) \/ (d = Height(u) /\ h = g)
      BY <2>1, <3>3, <3>4, <3>5
    <3>7. Woken(u, g, g)
      BY <2>1, <3>2, <3>6 DEF Woken
    <3>8. stack'[u] \in Seq(FrameType) \ {<<>>}
      BY <3>1 DEF TypeOK
    <3> QED
      BY <2>3, <3>7, <3>8
  <2> QED
    BY <2>2, <2>3
<1> QED
  BY <1>1

LEMMA NotifyKeeps == ASSUME IInv, NEW t \in Threads, Notify(t) PROVE IInv'
<1>1. TypeOK /\ StacksOK /\ LoopsOK /\ HelpersOK /\ SleepOK
  BY DEF IInv
<1>2. PICK call : call = Head(wake[t])
  OBVIOUS
<1>3. /\ wake[t] # <<>> /\ wake' = [wake EXCEPT ![t] = Tail(@)]
      /\ UNCHANGED <<queue, loops, flags, stop, idlers, history>>
  BY DEF Notify
<1>4. PICK S : /\ S \in SUBSET Parked(call.who)
               /\ call.to = "everyone" => S = Parked(call.who)
               /\ stack' = [u \in Threads |->
                    IF u \in S THEN <<[Top(u) EXCEPT !.at = "woken"]>> \o Tail(stack[u]) ELSE stack[u]]
  BY <1>2 DEF Notify
<1>5. S \in SUBSET Threads /\ \A u \in S : Top(u).at = "asleep"
  BY <1>4 DEF Parked
<1>6. /\ stack' \in [Threads -> Seq(FrameType) \ {<<>>}]
      /\ \A u \in Threads : \A g : g = Top(u) => \E f : Woken(u, g, f) /\ (u \in S => f.at = "woken")
  BY <1>1, <1>4, <1>5, NotifyIs
<1>7. Grown
  BY <1>3 DEF Grown, Enqueued, Done, Iterations, loops, history
<1>8. claimed' = claimed /\ performed' = performed /\ helpers' = helpers /\ slots' = slots /\ fresh' = fresh
  BY <1>3 DEF loops, idlers
<1>9. TypeOK'
  <2>1. wake' \in [Threads -> Seq(NotificationType)]
    BY <1>1, <1>3 DEF TypeOK
  <2> QED
    BY <1>1, <1>3, <1>6, <2>1 DEF TypeOK, loops, idlers, history, Enqueued
\* Each frame is as it was, but for the top one of a thread that is woken.
<1>10. ASSUME NEW u \in Threads, NEW g, g = Top(u), NEW f, Woken(u, g, f)
       PROVE  /\ FrameOK(f)' /\ (Registered(f) <=> Registered(g)) /\ (Runs(f) => f = g) /\ (f.at = "dequeue" => f = g)
              /\ (f.at = "asleep" => f = g) /\ (g.at \in Blocking => f.at \in Blocking) /\ (Satisfied(f)' <=> Satisfied(g))
              /\ (Announces(u)' <=> Announces(u)) /\ f \in FrameType
  <2>1. CASE f = g
    <3>1. FrameOK(f)'
      BY <1>1, <1>7, <1>10, <2>1, FrameGrows DEF Woken
    <3>2. Satisfied(f)' <=> Satisfied(g)
      BY <1>3, <2>1 DEF Satisfied, Done, Iterations, loops
    <3> QED
      BY <1>10, <2>1, <3>1, <3>2 DEF Woken, Announces
  <2>2. CASE g.at = "asleep" /\ f = [g EXCEPT !.at = "woken"]
    <3>1. g \in FrameType
      BY <1>1, <1>10, TopIs
    <3>2. f.at = "woken" /\ f.in = g.in /\ f.on = g.on /\ f.completed = g.completed /\ f.then = g.then
      BY <2>2, <3>1 DEF FrameType
    <3>3. g.in \in {"serve", "join", "await"} /\ ~g.completed
      BY <1>10, <2>2 DEF Woken, FrameOK
    <3>4. FrameOK(f)'
      <4>1. FrameOK(f)
        BY <1>10, <2>2, <3>2, <3>3 DEF Woken, FrameOK, Idling, Runs
      <4> QED
        BY <1>1, <1>7, <4>1, FrameGrows
    <3>5. Satisfied(f)' <=> Satisfied(g)
      BY <1>3, <3>2 DEF Satisfied, Done, Iterations, loops
    <3>6. Registered(f) <=> Registered(g)
      BY <2>2, <3>2 DEF Registered, Idling
    <3>7. ~Announces(u) /\ ~Announces(u)'
      BY <1>10, <2>2, <3>2, <3>3 DEF Announces, Woken
    <3>8. ~Runs(f) /\ f.at \in Blocking
      BY <3>2 DEF Runs, Blocking
    <3> QED
      BY <1>10, <3>2, <3>4, <3>5, <3>6, <3>7, <3>8 DEF Woken
  <2> QED
    BY <1>10, <2>1, <2>2 DEF Woken
<1>11. ASSUME NEW u \in Threads, NEW d, NEW h, Holds(u, d, h)'
       PROVE  \E k : Holds(u, d, k) /\ h.in = k.in /\ h.on = k.on /\ (Runs(h) => h = k) /\ (h = k \/ d = Height(u))
                     /\ FrameOK(h)' /\ (Registered(h) <=> Registered(k))
  <2>1. PICK g : g = Top(u)
    OBVIOUS
  <2>2. PICK f : Woken(u, g, f)
    BY <1>6, <2>1
  <2>3. CASE Holds(u, d, h)
    <3>1. FrameOK(h)'
      BY <1>1, <1>7, <2>3, FrameGrows DEF StacksOK, FramesOK
    <3> QED
      BY <2>3, <3>1
  <2>4. CASE d = Height(u) /\ h = f
    <3>1. Holds(u, d, g)
      BY <1>1, <2>1, <2>4, TopIs
    <3> QED
      BY <1>10, <2>1, <2>2, <2>4, <3>1 DEF Woken
  <2> QED
    BY <1>11, <2>2, <2>3, <2>4 DEF Woken
<1>12. FramesOK'
  <2>1. ASSUME NEW u \in Threads, NEW d, NEW h, Holds(u, d, h)' PROVE FrameOK(h)' /\ (d = 1 => h.in \in {"script", "serve"})
    <3>1. PICK k : Holds(u, d, k) /\ h.in = k.in /\ FrameOK(h)'
      BY <1>11, <2>1
    <3> QED
      BY <1>1, <3>1 DEF StacksOK, FramesOK
  <2> QED
    BY <2>1 DEF FramesOK
<1>13. LinksOK'
  <2>1. ASSUME NEW u \in Threads, NEW d, NEW h, NEW j, Holds(u, d, h)', Holds(u, d + 1, j)' PROVE LinkOK(h, j)'
    <3>1. PICK k : Holds(u, d, k) /\ (h = k \/ d = Height(u))
      BY <1>11, <2>1
    <3>2. PICK m : Holds(u, d + 1, m) /\ j.in = m.in /\ j.on = m.on
      BY <1>11, <2>1
    <3>3. d # Height(u)
      <4>1. Height(u) \in Nat /\ d + 1 \in 1 .. Height(u)
        BY <1>1, <3>2, HoldsIs, TopIs
      <4> QED
        BY <4>1
    <3>4. LinkOK(h, m)
      BY <1>1, <3>1, <3>2, <3>3 DEF StacksOK, LinksOK
    <3> QED
      BY <1>7, <3>2, <3>4, LinkGrows
  <2> QED
    BY <2>1 DEF LinksOK
<1>14. TopsOK'
  <2>1. ASSUME NEW u \in Threads, NEW f, f = Top(u)' PROVE TopOK(f)'
    <3>1. PICK g : g = Top(u)
      OBVIOUS
    <3>2. Woken(u, g, f)
      BY <1>6, <2>1, <3>1 DEF Woken
    <3>3. CASE Runs(f)
      <4>1. TopOK(f)
        BY <1>1, <1>10, <3>1, <3>2, <3>3, TopFacts
      <4> QED
        BY <1>7, <4>1, TopGrows
    <3>4. CASE ~Runs(f)
      BY <3>4 DEF TopOK, Runs
    <3> QED
      BY <3>3, <3>4
  <2> QED
    BY <2>1 DEF TopsOK
<1>15. RunningOK'
  <2>1. ASSUME NEW u \in Threads, NEW d, NEW h, Holds(u, d, h)', Runs(h)
        PROVE  \E k : Holds(u, d, k) /\ Runs(k) /\ k.on = h.on /\ k.iteration = h.iteration
    <3>1. PICK k : Holds(u, d, k) /\ (Runs(h) => h = k)
      BY <1>11, <2>1
    <3> QED
      BY <2>1, <3>1
  <2> QED
    BY <1>1, <1>8, <2>1, RunningKept
<1>16. HelpersOK'
  <2>1. ASSUME NEW u \in Threads, NEW d \in Nat PROVE Waits(u, d)' <=> Waits(u, d)
    <3>1. PICK g : g = Top(u)
      OBVIOUS
    <3>2. PICK f : Woken(u, g, f)
      BY <1>6, <3>1
    <3>3. \A h : Holds(u, d, h)' <=> (Holds(u, d, h) /\ d < Height(u)) \/ (d = Height(u) /\ h = f)
      BY <3>2 DEF Woken
    <3>4. CASE d = Height(u)
      <4>1. \A h : Holds(u, d, h) <=> h = g
        BY <1>1, <3>1, <3>4, TopIs, HoldsIs
      <4>2. \A h : Holds(u, d, h)' <=> h = f
        BY <1>1, <3>3, <3>4, TopIs
      <4>3. g \in FrameType /\ f \in FrameType /\ (Registered(f) <=> Registered(g))
        BY <1>1, <1>10, <3>1, <3>2, TopIs
      <4> QED
        BY <4>1, <4>2, <4>3 DEF Waits
    <3>5. CASE d # Height(u)
      <4>1. \A h : Holds(u, d, h) => d < Height(u)
        BY <1>1, <3>5, HoldsIs, TopIs
      <4>2. \A h : Holds(u, d, h)' <=> Holds(u, d, h)
        BY <3>3, <3>5, <4>1
      <4> QED
        BY <4>2 DEF Waits
    <3> QED
      BY <3>4, <3>5
  <2> QED
    BY <1>1, <1>8, <2>1, HelpersKept
<1>17. LoopsOK'
  BY <1>1, <1>8, LoopsSame
\* Everyone of the class who sleeps is woken before a notification of everyone is gone.
<1>18. ASSUME NEW u \in Threads, NEW g, g = Top(u), NEW f, Woken(u, g, f), f.at = "asleep", Notified(Class(g))
       PROVE  Notified(Class(g))'
  <2>1. u \notin S /\ g.at = "asleep"
    <3>1. f = g
      BY <1>10, <1>18
    <3>2. PICK h : Woken(u, g, h) /\ (u \in S => h.at = "woken")
      BY <1>6, <1>18
    <3>3. h = f
      BY <1>18, <3>2 DEF Woken
    <3> QED
      BY <1>18, <3>1, <3>2, <3>3
  <2>2. u \in Parked(Class(g))
    BY <1>18, <2>1 DEF Parked
  <2>3. PICK v \in Threads : \E i \in 1 .. Len(wake[v]) : wake[v][i] = [who |-> Class(g), to |-> "everyone"]
    BY <1>18 DEF Notified, Notifies
  <2>4. PICK i \in 1 .. Len(wake[v]) : wake[v][i] = [who |-> Class(g), to |-> "everyone"]
    BY <2>3
  <2>5. CASE v # t
    <3>1. wake'[v] = wake[v]
      BY <1>3, <2>5
    <3> QED
      BY <2>4, <3>1 DEF Notified, Notifies
  <2>6. CASE v = t
    <3>1. wake[t] \in Seq(NotificationType) /\ Len(wake[t]) \in Nat \ {0} /\ wake'[t] = Tail(wake[t]) /\ call = wake[t][1]
      BY <1>1, <1>2, <1>3 DEF TypeOK
    <3>2. i # 1
      <4>1. i = 1 => call = [who |-> Class(g), to |-> "everyone"]
        BY <2>4, <2>6, <3>1
      <4>2. call = [who |-> Class(g), to |-> "everyone"] => call.who = Class(g) /\ call.to = "everyone"
        OBVIOUS
      <4> QED
        BY <1>4, <2>1, <2>2, <4>1, <4>2
    <3>3. i - 1 \in 1 .. Len(Tail(wake[t])) /\ Tail(wake[t])[i - 1] = wake[t][i]
      BY <2>4, <2>6, <3>1, <3>2
    <3> QED
      BY <2>4, <2>6, <3>1, <3>3 DEF Notified, Notifies
  <2> QED
    BY <2>5, <2>6
<1>19. SomeoneAnnounces => SomeoneAnnounces'
  <2>1. \A u \in Threads : Announces(u)' <=> Announces(u)
    BY <1>6, <1>10
  <2> QED
    BY <2>1 DEF SomeoneAnnounces
<1>20. ASSUME NEW u \in Threads, NEW f, f = Top(u)' PROVE \E g : g = Top(u) /\ Woken(u, g, f)
  BY <1>6, <1>20 DEF Woken
<1>21. LockOK'
  <2>1. \A u \in Threads : Top(u)'.at = "dequeue" => Top(u).at = "dequeue"
    <3>1. ASSUME NEW u \in Threads, NEW f, f = Top(u)', f.at = "dequeue" PROVE Top(u).at = "dequeue"
      BY <1>10, <1>20, <3>1
    <3> QED
      BY <3>1
  <2> QED
    BY <1>1, <2>1 DEF SleepOK, LockOK
<1>22. FreshOK'
  <2>1. ASSUME NEW u \in fresh, NEW f, f = Top(u)' PROVE f.at \in Blocking
    <3>1. u \in Threads
      BY <1>1 DEF TypeOK
    <3>2. PICK g : g = Top(u) /\ Woken(u, g, f)
      BY <1>20, <2>1, <3>1
    <3>3. g.at \in Blocking
      BY <1>1, <3>2 DEF SleepOK, FreshOK
    <3> QED
      BY <1>10, <3>1, <3>2, <3>3
  <2> QED
    BY <1>8, <2>1 DEF FreshOK
<1>23. WaitingOK'
  <2>1. ASSUME NEW u \in Threads, NEW f, f = Top(u)', f.at = "dequeue" \/ u \in fresh', Satisfied(f)'
        PROVE  f.in = "join" /\ SomeoneAnnounces'
    <3>1. PICK g : g = Top(u) /\ Woken(u, g, f)
      BY <1>20, <2>1
    <3>2. Satisfied(g) /\ (g.at = "dequeue" \/ u \in fresh) /\ f.in = g.in
      BY <1>8, <1>10, <2>1, <3>1 DEF Woken
    <3> QED
      BY <1>1, <1>19, <3>1, <3>2 DEF SleepOK, WaitingOK
  <2> QED
    BY <2>1 DEF WaitingOK
<1>24. AsleepOK'
  <2>1. ASSUME NEW u \in Threads, NEW f, f = Top(u)', f.at = "asleep", Satisfied(f)'
        PROVE  Notified(Class(f))' \/ (f.in # "serve" /\ SomeoneAnnounces')
    <3>1. PICK g : g = Top(u) /\ Woken(u, g, f)
      BY <1>20, <2>1
    <3>2. f = g /\ Satisfied(g)
      BY <1>10, <2>1, <3>1
    <3> QED
      BY <1>1, <1>18, <1>19, <2>1, <3>1, <3>2 DEF SleepOK, AsleepOK
  <2> QED
    BY <2>1 DEF AsleepOK
<1>25. OffersOK'
  <2>1. ASSUME NEW u \in Threads, NEW l \in queue', NEW f, f = Top(u)', Offered(u, l)'
        PROVE  u \notin fresh' /\ (f.at = "asleep" /\ MaxWorkers(l) > 1 => Notified(Class(f))')
    <3>1. PICK g : g = Top(u) /\ Woken(u, g, f)
      BY <1>20, <2>1
    <3>2. l \in queue /\ Offered(u, l)
      BY <1>3, <2>1, <3>1 DEF Offered, AllStarted, HasSlot, Iterations, loops, Woken
    <3>3. u \notin fresh /\ (g.at = "asleep" /\ MaxWorkers(l) > 1 => Notified(Class(g)))
      BY <1>1, <3>1, <3>2 DEF SleepOK, OffersOK
    <3>4. f.at = "asleep" => f = g
      BY <1>10, <3>1
    <3> QED
      BY <1>8, <1>18, <3>1, <3>3, <3>4
  <2> QED
    BY <2>1 DEF OffersOK, MaxWorkers
<1> QED
  BY <1>9, <1>12, <1>13, <1>14, <1>15, <1>16, <1>17, <1>21, <1>22, <1>23, <1>24, <1>25 DEF IInv,
     StacksOK, SleepOK

LEMMA InitKeeps == Init => IInv
<1> SUFFICES ASSUME Init PROVE IInv
  OBVIOUS
<1>1. ASSUME NEW t \in Threads
      PROVE  \E f \in FrameType :
               /\ stack[t] = <<f>> /\ f.at \in {"look", "body"} /\ f.in \in {"serve", "script"} /\ ~f.completed
               /\ (f.in = "serve" => f.at = "look" /\ f.then = "look") /\ (f.in = "script" => f.at = "body")
  <2>1. CASE t \in Workers
    <3>1. stack[t] = <<Frame("serve", "look", "none")>>
      BY <1>1, <2>1 DEF Init
    <3>2. Frame("serve", "look", "none") \in FrameType
      BY DEF Frame, FrameType, Places
    <3> QED
      BY <3>1, <3>2 DEF Frame
  <2>2. CASE t \notin Workers
    <3>1. PICK f : f = [Frame("script", "body", "none") EXCEPT !.calls = Script[t]]
      OBVIOUS
    <3>2. stack[t] = <<f>>
      BY <1>1, <2>2, <3>1 DEF Init
    <3>3. Script[t] \in Seq(CallType)
      BY <1>1, <2>2, LoopsAssumption DEF Threads
    <3>4. f \in FrameType /\ f.at = "body" /\ f.in = "script" /\ ~f.completed
      BY <3>1, <3>3 DEF Frame, FrameType, Places
    <3> QED
      BY <3>2, <3>4
  <2> QED
    BY <2>1, <2>2
<1>2. ASSUME NEW t \in Threads
      PROVE  \E f \in FrameType :
               /\ Top(t) = f /\ f.at \in {"look", "body"} /\ f.in \in {"serve", "script"} /\ ~f.completed
               /\ (f.in = "serve" => f.at = "look" /\ f.then = "look") /\ (f.in = "script" => f.at = "body")
               /\ \A d, h : Holds(t, d, h) => d = 1 /\ h = f
               /\ stack[t] \in Seq(FrameType) \ {<<>>}
  <2>1. PICK f \in FrameType :
          /\ stack[t] = <<f>> /\ f.at \in {"look", "body"} /\ f.in \in {"serve", "script"} /\ ~f.completed
          /\ (f.in = "serve" => f.at = "look" /\ f.then = "look") /\ (f.in = "script" => f.at = "body")
    BY <1>1
  <2>2. Len(stack[t]) = 1 /\ stack[t][1] = f /\ Head(stack[t]) = f /\ stack[t] \in Seq(FrameType) \ {<<>>}
    BY <2>1
  <2>3. \A d, h : Holds(t, d, h) => d = 1 /\ h = f
    BY <2>2 DEF Holds
  <2> QED
    BY <2>1, <2>2, <2>3 DEF Top
<1>3. TypeOK
  <2>1. stack \in [Threads -> Seq(FrameType) \ {<<>>}]
    <3>1. stack = [t \in Threads |-> stack[t]]
      BY DEF Init
    <3> QED
      BY <1>2, <3>1
  <2>2. ASSUME NEW l \in Loops PROVE MaxWorkers(l) \in Nat
    <3>1. Body[l] \in Seq(Seq(CallType)) /\ (l \in Ordered => Bound[l] \in Nat)
      BY LoopsAssumption
    <3>2. Len(Body[l]) \in Nat
      BY <3>1
    <3> QED
      BY <3>1, <3>2 DEF MaxWorkers
  <2>3. slots \in [Loops -> Nat]
    BY <2>2 DEF Init
  <2>4. wake \in [Threads -> Seq(NotificationType)] /\ enqueued \in Seq(Loops)
    <3>1. <<>> \in Seq(NotificationType) /\ <<>> \in Seq(Loops)
      OBVIOUS
    <3> QED
      BY <3>1 DEF Init
  <2>5. claimed \in [Loops -> SUBSET Nat] /\ performed \in [Loops -> SUBSET Nat]
    BY DEF Init
  <2> QED
    BY <2>1, <2>3, <2>4, <2>5 DEF Init, TypeOK
<1>4. StacksOK
  <2>1. \A t \in Threads : \A d, f : Holds(t, d, f) => f.in \in {"serve", "script"} /\ FrameOK(f) /\ ~Runs(f) /\ d = 1
    BY <1>2 DEF FrameOK, Runs, Idling
  <2>2. FramesOK
    BY <2>1 DEF FramesOK
  <2>3. LinksOK
    <3>1. ASSUME NEW t \in Threads, NEW d, NEW f, NEW g, Holds(t, d, f), Holds(t, d + 1, g) PROVE FALSE
      <4>1. d = 1 /\ d + 1 = 1
        BY <2>1, <3>1
      <4> QED
        BY <4>1
    <3> QED
      BY <3>1 DEF LinksOK
  <2>4. TopsOK
    BY <1>2 DEF TopsOK, TopOK, Runs
  <2>5. RunningOK
    BY <2>1 DEF RunningOK
  <2> QED
    BY <2>2, <2>3, <2>4, <2>5 DEF StacksOK
<1>5. LoopsOK
  BY DEF Init, LoopsOK
<1>6. HelpersOK
  <2>1. Helping = {}
    BY <1>2 DEF Helping, Waits, Registered
  <2> QED
    BY <2>1, FS_EmptySet DEF HelpersOK, Init
<1>7. SleepOK
  <2>1. \A t \in Threads : Top(t).at \notin {"dequeue", "asleep"} /\ t \notin fresh
    BY <1>2 DEF Init
  <2>2. fresh = {} /\ queue = {}
    BY DEF Init
  <2> QED
    BY <2>1, <2>2 DEF SleepOK, LockOK, FreshOK, WaitingOK, AsleepOK, OffersOK
<1> QED
  BY <1>3, <1>4, <1>5, <1>6, <1>7 DEF IInv

LEMMA NextKeeps == IInv /\ [Next]_vars => IInv'
<1> SUFFICES ASSUME IInv, [Next]_vars PROVE IInv'
  OBVIOUS
<1>1. ASSUME NEW t \in Threads, Step(t) PROVE IInv'
  BY <1>1, NotifyKeeps, EnqueueKeeps, AtomicCallKeeps, AwaitKeeps, JoinKeeps, JoinReturnsKeeps,
     StopPollingKeeps, ClaimKeeps,
     FinishKeeps, WorkReturnsKeeps, LoopCompletedKeeps, AnnounceKeeps, EnterKeeps, WaitEndsKeeps, WaitGoesOnKeeps, HelpKeeps,
     IdleKeeps, StopSpinningKeeps, ParkKeeps, LeaveKeeps, DestroyKeeps, Zenon DEF Step
<1>2. CASE UNCHANGED vars
  <2>1. /\ stack' = stack /\ wake' = wake /\ queue' = queue /\ claimed' = claimed /\ performed' = performed /\ slots' = slots
        /\ flags' = flags /\ stop' = stop /\ fresh' = fresh /\ helpers' = helpers /\ enqueued' = enqueued /\ joined' = joined
    BY <1>2 DEF vars, loops, idlers, history
  <2>2. /\ \A t, d, f : Holds(t, d, f)' <=> Holds(t, d, f)
        /\ \A t : Top(t)' = Top(t) /\ Inside(t)' = Inside(t) /\ (Announces(t)' <=> Announces(t))
        /\ \A f : Satisfied(f)' <=> Satisfied(f)
        /\ \A who : Notified(who)' <=> Notified(who)
    BY <2>1 DEF Holds, Top, Inside, Announces, Satisfied, Done, Iterations, Notified, Notifies
  <2>3. /\ \A f : FrameOK(f)' <=> FrameOK(f)
        /\ \A f : TopOK(f)' <=> TopOK(f)
        /\ \A f, g : LinkOK(f, g)' <=> LinkOK(f, g)
    <3>1. Enqueued' = Enqueued /\ (\A f : Done(f)' <=> Done(f)) /\ \A c : Called(c)' <=> Called(c)
      BY <2>1 DEF Called, Done, Iterations, Enqueued
    <3>2. \A f : FrameOK(f)' <=> FrameOK(f)
      BY <2>2, <3>1, ZenonT(40) DEF FrameOK, Runs, BodyOf, Made
    <3>3. \A f : TopOK(f)' <=> TopOK(f)
      BY <3>1 DEF TopOK, Runs, BodyOf, Made
    <3>4. \A f, g : LinkOK(f, g)' <=> LinkOK(f, g)
      BY <3>1 DEF LinkOK, Runs, BodyOf, Made
    <3> QED
      BY <3>2, <3>3, <3>4
  <2>4. TypeOK'
    BY <2>1 DEF IInv, TypeOK, Enqueued
  <2>5. StacksOK'
    <3>1. FramesOK' /\ LinksOK' /\ TopsOK'
      BY <2>2, <2>3 DEF IInv, StacksOK, FramesOK, LinksOK, TopsOK
    <3>2. RunningOK'
      BY <2>1, <2>2 DEF IInv, StacksOK, RunningOK, Runs
    <3> QED
      BY <3>1, <3>2 DEF StacksOK
  <2>6. LoopsOK'
    BY <2>1, LoopsSame DEF IInv
  <2>7. HelpersOK'
    <3>1. \A u \in Threads : \A d \in Nat : Waits(u, d)' <=> Waits(u, d)
      BY <2>2 DEF Waits
    <3> QED
      BY <2>1, <3>1, HelpersKept DEF IInv
  <2>8. SleepOK'
    <3>1. LockOK' /\ FreshOK'
      BY <2>1, <2>2 DEF IInv, SleepOK, LockOK, FreshOK
    <3>2. SomeoneAnnounces' <=> SomeoneAnnounces
      BY <2>2 DEF SomeoneAnnounces
    <3>3. WaitingOK' /\ AsleepOK'
      BY <2>1, <2>2, <3>2 DEF IInv, SleepOK, WaitingOK, AsleepOK, Class
    <3>4. \A t, l : Offered(t, l)' <=> Offered(t, l)
      BY <2>1, <2>2 DEF Offered, AllStarted, HasSlot, Iterations
    <3>5. OffersOK'
      BY <2>1, <2>2, <3>4 DEF IInv, SleepOK, OffersOK, MaxWorkers, Class
    <3> QED
      BY <3>1, <3>3, <3>5 DEF SleepOK
  <2> QED
    BY <2>4, <2>5, <2>6, <2>7, <2>8 DEF IInv
<1> QED
  BY <1>1, <1>2 DEF Next

\* The pool's variables stay within their types and every stack, count and wake-up is as the code needs it: frames are nested as
\* functions call each other, waiting_helpers_ counts the waits that are registered, and who sleeps is notified or has nothing to do.
THEOREM PoolInvariant == Spec => []IInv
<1> QED
  BY InitKeeps, NextKeeps, PTL DEF Spec

-----------------------------------------------------------------------------
(* What the invariant is for *)

\* No wake-up of the pool is lost, and no loop with room for several threads is left to fewer while others sleep.
THEOREM SleepJustified == Spec => []SleepIsJustified
<1>1. IInv => SleepIsJustified
  <2> SUFFICES ASSUME IInv PROVE SleepIsJustified
    OBVIOUS
  <2>1. SleepersAreWoken
    <3>1. ASSUME NEW t \in Threads, NEW f, f = Top(t), f.at = "asleep", Satisfied(f)
          PROVE  \E u \in Threads : Notifies(u, Class(f)) \/ Announces(u)
      BY <3>1 DEF IInv, SleepOK, AsleepOK, Notified, SomeoneAnnounces
    <3> QED
      BY <3>1 DEF SleepersAreWoken
  <2>2. LoopsAreShared
    <3>1. ASSUME NEW t \in Threads, NEW l \in queue, NEW f, f = Top(t), f.at = "asleep", Offered(t, l), MaxWorkers(l) > 1
          PROVE  \E u \in Threads : Notifies(u, Class(f))
      BY <3>1 DEF IInv, SleepOK, OffersOK, Notified
    <3> QED
      BY <3>1 DEF LoopsAreShared
  <2> QED
    BY <2>1, <2>2 DEF SleepIsJustified
<1> QED
  BY <1>1, PoolInvariant, PTL

\* What the body of an iteration called has returned when the iteration ends.
LEMMA FinishPerforms ==
  ASSUME IInv, NEW t \in Threads, Finish(t)
  PROVE  \E l \in Loops : \E i \in 1 .. Len(Body[l]) : Promise!Perform(l, i)
<1>1. TypeOK /\ StacksOK /\ LoopsOK
  BY DEF IInv
<1>2. PICK g : g = Top(t)
  OBVIOUS
<1>3. PICK l : l = g.on
  OBVIOUS
<1>4. PICK i : i = g.iteration
  OBVIOUS
<1>5. /\ g.at = "body" /\ g.in = "work" /\ g.calls = <<>>
      /\ performed' = [performed EXCEPT ![l] = @ \cup {i}]
      /\ UNCHANGED <<flags, history>>
  BY <1>2, <1>3, <1>4 DEF Finish, Is
<1>6. Runs(g) /\ FrameOK(g) /\ TopOK(g) /\ Holds(t, Height(t), g)
  BY <1>1, <1>2, <1>5, TopFacts, TopIs DEF Runs
<1>7. l \in Loops /\ l \in Enqueued /\ i \in Iterations(l) /\ i \notin performed[l]
  BY <1>1, <1>3, <1>4, <1>5, <1>6, EnqueuedIs DEF FrameOK, StacksOK, RunningOK, LoopsOK
<1>8. Made(g) = Len(Body[l][i]) /\ BodyOf(g) = Body[l][i]
  <2>1. BodyOf(g) = Body[l][i] /\ Len(g.calls) = 0 /\ Len(Body[l][i]) \in Nat
    BY <1>3, <1>4, <1>5, <1>7, BodyIs DEF BodyOf
  <2> QED
    BY <2>1 DEF Made
<1>9. \A k \in 1 .. Len(Body[l][i]) : Called(Body[l][i][k])
  BY <1>6, <1>8 DEF TopOK
<1>10. /\ Promise!Subjects(l, i, "enqueue") \subseteq Enqueued
       /\ Promise!Subjects(l, i, "join") \subseteq joined
       /\ Promise!Subjects(l, i, "set") \cup Promise!Subjects(l, i, "await") \subseteq flags
  BY <1>9 DEF Promise!Subjects, Called
<1>11. UNCHANGED <<Enqueued, joined, flags>>
  BY <1>5 DEF Enqueued, history
<1> QED
  BY <1>5, <1>7, <1>10, <1>11 DEF Promise!Perform, Iterations

\* The pool implements fork and join: every iteration runs once and ends after what it calls has returned, and a join returns when the
\* iterations of its loop have ended.
THEOREM PoolKeepsPromise == Spec => KeepsPromise
<1>1. Init => Promise!Init
  BY DEF Init, Promise!Init, Enqueued, Range
<1>2. IInv /\ [Next]_vars => [Promise!Next]_(Promise!vars)
  <2> SUFFICES ASSUME IInv, [Next]_vars PROVE [Promise!Next]_(Promise!vars)
    OBVIOUS
  <2>1. TypeOK /\ StacksOK
    BY DEF IInv
  <2> USE DEF Promise!vars
  <2>2. ASSUME NEW t \in Threads, Enqueue(t) PROVE Promise!Next
    <3>1. PICK l : l = Subject(t)
      OBVIOUS
    <3>2. l \notin Enqueued /\ enqueued' = Append(enqueued, l) /\ UNCHANGED <<performed, joined, flags>>
      BY <2>2, <3>1 DEF Enqueue, loops
    <3>3. l \in Loops
      <4>1. PICK g : g = Top(t)
        OBVIOUS
      <4>2. PICK c : c = Head(g.calls)
        OBVIOUS
      <4>3. g.calls # <<>> /\ c.do = "enqueue" /\ l = c.on
        BY <2>2, <3>1, <4>1, <4>2 DEF Enqueue, Makes, Subject
      <4>4. c \in CallType
        <5>1. g \in FrameType
          BY <2>1, <4>1, TopIs
        <5>2. g.calls \in Seq(CallType)
          BY <5>1 DEF FrameType
        <5> QED
          BY <4>2, <4>3, <5>2
      <4> QED
        BY <4>3, <4>4, CallsAre
    <3>4. Enqueued' = Enqueued \cup {l}
      BY <2>1, <3>2, <3>3, EnqueuedAppend
    <3> QED
      BY <3>2, <3>3, <3>4 DEF Promise!Next, Promise!Enqueue
  <2>3. ASSUME NEW t \in Threads, AtomicCall(t) PROVE Promise!Next
    <3>1. PICK f : f = Subject(t)
      OBVIOUS
    <3>2. flags' = flags \cup {f} /\ UNCHANGED <<performed, joined, Enqueued>>
      BY <2>3, <3>1 DEF AtomicCall, loops, history, Enqueued
    <3>3. f \in Flags
      <4>1. PICK g : g = Top(t)
        OBVIOUS
      <4>2. PICK c : c = Head(g.calls)
        OBVIOUS
      <4>3. g.calls # <<>> /\ c.do = "set" /\ f = c.on
        BY <2>3, <3>1, <4>1, <4>2 DEF AtomicCall, Makes, Subject
      <4>4. c \in CallType
        <5>1. g \in FrameType
          BY <2>1, <4>1, TopIs
        <5>2. g.calls \in Seq(CallType)
          BY <5>1 DEF FrameType
        <5> QED
          BY <4>2, <4>3, <5>2
      <4> QED
        BY <4>3, <4>4, CallsAre
    <3> QED
      BY <3>2, <3>3 DEF Promise!Next, Promise!Set
  <2>4. ASSUME NEW t \in Threads, JoinReturns(t) PROVE Promise!Next
    <3>1. PICK g : g = Top(t)
      OBVIOUS
    <3>2. g.at = "poll" /\ Done(g.on) /\ joined' = joined \cup {g.on} /\ UNCHANGED <<Enqueued, performed, flags>>
      BY <2>4, <3>1 DEF JoinReturns, Is, loops, Enqueued
    <3>3. FrameOK(g)
      BY <2>1, <3>1, TopFacts
    <3>4. g.on \in Enqueued /\ g.on \in Loops
      BY <2>1, <3>2, <3>3, EnqueuedIs DEF FrameOK, Idling
    <3> QED
      BY <3>2, <3>4 DEF Promise!Next, Promise!Join, Done, Iterations
  <2>5. ASSUME NEW t \in Threads, Leave(t) PROVE Promise!Next \/ UNCHANGED Promise!vars
    <3>1. PICK g : g = Top(t)
      OBVIOUS
    <3>2. /\ g.at = "leave" /\ joined' = IF g.in = "join" THEN joined \cup {g.on} ELSE joined
          /\ UNCHANGED <<Enqueued, performed, flags>>
      BY <2>5, <3>1 DEF Leave, Is, loops, Enqueued
    <3>3. CASE g.in = "join"
      <4>1. FrameOK(g)
        BY <2>1, <3>1, TopFacts
      <4>2. g.on \in Enqueued /\ g.on \in Loops /\ Done(g.on)
        BY <2>1, <3>2, <3>3, <4>1, EnqueuedIs DEF FrameOK, Satisfied
      <4> QED
        BY <3>2, <3>3, <4>2 DEF Promise!Next, Promise!Join, Done, Iterations
    <3>4. CASE g.in # "join"
      BY <3>2, <3>4
    <3> QED
      BY <3>3, <3>4
  <2>6. ASSUME NEW t \in Threads, Finish(t) PROVE Promise!Next
    BY <2>6, FinishPerforms DEF Promise!Next
  <2>7. ASSUME NEW t \in Threads,
               \/ Notify(t) \/ Await(t) \/ Join(t) \/ StopPolling(t) \/ Claim(t) \/ WorkReturns(t) \/ LoopCompleted(t) \/ Announce(t)
               \/ Enter(t) \/ WaitEnds(t) \/ WaitGoesOn(t) \/ Help(t) \/ Idle(t) \/ StopSpinning(t) \/ Park(t) \/ Destroy(t)
        PROVE  UNCHANGED Promise!vars
    <3>1. enqueued' = enqueued /\ performed' = performed /\ joined' = joined /\ flags' = flags
      BY <2>7 DEF Notify, Await, Join, StopPolling, Claim, WorkReturns, LoopCompleted, Announce,
         Enter, WaitEnds, WaitGoesOn, Help, Idle,
         StopSpinning, Park, Destroy, loops, history
    <3> QED
      BY <3>1 DEF Enqueued
  <2>8. CASE UNCHANGED vars
    BY <2>8 DEF vars, loops, history, Enqueued
  <2>9. ASSUME NEW t \in Threads, Step(t) PROVE Promise!Next \/ UNCHANGED Promise!vars
    BY <2>2, <2>3, <2>4, <2>5, <2>6, <2>7, <2>9, Zenon DEF Step
  <2> QED
    BY <2>8, <2>9 DEF Next
<1> QED
  BY <1>1, <1>2, PoolInvariant, PTL DEF Spec, KeepsPromise, Promise!Spec

=============================================================================
