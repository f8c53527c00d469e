------------------------------ MODULE ForkJoin ------------------------------
(***************************************************************************)
(* What a thread pool promises its callers: every iteration of a loop runs *)
(* once, after the loop was enqueued, and ends only when the loops it      *)
(* joins have returned and the flags it awaits are set; a join returns     *)
(* only when every iteration has ended.  Who runs what when is open.       *)
(***************************************************************************)
EXTENDS Integers, Sequences

CONSTANTS Loops, Flags, Body

VARIABLES enqueued, performed, joined, flags
vars == <<enqueued, performed, joined, flags>>

\* What an iteration waits for before it ends.
Subjects(l, i, do) ==
  LET calls == Body[l][i]
  IN  {calls[k].on : k \in {n \in 1 .. Len(calls) : calls[n].do = do}}

Init ==
  /\ enqueued = {}
  /\ performed = [l \in Loops |-> {}]
  /\ joined = {}
  /\ flags = {}

Enqueue(l) ==
  /\ l \notin enqueued
  /\ enqueued' = enqueued \cup {l}
  /\ UNCHANGED <<performed, joined, flags>>

Perform(l, i) ==
  /\ l \in enqueued
  /\ i \notin performed[l]
  /\ Subjects(l, i, "enqueue") \subseteq enqueued
  /\ Subjects(l, i, "join") \subseteq joined
  /\ Subjects(l, i, "set") \cup Subjects(l, i, "await") \subseteq flags
  /\ performed' = [performed EXCEPT ![l] = @ \cup {i}]
  /\ UNCHANGED <<enqueued, joined, flags>>

Join(l) ==
  /\ l \in enqueued
  /\ performed[l] = 1 .. Len(Body[l])
  /\ joined' = joined \cup {l}
  /\ UNCHANGED <<enqueued, performed, flags>>

Set(f) ==
  /\ flags' = flags \cup {f}
  /\ UNCHANGED <<enqueued, performed, joined>>

Next ==
  \/ \E l \in Loops : Enqueue(l) \/ Join(l) \/ \E i \in 1 .. Len(Body[l]) : Perform(l, i)
  \/ \E f \in Flags : Set(f)

Spec == Init /\ [][Next]_vars
=============================================================================
