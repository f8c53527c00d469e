----------------------------- MODULE StepGraph -----------------------------
(***************************************************************************)
(* Captured steps: kidi::graph::Graph and Recorder.                        *)
(*                                                                         *)
(* A tensor is a window of a storage, [s |-> storage, off |-> first cell,  *)
(* len |-> cells]; a heap maps a storage to its cells.  A cell holds a     *)
(* symbolic value, so that two results agree only if the same operators    *)
(* were applied to the same data.  A body is the eager code of a step: the *)
(* operators it calls, with references to its inputs, to earlier results,  *)
(* to parameters and to temporaries that the host computes on each call.   *)
(*                                                                         *)
(* A graph is a record: inputs, nodes, outs (the outputs) and outFrom      *)
(* (their sources).  A node is a record: op, attr (attributes), mode, prep *)
(* (the prepared operator), ops (operands, the result last) and from (one  *)
(* source per operand).                                                    *)
(***************************************************************************)
EXTENDS Naturals, SequencesExt

Window(t, off, len) == [s |-> t.s, off |-> t.off + off, len |-> len]
Content(heap, t) == [j \in 1..t.len |-> heap[t.s][t.off + j]]

\* graph.cpp contains: one window lies within another of the same storage.
Covers(outer, inner) ==
  outer.s = inner.s /\ outer.off <= inner.off /\ inner.off + inner.len <= outer.off + outer.len

Result(node) == Last(node.ops)
Arguments(node) == Front(node.ops)

(***************************************************************************)
(* The kernels.  Every cell of a result depends on every argument, and is  *)
(* written while the arguments are still being read.                       *)
(***************************************************************************)
Kernel(heap, node) ==
  LET out == Result(node)
      Write(h, j) ==
        [h EXCEPT ![out.s][out.off + j] =
           <<node.op, j, node.attr, [i \in DOMAIN Arguments(node) |-> Content(h, node.ops[i])]>>]
  IN FoldLeftDomain(LAMBDA h, j: Write(h, j), heap, [j \in 1..out.len |-> j])

\* Graph::replay after the inputs are bound: the first `count` nodes, in recorded order.
RunNodes(heap, graph, count) == FoldLeft(Kernel, heap, SubSeq(graph.nodes, 1, count))

(***************************************************************************)
(* Recording.                                                              *)
(***************************************************************************)
\* Recorder::locate: the first input that contains the tensor, else the latest node whose
\* result does, else storage from outside the step.
Locate(graph, t) ==
  LET inputs == {i \in DOMAIN graph.inputs : Covers(graph.inputs[i], t)}
      nodes == {n \in DOMAIN graph.nodes : Covers(Result(graph.nodes[n]), t)}
      First == CHOOSE i \in inputs : \A k \in inputs : i <= k
      Latest == CHOOSE n \in nodes : \A k \in nodes : k <= n
  IN CASE inputs # {} -> <<"input", First, t.off - graph.inputs[First].off>>
       [] inputs = {} /\ nodes # {} -> <<"node", Latest, t.off - Result(graph.nodes[Latest]).off>>
       [] OTHER -> <<"external", t.s, t.off>>

NewGraph(inputs) == [inputs |-> inputs, nodes |-> <<>>, outs |-> <<>>, outFrom |-> <<>>]

\* Recorder::record: an in-place result aliases its destination, a fresh one belongs to the node.
Record(graph, op, attr, mode, prep, operands) ==
  LET own == <<"node", Len(graph.nodes) + 1, 0>>
      From(i) == IF mode = "result" /\ i = Len(operands) THEN own ELSE Locate(graph, operands[i])
  IN [graph EXCEPT !.nodes = Append(@,
        [op |-> op, attr |-> attr, mode |-> mode, prep |-> prep, ops |-> operands,
         from |-> [i \in DOMAIN operands |-> From(i)]])]

\* Recorder::finish.
Finish(graph, outs) ==
  [graph EXCEPT !.outs = outs, !.outFrom = [i \in DOMAIN outs |-> Locate(graph, outs[i])]]

SameLayouts(first, second) ==
  Len(first) = Len(second) /\ \A i \in DOMAIN first : first[i].len = second[i].len

\* require_same_structure: two captures of a step differ in nothing but the storage of what
\* they were given and produced.
SameStructure(first, second) ==
  /\ SameLayouts(first.inputs, second.inputs)
  /\ Len(first.nodes) = Len(second.nodes)
  /\ \A n \in DOMAIN first.nodes :
       LET a == first.nodes[n]
           b == second.nodes[n]
       IN /\ <<a.op, a.attr, a.mode, a.prep>> = <<b.op, b.attr, b.mode, b.prep>>
          /\ SameLayouts(a.ops, b.ops)
          /\ a.from = b.from
  /\ SameLayouts(first.outs, second.outs)
  /\ first.outFrom = second.outFrom

(***************************************************************************)
(* Binding.                                                                *)
(***************************************************************************)
\* Every use of an input slot becomes the same window of the new tensor.
RewindowStart(t, from, slot, input) ==
  IF from[1] = "input" /\ from[2] = slot THEN Window(input, 0, t.len) ELSE t

Rewindow(t, from, slot, input) ==
  IF from[1] = "input" /\ from[2] = slot THEN Window(input, from[3], t.len) ELSE t

\* Graph::bind of an input that fits the slot.
Bind(graph, slot, input) ==
  [graph EXCEPT
     !.inputs[slot] = input,
     !.nodes = [n \in DOMAIN @ |->
       [@[n] EXCEPT !.ops = [i \in DOMAIN @ |-> Rewindow(@[i], graph.nodes[n].from[i], slot, input)]]],
     !.outs = [i \in DOMAIN @ |-> Rewindow(@[i], graph.outFrom[i], slot, input)]]

\* Graph::rebind: slot after slot, up to the first whose tensor does not fit.
Rebind(graph, inputs) ==
  LET Unfit(slot) == inputs[slot].len # graph.inputs[slot].len
      Step(bound, slot) ==
        IF \E k \in 1..slot : Unfit(k) THEN bound ELSE Bind(bound, slot, inputs[slot])
  IN IF Len(inputs) # Len(graph.inputs) THEN graph
     ELSE FoldLeftDomain(Step, graph, inputs)

(***************************************************************************)
(* Buffer planning.                                                        *)
(***************************************************************************)
StoragesOf(tensors) == {tensors[i].s : i \in DOMAIN tensors}
GraphStorages(graph) ==
  StoragesOf(graph.inputs) \cup StoragesOf(graph.outs)
    \cup UNION {StoragesOf(graph.nodes[n].ops) : n \in DOMAIN graph.nodes}

Pinned(graph) == StoragesOf(graph.inputs) \cup StoragesOf(graph.outs)

\* The intermediates of a step in the order of their first writes, with first and last use and size.
Lifetimes(graph) ==
  LET Writes(n, s) == Result(graph.nodes[n]).s = s
      begins == SelectSeq([n \in DOMAIN graph.nodes |-> n],
                          LAMBDA n: LET s == Result(graph.nodes[n]).s
                                    IN s \notin Pinned(graph) /\ \A m \in 1..(n - 1) : ~Writes(m, s))
      Uses(s) == {n \in DOMAIN graph.nodes : s \in StoragesOf(graph.nodes[n].ops)}
      Ends(s) == {t.off + t.len : t \in {w \in UNION {ToSet(graph.nodes[n].ops) : n \in Uses(s)} : w.s = s}}
      Most(S) == CHOOSE x \in S : \A y \in S : y <= x
      Lifetime(n) ==
        LET s == Result(graph.nodes[n]).s
        IN [s |-> s, first |-> n, last |-> Most(Uses(s)), size |-> Most(Ends(s))]
  IN [i \in DOMAIN begins |-> Lifetime(begins[i])]

\* A slot may be taken over once the last operator that uses its value has run.
ExpiredEarly(slot, lifetime) == slot.last <= lifetime.first
Expired(slot, lifetime) == slot.last < lifetime.first

\* The smallest expired slot that is large enough, the earliest of several.
Selected(slots, lifetime) ==
  LET fitting == {i \in DOMAIN slots : Expired(slots[i], lifetime) /\ slots[i].size >= lifetime.size}
  IN IF fitting = {} THEN 0
     ELSE CHOOSE i \in fitting : \A k \in fitting :
            slots[i].size < slots[k].size \/ (slots[i].size = slots[k].size /\ i <= k)

Rounded(size) == CHOOSE p \in {1, 2, 4, 8} : p >= size /\ p < 2 * size

\* Graph::plan_intermediates with the scratch allocator of GpuCompiler::compile, which keeps one
\* buffer per slot for all steps and replaces it by a larger one.  `free` are unused storages.
Plan(graph, scratch, free) ==
  LET Take(state, lifetime) ==
        LET slot == Selected(state.slots, lifetime)
            next == Len(state.slots) + 1
            kept == next <= Len(state.scratch) /\ state.scratch[next].size >= lifetime.size
            buffer == IF kept THEN state.scratch[next]
                      ELSE [s |-> Head(state.free), size |-> Rounded(lifetime.size)]
            chosen == IF slot = 0 THEN buffer.s ELSE state.slots[slot].s
        IN [slots |-> IF slot = 0
                      THEN Append(state.slots, [s |-> buffer.s, size |-> buffer.size, last |-> lifetime.last])
                      ELSE [state.slots EXCEPT ![slot].last = lifetime.last],
            scratch |-> IF slot # 0 \/ kept THEN state.scratch
                        ELSE [i \in 1..(IF next > Len(state.scratch) THEN next ELSE Len(state.scratch)) |->
                                IF i = next THEN buffer ELSE state.scratch[i]],
            free |-> IF slot # 0 \/ kept THEN state.free ELSE Tail(state.free),
            moved |-> [s \in DOMAIN state.moved \cup {lifetime.s} |->
                         IF s = lifetime.s THEN chosen ELSE state.moved[s]]]
      planned == FoldLeft(Take, [slots |-> <<>>, scratch |-> scratch, free |-> free, moved |-> <<>>],
                          Lifetimes(graph))
      Move(t) == IF t.s \in DOMAIN planned.moved THEN [t EXCEPT !.s = planned.moved[t.s]] ELSE t
  IN [graph |-> [graph EXCEPT !.nodes = [n \in DOMAIN @ |->
                   [@[n] EXCEPT !.ops = [i \in DOMAIN @ |-> Move(@[i])]]]],
      scratch |-> planned.scratch]
=============================================================================
