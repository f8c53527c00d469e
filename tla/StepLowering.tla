---------------------------- MODULE StepLowering ----------------------------
(***************************************************************************)
(* How a captured step is lowered to an accelerator as a whole: embeddings *)
(* stay on the host, the other nodes go to a chain of graphs whose weights *)
(* are bounded, values that a later graph needs are exported and imported, *)
(* and the rows that a step adds to a cache are attended from the step     *)
(* itself, because the accelerator's copy of the cache gets them only      *)
(* after the graph that makes them.                                        *)
(*                                                                         *)
(* A node is [op, sources, weight, local]: what it does, the values that   *)
(* it takes (step inputs, values of earlier nodes), the size of its        *)
(* weights, and for attention whether its mask is the sliding one.  Values *)
(* are digests of what they were computed from, one for each row.          *)
(***************************************************************************)
EXTENDS Integers, Sequences, FiniteSets, SequencesExt

CONSTANTS Budget,   \* of the weights of a graph
          Window,   \* of the sliding mask
          CacheRows

Nothing == 0
Slots == {1, 2}
Input(slot) == [kind |-> "input", index |-> slot]
Output(node) == [kind |-> "node", index |-> node]

Digest(head, args) == FoldLeft(LAMBDA h, a : (h * 31 + a) % 9973, head, args)
OpNumber == [linear |-> 2, add |-> 3, round |-> 5, attention |-> 7, token |-> 11, embedding |-> 13]

-----------------------------------------------------------------------------
(* The step as the CPU computes it.  A run is [caches, tokens, position]: the rows of each cache, *)
(* and the tokens that the step reads from a place on. *)
Visible(node, place) == {r \in 0..place : ~node.local \/ place - r < Window}
RowOrder == [n \in 1..CacheRows |-> n - 1]
RowsIn(cache, places) == FoldLeft(LAMBDA s, r : IF r \in places THEN Append(s, cache[r]) ELSE s, <<>>, RowOrder)
Attended(query, keys, values, places) ==
  Digest(query, <<OpNumber.attention>> \o RowsIn(keys, places) \o RowsIn(values, places))

\* The cache that attention reads, possibly through the node that updates it in place.
CacheOf(nodes, i, operand) ==
  LET source == nodes[i].sources[operand]
      through == IF source.kind = "node" /\ nodes[source.index].op = "scatter"
                 THEN nodes[source.index].sources[1] ELSE source
  IN IF through.kind = "input" THEN through.index ELSE Nothing

Rowwise(node, args, length) ==
  [row \in 1..length |-> Digest(OpNumber[node.op] + node.weight, [a \in 1..Len(args) |-> args[a][row]])]
Chosen(value) == <<Digest(OpNumber.token, <<value[Len(value)]>>)>>
Embedded(tokens) == [row \in 1..Len(tokens) |-> Digest(OpNumber.embedding, <<tokens[row]>>)]
Placed(cache, position, row) ==
  [r \in 0..(CacheRows - 1) |-> IF r \in position..(position + Len(row) - 1) THEN row[r - position + 1] ELSE cache[r]]

OnCpu(nodes, run, acc, i) ==
  LET node == nodes[i]
      length == Len(run.tokens)
      value(s) == acc.values[s.index]
  IN CASE node.op = "embedding" -> [acc EXCEPT !.values = Append(@, Embedded(run.tokens))]
       [] node.op = "scatter" ->
            [acc EXCEPT !.values = Append(@, <<>>),
                        !.caches[node.sources[1].index] = Placed(@, run.position, value(node.sources[2]))]
       [] node.op = "attention" ->
            [acc EXCEPT !.values = Append(@,
               [row \in 1..length |->
                  Attended(value(node.sources[1])[row], acc.caches[CacheOf(nodes, i, 2)],
                           acc.caches[CacheOf(nodes, i, 3)], Visible(node, run.position + row - 1))])]
       [] node.op = "token" ->
            [acc EXCEPT !.values = Append(@, Chosen(value(node.sources[1]))), !.token = Chosen(value(node.sources[1]))]
       [] OTHER -> [acc EXCEPT !.values = Append(@, Rowwise(node, [s \in 1..Len(node.sources) |-> value(node.sources[s])], length))]

Indices(nodes) == [i \in 1..Len(nodes) |-> i]
ReferenceRun(nodes, run) ==
  FoldLeft(LAMBDA acc, i : OnCpu(nodes, run, acc, i), [values |-> <<>>, caches |-> run.caches, token |-> <<>>], Indices(nodes))

-----------------------------------------------------------------------------
(* Analysis. *)
IsPrologue(nodes, i) == nodes[i].op = "embedding"
Scatters(nodes) == {i \in 1..Len(nodes) : nodes[i].op = "scatter"}
Attentions(nodes) == {i \in 1..Len(nodes) : nodes[i].op = "attention"}
\* The node that makes a cache's new rows: of several updates the last counts.
RowNode(nodes, slot) ==
  LET updates == {i \in Scatters(nodes) : nodes[i].sources[1].index = slot}
  IN IF updates = {} THEN Nothing
     ELSE nodes[CHOOSE i \in updates : \A j \in updates : j <= i].sources[2].index

\* The host knows one cache of such a node.
RowCache(nodes, n) ==
  LET updates == {i \in Scatters(nodes) : nodes[i].sources[2].index = n}
  IN nodes[CHOOSE i \in updates : \A j \in updates : j <= i].sources[1].index

Packed(nodes, acc, i) ==
  IF IsPrologue(nodes, i) THEN [acc EXCEPT !.parts = Append(@, 0)]
  ELSE LET weight == nodes[i].weight
           opens == weight > 0 /\ acc.bytes > 0 /\ acc.bytes + weight > Budget
           part == IF opens THEN acc.part + 1 ELSE acc.part
       IN [parts |-> Append(acc.parts, part), part |-> part, bytes |-> IF opens THEN weight ELSE acc.bytes + weight]
Partition(nodes) ==
  FoldLeft(LAMBDA acc, i : Packed(nodes, acc, i), [parts |-> <<>>, part |-> 0, bytes |-> 0], Indices(nodes)).parts

\* A node has a value after it was lowered, except updates of caches and the token.
HasValue(nodes, n) == nodes[n].op \notin {"scatter", "token"}
NeededBySources(nodes, i) ==
  {nodes[i].sources[s].index : s \in {t \in 1..Len(nodes[i].sources) :
     nodes[i].sources[t].kind = "node" /\ HasValue(nodes, nodes[i].sources[t].index)}}
\* The nodes whose values a node's lowering asks for.
Needed(nodes, i) ==
  LET sources == IF nodes[i].op = "scatter" THEN {}
                 ELSE IF nodes[i].op = "attention" THEN {1} ELSE 1..Len(nodes[i].sources)
  IN {nodes[i].sources[s].index : s \in {t \in sources : nodes[i].sources[t].kind = "node"}}
     \cup (IF nodes[i].op = "attention" THEN {RowNode(nodes, CacheOf(nodes, i, o)) : o \in {2, 3}} ELSE {})
Exported(nodes, parts) ==
  {n \in 1..Len(nodes) :
     ~IsPrologue(nodes, n) /\ \E i \in 1..Len(nodes) : ~IsPrologue(nodes, i) /\ n \in Needed(nodes, i) /\ parts[n] < parts[i]}

Plan(nodes) ==
  CHOOSE plan \in {[parts |-> p, exported |-> Exported(nodes, p)] : p \in {Partition(nodes)}} : TRUE

Available(nodes, plan, i, n) ==
  /\ HasValue(nodes, n)
  /\ IsPrologue(nodes, n) \/ n < i
  /\ IsPrologue(nodes, n) \/ plan.parts[n] = plan.parts[i] \/ n \in plan.exported

Supported(nodes, plan, prefill) ==
  /\ \A i \in Scatters(nodes) :
       /\ nodes[i].sources[1].kind = "input"
       /\ nodes[i].sources[2].kind = "node" /\ nodes[nodes[i].sources[2].index].op = "round"
  /\ Attentions(nodes) /= {}
  /\ \A i \in Attentions(nodes) : \A o \in {2, 3} :
       CacheOf(nodes, i, o) /= Nothing /\ RowNode(nodes, CacheOf(nodes, i, o)) /= Nothing
  /\ \A i \in 1..Len(nodes) : ~IsPrologue(nodes, i) => \A n \in Needed(nodes, i) : Available(nodes, plan, i, n)
  /\ prefill <=> \A i \in 1..Len(nodes) : nodes[i].op /= "token"

-----------------------------------------------------------------------------
(* The step as the graphs compute it.  An accelerator is [copies, imports]: its copies of the *)
(* caches, and the buffers of imported values, which keep what an earlier step left. *)
Unhidden(nodes, i, run, place) == Visible(nodes[i], place)
\* The host hides the new places of a copy; the new rows are attended from the step.
Old(nodes, i, run, place) == {r \in Visible(nodes[i], place) : r < run.position}
AttendedByParts(nodes, i, accelerator, run, query, keys, values) ==
  LET fresh(row) == {r \in 1..row : run.position + r - 1 \in Visible(nodes[i], run.position + row - 1)}
      both(row, slot, new) ==
        RowsIn(accelerator.copies[slot], Old(nodes, i, run, run.position + row - 1)) \o RowsIn(new, fresh(row))
  IN [row \in 1..Len(run.tokens) |->
        Digest(query[row], <<OpNumber.attention>> \o both(row, CacheOf(nodes, i, 2), keys)
                                                  \o both(row, CacheOf(nodes, i, 3), values))]

\* Values of a graph's own nodes, of the host's embeddings, and what was imported.
ValueIn(nodes, plan, acc, run, i, n) ==
  IF IsPrologue(nodes, n) THEN Embedded(run.tokens)
  ELSE IF plan.parts[n] = plan.parts[i] THEN acc.values[n]
  ELSE acc.accelerator.imports[n]

\* After a graph ran: what it exports is copied to the buffers, its rows to the copy and to the CPU's cache.
Collected(nodes, plan, acc, run, last) ==
  LET own == {n \in 1..last : ~IsPrologue(nodes, n) /\ plan.parts[n] = plan.parts[last]}
      updated == {slot \in Slots : RowNode(nodes, slot) \in own /\ RowCache(nodes, RowNode(nodes, slot)) = slot}
      place(caches) == [slot \in Slots |->
        IF slot \in updated THEN Placed(caches[slot], run.position, acc.values[RowNode(nodes, slot)]) ELSE caches[slot]]
  IN [acc EXCEPT !.accelerator.imports = [n \in 1..Len(nodes) |->
                    IF n \in own /\ n \in plan.exported /\ HasValue(nodes, n) THEN acc.values[n] ELSE @[n]],
                 !.accelerator.copies = place(@), !.caches = place(@)]

OnAccelerator(nodes, plan, run, acc, i) ==
  IF IsPrologue(nodes, i) THEN acc
  ELSE
  LET node == nodes[i]
      value(n) == ValueIn(nodes, plan, acc, run, i, n)
      row(operand) == value(RowNode(nodes, CacheOf(nodes, i, operand)))
      computed ==
        CASE node.op = "scatter" -> acc
          [] node.op = "attention" ->
               [acc EXCEPT !.values[i] =
                  AttendedByParts(nodes, i, acc.accelerator, run, value(node.sources[1].index), row(2), row(3))]
          [] node.op = "token" -> [acc EXCEPT !.token = Chosen(value(node.sources[1].index))]
          [] OTHER ->
               [acc EXCEPT !.values[i] =
                  Rowwise(node, [s \in 1..Len(node.sources) |-> value(node.sources[s].index)], Len(run.tokens))]
      ends == \A j \in (i + 1)..Len(nodes) : IsPrologue(nodes, j) \/ plan.parts[j] /= plan.parts[i]
  IN IF ends THEN Collected(nodes, plan, computed, run, i) ELSE computed

\* The copies are brought up to date before the first graph.
MirroredShort(run, copies) ==
  [slot \in Slots |-> [r \in 0..(CacheRows - 1) |-> IF r < run.position - 1 THEN run.caches[slot][r] ELSE copies[slot][r]]]
Mirrored(run, copies) ==
  [slot \in Slots |-> [r \in 0..(CacheRows - 1) |-> IF r < run.position THEN run.caches[slot][r] ELSE copies[slot][r]]]
LoweredRun(nodes, plan, run, accelerator) ==
  LET start == [values |-> [i \in 1..Len(nodes) |-> <<>>], caches |-> run.caches, token |-> <<>>,
                accelerator |-> [accelerator EXCEPT !.copies = Mirrored(run, @)]]
  IN FoldLeft(LAMBDA acc, i : OnAccelerator(nodes, plan, run, acc, i), start, Indices(nodes))

-----------------------------------------------------------------------------
(* Steps as a recorder builds them, one operation after another. *)
CONSTANTS Starts,   \* what the steps begin with
          MaxMore,  \* operations after that
          Weights
VARIABLES nodes, more

NodesOf(op) == {i \in 1..Len(nodes) : nodes[i].op = op}
\* Recent values that operations take.
Values == {i \in 1..Len(nodes) : HasValue(nodes, i) /\ i + 2 > Len(nodes)}
\* A layer updates each of its caches once, with rows of its own, before it or one that shares it attends.
Updated == {nodes[i].sources[1].index : i \in NodesOf("scatter")}
Unplaced ==
  (NodesOf("round") \cup NodesOf("linear")) \ {nodes[i].sources[2].index : i \in NodesOf("scatter")}
Caches == {Input(s) : s \in Updated} \cup {Output(i) : i \in NodesOf("scatter")}
Record(op, sources, weight, local) ==
  /\ nodes' = Append(nodes, [op |-> op, sources |-> sources, weight |-> weight, local |-> local])
  /\ more' = more - 1

Init == nodes \in Starts /\ more = MaxMore
Next ==
  /\ more > 0 /\ NodesOf("token") = {}
  /\ \/ \E x \in Values, w \in Weights : Record("linear", <<Output(x)>>, w, FALSE)
     \/ \E x, y \in Values : x < y /\ Record("add", <<Output(x), Output(y)>>, 0, FALSE)
     \/ \E x \in Values : Record("round", <<Output(x)>>, 0, FALSE)
     \/ \E s \in Slots \ Updated, x \in Unplaced :
          Record("scatter", <<Input(s), Output(x)>>, 0, FALSE)
     \/ \E x \in Values, local \in BOOLEAN : \E k, v \in Caches :
          Record("attention", <<Output(x), k, v>>, 0, local)
     \/ \E x \in Values : Record("token", <<Output(x)>>, 0, FALSE)
Spec == Init /\ [][Next]_<<nodes, more>>

\* Two steps in a row: the second begins behind the first.
FirstCaches == [slot \in Slots |-> [r \in 0..(CacheRows - 1) |-> 100 * slot + r]]
BlankAccelerator ==
  [copies |-> [slot \in Slots |-> [r \in 0..(CacheRows - 1) |-> 0]], imports |-> [n \in 1..Len(nodes) |-> <<0, 0>>]]
RunOf(caches, tokens, position) == [caches |-> caches, tokens |-> tokens, position |-> position]
Agree(reference, lowered) == reference.caches = lowered.caches /\ reference.token = lowered.token

(* A step that is lowered chooses the token and leaves the caches that the captured step does, *)
(* and so does the step after it: values reach the graphs that need them, rows made by the step *)
(* are attended once, and nothing of an earlier step is. *)
LoweringIsFaithful ==
  \A tokens \in IF NodesOf("token") = {} THEN {<<5, 6>>} ELSE {<<5>>}, plan \in {Plan(nodes)} :
    Supported(nodes, plan, NodesOf("token") = {}) =>
      \E cpu \in {ReferenceRun(nodes, RunOf(FirstCaches, tokens, 1))},
         npu \in {LoweredRun(nodes, plan, RunOf(FirstCaches, tokens, 1), BlankAccelerator)} :
        /\ Agree(cpu, npu)
        /\ \E position \in {1 + Len(tokens)}, again \in {[i \in 1..Len(tokens) |-> 7 + i]} :
             Agree(ReferenceRun(nodes, RunOf(cpu.caches, again, position)),
                   LoweredRun(nodes, plan, RunOf(npu.caches, again, position), npu.accelerator))
=============================================================================
