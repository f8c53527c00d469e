---------------------------- MODULE GraphSession ----------------------------
(***************************************************************************)
(* The replay cache of a context: kidi::graph::Session and the calls of    *)
(* kidi::ops::Context that reach it.                                       *)
(*                                                                         *)
(* A caller asks for a keyed step with input tensors that it owns.  The    *)
(* session runs the body eagerly while recording it, twice if the capture  *)
(* has to be validated, and then replays the recorded graph or runs what a *)
(* compiler made of it, at once or on a detached thread.  The session is   *)
(* used by one thread, so that a call is one action; the detached thread   *)
(* and the caller's writes interleave with the calls.                      *)
(*                                                                         *)
(* Storage that nobody refers to is reused at once, lowest address first:  *)
(* a stale address is then as harmful as it can be.                        *)
(***************************************************************************)
EXTENDS StepGraph, FiniteSets, TLC

CONSTANTS
  Keys,             \* step keys
  Buffers,          \* storage of the caller's tensors
  Params,           \* storage that stays fixed: parameters
  MaxAddress,       \* bound: addresses for all other storage
  Tensors,          \* the caller's tensors: windows of its buffers
  Sessions,         \* [body: a body per key, options: [enabled, compiler, validate, capacity]]
  OperatorCapacity, \* prepared operators that a context keeps
  MaxCalls,         \* bound: calls of the session
  MaxEvents,        \* bound: failures, writes and maintenance between the calls
  Absent

VARIABLES
  heap,       \* storage -> cells
  body,       \* key -> body
  options,    \* how the session was constructed
  steps,      \* key -> entry of steps_, or Absent
  order,      \* keys of steps_, the least recently used first
  operators,  \* prepared operators of the context, the least recently used first
  scratch,    \* buffers that the compiler shares between steps
  held,       \* key -> outputs that the caller still holds and their values, or Absent
  calls,      \* number of calls, which also marks what a call computes on the host
  incidents,     \* number of failures, writes and maintenance calls
  last        \* the last call: what it returned and what eager execution gives

Addresses == 1..MaxAddress

sessionVars == <<heap, body, options, steps, order, operators, scratch, held, calls, incidents, last>>

Fresh == [first |-> Absent, graph |-> Absent, exec |-> Absent, pending |-> Absent]
Data(s, mark) == [j \in 1..2 |-> <<"data", s, j, mark>>]
Blank == Data(0, 0)
Quiet == [mode |-> "none", key |-> Absent, got |-> <<>>, want |-> <<>>]

(***************************************************************************)
(* Storage in use: what the session, the context's compiler and the caller *)
(* refer to.                                                               *)
(***************************************************************************)
GraphsAhead(entry) == {entry.graph, entry.exec} \ {Absent}
GraphsOf(entry) ==
  ({entry.first, entry.graph, entry.exec}
     \cup {IF entry.pending = Absent THEN Absent ELSE entry.pending.graph}) \ {Absent}
InUseCached(cache, buffers, retained, ours) ==
  UNION {GraphStorages(g) : g \in UNION {GraphsOf(cache[k]) : k \in {k \in Keys : cache[k] # Absent}}}
    \cup {buffers[i].s : i \in DOMAIN buffers} \cup StoragesOf(ours)

InUse(cache, buffers, retained, ours) ==
  UNION {GraphStorages(g) : g \in UNION {GraphsOf(cache[k]) : k \in {k \in Keys : cache[k] # Absent}}}
    \cup {buffers[i].s : i \in DOMAIN buffers}
    \cup UNION {StoragesOf(retained[k].outs) : k \in {k \in Keys : retained[k] # Absent}}
    \cup StoragesOf(ours)

FreeIn(used) == SelectSeq([a \in 1..MaxAddress |-> a], LAMBDA a: a \notin used)

(***************************************************************************)
(* Operators.  Context::run looks a prepared operator up by what the call  *)
(* fixes: operation, attributes, execution mode and operand layouts.       *)
(***************************************************************************)
Prepared(cache, dispatch, alive) ==
  LET known == {i \in DOMAIN cache : cache[i].dispatch = dispatch}
      Old == cache[CHOOSE i \in known : TRUE]
      ids == {cache[i].id : i \in DOMAIN cache} \cup alive
      New == [dispatch |-> dispatch, id |-> CHOOSE n \in 1..(Cardinality(ids) + 1) : n \notin ids]
      Dropped == IF OperatorCapacity < 4 THEN 1 ELSE OperatorCapacity \div 4
      Kept == IF Len(cache) >= OperatorCapacity THEN SubSeq(cache, Dropped + 1, Len(cache)) ELSE cache
  IN IF known # {} THEN Append(SelectSeq(cache, LAMBDA p: p.dispatch # dispatch), Old)
     ELSE Append(Kept, New)

(***************************************************************************)
(* Eager execution of a body: every operator allocates its result, unless  *)
(* it writes in place, and is recorded.  A temporary of the host gets      *)
(* fresh storage too.  `limit` is the number of operators that succeed.    *)
(***************************************************************************)
Operand(ref, run) ==
  LET base == CASE ref.k = "in" -> run.graph.inputs[ref.i]
                [] ref.k = "node" -> Result(run.graph.nodes[ref.i])
                [] ref.k = "param" -> [s |-> ref.i, off |-> 0, len |-> 2]
                [] ref.k = "temp" -> [s |-> Head(run.free), off |-> 0, len |-> 2]
  IN Window(base, ref.off, ref.len)

Attribute(run, node) == IF node.attr = "call" THEN run.mark ELSE 0
Dispatch(run, node, args) ==
  <<node.op, Attribute(run, node), node.mode, [i \in DOMAIN args |-> args[i].len]>>

\* The operator is prepared, recorded and run.
Execute(run, node, args, out) ==
  LET ops == Prepared(run.operators, Dispatch(run, node, args), run.alive)
      graph == Record(run.graph, node.op, Attribute(run, node), node.mode, Last(ops).id, Append(args, out))
  IN [run EXCEPT !.operators = ops, !.graph = graph]

Launch(run) == [run EXCEPT !.heap = Kernel(@, Last(run.graph.nodes))]

\* The host fills a temporary.
Stage(run) == [run EXCEPT !.heap[Head(run.free)] = Data(0, run.mark), !.free = Tail(@)]

RunNode(run, node) ==
  LET args == [i \in DOMAIN node.args |-> Operand(node.args[i], run)]
      staged == IF \E i \in DOMAIN node.args : node.args[i].k = "temp" THEN Stage(run) ELSE run
  IN IF node.mode = "inplace" THEN Launch(Execute(staged, node, args, Operand(node.out, run)))
     ELSE Launch([Execute(staged, node, args, [s |-> Head(staged.free), off |-> 0, len |-> node.out.len])
                    EXCEPT !.free = Tail(@)])

\* The operators that graphs of the session keep alive.
AliveOperators(cache) ==
  UNION {{g.nodes[n].prep : n \in DOMAIN g.nodes} :
           g \in UNION {GraphsOf(cache[k]) : k \in {k \in Keys : cache[k] # Absent}}}

RunBody(b, inputs, cache, used, limit) ==
  LET start == [heap |-> heap, graph |-> NewGraph(inputs), operators |-> operators,
                free |-> FreeIn(used), mark |-> calls + 1, alive |-> AliveOperators(cache)]
      count == IF limit < Len(b.nodes) THEN limit ELSE Len(b.nodes)
      run == FoldLeft(RunNode, start, SubSeq(b.nodes, 1, count))
  IN [run EXCEPT !.graph =
        IF count < Len(b.nodes) THEN @
        ELSE Finish(@, [i \in DOMAIN b.outs |-> Operand(b.outs[i], run)])]

Values(memory, tensors) == [i \in DOMAIN tensors |-> Content(memory, tensors[i])]

\* What the caller sees of memory: its own buffers.
Visible(memory) == [b \in Buffers |-> memory[b]]

(***************************************************************************)
(* Session::replay.                                                        *)
(***************************************************************************)
\* The entry of a key: made on its first call, in place of the least recently used one if the
\* cache is full.
Room(k) ==
  IF steps[k] = Absent /\ Len(order) >= options.capacity THEN [steps EXCEPT ![Head(order)] = Absent] ELSE steps

\* What the detached compiler has finished is taken over by the next call: an executable
\* replaces the graph; without one the graph is replayed for good.
Adopted(entry) ==
  CASE entry.pending = Absent \/ entry.pending.state = "running" -> entry
    [] entry.pending # Absent /\ entry.pending.state = "ready" ->
         [entry EXCEPT !.exec = entry.pending.graph, !.graph = Absent, !.pending = Absent]
    [] OTHER -> [entry EXCEPT !.pending = Absent]

Entered(k) == [Room(k) EXCEPT ![k] = Adopted(IF @ = Absent THEN Fresh ELSE @)]
Recent(k) == Append(SelectSeq(order, LAMBDA key: key # k /\ Room(k)[key] # Absent), k)

\* Leaves the cache as `cache`, the memory as `memory` and the caller with `outs`.
Settle(k, cache, memory, buffers, outs, result) ==
  LET retained == [held EXCEPT ![k] =
                     IF result.mode \in {"none", "refused"} THEN Absent
                     ELSE [outs |-> outs, values |-> Values(memory, outs)]]
      used == InUse(cache, buffers, retained, <<>>)
  IN /\ steps' = cache
     /\ scratch' = buffers
     /\ held' = retained
     /\ heap' = [s \in DOMAIN heap |-> IF s \in Addresses \ used THEN Blank ELSE memory[s]]
     /\ last' = result
     /\ calls' = calls + 1

Returned(k, mode, memory, outs, run) ==
  [mode |-> mode, key |-> k,
   got |-> <<Values(memory, outs), Visible(memory)>>,
   want |-> <<Values(run.heap, run.graph.outs), Visible(run.heap)>>]

Completes(b, limit) == limit >= Len(b.nodes)

\* The reference: the body run eagerly on the same memory.  Outputs of the key's last call that
\* the caller still holds stay allocated, as they may be until the call returns.
Reference(k, inputs, limit, cache) ==
  RunBody(body[k], inputs, cache, InUse(cache, scratch, held, inputs), limit)

\* The calls below enter with the cache `cache`, and `run` is the reference.

\* A session that does not capture runs the body on every call.
CallEager(k, run, limit) ==
  /\ ~options.enabled
  /\ operators' = run.operators
  /\ Settle(k, steps, run.heap, scratch, run.graph.outs,
            IF Completes(body[k], limit) THEN Returned(k, "eager", run.heap, run.graph.outs, run) ELSE Quiet)
  /\ UNCHANGED order

\* GpuRegion::run: the region has its own copy of the graph and hands out that graph's outputs.
CallCompiled(k, inputs, limit, cache, run) ==
  /\ options.enabled /\ cache[k].exec # Absent
  /\ order' = Recent(k)
  /\ \E bound \in {Rebind(cache[k].exec, inputs)} : \E memory \in {RunNodes(heap, bound, limit)} :
       Settle(k, [cache EXCEPT ![k].exec = bound], memory, scratch, bound.outs,
              IF Completes(body[k], limit) THEN Returned(k, "compiled", memory, bound.outs, run) ELSE Quiet)
  /\ UNCHANGED operators

CallReplay(k, inputs, limit, cache, run) ==
  /\ options.enabled /\ cache[k].exec = Absent /\ cache[k].graph # Absent
  /\ order' = Recent(k)
  /\ \E bound \in {Rebind(cache[k].graph, inputs)} : \E memory \in {RunNodes(heap, bound, limit)} :
       Settle(k, [cache EXCEPT ![k].graph = bound], memory, scratch, bound.outs,
              IF Completes(body[k], limit) THEN Returned(k, "replay", memory, bound.outs, run) ELSE Quiet)
  /\ UNCHANGED operators

Capturing(k, cache) == options.enabled /\ cache[k].exec = Absent /\ cache[k].graph = Absent

\* A body that throws while it is recorded leaves the entry as it was.
CallCaptureFails(k, limit, cache, run) ==
  /\ Capturing(k, cache) /\ ~Completes(body[k], limit)
  /\ order' = Recent(k)
  /\ operators' = run.operators
  /\ Settle(k, cache, run.heap, scratch, <<>>, Quiet)

\* The first of two captures is only kept for the comparison.
CallFirstCapture(k, cache, run) ==
  /\ Capturing(k, cache) /\ options.validate /\ cache[k].first = Absent
  /\ order' = Recent(k)
  /\ operators' = run.operators
  /\ Settle(k, [cache EXCEPT ![k].first = run.graph], run.heap, scratch, run.graph.outs,
            Returned(k, "capture", run.heap, run.graph.outs, run))

Matches(first, graph) == first # Absent => SameStructure(first, graph)

\* A second capture that differs is refused, and the first one stays.
CallRefused(k, cache, run) ==
  /\ Capturing(k, cache) /\ ~Matches(cache[k].first, run.graph)
  /\ order' = Recent(k)
  /\ operators' = run.operators
  /\ Settle(k, cache, run.heap, scratch, <<>>, [Quiet EXCEPT !.mode = "refused", !.key = k])

\* What becomes of a capture: it is compiled at once, handed to a thread, or replayed as it is.  A
\* compiler may decline, and one that throws has the caller see the error once.
Compilations(k, cache, run) ==
  LET entry == [cache[k] EXCEPT !.first = Absent, !.graph = run.graph]
      used == InUse([cache EXCEPT ![k] = entry], scratch, held, run.graph.outs)
      plan == Plan(run.graph, scratch, FreeIn(used))
  IN CASE options.compiler = "none" -> {[entry |-> entry, scratch |-> scratch, mode |-> "capture"]}
       [] options.compiler = "thread" ->
            {[entry |-> [entry EXCEPT !.pending = [state |-> "running", graph |-> run.graph]],
              scratch |-> scratch, mode |-> "capture"]}
       [] options.compiler = "direct" ->
            {[entry |-> entry, scratch |-> plan.scratch, mode |-> mode] : mode \in {"capture", "none"}}
              \cup {[entry |-> [entry EXCEPT !.graph = Absent, !.exec = plan.graph],
                     scratch |-> plan.scratch, mode |-> "capture"]}

CallCapture(k, cache, run) ==
  /\ Capturing(k, cache) /\ (options.validate => cache[k].first # Absent)
  /\ Matches(cache[k].first, run.graph)
  /\ order' = Recent(k)
  /\ operators' = run.operators
  /\ \E kept \in Compilations(k, cache, run) :
       Settle(k, [cache EXCEPT ![k] = kept.entry], run.heap, kept.scratch, run.graph.outs,
              IF kept.mode = "none" THEN Quiet ELSE Returned(k, "capture", run.heap, run.graph.outs, run))

\* Inputs of another shape: an executable refuses them untouched, a graph binds the slots
\* before the first that does not fit, and a body fails in its first operator.
CallMisfit(k, inputs, cache) ==
  /\ options.enabled
  /\ order' = Recent(k)
  /\ \E left \in {IF cache[k].exec = Absent /\ cache[k].graph # Absent
                  THEN [cache[k] EXCEPT !.graph = Rebind(@, inputs)] ELSE cache[k]} :
       Settle(k, [cache EXCEPT ![k] = left], heap, scratch, <<>>, Quiet)
  /\ UNCHANGED operators

(***************************************************************************)
(* The caller.  The inputs of one call do not overlap.                     *)
(***************************************************************************)
Apart(a, b) == a.s # b.s \/ a.off + a.len <= b.off \/ b.off + b.len <= a.off
InputLists(b) ==
  {ts \in [DOMAIN b.inputs -> Tensors] : \A i, j \in DOMAIN ts : i < j => Apart(ts[i], ts[j])}
Fitting(b) == {ts \in InputLists(b) : \A i \in DOMAIN ts : ts[i].len = b.inputs[i]}
\* All inputs but the last fit.
Misfitting(b) ==
  {ts \in InputLists(b) : \A i \in DOMAIN ts : (ts[i].len = b.inputs[i]) <=> (i < Len(b.inputs))}

\* The operators that succeed: all of them, or only the first.
Limits(b) == {Len(b.nodes)} \cup (IF incidents < MaxEvents THEN {1} ELSE {})

Event == incidents < MaxEvents /\ incidents' = incidents + 1

Call ==
  /\ calls < MaxCalls
  /\ UNCHANGED <<body, options>>
  /\ \E k \in Keys : \E cache \in {Entered(k)} :
       \/ \E inputs \in Fitting(body[k]) : \E limit \in Limits(body[k]) :
            /\ incidents' = IF Completes(body[k], limit) THEN incidents ELSE incidents + 1
            /\ \E run \in {Reference(k, inputs, limit, cache)} :
                 \/ CallEager(k, run, limit)
                 \/ CallCompiled(k, inputs, limit, cache, run)
                 \/ CallReplay(k, inputs, limit, cache, run)
                 \/ CallCaptureFails(k, limit, cache, run)
                 \/ Completes(body[k], limit) /\ CallFirstCapture(k, cache, run)
                 \/ Completes(body[k], limit) /\ CallRefused(k, cache, run)
                 \/ Completes(body[k], limit) /\ CallCapture(k, cache, run)
       \/ \E inputs \in Misfitting(body[k]) : CallMisfit(k, inputs, cache) /\ Event

\* The caller writes new values into one of its buffers.
WriteBuffer(b) ==
  /\ Event
  /\ heap[b] # Data(b, calls)
  /\ heap' = [heap EXCEPT ![b] = Data(b, calls)]
  /\ last' = Quiet
  /\ UNCHANGED <<body, options, steps, order, operators, scratch, held, calls>>

\* Frees what nobody refers to any more.
Free(cache, retained) ==
  heap' = [s \in DOMAIN heap |->
             IF s \in Addresses \ InUse(cache, scratch, retained, <<>>) THEN Blank ELSE heap[s]]

LetGo(k) ==
  /\ Event
  /\ held[k] # Absent
  /\ held' = [held EXCEPT ![k] = Absent]
  /\ Free(steps, held')
  /\ last' = Quiet
  /\ UNCHANGED <<body, options, steps, order, operators, scratch, calls>>

Dropping(gone) ==
  /\ steps' = [k \in Keys |-> IF k \in gone THEN Absent ELSE steps[k]]
  /\ order' = SelectSeq(order, LAMBDA k: k \notin gone)
  /\ Free(steps', held)
  /\ last' = Quiet
  /\ Event

\* Session::clear of the keys with a prefix.
Clear(k) ==
  /\ steps[k] # Absent
  /\ Dropping({k})
  /\ UNCHANGED <<body, options, operators, scratch, held, calls>>

SetCapacity(n) ==
  /\ n # options.capacity
  /\ options' = [options EXCEPT !.capacity = n]
  /\ Dropping(ToSet(SubSeq(order, 1, IF Len(order) > n THEN Len(order) - n ELSE 0)))
  /\ UNCHANGED <<body, operators, scratch, held, calls>>

\* Context::release_workspaces and set_precision: captured steps and prepared operators go.
ResetOperators ==
  /\ order # <<>>
  /\ Dropping({})
  /\ operators' = <<>>
  /\ UNCHANGED <<body, options, scratch, held, calls>>

Reset ==
  /\ order # <<>>
  /\ Dropping(Keys)
  /\ operators' = <<>>
  /\ UNCHANGED <<body, options, scratch, held, calls>>

\* The detached thread keeps its promise.
CompileEnds(k, state) ==
  /\ steps[k] # Absent /\ steps[k].pending # Absent /\ steps[k].pending.state = "running"
  /\ steps' = [steps EXCEPT ![k].pending.state = state]
  /\ last' = Quiet
  /\ UNCHANGED <<heap, body, options, order, operators, scratch, held, calls, incidents>>

SessionInit ==
  /\ heap = [s \in Buffers \cup Params \cup Addresses |-> IF s \in Addresses THEN Blank ELSE Data(s, 0)]
  /\ \E session \in Sessions : options = session.options /\ body = session.body
  /\ steps = [k \in Keys |-> Absent]
  /\ order = <<>>
  /\ operators = <<>>
  /\ scratch = <<>>
  /\ held = [k \in Keys |-> Absent]
  /\ calls = 0
  /\ incidents = 0
  /\ last = Quiet

SessionNext ==
  \/ Call
  \/ \E b \in Buffers : WriteBuffer(b)
  \/ \E k \in Keys : LetGo(k) \/ Clear(k) \/ \E state \in {"ready", "null", "failed"} : CompileEnds(k, state)
  \/ \E n \in 1..2 : SetCapacity(n)
  \/ Reset

SessionSpec == SessionInit /\ [][SessionNext]_sessionVars

(***************************************************************************)
(* Properties.                                                             *)
(***************************************************************************)
\* Whichever way a call is served - by a capture, a replayed graph or an executable, after any
\* history of rebinding, eviction, failed calls and compilations - it returns the values that
\* running the body eagerly returns, and leaves the same values in the caller's tensors.
ReplayMatchesEager == last.got = last.want

\* Outputs that a caller holds keep their values until it calls the same step again: no other
\* step writes to them, through shared scratch buffers or reused storage (unless they are
\* windows of the caller's own buffers).
OutputsAreStable ==
  \A k \in Keys : held[k] # Absent =>
    \A i \in DOMAIN held[k].outs :
      held[k].outs[i].s \in Buffers \/ Content(heap, held[k].outs[i]) = held[k].values[i]

Volatile(b) == \E n \in DOMAIN b.nodes :
  b.nodes[n].attr = "call" \/ \E i \in DOMAIN b.nodes[n].args : b.nodes[n].args[i].k = "temp"

\* The operators that the context prepares for the steps of this session.
Dispatches(b) ==
  {<<b.nodes[n].op, b.nodes[n].attr, b.nodes[n].mode, [i \in DOMAIN b.nodes[n].args |-> b.nodes[n].args[i].len]>> :
     n \in DOMAIN b.nodes}
Crowded ==
  \/ \E k \in Keys : Volatile(body[k])
  \/ Cardinality(UNION {Dispatches(body[k]) : k \in Keys}) > OperatorCapacity
\* The context has dropped an operator that the graph refers to.
Evicted(g) == \E n \in DOMAIN g.nodes : \A i \in DOMAIN operators : operators[i].id # g.nodes[n].prep

\* A step is refused only if it really changes between calls, or if the context, whose operators
\* do not fit its cache, has evicted one of its first capture: rebound inputs, failed or cleared
\* calls, evicted entries and a reset of the context are no reason.
RefusalsAreJustified ==
  last.mode = "refused" => Volatile(body[last.key]) \/ (Crowded /\ Evicted(steps[last.key].first))
=============================================================================
