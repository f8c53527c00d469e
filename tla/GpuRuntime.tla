----------------------------- MODULE GpuRuntime -----------------------------
(***************************************************************************)
(* The shared GPU runtime of the browser: logical clients load models and  *)
(* send requests to one worker, which shares the native models between the *)
(* clients, serializes preparations and evictions, reserves memory before  *)
(* it loads or executes, and evicts models that nobody uses.               *)
(*                                                                         *)
(* The worker has one thread, so an action is the code between two awaits. *)
(* A task is an asynchronous handler: a service request, a preparation, a  *)
(* cleanup or the timer.  Calls into the native module are atomic: the     *)
(* scheduler runs one at a time.  Host memory is accounted like GPU        *)
(* memory, so one of them is modelled; trimming of caches is left out, and *)
(* so is the loss of the device, which ends the worker.                    *)
(***************************************************************************)
EXTENDS Integers, FiniteSets, FiniteSetsExt, Sequences, SequencesExt

CONSTANTS
  Clients, Keys,  \* logical sessions, and the models they want
  Requests,       \* messages, each sent once: what they ask, and of which client
  MaxObjects,     \* bound on native model sessions ever created
  Workloads,      \* what the pages may ask; a behaviour serves one of them
  LoadBytes, UseBytes,  \* what loading a model takes, and at most a request of it
  ChatKeys, Margin,     \* the models that generate tokens; what is reserved beside one
  MaxWaiting,
  None

Objects == 1 .. MaxObjects
Prepare(o) == <<"prepare", o>>
Cleanup(o) == <<"cleanup", o>>
Timer == <<"timer", 0>>
Tasks == {<<"request", r>> : r \in Requests} \cup {Timer}
           \cup {Prepare(o) : o \in Objects} \cup {Cleanup(o) : o \in Objects}

RuntimeAssumption ==
  /\ {MaxObjects, MaxWaiting, Margin} \subseteq Nat /\ ChatKeys \subseteq Keys
  /\ \A w \in Workloads :
       /\ {w.budget, w.resident, w.faults} \subseteq Nat /\ w.abortable \subseteq Requests
       /\ w.keyOf \in [Clients -> Keys] /\ w.clientOf \in [Requests -> Clients]
       /\ w.method \in [Requests -> {"load", "generate", "release", "evict", "none"}]
  /\ LoadBytes \in [Keys -> Nat] /\ UseBytes \in [Keys -> Nat]

VARIABLES
  obj,          \* model sessions by directory number
  models,       \* the current model of a key
  clients,      \* registered, model, requesting, waiting
  task,         \* where each handler is, its model, the model it closes, and how it ended
  waits,        \* promises each handler awaits; empty when one has settled
  aborted,      \* tasks whose signal is aborted
  line,         \* tasks that wait for the maintenance scheduler, in order of arrival
  maintenance,  \* the task that runs in the maintenance scheduler
  preparing,    \* the model that runs in the preparations scheduler
  runtime,      \* the device and the native module exist
  faults,       \* injected so far
  workload
\* The model a client wants, what a request asks and for whom, and those whose
\* signal may be aborted; the limits of the page, and a bound on failed loads.
KeyOf == workload.keyOf
MethodOf == workload.method
ClientOf == workload.clientOf
Abortable == workload.abortable
Budget == workload.budget
MaxResident == workload.resident
MaxFaults == workload.faults

world == <<preparing, runtime, faults>>
vars == <<obj, models, clients, task, waits, aborted, line, maintenance, world>>

NoModel ==
  [key |-> None, loading |-> FALSE, ready |-> FALSE, error |-> "none", aborted |-> FALSE,
   active |-> FALSE, executing |-> FALSE, admitted |-> FALSE, pins |-> 0,
   closing |-> FALSE, disposed |-> FALSE, clients |-> {}, reservation |-> 0, owned |-> 0,
   left |-> 0]  \* what the request that executes may still allocate

Init ==
  /\ obj = [o \in Objects |-> NoModel]
  /\ models = [k \in Keys |-> None]
  /\ clients = [c \in Clients |-> [registered |-> FALSE, model |-> None, requesting |-> FALSE, waiting |-> 0]]
  /\ task = [t \in Tasks |-> [pc |-> "none", model |-> None, victim |-> None, next |-> "none", after |-> "none", result |-> "none"]]
  /\ waits = [t \in Tasks |-> {}]
  /\ aborted = {} /\ line = <<>>
  /\ maintenance = None /\ preparing = None
  /\ runtime = FALSE /\ faults = 0 /\ workload \in Workloads

At(t, pc) == task[t].pc = pc
Model(t) == task[t].model
IsRequest(t, method) == t[1] = "request" /\ MethodOf[t[2]] = method
IsPrepare(t) == t[1] = "prepare"
Client(t) == ClientOf[t[2]]
IsAborted(t) == IF IsPrepare(t) THEN obj[t[2]].aborted ELSE t \in aborted
Settled(t) == waits[t] = {}

Goto(t, pc) == task' = [task EXCEPT ![t].pc = pc]
Reserve(t, next) == [task[t] EXCEPT !.pc = "reserve", !.next = next]
Dispose(t, o, next) == [task[t] EXCEPT !.pc = "dispose", !.victim = o, !.after = next]
Ended(t, result) == [task[t] EXCEPT !.pc = "done", !.result = result]
Become(t, record) == task' = [task EXCEPT ![t] = record]
Await(t, promise) == waits' = [waits EXCEPT ![t] = {promise}]
\* Promises settle; handlers that await one of them may go on.
Settle(promises) == waits' = [t \in Tasks |-> IF waits[t] \cap promises # {} THEN {} ELSE waits[t]]
\* A settled promise or a free scheduler is served before the next event of the browser.
Pending(t) ==
  CASE task[t].pc \in {"turn", "lookup", "reopened", "stale", "joined", "model", "blocked"} -> Settled(t) \/ IsAborted(t)
    [] task[t].pc \in {"join", "failed"} -> TRUE
    [] task[t].pc \in {"reserve", "dispose", "evict"} -> maintenance = None
    [] task[t].pc = "prepare" -> preparing = None
    [] OTHER -> FALSE
Quiet == \A t \in Tasks : ~Pending(t)

TypeOK ==
  /\ \A o \in Objects : /\ obj[o].pins \in 0 .. Cardinality(Requests)
                        /\ obj[o].clients \subseteq Clients /\ {obj[o].reservation, obj[o].left} \subseteq Nat
  /\ models \in [Keys -> Objects \cup {None}]
  /\ \A c \in Clients : clients[c].waiting \in 0 .. MaxWaiting
  /\ waits \in [Tasks -> SUBSET ({"idle", "prepared", "closed"} \X Objects \cup {"finished"} \X Clients)]
  /\ maintenance \in Tasks \cup {None} /\ preparing \in Objects \cup {None}

-----------------------------------------------------------------------------
(* Requests arrive *)

\* A page sends requests when its load has ended.
LoadEnded(c) == \A r \in Requests : MethodOf[r] = "load" /\ ClientOf[r] = c => At(<<"request", r>>, "done")
StartGenerate(t) ==
  LET c == Client(t) IN
  /\ IsRequest(t, "generate") /\ LoadEnded(c)
  /\ IF clients[c].registered /\ clients[c].waiting < MaxWaiting
     THEN Goto(t, "turn") /\ clients' = [clients EXCEPT ![c].waiting = @ + 1]
     ELSE Become(t, Ended(t, "refused")) /\ UNCHANGED clients
  /\ UNCHANGED obj

StartLoad(t) ==
  LET c == Client(t) IN
  /\ IsRequest(t, "load")
  /\ IF clients[c].registered
     THEN Become(t, Ended(t, "refused")) /\ UNCHANGED clients
     ELSE Goto(t, "lookup") /\ clients' = [clients EXCEPT ![c].registered = TRUE, ![c].model = None]
  /\ UNCHANGED obj

\* A model whose last client leaves stops loading.
LeaveAborts(o, c) == [obj[o] EXCEPT !.clients = @ \ {c}, !.aborted = @ \/ obj[o].loading]  \* mutant: whoever leaves aborts the load
Leave(o, c) == [obj[o] EXCEPT !.clients = @ \ {c},
                              !.aborted = @ \/ (obj[o].loading /\ obj[o].clients \subseteq {c})]
StartRelease(t) ==
  LET c == Client(t)  o == clients[c].model IN
  /\ IsRequest(t, "release")
  /\ IF clients[c].registered
     THEN /\ clients' = [clients EXCEPT ![c].registered = FALSE]
          /\ obj' = IF o = None THEN obj ELSE [obj EXCEPT ![o] = Leave(o, c)]
          /\ Become(t, Reserve(t, "done"))
     ELSE Become(t, Ended(t, "completed")) /\ UNCHANGED <<obj, clients>>

StartEvict(t) == IsRequest(t, "evict") /\ Goto(t, "evict") /\ UNCHANGED <<obj, clients>>

Start(t) ==
  /\ At(t, "none") /\ Quiet
  /\ StartGenerate(t) \/ StartLoad(t) \/ StartRelease(t) \/ StartEvict(t)
  /\ UNCHANGED <<models, waits, aborted, maintenance, world>>

\* Every 30 seconds; once is enough, because the check itself may come at any time.
TimerFires ==
  /\ At(Timer, "none") /\ Quiet
  /\ Become(Timer, Reserve(Timer, "done"))
  /\ UNCHANGED <<obj, models, clients, waits, aborted, maintenance, world>>

Abort(t) ==
  /\ t[1] = "request" /\ t[2] \in Abortable /\ t \notin aborted /\ Quiet
  /\ task[t].pc \notin {"none", "done"}
  /\ aborted' = aborted \cup {t}
  /\ UNCHANGED <<obj, models, clients, task, waits, maintenance, world>>

-----------------------------------------------------------------------------
(* modelFor: the requests of a client take turns, and so do those of a model *)

TakeTurn(t) ==
  LET c == Client(t) IN
  /\ At(t, "turn") /\ Settled(t) /\ ~IsAborted(t)
  /\ IF clients[c].requesting
     THEN Await(t, <<"finished", c>>) /\ UNCHANGED <<task, clients>>
     ELSE /\ clients' = [clients EXCEPT ![c].waiting = @ - 1, ![c].requesting = TRUE]
          /\ Goto(t, "lookup") /\ UNCHANGED waits
  /\ UNCHANGED <<obj, models, aborted, maintenance, world>>

GiveUpTurn(t) ==
  /\ At(t, "turn") /\ IsAborted(t)
  /\ Become(t, Ended(t, "cancelled"))
  /\ clients' = [clients EXCEPT ![Client(t)].waiting = @ - 1]
  /\ waits' = [waits EXCEPT ![t] = {}]
  /\ UNCHANGED <<obj, models, aborted, maintenance, world>>

ClaimModel(t) ==
  /\ At(t, "model") /\ Settled(t) /\ ~IsAborted(t)
  /\ IF obj[Model(t)].active
     THEN Await(t, <<"idle", Model(t)>>) /\ UNCHANGED <<obj, task>>
     ELSE /\ obj' = [obj EXCEPT ![Model(t)].active = TRUE]
          /\ Become(t, Reserve(t, "execute")) /\ UNCHANGED waits
  /\ UNCHANGED <<models, clients, aborted, maintenance, world>>

\* The request ends before it executes: the client's next one may go on.
Forgo(t, result) ==
  LET c == Client(t) IN
  /\ Become(t, Ended(t, result))
  /\ clients' = IF IsRequest(t, "generate") THEN [clients EXCEPT ![c].requesting = FALSE]
                ELSE [clients EXCEPT ![c].registered = FALSE]
  /\ waits' = [u \in Tasks |-> IF u = t \/ (IsRequest(t, "generate") /\ <<"finished", c>> \in waits[u])
                               THEN {} ELSE waits[u]]
  /\ UNCHANGED <<models, aborted, maintenance, world>>

GiveUpModel(t) ==
  /\ At(t, "model") /\ IsAborted(t)
  /\ obj' = [obj EXCEPT ![Model(t)].pins = @ - 1]
  /\ Forgo(t, "cancelled")

\* finishRequest.
KeepsActive(o) == [obj[o] EXCEPT !.executing = FALSE, !.reservation = 0, !.left = 0, !.pins = @ - 1]  \* mutant: the model stays claimed
Idle(o) ==
  [obj[o] EXCEPT !.active = FALSE, !.executing = FALSE, !.reservation = 0, !.left = 0, !.pins = @ - 1]
FinishRequest(t, result) ==
  LET o == Model(t)  c == Client(t) IN
  /\ obj' = [obj EXCEPT ![o] = [Idle(o) EXCEPT !.owned = LoadBytes[obj[o].key]]]
  /\ clients' = [clients EXCEPT ![c].requesting = FALSE]
  /\ Become(t, Ended(t, result))
  /\ Settle({<<"finished", c>>, <<"idle", o>>})

-----------------------------------------------------------------------------
(* loadClient *)

\* Join the model of the key, or create it: its preparation is queued.
NoPin(t) == 0  \* mutant: a request does not pin its model
PinOf(t) == IF IsRequest(t, "generate") THEN 1 ELSE 0
Created(k) == [NoModel EXCEPT !.key = k, !.loading = TRUE]
Join(t) ==
  LET c == Client(t)  k == KeyOf[c]
      new == models[k] = None
      fresh == {p \in Objects : obj[p].key = None}
      o == IF new THEN CHOOSE p \in fresh : \A q \in fresh : p <= q ELSE models[k]
      model == IF new THEN Created(k) ELSE obj[o] IN
  /\ new => fresh # {}
  /\ models' = [models EXCEPT ![k] = o]
  /\ obj' = [obj EXCEPT ![o] = [model EXCEPT !.clients = @ \cup {c}, !.pins = @ + PinOf(t)]]
  /\ task' = [task EXCEPT ![t].pc = "joined", ![t].model = o, ![Prepare(o)].pc = IF new THEN "prepare" ELSE @]
  /\ clients' = [clients EXCEPT ![c].model = o]
  /\ waits' = [waits EXCEPT ![t] = IF model.loading THEN {<<"prepared", o>>} ELSE {}]
  /\ UNCHANGED <<aborted, maintenance, world>>

\* A failed or abandoned model is disposed of before the client loads another.
IsStale(o) == obj[o].error # "none" \/ obj[o].aborted
Replace(t, o) ==
  /\ IF obj[o].loading
     THEN task' = [task EXCEPT ![t].pc = "stale", ![t].model = o] /\ Await(t, <<"idle", o>>)
     ELSE Become(t, Dispose(t, o, "join")) /\ UNCHANGED waits
  /\ UNCHANGED <<obj, models, clients, aborted, maintenance, world>>

AwaitClosed(t, o) ==
  /\ Goto(t, "reopened") /\ Await(t, <<"closed", o>>)
  /\ UNCHANGED <<obj, models, clients, aborted, maintenance, world>>

Lookup(t) ==
  LET o == models[KeyOf[Client(t)]] IN
  /\ task[t].pc \in {"lookup", "reopened"} /\ Settled(t)
  /\ At(t, "lookup") => ~IsAborted(t)
  /\ IF o = None THEN Join(t)
     ELSE IF At(t, "lookup") /\ obj[o].closing THEN AwaitClosed(t, o)
     ELSE IF IsStale(o) THEN Replace(t, o) ELSE Join(t)

StaleIsIdle(t) == At(t, "stale") /\ Settled(t) /\ Replace(t, Model(t))
JoinReplacement(t) == At(t, "join") /\ Join(t)

LookupFails(t) ==
  /\ IsAborted(t)
  /\ At(t, "lookup") \/ (task[t].pc \in {"reopened", "stale"} /\ ~Settled(t))
  /\ Forgo(t, "cancelled")
  /\ UNCHANGED obj

\* The shared preparation succeeded, and the client is still there.
Succeeded(t) == Settled(t) /\ ~IsAborted(t) /\ obj[Model(t)].ready /\ clients[Client(t)].registered
Joined(t) ==
  /\ At(t, "joined") /\ Succeeded(t)
  /\ IF IsRequest(t, "generate") THEN Goto(t, "model") ELSE Become(t, Ended(t, "completed"))
  /\ UNCHANGED <<obj, models, clients, waits, aborted, maintenance, world>>

JoinFails(t) ==
  LET o == Model(t)  c == Client(t)
      left == [Leave(o, c) EXCEPT !.pins = @ - PinOf(t)]
      unused == ~left.loading /\ ~left.active /\ left.pins = 0
      result == IF IsAborted(t) \/ ~clients[c].registered THEN "cancelled" ELSE obj[o].error IN
  /\ At(t, "joined") /\ (Settled(t) \/ IsAborted(t)) /\ ~Succeeded(t)
  /\ obj' = [obj EXCEPT ![o] = left]
  /\ clients' = [clients EXCEPT ![c].model = IF @ = o THEN None ELSE @]
  /\ waits' = [waits EXCEPT ![t] = {}]
  /\ Become(t, IF unused THEN [Dispose(t, o, "failed") EXCEPT !.result = result]
               ELSE [task[t] EXCEPT !.pc = "failed", !.result = result])
  /\ UNCHANGED <<models, aborted, maintenance, world>>

LoadFailed(t) == At(t, "failed") /\ Forgo(t, task[t].result) /\ UNCHANGED obj

-----------------------------------------------------------------------------
(* prepareModel *)

BeginPrepare(t) ==
  /\ IsPrepare(t) /\ At(t, "prepare") /\ preparing = None
  /\ preparing' = t[2]
  /\ Goto(t, "runtime")
  /\ UNCHANGED <<obj, models, clients, waits, aborted, maintenance, runtime, faults>>

EnsureRuntime(t) ==
  /\ At(t, "runtime") /\ Quiet /\ ~IsAborted(t)
  /\ runtime' = TRUE
  /\ task' = [task EXCEPT ![t] = [Reserve(t, "load") EXCEPT !.model = t[2]]]
  /\ UNCHANGED <<obj, models, clients, waits, aborted, maintenance, preparing, faults>>

\* The preparation ends; a model without clients is cleaned up.
PrepareEnds(o, model) ==
  /\ obj' = [obj EXCEPT ![o] = [model EXCEPT !.loading = FALSE, !.admitted = FALSE, !.reservation = 0]]
  /\ preparing' = None
  /\ task' = [task EXCEPT ![Prepare(o)].pc = "done",
       ![Cleanup(o)] = IF model.clients = {} /\ model.pins = 0
                       THEN Dispose(Cleanup(o), o, "done") ELSE @]
  /\ Settle({<<"idle", o>>, <<"prepared", o>>})
  /\ UNCHANGED <<models, clients, aborted, runtime>>
PrepareFails(o, error) == PrepareEnds(o, [obj[o] EXCEPT !.error = error])

NoRuntime(t) ==
  /\ At(t, "runtime") /\ Quiet /\ IsAborted(t)
  /\ PrepareFails(t[2], "cancelled")
  /\ UNCHANGED <<maintenance, faults>>

\* The device refuses buffers beyond the budget.
OwnedTotal == MapThenSumSet(LAMBDA o : obj[o].owned, Objects)
Exceeds(bytes) == OwnedTotal + bytes > Budget

Load(t) ==
  LET o == t[2]  bytes == LoadBytes[obj[o].key] IN
  /\ IsPrepare(t) /\ At(t, "load") /\ Quiet
  /\ IF IsAborted(t) THEN PrepareFails(o, "cancelled")
     ELSE IF Exceeds(bytes) THEN PrepareFails(o, "exceeded")
     ELSE PrepareEnds(o, [obj[o] EXCEPT !.ready = TRUE, !.owned = bytes])
  /\ UNCHANGED <<maintenance, faults>>

LoadFault(t) ==
  /\ IsPrepare(t) /\ At(t, "load") /\ Quiet
  /\ faults < MaxFaults /\ faults' = faults + 1
  /\ PrepareFails(t[2], "error")
  /\ UNCHANGED maintenance

-----------------------------------------------------------------------------
(* Maintenance: disposal, eviction, reservation *)

IsSpeech(t) == Model(t) # None /\ obj[Model(t)].key = "speech"
Priority(t) == IF At(t, "reserve") /\ IsSpeech(t) THEN 2 ELSE 0
\* The queue is sorted by priority; its sort is stable.
MyTurn(t) ==
  /\ maintenance = None
  /\ \E i \in DOMAIN line :
       /\ line[i] = t
       /\ \A j \in DOMAIN line \ {i} :
            Priority(line[j]) < Priority(t) \/ (Priority(line[j]) = Priority(t) /\ i < j)
InLine(handler) == handler.pc \in {"reserve", "dispose", "evict"}
LineAfter(old, new) ==
  SelectSeq(line, LAMBDA t : new[t].pc = old[t].pc)
    \o SetToSeq({t \in Tasks : InLine(new[t]) /\ new[t].pc # old[t].pc})
Enqueue == line' = LineAfter(task, task')

DisposableActive(o) ==  \* mutant: a request keeps its model only while it waits for it
  obj[o].key # None /\ ~obj[o].disposed /\ ~obj[o].loading /\ (obj[o].pins = 0 \/ obj[o].active) /\ ~obj[o].closing
Disposable(o) ==
  /\ obj[o].key # None /\ ~obj[o].disposed /\ ~obj[o].active /\ ~obj[o].loading
  /\ obj[o].pins = 0 /\ ~obj[o].closing
Close(t, o, next) ==
  /\ obj' = [obj EXCEPT ![o].closing = TRUE]
  /\ Become(t, [task[t] EXCEPT !.pc = "closing", !.victim = o, !.after = next])

BeginDispose(t) ==
  /\ At(t, "dispose") /\ MyTurn(t)
  /\ IF task[t].after = "join" /\ IsAborted(t)
     THEN Goto(t, "lookup") /\ UNCHANGED <<obj, maintenance>>
     ELSE IF Disposable(task[t].victim)
     THEN Close(t, task[t].victim, task[t].after) /\ maintenance' = t
     ELSE Goto(t, task[t].after) /\ UNCHANGED <<obj, maintenance>>
  /\ UNCHANGED <<models, clients, waits, aborted, world>>

\* disposeModel after its native call: the model leaves its clients, its key and the memory.
FinishDispose(t) ==
  LET o == task[t].victim IN
  /\ At(t, "closing") /\ Quiet
  /\ obj' = [obj EXCEPT ![o].disposed = TRUE, ![o].clients = {}, ![o].owned = 0]
  /\ models' = [models EXCEPT ![obj[o].key] = None]
  /\ clients' = [c \in Clients |-> [clients[c] EXCEPT !.model =
       IF c \in obj[o].clients /\ clients[c].registered /\ @ = o THEN None ELSE @]]
  /\ Settle({<<"closed", o>>})
  /\ Goto(t, task[t].after)
  /\ maintenance' = IF task[t].after \in {"check", "evicting"} THEN t ELSE None
  /\ UNCHANGED <<aborted, world>>

\* runtime.evict disposes of the models nobody uses.
Evict(t) ==
  /\ At(t, "evict") /\ MyTurn(t)
  /\ maintenance' = t /\ Goto(t, "evicting")
  /\ UNCHANGED <<obj, models, clients, waits, aborted, world>>
EvictNext(t) ==
  /\ At(t, "evicting") /\ Quiet
  /\ \/ \E o \in Objects : Disposable(o) /\ Close(t, o, "evicting") /\ UNCHANGED maintenance
     \/ /\ \A o \in Objects : ~Disposable(o)
        /\ Become(t, Reserve(t, "done"))
        /\ maintenance' = None /\ UNCHANGED obj
  /\ UNCHANGED <<models, clients, waits, aborted, world>>

\* reserve: wait for the maintenance scheduler and the device.
EnterReserve(t) ==
  /\ At(t, "reserve") /\ MyTurn(t) /\ ~IsAborted(t)
  /\ IF runtime THEN Goto(t, "check") /\ maintenance' = t
     ELSE Goto(t, task[t].next) /\ UNCHANGED maintenance
  /\ UNCHANGED <<obj, models, clients, waits, aborted, world>>

Need(t) ==
  IF IsPrepare(t) THEN LoadBytes[obj[Model(t)].key]
  ELSE IF IsRequest(t, "generate") THEN UseBytes[obj[Model(t)].key] ELSE 0
PromisedNone(o) == 0  \* mutant: reservations of others are not counted
Promised(o) == IF obj[o].reservation > obj[o].owned THEN obj[o].reservation - obj[o].owned ELSE 0
Future(t) == MapThenSumSet(Promised, Objects \ {Model(t)})
Pressure(t) == OwnedTotal + Future(t) + Need(t) > Budget
BlockersPinned(t) ==  \* mutant: a reservation also waits for models that are only pinned
  {o \in Objects \ {Model(t)} : obj[o].executing \/ obj[o].admitted \/ obj[o].pins > 0}
Blockers(t) == {o \in Objects \ {Model(t)} : obj[o].executing \/ obj[o].admitted}
Resident == {k \in Keys : models[k] # None}

\* The timer's clock decides whether an idle model has expired.
EvictCandidate(t) ==
  /\ At(t, "check") /\ Quiet
  /\ \E o \in Objects : Disposable(o) /\ Close(t, o, "check")
  /\ UNCHANGED <<models, clients, waits, aborted, maintenance, world>>

MayStop(t) == (\A o \in Objects : ~Disposable(o)) \/ (~Pressure(t) /\ Cardinality(Resident) <= MaxResident)
Grant(t) ==
  LET o == Model(t) IN
  /\ At(t, "check") /\ Quiet /\ MayStop(t) /\ ~Pressure(t)
  /\ obj' = IF o = None THEN obj
            ELSE [obj EXCEPT ![o].reservation = obj[o].owned + Need(t), ![o].left = IF obj[o].loading THEN 0 ELSE Need(t),
                             ![o].admitted = @ \/ obj[o].loading, ![o].executing = @ \/ ~obj[o].loading]
  /\ runtime' = (o # None \/ Resident # {})
  /\ maintenance' = None
  /\ Goto(t, task[t].next)
  /\ UNCHANGED <<models, clients, waits, aborted, preparing, faults>>

Block(t) ==
  /\ At(t, "check") /\ Quiet /\ MayStop(t) /\ Pressure(t) /\ Blockers(t) # {}
  /\ Goto(t, "blocked") /\ waits' = [waits EXCEPT ![t] = {"idle"} \X Blockers(t)]
  /\ maintenance' = None
  /\ UNCHANGED <<obj, models, clients, aborted, world>>

Unblock(t) ==
  /\ At(t, "blocked") /\ Settled(t)
  /\ Goto(t, "reserve")
  /\ UNCHANGED <<obj, models, clients, waits, aborted, maintenance, world>>

\* A handler whose reservation or disposal fails.
Fail(t, result) ==
  CASE IsPrepare(t) -> PrepareFails(t[2], result) /\ UNCHANGED faults
    [] IsRequest(t, "generate") /\ task[t].next = "execute" ->
         FinishRequest(t, result) /\ UNCHANGED <<models, aborted, world>>
    [] OTHER -> Become(t, Ended(t, result)) /\ UNCHANGED <<obj, models, clients, waits, aborted, world>>

Refuse(t) ==
  /\ At(t, "check") /\ Quiet /\ MayStop(t) /\ Pressure(t) /\ Blockers(t) = {}
  /\ maintenance' = None
  /\ Fail(t, "budget")

AbortReserve(t) ==
  /\ (At(t, "reserve") /\ MyTurn(t)) \/ (At(t, "blocked") /\ ~Settled(t))
  /\ IsAborted(t) /\ UNCHANGED maintenance
  /\ Fail(t, "cancelled")

-----------------------------------------------------------------------------
(* Execution *)

\* A chat that has generated a token reserves a margin beside what it owns,
\* instead of what its prefill was granted.
DecodingOwns(model) == [model EXCEPT !.reservation = model.owned]  \* mutant: no margin is reserved
Decoding(model) == [model EXCEPT !.reservation = model.owned + Margin, !.left = Min({@, Margin})]

\* A step of a request allocates some of what was estimated for it.  The model
\* assumes of the estimates that a request keeps to its grant, and once it has
\* generated a token to the margin.
Step(t) ==
  LET o == Model(t) IN
  /\ At(t, "execute") /\ Quiet /\ ~IsAborted(t)
  /\ \E bytes \in 0 .. obj[o].left :
       LET model == [obj[o] EXCEPT !.owned = @ + bytes, !.left = @ - bytes] IN
       IF Exceeds(bytes) THEN FinishRequest(t, "exceeded")
       ELSE /\ \/ obj' = [obj EXCEPT ![o] = model]
               \/ obj[o].key \in ChatKeys /\ obj' = [obj EXCEPT ![o] = Decoding(model)]
            /\ UNCHANGED <<clients, task, waits>>
  /\ UNCHANGED <<models, aborted, maintenance, world>>

FinishExecution(t) ==
  /\ At(t, "execute") /\ Quiet
  /\ FinishRequest(t, IF IsAborted(t) THEN "cancelled" ELSE "completed")
  /\ UNCHANGED <<models, aborted, maintenance, world>>

-----------------------------------------------------------------------------
Work(t) ==
  \/ TakeTurn(t) \/ GiveUpTurn(t) \/ ClaimModel(t) \/ GiveUpModel(t)
  \/ Lookup(t) \/ StaleIsIdle(t) \/ JoinReplacement(t) \/ LookupFails(t)
  \/ Joined(t) \/ JoinFails(t) \/ LoadFailed(t)
  \/ BeginPrepare(t) \/ EnsureRuntime(t) \/ NoRuntime(t) \/ Load(t)
  \/ BeginDispose(t) \/ FinishDispose(t) \/ Evict(t) \/ EvictNext(t)
  \/ EnterReserve(t) \/ Grant(t) \/ Block(t) \/ Unblock(t) \/ Refuse(t) \/ AbortReserve(t)
  \/ FinishExecution(t)

Next ==
  /\ \/ \E t \in Tasks : Start(t) \/ Abort(t) \/ Work(t) \/ LoadFault(t) \/ EvictCandidate(t) \/ Step(t)
     \/ TimerFires
  /\ Enqueue

Spec == Init /\ [][Next /\ UNCHANGED workload]_<<vars, workload>>

\* The browser runs every handler, and native calls return.  A reservation
\* that may evict or not, because of the clock, does one of them.
FairSpec ==
  /\ Spec
  /\ \A t \in Tasks : WF_vars(Work(t) /\ Enqueue) /\ WF_vars(EvictCandidate(t) /\ Enqueue)

-----------------------------------------------------------------------------
(* Properties *)

\* A grant is kept: no load and no step of a request meets the device's budget,
\* whatever else was granted, loads and executes at the same time, and although
\* a chat gives back what its prefill did not take.
GrantsAreKept == \A t \in Tasks : task[t].result # "exceeded" /\ (IsPrepare(t) => obj[t[2]].error # "exceeded")

\* A request that waits for its model or executes on it keeps it: no eviction,
\* failed sibling or release closes it, and nobody else executes on it.
KeepsModel ==
  \A t \in Tasks : task[t].pc \in {"model", "execute"} /\ t[1] = "request" =>
    /\ ~obj[Model(t)].closing /\ models[obj[Model(t)].key] = Model(t)
    /\ At(t, "execute") => /\ obj[Model(t)].active
                           /\ \A u \in Tasks \ {t} : At(u, "execute") => Model(u) # Model(t)

\* Nobody fails because of another client: a request is cancelled only by a
\* signal of its client or its release, also when it shares a load that others
\* abandon.  (It does not hold: one that replaces an abandoned load can join it.)
Asked(c) ==
  \E u \in Tasks : u[1] = "request" /\ Client(u) = c /\ (u \in aborted \/ (IsRequest(u, "release") /\ ~At(u, "none")))
BlameIsOwn == \A t \in Tasks : t[1] = "request" /\ task[t].result = "cancelled" => Asked(Client(t))

\* A load that is shared goes on for those who wait for it, whoever else leaves
\* (but for who joined it after finding it abandoned: see BlameIsOwn).
SharedLoadsGoOn ==
  \A t \in Tasks : t[1] = "request" /\ At(t, "joined") /\ obj[Model(t)].aborted =>
    Asked(Client(t)) \/ task[t].after = "join"

\* A request is served by the model that it asked for, which others do not abandon.
RequestsAreServed == KeepsModel /\ SharedLoadsGoOn

\* When every handler has ended nothing is held: no pin, claim, turn, place in
\* the queue or scheduler, and no client that the worker forgot stays with a model.
NothingLeaks ==
  (\A t \in Tasks : task[t].pc \in {"none", "done"}) =>
    /\ maintenance = None /\ preparing = None
    /\ \A k \in Keys : models[k] # None =>
         LET m == obj[models[k]] IN
         ~m.loading /\ ~m.active /\ ~m.executing /\ ~m.admitted /\ m.pins = 0 /\ m.reservation = 0 /\ ~m.closing
    /\ \A c \in Clients : ~clients[c].requesting /\ clients[c].waiting = 0
    /\ \A k \in Keys : models[k] # None => \A c \in obj[models[k]].clients : clients[c].registered

\* Memory, pins, turns and places in line are accounted for.
AccountsAreSound == TypeOK /\ GrantsAreKept /\ NothingLeaks

\* Every request ends: turns, shared loads, blocked reservations and disposals
\* wake those who wait for them.  (Requests are finitely many, and start and end once.)
RequestsEnd == <>[](\A r \in Requests : task[<<"request", r>>].pc \in {"none", "done"})

\* Requests whose model fits on its own are delayed, not refused.
WorkIsDelayed ==
  (\A k \in Keys : LoadBytes[k] + UseBytes[k] <= Budget) => \A t \in Tasks : task[t].result # "budget"
=============================================================================
