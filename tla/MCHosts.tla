------------------------------ MODULE MCHosts ------------------------------
(***************************************************************************)
(* Small instances of two hosts: what users of the desktop application do, *)
(* and workloads for the browser's shared GPU runtime.  A behaviour is one *)
(* of the desktop or one of the worker, and the variables of the other     *)
(* stay.                                                                   *)
(***************************************************************************)
EXTENDS DesktopHost

CONSTANT Workloads

VARIABLES
  side,  \* "desktop" or "worker"
  obj, residents, clients, task, waits, aborted, line, maintenance, preparing, runtime, failures,
  workload

\* Recordings, chats and a translation on the main socket, speech on its own,
\* and translations of the reader's window.
Windows == [a |-> "main", c |-> "main", d |-> "main", x |-> "main", t |-> "speech", y |-> "reader"]
Calls == [a |-> "asr", c |-> "chat", d |-> "chat", x |-> "translate", t |-> "tts", y |-> "translate"]
VoiceHelper == [a |-> "warm"]
MainUpload == [i |-> "main"]

\* A voice turn: a recording, its answer, and speech.
Voice ==
  [requests |-> {"a", "t"}, images |-> {}, cancellable |-> {"a"}, closable |-> {},
   speech |-> FALSE, interval |-> 1, samples |-> 1, time |-> 1, faults |-> 1]
\* A recording while the models are warmed up and reaped.
Dictation ==
  [requests |-> {"a"}, images |-> {}, cancellable |-> {"a"}, closable |-> {},
   speech |-> TRUE, interval |-> 2, samples |-> 2, time |-> 2, faults |-> 0]
\* A chat with an image, and translations.
Reader ==
  [requests |-> {"c", "x", "y"}, images |-> {"i"}, cancellable |-> {"c"}, closable |-> {"main"},
   speech |-> FALSE, interval |-> 2, samples |-> 1, time |-> 1, faults |-> 1]
\* Two chats with the same image.
Chats ==
  [requests |-> {"c", "d"}, images |-> {"i"}, cancellable |-> {"d"}, closable |-> {},
   speech |-> FALSE, interval |-> 1, samples |-> 1, time |-> 1, faults |-> 0]

Users == {Voice, Dictation, Reader, Chats}
OneUser == {Chats}

-----------------------------------------------------------------------------
Loads == [la |-> "load", lb |-> "load", lc |-> "none", ga |-> "generate", gb |-> "generate"]
Senders == [la |-> "a", lb |-> "b", lc |-> "c", ga |-> "a", gb |-> "b"]

\* Two tabs share the chat model; one of them aborts its load or its request.
Shared ==
  [keyOf |-> [a |-> "chat", b |-> "chat", c |-> "chat"], method |-> Loads, clientOf |-> Senders,
   abortable |-> {"la", "ga"}, budget |-> 4, resident |-> 1, faults |-> 0]
\* A chat and a speech model that fit only one at a time beside an execution.
Apart ==
  [keyOf |-> [a |-> "chat", b |-> "speech", c |-> "chat"], method |-> Loads, clientOf |-> Senders,
   abortable |-> {"ga"}, budget |-> 5, resident |-> 2, faults |-> 0]
\* Two tabs that share the chat model and a third that wants speech, with a failed load.
Three ==
  [keyOf |-> [a |-> "chat", b |-> "chat", c |-> "speech"],
   method |-> [Loads EXCEPT !.lc = "load", !.gb = "none"], clientOf |-> Senders,
   abortable |-> {"la"}, budget |-> 5, resident |-> 1, faults |-> 1]
\* The client of a request leaves, and the page evicts, while others load and wait.
Departing ==
  [keyOf |-> [a |-> "chat", b |-> "chat", c |-> "chat"],
   method |-> [Loads EXCEPT !.gb = "release", !.ga = "evict"], clientOf |-> Senders,
   abortable |-> {}, budget |-> 4, resident |-> 1, faults |-> 0]

\* A client releases its model, perhaps while its request reloads it, as another one comes.
Reloading ==
  [keyOf |-> [a |-> "chat", b |-> "chat", c |-> "chat"],
   method |-> [Loads EXCEPT !.lc = "release"], clientOf |-> [Senders EXCEPT !.lc = "a"],
   abortable |-> {}, budget |-> 4, resident |-> 1, faults |-> 0]

Pages == {Shared, Apart, Three, Departing, Reloading}
Released == {Reloading}

Sizes == [chat |-> 2, speech |-> 2]

W == INSTANCE GpuRuntime WITH
  Clients <- {"a", "b", "c"}, Keys <- {"chat", "speech"}, Requests <- {"la", "lb", "lc", "ga", "gb"},
  MaxObjects <- 4, LoadBytes <- Sizes, UseBytes <- Sizes,
  ChatKeys <- {"chat"}, Margin <- 1, MaxWaiting <- 2,
  models <- residents, faults <- failures

ASSUME W!RuntimeAssumption

worker ==
  <<obj, residents, clients, task, waits, aborted, line, maintenance, preparing, runtime, failures,
    workload>>
both == <<side, scenario, vars, worker>>

DesktopOnly(A) == side = "desktop" /\ A /\ UNCHANGED <<side, scenario, worker>>
WorkerOnly(A) == side = "worker" /\ A /\ UNCHANGED <<side, scenario, workload, vars>>

EitherInit ==
  /\ Init /\ W!Init
  /\ \/ side = "desktop" /\ workload = CHOOSE w \in Workloads : TRUE
     \/ side = "worker" /\ scenario = CHOOSE s \in Scenarios : TRUE
EitherNext ==
  \/ side = "desktop" /\ Next /\ UNCHANGED <<side, scenario, worker>>
  \/ side = "worker" /\ W!Next /\ UNCHANGED <<side, scenario, workload, vars>>

EitherSpec == EitherInit /\ [][EitherNext]_both

\* The fairness of the two modules.
FairEitherSpec ==
  /\ EitherSpec
  /\ \A r \in {q \in Requests : Method[q] = "asr"} : WF_both(DesktopOnly(Stop(r)))
  /\ \A t \in Threads : WF_both(DesktopOnly(Runs(t)))
  /\ \A t \in {u \in Threads : u \in Requests => ModelOf(u) \in Speech} : SF_both(DesktopOnly(BeginUse(t)))
  /\ \A t \in W!Tasks :
       /\ WF_both(WorkerOnly(W!Work(t) /\ W!Enqueue))
       /\ WF_both(WorkerOnly(W!EvictCandidate(t) /\ W!Enqueue))

\* See the modules.
RequestsAreServed == W!RequestsAreServed
AccountsAreSound == W!AccountsAreSound
BlameIsOwn == W!BlameIsOwn
EveryRequestEnds == RequestsEnd /\ W!RequestsEnd
=============================================================================
