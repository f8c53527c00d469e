----------------------------- MODULE MCAndroid -----------------------------
(***************************************************************************)
(* Small instances of the model store and of the service host of the       *)
(* Android application.  The host asks the store for models that are       *)
(* installed or not, which its scenarios choose; a behaviour is one of     *)
(* the store or one of the host, and the variables of the other stay.      *)
(***************************************************************************)
EXTENDS ModelStore, AndroidHost

VARIABLE side  \* "store" or "host"

TwoRevisions == <<"r1", "r2">>
TwoFiles == <<"config", "weights">>

Models == {"chat", "asr", "tts"}
\* A translation, a dictation and a read-aloud that load their models on demand, and a restore.
OnDemand ==
  [method |-> [c |-> "reader.translate", d |-> "asr.start", t |-> "tts.start", r |-> "runtime.restore"],
   installed |-> Models, cancellable |-> {}, failures |-> 0]
\* With a failure and cancellations; the dictation installs its model.
Disturbed ==
  [method |-> [c |-> "chat.start", d |-> "asr.start", t |-> "tts.start"],
   installed |-> {"chat", "tts"}, cancellable |-> {"c", "d"}, failures |-> 1]
\* Two replies, and preloads that take the chat model away.
Contended ==
  [method |-> [c |-> "chat.start", r |-> "chat.start", t |-> "tts.preload", d |-> "asr.preload"],
   installed |-> {"chat"}, cancellable |-> {"c", "t"}, failures |-> 1]
\* Two readings, and a dictation that takes their model away.
Readings ==
  [method |-> [c |-> "tts.start", t |-> "tts.start", d |-> "asr.start"],
   installed |-> Models, cancellable |-> {}, failures |-> 0]
AllScenarios == {OnDemand, Disturbed, Contended, Readings}

host == <<hostVars, scenario>>
both == <<side, vars, host>>

StoreOnly(A) == side = "store" /\ A /\ UNCHANGED <<side, host>>
HostOnly(A) == side = "host" /\ A /\ UNCHANGED <<side, scenario, vars>>

EitherInit ==
  /\ Init
  /\ \/ side = "store" /\ InitWith(OnDemand)
     \/ side = "host" /\ HostInit
EitherNext ==
  \/ side = "store" /\ Next /\ UNCHANGED <<side, host>>
  \/ side = "host" /\ HostNext /\ UNCHANGED <<side, scenario, vars>>

\* The fairness of the two modules.
EitherSpec ==
  /\ EitherInit /\ [][EitherNext]_both
  /\ WF_both(StoreOnly(Prepare)) /\ WF_both(StoreOnly(JobStep)) /\ WF_both(StoreOnly(RemoveStep))
  /\ WF_both(HostOnly(Dispatch))
  /\ \A id \in Jobs : WF_both(HostOnly(Work(id)))

\* See the module.
LatestInstalled == <>[](side = "store" => UpToDate)
=============================================================================
