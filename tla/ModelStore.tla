----------------------------- MODULE ModelStore -----------------------------
(***************************************************************************)
(* The Android model store: ModelRepository prepares a model by resolving  *)
(* main to a revision, downloading its files one by one, writing the       *)
(* manifest, ready.json and current.json; ModelDownloader resumes partial  *)
(* files, retries and verifies.  The process may die, the download may be  *)
(* cancelled, the network may fail or deliver damaged bytes, and the       *)
(* installed model may be removed at any step; what is on disk stays.      *)
(*                                                                         *)
(* A file is its length in chunks and whether its bytes are the            *)
(* published ones; progress messages, JSON and redirects are left out.     *)
(***************************************************************************)
EXTENDS Integers, Sequences, FiniteSets

CONSTANTS
  Revisions,     \* of the model repository, in the order main moves
  FileList,      \* the files of a revision, in download order
  Digested,      \* those with a published SHA-256
  Size,          \* of every file, in chunks
  MaxAttempts,   \* maximumAttempts
  MaxFaults,     \* bound on failures, damaged chunks, cancellations and deaths
  MaxRemovals,   \* bound on removals
  None

ASSUME StoreAssumption ==
  /\ Size \in Nat \ {0} /\ MaxAttempts \in Nat \ {0} /\ {MaxFaults, MaxRemovals} \subseteq Nat
  /\ FileList # <<>> /\ FileList \in Seq({FileList[i] : i \in DOMAIN FileList})
  /\ Digested \subseteq {FileList[i] : i \in DOMAIN FileList}
  /\ Revisions # <<>> /\ Revisions \in Seq({Revisions[i] : i \in DOMAIN Revisions})
  /\ None \notin {Revisions[i] : i \in DOMAIN Revisions}

VARIABLES
  main,      \* index of the revision the hub calls main
  target,    \* downloaded files by revision and name
  part,      \* partial files
  manifest,  \* revisions with a model.yaml
  ready,     \* revisions with a ready.json
  current,   \* the revision in current.json
  job,       \* the prepare that holds prepareMutex
  remover,   \* the removal under way: its revision and the entries left
  faults, removals
disk == <<target, part, manifest, ready, current>>
bounds == <<faults, removals>>
vars == <<main, disk, job, remover, bounds>>

Files == {FileList[i] : i \in DOMAIN FileList}
Revision == Revisions[main]
AllRevisions == {Revisions[i] : i \in DOMAIN Revisions}
Content == [len : 0 .. Size, good : BOOLEAN]
Idle == [pc |-> "idle"]
Length(file) == IF file = None THEN 0 ELSE file.len
Verified(f, file) == f \in Digested => file.good
Complete(f, file) == file # None /\ file.len = Size /\ Verified(f, file)

\* installed(): current.json names a revision with everything in place.
Installed ==
  IF /\ current # None
     /\ current \in ready /\ current \in manifest
     /\ \A f \in Files : target[current][f] # None
  THEN current ELSE None

TypeOK ==
  /\ main \in DOMAIN Revisions
  /\ target \in [AllRevisions -> [Files -> Content \cup {None}]]
  /\ part \in [AllRevisions -> [Files -> Content \cup {None}]]
  /\ manifest \subseteq AllRevisions /\ ready \subseteq AllRevisions
  /\ current \in AllRevisions \cup {None}
  /\ job = Idle \/ job \in
       [pc : {"check", "target", "partial", "connect", "response", "stream", "verify",
              "publish", "configure", "ready", "current"},
        rev : AllRevisions, k : DOMAIN FileList,
        attempt : 1 .. MaxAttempts, offset : 0 .. Size]
  /\ faults \in 0 .. MaxFaults /\ removals \in 0 .. MaxRemovals

Init ==
  /\ main = 1
  /\ target = [r \in AllRevisions |-> [f \in Files |-> None]]
  /\ part = target
  /\ manifest = {} /\ ready = {} /\ current = None
  /\ job = Idle /\ remover = Idle
  /\ faults = 0 /\ removals = 0

At(pc) == job.pc = pc
Goto(pc) == job' = [job EXCEPT !.pc = pc]
File == FileList[job.k]
Target == target[job.rev][File]
Partial == part[job.rev][File]
SetTarget(content) == target' = [target EXCEPT ![job.rev][File] = content]
SetPart(content) == part' = [part EXCEPT ![job.rev][File] = content]
Fault == faults < MaxFaults /\ faults' = faults + 1 /\ UNCHANGED removals
NoFault == UNCHANGED bounds
NextFile ==
  IF job.k < Len(FileList)
  THEN job' = [job EXCEPT !.pc = "target", !.k = @ + 1, !.attempt = 1, !.offset = 0]
  ELSE Goto("configure")

-----------------------------------------------------------------------------
(* ModelRepository.prepareModel *)

\* The hub moves main to the next revision.
MoveMain ==
  /\ main < Len(Revisions)
  /\ main' = main + 1
  /\ UNCHANGED <<disk, job, remover, bounds>>

Prepare ==
  /\ At("idle")
  /\ job' = [pc |-> "check", rev |-> Revision, k |-> 1, attempt |-> 1, offset |-> 0]
  /\ UNCHANGED <<main, disk, remover, bounds>>

IsReady(r) == r \in ready /\ \A f \in Files : Length(target[r][f]) = Size

CheckEarly ==  \* mutant: current.json is written before the download
  /\ At("check")
  /\ current' = job.rev
  /\ IF IsReady(job.rev) THEN job' = Idle ELSE Goto("target")
  /\ UNCHANGED <<main, target, part, manifest, ready, remover, bounds>>
\* A ready revision becomes current; anything else is downloaded.
Check ==
  /\ At("check")
  /\ IF IsReady(job.rev)
     THEN current' = job.rev /\ job' = Idle
     ELSE UNCHANGED current /\ Goto("target")
  /\ UNCHANGED <<main, target, part, manifest, ready, remover, bounds>>

ConfigureNothing(r) == manifest' = manifest  \* mutant: the manifest is not written
ConfigureWith(r) == manifest' = manifest \cup {r}
Configure ==
  /\ At("configure")
  /\ IF \A f \in Files : target[job.rev][f] # None
     THEN ConfigureWith(job.rev) /\ Goto("ready")
     ELSE UNCHANGED manifest /\ job' = Idle
  /\ UNCHANGED <<main, target, part, ready, current, remover, bounds>>

WriteReady ==
  /\ At("ready")
  /\ ready' = ready \cup {job.rev}
  /\ Goto("current")
  /\ UNCHANGED <<main, target, part, manifest, current, remover, bounds>>

WriteCurrent ==
  /\ At("current")
  /\ current' = job.rev
  /\ job' = Idle
  /\ UNCHANGED <<main, target, part, manifest, ready, remover, bounds>>

-----------------------------------------------------------------------------
(* ModelDownloader.download *)

\* A complete file is kept, anything else with its name is deleted.
CheckTarget ==
  /\ At("target")
  /\ IF Complete(File, Target)
     THEN UNCHANGED target /\ NextFile
     ELSE SetTarget(None) /\ Goto("partial")
  /\ UNCHANGED <<main, part, manifest, ready, current, remover, bounds>>

KeepDamaged ==  \* mutant: a damaged partial file is not deleted
  /\ At("partial")
  /\ Goto(IF Complete(File, Partial) THEN "publish" ELSE "connect")
  /\ UNCHANGED <<main, disk, remover, bounds>>
CheckPartial ==
  /\ At("partial")
  /\ CASE Complete(File, Partial)      -> UNCHANGED part /\ Goto("publish")
       [] Length(Partial) = Size /\ ~Complete(File, Partial)
                                       -> SetPart(None) /\ Goto("connect")
       [] OTHER                        -> UNCHANGED part /\ Goto("connect")
  /\ UNCHANGED <<main, target, manifest, ready, current, remover, bounds>>

\* The range starts at the length of the partial file.
Connect ==
  /\ At("connect")
  /\ job' = [job EXCEPT !.pc = "response", !.offset = Length(Partial)]
  /\ UNCHANGED <<main, disk, remover, bounds>>

\* The output of a full response truncates, the one of a range appends.
FullResponse ==
  /\ At("response")
  /\ job' = [job EXCEPT !.pc = "stream", !.offset = 0]
  /\ SetPart([len |-> 0, good |-> TRUE])
  /\ UNCHANGED <<main, target, manifest, ready, current, remover, bounds>>

OpenedPast(offset, partial) ==  \* mutant: a range is appended to whatever is there
  IF partial = None THEN [len |-> offset, good |-> FALSE] ELSE [partial EXCEPT !.len = @ + 1]
Opened(offset, partial) == IF partial = None \/ offset = 0 THEN [len |-> 0, good |-> TRUE] ELSE partial
RangeResponse ==
  /\ At("response") /\ job.offset < Size
  /\ Goto("stream")
  /\ SetPart(Opened(job.offset, Partial))
  /\ UNCHANGED <<main, target, manifest, ready, current, remover, bounds>>

\* A chunk is appended; a removed file is written to no avail.
Receive(good) ==
  /\ At("stream") /\ job.offset < Size
  /\ job' = [job EXCEPT !.offset = @ + 1]
  /\ IF Partial = None THEN UNCHANGED part
     ELSE SetPart([len |-> Partial.len + 1,
                   good |-> Partial.good /\ good /\ Partial.len = job.offset])
  /\ UNCHANGED <<main, target, manifest, ready, current, remover>>

Retry ==
  IF job.attempt < MaxAttempts
  THEN job' = [job EXCEPT !.pc = "connect", !.attempt = @ + 1]
  ELSE job' = Idle

\* The response ends after its last byte.
EndOfStream ==
  /\ At("stream") /\ job.offset = Size
  /\ IF Length(Partial) = Size THEN Goto("verify") ELSE Retry
  /\ UNCHANGED <<main, disk, remover, bounds>>

\* An I/O error, a lost connection or a code worth another attempt.
NetworkFails ==
  /\ job.pc \in {"response", "stream"}
  /\ Retry
  /\ Fault
  /\ UNCHANGED <<main, disk, remover>>

\* 416 for a range at the end of the file, another code that is final, a
\* range that is not the requested one, or more bytes than expected.
Refused ==
  /\ job.pc \in {"response", "stream"}
  /\ IF At("response") /\ job.offset = Size THEN NoFault ELSE Fault
  /\ job' = Idle
  /\ UNCHANGED <<main, disk, remover>>

PassesUnread(f, file) == file # None  \* mutant: the digest is not compared
Passes(f, file) == file # None /\ Verified(f, file)
Verify ==
  /\ At("verify")
  /\ IF Passes(File, Partial)
     THEN UNCHANGED part /\ Goto("publish")
     ELSE SetPart(None) /\ job' = Idle
  /\ UNCHANGED <<main, target, manifest, ready, current, remover, bounds>>

\* The atomic move to the final name; it fails when the file was removed.
Publish ==
  /\ At("publish")
  /\ IF Partial = None
     THEN job' = Idle /\ UNCHANGED <<target, part>>
     ELSE SetTarget(Partial) /\ SetPart(None) /\ NextFile
  /\ UNCHANGED <<main, manifest, ready, current, remover, bounds>>

-----------------------------------------------------------------------------
(* Cancellation, process death, removal *)

\* A cancelled prepare, one that lacks storage or fails to write, leaves the disk as it is.
Cancel ==
  /\ ~At("idle")
  /\ job' = Idle
  /\ Fault
  /\ UNCHANGED <<main, disk, remover>>

Die ==
  /\ ~At("idle") \/ remover # Idle
  /\ job' = Idle /\ remover' = Idle
  /\ Fault
  /\ UNCHANGED <<main, disk>>

Entries == Files \cup {"ready.json", "model.yaml"}

\* removeInstalled does not take prepareMutex.
BeginRemove ==
  /\ remover = Idle
  /\ removals < MaxRemovals /\ removals' = removals + 1 /\ UNCHANGED faults
  /\ remover' = [pc |-> "delete", rev |-> Installed, left |-> IF Installed = None THEN {} ELSE Entries]
  /\ UNCHANGED <<main, disk, job>>

\* deleteRecursively, in the order the directory lists its entries.
RemoveEntry(e) ==
  /\ remover # Idle /\ e \in remover.left
  /\ remover' = [remover EXCEPT !.left = @ \ {e}]
  /\ LET r == remover.rev
     IN  /\ ready' = IF e = "ready.json" THEN ready \ {r} ELSE ready
         /\ manifest' = IF e = "model.yaml" THEN manifest \ {r} ELSE manifest
         /\ target' = IF e \in Files THEN [target EXCEPT ![r][e] = None] ELSE target
         /\ part' = IF e \in Files THEN [part EXCEPT ![r][e] = None] ELSE part
  /\ UNCHANGED <<main, current, job, bounds>>

RemoveCurrent ==
  /\ remover # Idle /\ remover.left = {}
  /\ current' = None
  /\ remover' = Idle
  /\ UNCHANGED <<main, target, part, manifest, ready, job, bounds>>

-----------------------------------------------------------------------------
JobStep ==
  \/ Check \/ CheckTarget \/ CheckPartial \/ Connect
  \/ FullResponse \/ RangeResponse
  \/ Receive(TRUE) /\ NoFault
  \/ EndOfStream \/ Verify \/ Publish
  \/ Configure \/ WriteReady \/ WriteCurrent
  \/ Refused /\ NoFault
RemoveStep == RemoveCurrent \/ \E e \in Entries : RemoveEntry(e)
Faulty ==
  \/ Receive(FALSE) /\ Fault
  \/ NetworkFails \/ Refused \/ Cancel \/ Die

Next == MoveMain \/ Prepare \/ JobStep \/ Faulty \/ BeginRemove \/ RemoveStep

Spec == Init /\ [][Next]_vars

\* The user downloads again after every failure, and the bounded failures end.
FairSpec == Spec /\ WF_vars(Prepare) /\ WF_vars(JobStep) /\ WF_vars(RemoveStep)

-----------------------------------------------------------------------------
(* Properties *)

\* No step, crash or removal leaves a file under its final name that is short
\* or whose bytes differ from the published digest: the fast path of
\* prepareModel compares only lengths and relies on it.
TargetsAreVerified ==
  \A r \in AllRevisions, f \in Files : target[r][f] = None \/ Complete(f, target[r][f])

\* ready.json appears only after every file and the manifest, whatever was
\* interrupted before, as long as nobody removes the model.
ReadyIsComplete ==
  removals = 0 => \A r \in ready : r \in manifest /\ \A f \in Files : Complete(f, target[r][f])

\* What the files of the repository say about a model is true.
FilesAreSound == TypeOK /\ TargetsAreVerified /\ ReadyIsComplete

\* Preparing another revision, failing at it, or dying never takes the
\* installed model away: some model stays installed until it is removed.
InstalledStays ==
  [][removals' = 0 /\ Installed # None => Installed' # None]_vars

UpToDate == removals > 0 \/ Installed = Revision

\* Unless the user removes a model, the revision main names is installed in the
\* end, whatever failed, was damaged or died before.
LatestIsInstalled == <>[]UpToDate
=============================================================================
