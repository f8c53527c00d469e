-------------------------- MODULE ModelStoreProofs --------------------------
(***************************************************************************)
(* Proofs about the Android model store for any revisions, files, digests, *)
(* sizes, and numbers of attempts, failures and removals.                  *)
(***************************************************************************)
EXTENDS ModelStore, TLAPS

Downloading == {"target", "partial", "connect", "response", "stream", "verify", "publish"}
JobType ==
  [pc : Downloading \cup {"check", "configure", "ready", "current"}, rev : AllRevisions, k : DOMAIN FileList,
   attempt : 1 .. MaxAttempts, offset : 0 .. Size]

\* A removal deletes files of an installed revision, and each is counted.
RemoverOK ==
  /\ remover = Idle \/ remover \in [pc : {"delete"}, rev : AllRevisions \cup {None}, left : SUBSET Entries]
  /\ remover # Idle => removals > 0 /\ (remover.left # {} => remover.rev \in AllRevisions)

\* What is known of the partial file of the job: it may have been removed, but is never longer
\* than what was received, and what is published is complete.
PartialOK ==
  /\ At("response") => Partial = None \/ Partial.len = job.offset
  /\ At("stream") => Partial = None \/ Partial.len <= job.offset
  /\ At("verify") => Partial = None \/ Partial.len = Size
  /\ At("publish") => Partial = None \/ Complete(File, Partial)

AllComplete(r) == \A f \in Files : Complete(f, target[r][f])

\* Without removals the files before the job's are complete, and so is what it wrote.
ProgressOK ==
  removals = 0 =>
    /\ At("check") => job.k = 1
    /\ job.pc \in Downloading => \A i \in 1 .. job.k - 1 : Complete(FileList[i], target[job.rev][FileList[i]])
    /\ job.pc \in {"configure", "ready", "current"} => AllComplete(job.rev)
    /\ job.pc \in {"ready", "current"} => job.rev \in manifest
    /\ At("current") => job.rev \in ready

IInv == TypeOK /\ TargetsAreVerified /\ ReadyIsComplete /\ RemoverOK /\ PartialOK /\ ProgressOK

-----------------------------------------------------------------------------
(* Lemmas *)

Disks == [AllRevisions -> [Files -> Content \cup {None}]]

\* The job of a store that is not idle works on a file of a revision.
LEMMA JobFacts ==
  ASSUME TypeOK, ~At("idle")
  PROVE  /\ job \in JobType /\ job.rev \in AllRevisions
         /\ job.k \in 1 .. Len(FileList) /\ File \in Files
         /\ Target \in Content \cup {None} /\ Partial \in Content \cup {None}
         /\ job.attempt \in 1 .. MaxAttempts /\ job.offset \in 0 .. Size
<1>1. job \in JobType
  BY DEF TypeOK, JobType, Downloading, Idle, At
<1>2. job.rev \in AllRevisions /\ job.k \in DOMAIN FileList
  BY <1>1 DEF JobType
<1>3. DOMAIN FileList = 1 .. Len(FileList)
  BY StoreAssumption
<1>4. File \in Files
  BY <1>2 DEF File, Files
<1>5. Target \in Content \cup {None} /\ Partial \in Content \cup {None}
  BY <1>2, <1>4 DEF Target, Partial, TypeOK
<1> QED
  BY <1>1, <1>2, <1>3, <1>4, <1>5 DEF JobType

\* An idle store satisfies what is said of its job.
LEMMA IdleJob ==
  ASSUME job' = Idle
  PROVE  PartialOK' /\ ProgressOK'
BY DEF Idle, PartialOK, ProgressOK, At, Downloading

\* No job is typed and idle.
LEMMA IdleOrBusy ==
  ASSUME TypeOK
  PROVE  At("idle") <=> job = Idle
BY DEF TypeOK, Idle, At

-----------------------------------------------------------------------------
(* The steps of a prepare *)

LEMMA InitInv == Init => IInv
<1> SUFFICES ASSUME Init PROVE IInv
  OBVIOUS
<1>1. TypeOK
  <2>1. 1 \in DOMAIN Revisions
    BY StoreAssumption
  <2> QED
    BY <2>1, StoreAssumption DEF Init, TypeOK
<1>2. TargetsAreVerified /\ ReadyIsComplete
  BY DEF Init, TargetsAreVerified, ReadyIsComplete
<1>3. RemoverOK /\ PartialOK /\ ProgressOK
  BY DEF Init, Idle, RemoverOK, PartialOK, ProgressOK, At, Downloading
<1> QED
  BY <1>1, <1>2, <1>3 DEF IInv

\* The job moves on without writing.
LEMMA OnlyJob ==
  ASSUME IInv, job' \in JobType, UNCHANGED <<main, disk, remover>>,
         bounds' = bounds \/ Fault, PartialOK', ProgressOK'
  PROVE  IInv'
<1>1. faults' \in 0 .. MaxFaults /\ removals' = removals
  BY StoreAssumption DEF IInv, TypeOK, bounds, Fault
<1>2. TypeOK'
  BY <1>1 DEF IInv, TypeOK, disk, JobType, Downloading
<1>3. TargetsAreVerified' /\ ReadyIsComplete'
  BY <1>1 DEF IInv, TargetsAreVerified, ReadyIsComplete, Complete, Verified, disk
<1>4. RemoverOK'
  BY <1>1 DEF IInv, RemoverOK
<1> QED
  BY <1>2, <1>3, <1>4 DEF IInv

\* It gives up, or ends.
LEMMA StopsJob ==
  ASSUME IInv, job' = Idle, UNCHANGED <<main, disk>>, remover' \in {remover, Idle},
         bounds' = bounds \/ Fault
  PROVE  IInv'
<1>1. PartialOK' /\ ProgressOK'
  BY IdleJob
<1>2. faults' \in 0 .. MaxFaults /\ removals' = removals
  BY StoreAssumption DEF IInv, TypeOK, bounds, Fault
<1>3. TypeOK'
  BY <1>2 DEF IInv, TypeOK, disk
<1>4. TargetsAreVerified' /\ ReadyIsComplete'
  BY <1>2 DEF IInv, TargetsAreVerified, ReadyIsComplete, Complete, Verified, disk
<1>5. RemoverOK'
  BY <1>2 DEF IInv, RemoverOK
<1> QED
  BY <1>1, <1>3, <1>4, <1>5 DEF IInv

LEMMA PrepareStep == ASSUME IInv, Prepare PROVE IInv'
<1>1. job' \in JobType
  BY StoreAssumption DEF IInv, TypeOK, Prepare, JobType, Revision, AllRevisions
<1>2. PartialOK' /\ ProgressOK'
  BY DEF Prepare, PartialOK, ProgressOK, At, Downloading
<1> QED
  BY <1>1, <1>2, OnlyJob DEF Prepare, bounds

LEMMA CheckStep == ASSUME IInv, Check PROVE IInv'
<1>1. job \in JobType /\ job.rev \in AllRevisions /\ job.k \in 1 .. Len(FileList)
  BY JobFacts DEF IInv, Check, At
<1>2. TypeOK'
  BY <1>1 DEF IInv, TypeOK, Check, JobType, Downloading, Goto, Idle, bounds
<1>3. TargetsAreVerified' /\ ReadyIsComplete' /\ RemoverOK'
  BY DEF IInv, TargetsAreVerified, ReadyIsComplete, RemoverOK, Complete, Verified, Check, bounds
<1>4. CASE IsReady(job.rev)
  BY <1>2, <1>3, <1>4, IdleJob DEF Check, IInv
<1>5. CASE ~IsReady(job.rev)
  <2>1. job' = [job EXCEPT !.pc = "target"]
    BY <1>5 DEF Check, Goto
  <2>2. job'.pc = "target" /\ job'.k = job.k /\ job'.rev = job.rev /\ removals' = removals
    BY <2>1, <1>1 DEF JobType, Check, bounds
  <2>3. PartialOK' /\ ProgressOK'
    BY <1>1, <2>2 DEF Check, IInv, PartialOK, ProgressOK, At, Downloading
  <2> QED
    BY <1>2, <1>3, <2>3 DEF IInv
<1> QED
  BY <1>4, <1>5

\* After a file comes the next one, or the manifest.
LEMMA NextFileStep ==
  ASSUME IInv, job.pc \in Downloading, NextFile, removals' = removals,
         removals = 0 => \A i \in 1 .. job.k : Complete(FileList[i], target'[job.rev][FileList[i]])
  PROVE  job' \in JobType /\ PartialOK' /\ ProgressOK'
<1>1. job \in JobType /\ job.rev \in AllRevisions /\ job.k \in 1 .. Len(FileList)
  BY JobFacts DEF IInv, At, Downloading
<1>2. DOMAIN FileList = 1 .. Len(FileList) /\ Len(FileList) \in Nat
  BY StoreAssumption
<1>3. 1 \in 1 .. MaxAttempts /\ 0 \in 0 .. Size
  BY StoreAssumption
<1>4. CASE job.k < Len(FileList)
  <2>1. job' = [job EXCEPT !.pc = "target", !.k = job.k + 1, !.attempt = 1, !.offset = 0]
    BY <1>4 DEF NextFile
  <2>2. job' \in JobType
    <3>1. job.k + 1 \in DOMAIN FileList
      BY <1>1, <1>2, <1>4
    <3> QED
      BY <2>1, <3>1, <1>1, <1>3 DEF JobType, Downloading
  <2>3. job'.pc = "target" /\ job'.k = job.k + 1 /\ job'.rev = job.rev
    BY <2>1, <1>1 DEF JobType
  <2>4. PartialOK'
    BY <2>3 DEF PartialOK, At
  <2>5. \A i \in 1 .. job'.k - 1 : i \in 1 .. job.k
    BY <2>3, <1>1
  <2>6. ProgressOK'
    BY <2>3, <2>5 DEF ProgressOK, At, Downloading
  <2> QED
    BY <2>2, <2>4, <2>6
<1>5. CASE ~(job.k < Len(FileList))
  <2>1. job' = [job EXCEPT !.pc = "configure"]
    BY <1>5 DEF NextFile, Goto
  <2>2. job' \in JobType
    BY <2>1, <1>1 DEF JobType, Downloading
  <2>3. job'.pc = "configure" /\ job'.rev = job.rev
    BY <2>1, <1>1 DEF JobType
  <2>4. PartialOK'
    BY <2>3 DEF PartialOK, At
  <2>5. job.k = Len(FileList)
    BY <1>1, <1>2, <1>5
  <2>6. removals = 0 => \A f \in Files : Complete(f, target'[job.rev][f])
    BY <2>5, <1>2 DEF Files
  <2>7. ProgressOK'
    BY <2>3, <2>6 DEF ProgressOK, At, Downloading, AllComplete
  <2> QED
    BY <2>2, <2>4, <2>7
<1> QED
  BY <1>4, <1>5

\* A file is deleted that was not complete, or appears complete: what was complete stays.
LEMMA TargetChanges ==
  ASSUME IInv, ~At("idle"), NEW c \in Content \cup {None}, SetTarget(c),
         (c = None /\ ~Complete(File, Target)) \/ Complete(File, c)
  PROVE  /\ target' \in Disks
         /\ TargetsAreVerified'
         /\ target'[job.rev][File] = c
         /\ \A r \in AllRevisions, f \in Files : Complete(f, target[r][f]) => Complete(f, target'[r][f])
<1>1. job.rev \in AllRevisions /\ File \in Files
  BY JobFacts DEF IInv
<1>2. target \in Disks
  BY DEF IInv, TypeOK, Disks
<1>3. target' = [target EXCEPT ![job.rev][File] = c]
  BY DEF SetTarget
<1>4. /\ target' \in Disks
      /\ \A r \in AllRevisions, f \in Files :
           target'[r][f] = IF r = job.rev /\ f = File THEN c ELSE target[r][f]
  BY <1>1, <1>2, <1>3 DEF Disks
<1>5. TargetsAreVerified'
  BY <1>4 DEF IInv, TargetsAreVerified, Complete, Verified
<1> QED
  BY <1>1, <1>4, <1>5 DEF Target, Complete

\* Then whoever was ready stays so, and the files before the job's too.
LEMMA TargetKept ==
  ASSUME IInv, ~At("idle"), removals' = removals, UNCHANGED <<ready, manifest>>,
         \A r \in AllRevisions, f \in Files : Complete(f, target[r][f]) => Complete(f, target'[r][f])
  PROVE  /\ ReadyIsComplete'
         /\ removals = 0 /\ job.pc \in Downloading =>
              \A i \in 1 .. job.k - 1 : Complete(FileList[i], target'[job.rev][FileList[i]])
<1>1. job.rev \in AllRevisions /\ job.k \in 1 .. Len(FileList) /\ DOMAIN FileList = 1 .. Len(FileList)
  BY JobFacts, StoreAssumption DEF IInv
<1>2. \A i \in 1 .. job.k - 1 : FileList[i] \in Files
  BY <1>1 DEF Files
<1>3. ready \subseteq AllRevisions /\ ready' = ready /\ manifest' = manifest
  BY DEF IInv, TypeOK
<1>4. ReadyIsComplete'
  BY <1>3 DEF IInv, ReadyIsComplete
<1>5. ASSUME removals = 0, job.pc \in Downloading, NEW i \in 1 .. job.k - 1
      PROVE  Complete(FileList[i], target'[job.rev][FileList[i]])
  BY <1>1, <1>2, <1>5 DEF IInv, ProgressOK
<1> QED
  BY <1>4, <1>5

LEMMA CheckTargetStep == ASSUME IInv, CheckTarget PROVE IInv'
<1>1. job \in JobType /\ job.pc = "target" /\ job.rev \in AllRevisions /\ job.k \in 1 .. Len(FileList) /\ File \in Files
  BY JobFacts DEF IInv, CheckTarget, At
<1>2. UNCHANGED <<main, part, manifest, ready, current, remover, faults, removals>>
  BY DEF CheckTarget, bounds
<1>3. CASE Complete(File, Target)
  <2>1. target' = target /\ NextFile
    BY <1>3 DEF CheckTarget
  <2>2. removals = 0 => \A i \in 1 .. job.k : Complete(FileList[i], target'[job.rev][FileList[i]])
    BY <1>1, <1>3, <2>1 DEF IInv, ProgressOK, Downloading, File, Target
  <2>3. job' \in JobType /\ PartialOK' /\ ProgressOK'
    BY <1>1, <1>2, <2>1, <2>2, NextFileStep DEF Downloading
  <2> QED
    BY <1>2, <2>1, <2>3, OnlyJob DEF disk, bounds
<1>4. CASE ~Complete(File, Target)
  <2>1. SetTarget(None) /\ job' = [job EXCEPT !.pc = "partial"]
    BY <1>4 DEF CheckTarget, Goto
  <2>2. /\ target' \in Disks /\ TargetsAreVerified'
        /\ \A r \in AllRevisions, f \in Files : Complete(f, target[r][f]) => Complete(f, target'[r][f])
    BY <1>1, <1>4, <2>1, TargetChanges DEF At
  <2>3. /\ ReadyIsComplete'
        /\ removals = 0 => \A i \in 1 .. job.k - 1 : Complete(FileList[i], target'[job.rev][FileList[i]])
    BY <1>1, <1>2, <2>2, TargetKept DEF At, Downloading
  <2>4. job' \in JobType /\ job'.pc = "partial" /\ job'.k = job.k /\ job'.rev = job.rev
    BY <1>1, <2>1 DEF JobType, Downloading
  <2>5. PartialOK' /\ ProgressOK'
    BY <1>2, <2>3, <2>4 DEF PartialOK, ProgressOK, At, Downloading
  <2>6. TypeOK'
    BY <1>2, <2>2, <2>4 DEF IInv, TypeOK, Disks, JobType, Downloading
  <2>7. RemoverOK'
    BY <1>2 DEF IInv, RemoverOK
  <2> QED
    BY <2>2, <2>3, <2>5, <2>6, <2>7 DEF IInv
<1> QED
  BY <1>3, <1>4

LEMMA PublishStep == ASSUME IInv, Publish PROVE IInv'
<1>1. job \in JobType /\ job.pc = "publish" /\ job.rev \in AllRevisions /\ job.k \in 1 .. Len(FileList) /\ File \in Files
  BY JobFacts DEF IInv, Publish, At
<1>2. UNCHANGED <<main, manifest, ready, current, remover, faults, removals>>
  BY DEF Publish, bounds
<1>3. CASE Partial = None
  BY <1>2, <1>3, StopsJob DEF Publish, disk, bounds
<1>4. CASE Partial # None
  <2>1. SetTarget(Partial) /\ SetPart(None) /\ NextFile
    BY <1>4 DEF Publish
  <2>2. Partial \in Content \cup {None} /\ Complete(File, Partial)
    BY <1>1, <1>4, JobFacts DEF IInv, PartialOK, At
  <2>3. /\ target' \in Disks /\ TargetsAreVerified' /\ target'[job.rev][File] = Partial
        /\ \A r \in AllRevisions, f \in Files : Complete(f, target[r][f]) => Complete(f, target'[r][f])
    BY <1>1, <2>1, <2>2, TargetChanges DEF At
  <2>4. /\ ReadyIsComplete'
        /\ removals = 0 => \A i \in 1 .. job.k - 1 : Complete(FileList[i], target'[job.rev][FileList[i]])
    BY <1>1, <1>2, <2>3, TargetKept DEF At, Downloading
  <2>5. removals = 0 => \A i \in 1 .. job.k : Complete(FileList[i], target'[job.rev][FileList[i]])
    BY <1>1, <2>2, <2>3, <2>4 DEF File
  <2>6. job' \in JobType /\ PartialOK' /\ ProgressOK'
    BY <1>1, <1>2, <2>1, <2>5, NextFileStep DEF Downloading
  <2>7. part' \in Disks
    <3>1. part \in Disks /\ part' = [part EXCEPT ![job.rev][File] = None]
      BY <2>1 DEF IInv, TypeOK, Disks, SetPart
    <3> QED
      BY <1>1, <3>1 DEF Disks
  <2>8. TypeOK'
    BY <1>2, <2>3, <2>6, <2>7 DEF IInv, TypeOK, Disks, JobType, Downloading
  <2>9. RemoverOK'
    BY <1>2 DEF IInv, RemoverOK
  <2> QED
    BY <2>3, <2>4, <2>6, <2>8, <2>9 DEF IInv
<1> QED
  BY <1>3, <1>4

-----------------------------------------------------------------------------
(* The partial file *)

\* The job writes its partial file or none, and moves on.
LEMMA PartialStep ==
  ASSUME IInv, job.pc \in Downloading, UNCHANGED <<main, target, manifest, ready, current, remover>>,
         bounds' = bounds \/ Fault,
         NEW c \in Content \cup {None}, SetPart(c) \/ (UNCHANGED part /\ c = Partial),
         job' \in JobType, job'.k = job.k, job'.rev = job.rev,
         job'.pc \in {"connect", "response", "stream", "verify", "publish"},
         job'.pc = "response" => c = None \/ c.len = job'.offset,
         job'.pc = "stream" => c = None \/ c.len <= job'.offset,
         job'.pc = "verify" => c = None \/ c.len = Size,
         job'.pc = "publish" => c = None \/ Complete(File, c)
  PROVE  IInv'
<1>1. job \in JobType /\ job.rev \in AllRevisions /\ File \in Files
  BY JobFacts DEF IInv, At, Downloading
<1>2. part \in Disks /\ Partial = part[job.rev][File]
  BY DEF IInv, TypeOK, Disks, Partial
<1>3. part' \in Disks /\ part'[job.rev][File] = c
  BY <1>1, <1>2 DEF SetPart, Disks
<1>4. Partial' = c /\ File' = File
  BY <1>3 DEF Partial, File
<1>5. PartialOK'
  BY <1>4 DEF PartialOK, At
<1>6. faults' \in 0 .. MaxFaults /\ removals' = removals
  BY StoreAssumption DEF IInv, TypeOK, bounds, Fault
<1>7. ProgressOK'
  BY <1>6 DEF IInv, ProgressOK, At, Downloading
<1>8. TypeOK'
  BY <1>3, <1>6 DEF IInv, TypeOK, Disks, JobType, Downloading
<1>9. TargetsAreVerified' /\ ReadyIsComplete' /\ RemoverOK'
  BY <1>6 DEF IInv, TargetsAreVerified, ReadyIsComplete, RemoverOK
<1> QED
  BY <1>5, <1>7, <1>8, <1>9 DEF IInv

LEMMA CheckPartialStep == ASSUME IInv, CheckPartial PROVE IInv'
<1>1. job \in JobType /\ job.pc = "partial" /\ Partial \in Content \cup {None}
  BY JobFacts DEF IInv, CheckPartial, At
<1>2. UNCHANGED <<main, target, manifest, ready, current, remover, bounds>>
  BY DEF CheckPartial
<1>3. \/ UNCHANGED part /\ Complete(File, Partial) /\ Goto("publish")
      \/ SetPart(None) /\ Goto("connect")
      \/ UNCHANGED part /\ Goto("connect")
  BY DEF CheckPartial
<1>4. CASE Goto("publish") /\ UNCHANGED part /\ Complete(File, Partial)
  <2>1. job' \in JobType /\ job'.pc = "publish" /\ job'.k = job.k /\ job'.rev = job.rev
    BY <1>1, <1>4 DEF Goto, JobType, Downloading
  <2> QED
    BY <1>1, <1>2, <1>4, <2>1, PartialStep DEF Downloading
<1>5. CASE Goto("connect") /\ (UNCHANGED part \/ SetPart(None))
  <2>1. job' \in JobType /\ job'.pc = "connect" /\ job'.k = job.k /\ job'.rev = job.rev
    BY <1>1, <1>5 DEF Goto, JobType, Downloading
  <2> QED
    BY <1>1, <1>2, <1>5, <2>1, PartialStep DEF Downloading
<1> QED
  BY <1>3, <1>4, <1>5

LEMMA ConnectStep == ASSUME IInv, Connect PROVE IInv'
<1>1. job \in JobType /\ job.pc = "connect" /\ Partial \in Content \cup {None}
  BY JobFacts DEF IInv, Connect, At
<1>2. Length(Partial) \in 0 .. Size /\ (Partial = None \/ Partial.len = Length(Partial))
  BY <1>1, StoreAssumption DEF Length, Content
<1>3. job' \in JobType /\ job'.pc = "response" /\ job'.k = job.k /\ job'.rev = job.rev /\ job'.offset = Length(Partial)
  BY <1>1, <1>2 DEF Connect, JobType, Downloading
<1> QED
  BY <1>1, <1>2, <1>3, PartialStep DEF Connect, disk, Downloading

LEMMA FullResponseStep == ASSUME IInv, FullResponse PROVE IInv'
<1>1. job \in JobType /\ job.pc = "response" /\ 0 \in 0 .. Size
  BY JobFacts, StoreAssumption DEF IInv, FullResponse, At
<1>2. [len |-> 0, good |-> TRUE] \in Content /\ [len |-> 0, good |-> TRUE].len <= 0
  BY <1>1 DEF Content
<1>3. job' \in JobType /\ job'.pc = "stream" /\ job'.k = job.k /\ job'.rev = job.rev /\ job'.offset = 0
  BY <1>1 DEF FullResponse, JobType, Downloading
<1> QED
  BY <1>1, <1>2, <1>3, PartialStep DEF FullResponse, Downloading

LEMMA RangeResponseStep == ASSUME IInv, RangeResponse PROVE IInv'
<1>1. job \in JobType /\ job.pc = "response" /\ 0 \in 0 .. Size /\ Partial \in Content \cup {None} /\ job.offset \in 0 .. Size
  BY JobFacts, StoreAssumption DEF IInv, RangeResponse, At
<1> DEFINE c == Opened(job.offset, Partial)
<1>2. c \in Content \cup {None} /\ (c = None \/ c.len <= job.offset)
  BY <1>1 DEF Content, Opened, IInv, PartialOK, At
<1>3. job' \in JobType /\ job'.pc = "stream" /\ job'.k = job.k /\ job'.rev = job.rev /\ job'.offset = job.offset
  BY <1>1 DEF RangeResponse, JobType, Downloading, Goto
<1> QED
  BY <1>1, <1>2, <1>3, PartialStep DEF RangeResponse, Downloading

LEMMA ReceiveStep ==
  ASSUME IInv, NEW good \in BOOLEAN, Receive(good), bounds' = bounds \/ Fault PROVE IInv'
<1>1. job \in JobType /\ job.pc = "stream" /\ Partial \in Content \cup {None} /\ job.offset \in 0 .. Size /\ job.offset < Size
  BY JobFacts DEF IInv, Receive, At
<1> DEFINE next == [len |-> Partial.len + 1, good |-> Partial.good /\ good /\ Partial.len = job.offset]
<1>2. job.offset + 1 \in 0 .. Size
  BY <1>1, StoreAssumption
<1>3. job' = [job EXCEPT !.offset = job.offset + 1]
  BY DEF Receive
<1>4. job' \in JobType /\ job'.pc = "stream" /\ job'.k = job.k /\ job'.rev = job.rev /\ job'.offset = job.offset + 1
  BY <1>1, <1>2, <1>3 DEF JobType
<1>5. CASE Partial = None
  BY <1>1, <1>4, <1>5, PartialStep DEF Receive, Downloading
<1>6. CASE Partial # None
  <2>1. Partial \in Content /\ Partial.len <= job.offset
    BY <1>1, <1>6 DEF IInv, PartialOK, At
  <2>2. next \in Content /\ next.len <= job'.offset
    <3>1. Partial.len + 1 \in 0 .. Size /\ Partial.len + 1 <= job'.offset
      BY <1>1, <1>4, <2>1, StoreAssumption DEF Content
    <3>2. next.len = Partial.len + 1 /\ next.good \in BOOLEAN
      OBVIOUS
    <3> QED
      BY <3>1, <3>2 DEF Content
  <2>3. SetPart(next)
    BY <1>6 DEF Receive
  <2> QED
    BY <1>1, <1>4, <2>2, <2>3, PartialStep DEF Receive, Downloading
<1> QED
  BY <1>5, <1>6

\* Another attempt, or none.
LEMMA RetryStep ==
  ASSUME IInv, job.pc \in Downloading, Retry, UNCHANGED <<main, disk, remover>>, bounds' = bounds \/ Fault
  PROVE  IInv'
<1>1. job \in JobType /\ job.attempt \in 1 .. MaxAttempts /\ Partial \in Content \cup {None}
  BY JobFacts DEF IInv, At, Downloading
<1>2. CASE job.attempt < MaxAttempts
  <2>1. job.attempt + 1 \in 1 .. MaxAttempts
    BY <1>1, <1>2, StoreAssumption
  <2>2. job' = [job EXCEPT !.pc = "connect", !.attempt = job.attempt + 1]
    BY <1>2 DEF Retry
  <2>3. job' \in JobType /\ job'.pc = "connect" /\ job'.k = job.k /\ job'.rev = job.rev
    BY <1>1, <2>1, <2>2 DEF JobType, Downloading
  <2> QED
    BY <1>1, <2>3, PartialStep DEF disk
<1>3. CASE ~(job.attempt < MaxAttempts)
  BY <1>3, StopsJob DEF Retry
<1> QED
  BY <1>2, <1>3

LEMMA EndOfStreamStep == ASSUME IInv, EndOfStream PROVE IInv'
<1>1. job \in JobType /\ job.pc = "stream" /\ Partial \in Content \cup {None}
  BY JobFacts DEF IInv, EndOfStream, At
<1>2. CASE Length(Partial) = Size
  <2>1. job' \in JobType /\ job'.pc = "verify" /\ job'.k = job.k /\ job'.rev = job.rev
    BY <1>1, <1>2 DEF EndOfStream, Goto, JobType, Downloading
  <2>2. Partial = None \/ Partial.len = Size
    BY <1>2 DEF Length
  <2> QED
    BY <1>1, <2>1, <2>2, PartialStep DEF EndOfStream, disk, Downloading
<1>3. CASE Length(Partial) # Size
  BY <1>1, <1>3, RetryStep DEF EndOfStream, Downloading
<1> QED
  BY <1>2, <1>3

LEMMA VerifyStep == ASSUME IInv, Verify PROVE IInv'
<1>1. job \in JobType /\ job.pc = "verify" /\ Partial \in Content \cup {None}
  BY JobFacts DEF IInv, Verify, At
<1>2. CASE Passes(File, Partial)
  <2>1. job' \in JobType /\ job'.pc = "publish" /\ job'.k = job.k /\ job'.rev = job.rev
    BY <1>1, <1>2 DEF Verify, Goto, JobType, Downloading
  <2>2. Complete(File, Partial)
    BY <1>1, <1>2 DEF Passes, Complete, IInv, PartialOK, At
  <2> QED
    BY <1>1, <1>2, <2>1, <2>2, PartialStep DEF Verify, Downloading
<1>3. CASE ~Passes(File, Partial)
  <2>1. SetPart(None) /\ job' = Idle /\ UNCHANGED <<main, target, manifest, ready, current, remover, bounds>>
    BY <1>3 DEF Verify
  <2>2. job.rev \in AllRevisions /\ File \in Files /\ part \in Disks
    BY <1>1, JobFacts DEF IInv, TypeOK, Disks, At
  <2>3. part' \in Disks
    BY <2>1, <2>2 DEF SetPart, Disks
  <2>4. TypeOK'
    BY <2>1, <2>3 DEF IInv, TypeOK, Disks, bounds
  <2>5. TargetsAreVerified' /\ ReadyIsComplete' /\ RemoverOK'
    BY <2>1 DEF IInv, TargetsAreVerified, ReadyIsComplete, RemoverOK, bounds
  <2> QED
    BY <2>1, <2>4, <2>5, IdleJob DEF IInv
<1> QED
  BY <1>2, <1>3

-----------------------------------------------------------------------------
(* The manifest, ready.json and current.json *)

LEMMA ConfigureStep == ASSUME IInv, Configure PROVE IInv'
<1>1. job \in JobType /\ job.pc = "configure" /\ job.rev \in AllRevisions
  BY JobFacts DEF IInv, Configure, At
<1>2. UNCHANGED <<main, target, part, ready, current, remover, faults, removals>>
  BY DEF Configure, bounds
<1>3. CASE \A f \in Files : target[job.rev][f] # None
  <2>1. manifest' = manifest \cup {job.rev} /\ job' = [job EXCEPT !.pc = "ready"]
    BY <1>3 DEF Configure, ConfigureWith, Goto
  <2>2. job' \in JobType /\ job'.pc = "ready" /\ job'.rev = job.rev
    BY <1>1, <2>1 DEF JobType
  <2>3. PartialOK' /\ ProgressOK'
    BY <1>1, <1>2, <2>1, <2>2 DEF IInv, PartialOK, ProgressOK, At, Downloading, AllComplete
  <2>4. TypeOK'
    BY <1>1, <1>2, <2>1, <2>2 DEF IInv, TypeOK, JobType, Downloading
  <2>5. TargetsAreVerified' /\ ReadyIsComplete' /\ RemoverOK'
    BY <1>2, <2>1 DEF IInv, TargetsAreVerified, ReadyIsComplete, RemoverOK
  <2> QED
    BY <2>3, <2>4, <2>5 DEF IInv
<1>4. CASE ~(\A f \in Files : target[job.rev][f] # None)
  BY <1>2, <1>4, StopsJob DEF Configure, disk, bounds
<1> QED
  BY <1>3, <1>4

LEMMA WriteReadyStep == ASSUME IInv, WriteReady PROVE IInv'
<1>1. job \in JobType /\ job.pc = "ready" /\ job.rev \in AllRevisions
  BY JobFacts DEF IInv, WriteReady, At
<1>2. UNCHANGED <<main, target, part, manifest, current, remover, faults, removals>> /\ ready' = ready \cup {job.rev}
  BY DEF WriteReady, bounds
<1>3. job' \in JobType /\ job'.pc = "current" /\ job'.rev = job.rev
  BY <1>1 DEF WriteReady, Goto, JobType
<1>4. PartialOK' /\ ProgressOK'
  BY <1>1, <1>2, <1>3 DEF IInv, PartialOK, ProgressOK, At, Downloading, AllComplete
<1>5. TypeOK'
  BY <1>1, <1>2, <1>3 DEF IInv, TypeOK, JobType, Downloading
<1>6. ReadyIsComplete'
  BY <1>1, <1>2 DEF IInv, ReadyIsComplete, ProgressOK, AllComplete
<1>7. TargetsAreVerified' /\ RemoverOK'
  BY <1>2 DEF IInv, TargetsAreVerified, RemoverOK
<1> QED
  BY <1>4, <1>5, <1>6, <1>7 DEF IInv

LEMMA WriteCurrentStep == ASSUME IInv, WriteCurrent PROVE IInv'
<1>1. job.rev \in AllRevisions
  BY JobFacts DEF IInv, WriteCurrent, At
<1>2. TypeOK'
  BY <1>1 DEF IInv, TypeOK, WriteCurrent, bounds
<1>3. TargetsAreVerified' /\ ReadyIsComplete' /\ RemoverOK'
  BY DEF IInv, TargetsAreVerified, ReadyIsComplete, RemoverOK, WriteCurrent, bounds
<1> QED
  BY <1>2, <1>3, IdleJob DEF IInv, WriteCurrent

-----------------------------------------------------------------------------
(* The revision that main names, and removals *)

LEMMA MoveMainStep == ASSUME IInv, MoveMain PROVE IInv'
<1>1. main' \in DOMAIN Revisions
  BY StoreAssumption DEF IInv, TypeOK, MoveMain
<1>2. TypeOK'
  BY <1>1 DEF IInv, TypeOK, MoveMain, disk, bounds
<1> QED
  BY <1>2 DEF IInv, TargetsAreVerified, ReadyIsComplete, RemoverOK, PartialOK, ProgressOK, AllComplete, At,
              Partial, File, MoveMain, disk, bounds

LEMMA BeginRemoveStep == ASSUME IInv, BeginRemove PROVE IInv'
<1>1. UNCHANGED <<main, target, part, manifest, ready, current, job, faults>> /\ removals' = removals + 1
  BY DEF BeginRemove, disk
<1>2. removals \in Nat /\ removals' \in 0 .. MaxRemovals /\ removals' > 0
  BY <1>1, StoreAssumption DEF IInv, TypeOK, BeginRemove
<1>3. Installed \in AllRevisions \cup {None}
  BY DEF IInv, TypeOK, Installed
<1>4. RemoverOK'
  BY <1>2, <1>3 DEF RemoverOK, BeginRemove
<1>5. TypeOK'
  BY <1>1, <1>2 DEF IInv, TypeOK
<1>6. TargetsAreVerified' /\ PartialOK'
  BY <1>1 DEF IInv, TargetsAreVerified, PartialOK, At, Partial, File
<1>7. ReadyIsComplete' /\ ProgressOK'
  BY <1>2 DEF ReadyIsComplete, ProgressOK
<1> QED
  BY <1>4, <1>5, <1>6, <1>7 DEF IInv

LEMMA RemoveEntryStep == ASSUME IInv, NEW e \in Entries, RemoveEntry(e) PROVE IInv'
<1> DEFINE r == remover.rev
<1>1. r \in AllRevisions /\ removals > 0 /\ remover \in [pc : {"delete"}, rev : AllRevisions \cup {None}, left : SUBSET Entries]
  BY DEF IInv, RemoverOK, RemoveEntry
<1>2. UNCHANGED <<main, current, job, faults, removals>>
  BY DEF RemoveEntry, bounds
<1>3. /\ target' = IF e \in Files THEN [target EXCEPT ![r][e] = None] ELSE target
      /\ part' = IF e \in Files THEN [part EXCEPT ![r][e] = None] ELSE part
  BY DEF RemoveEntry
<1>4. target \in Disks /\ part \in Disks
  BY DEF IInv, TypeOK, Disks
<1>5. /\ target' \in Disks
      /\ \A q \in AllRevisions, f \in Files : target'[q][f] \in {target[q][f], None}
  BY <1>1, <1>3, <1>4 DEF Disks
<1>6. /\ part' \in Disks
      /\ \A q \in AllRevisions, f \in Files : part'[q][f] \in {part[q][f], None}
  BY <1>1, <1>3, <1>4 DEF Disks
<1>7. TypeOK'
  <2>1. ready' \subseteq AllRevisions /\ manifest' \subseteq AllRevisions
    BY DEF RemoveEntry, IInv, TypeOK
  <2> QED
    BY <1>2, <1>5, <1>6, <2>1 DEF IInv, TypeOK, Disks
<1>8. TargetsAreVerified'
  BY <1>5 DEF IInv, TargetsAreVerified
<1>9. PartialOK'
  <2>1. CASE At("idle")
    BY <1>2, <2>1 DEF PartialOK, At
  <2>2. CASE ~At("idle")
    <3>1. job.rev \in AllRevisions /\ File \in Files
      BY <2>2, JobFacts DEF IInv
    <3>2. File' = File /\ Partial' \in {Partial, None}
      BY <1>2, <1>6, <3>1 DEF File, Partial
    <3> QED
      BY <1>2, <3>2 DEF IInv, PartialOK, At
  <2> QED
    BY <2>1, <2>2
<1>10. ReadyIsComplete' /\ ProgressOK'
  BY <1>1, <1>2 DEF ReadyIsComplete, ProgressOK, IInv, TypeOK
<1>11. RemoverOK'
  BY <1>1, <1>2 DEF RemoverOK, RemoveEntry, Idle
<1> QED
  BY <1>7, <1>8, <1>9, <1>10, <1>11 DEF IInv

LEMMA RemoveCurrentStep == ASSUME IInv, RemoveCurrent PROVE IInv'
BY DEF IInv, TypeOK, TargetsAreVerified, ReadyIsComplete, RemoverOK, PartialOK, ProgressOK, AllComplete, At,
       Partial, File, RemoveCurrent, bounds

-----------------------------------------------------------------------------
(* Theorems *)

\* Every step keeps the invariant.
LEMMA NextInv == IInv /\ [Next]_vars => IInv'
<1> SUFFICES ASSUME IInv, [Next]_vars PROVE IInv'
  OBVIOUS
<1>1. CASE MoveMain
  BY <1>1, MoveMainStep
<1>2. CASE Prepare
  BY <1>2, PrepareStep
<1>3. CASE JobStep
  <2>1. CASE Receive(TRUE) /\ NoFault
    BY <2>1, ReceiveStep DEF NoFault
  <2>2. CASE Refused
    BY <2>2, StopsJob DEF Refused, NoFault
  <2> QED
    BY <1>3, <2>1, <2>2, CheckStep, CheckTargetStep, CheckPartialStep, ConnectStep, FullResponseStep, RangeResponseStep,
       EndOfStreamStep, VerifyStep, PublishStep, ConfigureStep, WriteReadyStep, WriteCurrentStep DEF JobStep
<1>4. CASE Faulty
  <2>1. CASE Receive(FALSE) /\ Fault
    BY <2>1, ReceiveStep
  <2>2. CASE NetworkFails
    BY <2>2, RetryStep DEF NetworkFails, Downloading
  <2>3. CASE Refused
    BY <2>3, StopsJob DEF Refused, NoFault
  <2>4. CASE Cancel
    BY <2>4, StopsJob DEF Cancel
  <2>5. CASE Die
    BY <2>5, StopsJob DEF Die
  <2> QED
    BY <1>4, <2>1, <2>2, <2>3, <2>4, <2>5 DEF Faulty
<1>5. CASE BeginRemove
  BY <1>5, BeginRemoveStep
<1>6. CASE RemoveStep
  BY <1>6, RemoveEntryStep, RemoveCurrentStep DEF RemoveStep
<1>7. CASE UNCHANGED vars
  BY <1>7 DEF IInv, TypeOK, TargetsAreVerified, ReadyIsComplete, RemoverOK, PartialOK, ProgressOK, AllComplete, At,
              Partial, File, vars, disk, bounds
<1> QED
  BY <1>1, <1>2, <1>3, <1>4, <1>5, <1>6, <1>7 DEF Next

\* What the files say about a model, and what makes it true: where the job and the removal
\* are, what is known of the partial file, and how far the job has come (prepareModel, download).
THEOREM StoreInvariant == Spec => []IInv
BY InitInv, NextInv, PTL DEF Spec

\* No step, failure, death or removal leaves a damaged or short file under its final name, and without
\* removals ready.json is true, for any files, sizes, attempts, failures and interleavings.
THEOREM FilesSound == Spec => []FilesAreSound
<1>1. IInv => FilesAreSound
  BY DEF IInv, FilesAreSound
<1> QED
  BY <1>1, StoreInvariant, PTL

\* While nothing was removed, a ready revision stays ready, and only such a one becomes current.
LEMMA CurrentIsReady ==
  ASSUME IInv, Next, removals' = 0
  PROVE  ready \subseteq ready' /\ (current' = current \/ current' \in ready' \ {None})
<1>1. removals = 0 /\ remover = Idle /\ ~BeginRemove
  <2>1. removals \in Nat
    BY DEF IInv, TypeOK
  <2>2. ~BeginRemove
    BY <2>1 DEF BeginRemove
  <2>3. ASSUME JobStep PROVE removals' = removals
    BY <2>3 DEF JobStep, Check, CheckTarget, CheckPartial, Connect, FullResponse, RangeResponse, Receive, NoFault,
                EndOfStream, Verify, Publish, Configure, WriteReady, WriteCurrent, Refused, Fault, bounds
  <2>4. ASSUME Faulty PROVE removals' = removals
    BY <2>4 DEF Faulty, Fault, NetworkFails, Refused, NoFault, Cancel, Die, bounds
  <2>5. removals' = removals
    BY <2>2, <2>3, <2>4 DEF Next, MoveMain, Prepare, RemoveStep, RemoveEntry, RemoveCurrent, bounds
  <2> QED
    BY <2>1, <2>2, <2>5 DEF IInv, RemoverOK
<1>2. CASE Check
  <2>1. job.rev \in AllRevisions
    BY <1>2, JobFacts DEF IInv, Check, At
  <2> QED
    BY <1>2, <2>1, StoreAssumption DEF Check, IsReady, AllRevisions
<1>3. CASE WriteReady
  BY <1>3 DEF WriteReady
<1>4. CASE WriteCurrent
  <2>1. job.rev \in AllRevisions
    BY <1>4, JobFacts DEF IInv, WriteCurrent, At
  <2> QED
    BY <1>1, <1>4, <2>1, StoreAssumption DEF WriteCurrent, IInv, ProgressOK, AllRevisions
<1>5. CASE UNCHANGED <<ready, current>>
  BY <1>5
<1> QED
  BY <1>1, <1>2, <1>3, <1>4, <1>5 DEF Next, MoveMain, Prepare, JobStep, CheckTarget, CheckPartial, Connect, FullResponse,
     RangeResponse, Receive, EndOfStream, Verify, Publish, Configure, Refused, Faulty,
     NetworkFails, Cancel, Die, RemoveStep, RemoveEntry, RemoveCurrent, disk

\* Preparing another revision, failing at it, or dying never takes the installed model away
\* (current.json and ready.json are written last, and the files of a ready revision stay).
THEOREM InstalledIsKept == Spec => InstalledStays
<1>1. ASSUME IInv, IInv', [Next]_vars PROVE [removals' = 0 /\ Installed # None => Installed' # None]_vars
  <2> SUFFICES ASSUME Next, removals' = 0, Installed # None PROVE Installed' # None
    BY <1>1
  <2>1. current \in ready /\ current # None
    BY DEF Installed
  <2>2. current' \in ready' /\ current' # None
    BY <1>1, <2>1, CurrentIsReady
  <2>3. current' \in manifest' /\ \A f \in Files : target'[current'][f] # None
    BY <1>1, <2>2 DEF IInv, ReadyIsComplete, Complete
  <2> QED
    BY <2>2, <2>3 DEF Installed
<1> QED
  BY <1>1, StoreInvariant, PTL DEF Spec, InstalledStays
=============================================================================
