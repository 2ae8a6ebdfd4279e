-------------------------- MODULE UploadRefinement --------------------------
(***************************************************************************)
(* Proof that the upload protocol, with deletion and the reaper, implements*)
(* atomic uploads for every number of clients, files, versions, chunks,    *)
(* fragments and nodes.  On top of the invariant of UploadProofs it needs  *)
(* CommittedOnDisk before and after a step: with it a version is whole     *)
(* exactly when it is committed, so the disks drop out of the argument.    *)
(***************************************************************************)
EXTENDS UploadProofs

Committed(x) == {v \in Version : verFile[v] = x /\ verStatus[v] = "committed"}

\* What is committed is whole.
LEMMA WholeIsCommitted ==
  ASSUME CommittedOnDisk, NEW v \in Version
  PROVE  Whole(v) <=> verStatus[v] = "committed"
  BY DEF CommittedOnDisk, Whole

\* So readers and listings see the tables' versions.
LEMMA TablesShow ==
  ASSUME CommittedOnDisk, TypeOK, FilesMatchVersions
  PROVE  /\ Served = [x \in File |-> IF fileStatus[x] = "active" THEN current[x] ELSE None]
         /\ Published = [x \in File |-> Committed(x)]
<1>1. ASSUME NEW x \in File, fileStatus[x] = "active"
      PROVE  current[x] # None /\ Whole(current[x])
  BY <1>1, WholeIsCommitted, ManifestAssumption, Zenon DEF FilesMatchVersions
<1>2. \A v \in Version : Whole(v) <=> verStatus[v] = "committed"
  BY WholeIsCommitted
<1>3. QED
  BY <1>1, <1>2 DEF Served, Published, Committed

\* The same of the state after a step.
LEMMA TablesShowNext ==
  ASSUME CommittedOnDisk', TypeOK', FilesMatchVersions'
  PROVE  /\ Served' = [x \in File |-> IF fileStatus'[x] = "active" THEN current'[x] ELSE None]
         /\ Published' = [x \in File |-> Committed(x)']
<1>2. \A v \in Version : Whole(v)' <=> verStatus'[v] = "committed"
  BY DEF CommittedOnDisk, Whole
<1>1. ASSUME NEW x \in File, fileStatus'[x] = "active"
      PROVE  current'[x] # None /\ Whole(current[x])'
  <2>1. current'[x] \in Version /\ verStatus'[current'[x]] = "committed"
    BY <1>1 DEF FilesMatchVersions
  <2>2. QED
    BY <2>1, ManifestAssumption, Zenon DEF CommittedOnDisk, Whole
<1>3. QED
  BY <1>1, <1>2 DEF Served, Published, Committed

-----------------------------------------------------------------------------
(* The steps                                                               *)

\* The state before and after a step, as far as the argument needs it.
Good == Inv /\ CommittedOnDisk

\* A step that leaves files and committed and expired versions alone does
\* nothing but tell a client, if that.
LEMMA Quiet ==
  ASSUME Good, Good', UNCHANGED <<fileStatus, current>>,
         \A v \in Version : verStatus[v] \in {"committed", "expired"}
                             \/ verStatus'[v] \in {"committed", "expired"}
           => verStatus'[v] = verStatus[v] /\ verFile'[v] = verFile[v]
  PROVE  UNCHANGED <<fileStatus, Served, Published, Withdrawn>>
<1>1. \A x \in File : Committed(x)' = Committed(x)
  BY DEF Committed
<1>2. UNCHANGED <<Served, Published>>
  BY <1>1, TablesShow, TablesShowNext DEF Good, Inv
<1>3. UNCHANGED Withdrawn
  BY DEF Withdrawn
<1>4. QED
  BY <1>2, <1>3

\* Leaving a session forgets what it was told.
LEMMA LeaveForgets ==
  ASSUME TypeOK, NEW s \in Session, Leave(s)
  PROVE  Told' = [Told EXCEPT ![s] = None]
  BY Zenon DEF Leave, Told, TypeOK, UploadTypeOK

\* A step that keeps versions and answers tells nobody anything.
LEMMA NothingTold ==
  ASSUME TypeOK, NEW s \in Session,
         \/ UNCHANGED <<reply, ver>>
         \/ reply[s] = "none" /\ UNCHANGED reply /\ \E v : ver' = [ver EXCEPT ![s] = v]
  PROVE  UNCHANGED Told
  BY DEF Told, TypeOK, UploadTypeOK

\* A plan that fails leaves the session or goes to the abort.
LEMMA PlanFailsTells ==
  ASSUME TypeOK, NEW s \in Session, PlanFails(s)
  PROVE  UNCHANGED Told \/ Told' = [Told EXCEPT ![s] = None]
  BY LeaveForgets, NothingTold DEF PlanFails

\* So does the answer to a plan, or it starts the client.
LEMMA PlanReplyTells ==
  ASSUME TypeOK, NEW s \in Session, NEW p, PlanReply(s, p)
  PROVE  UNCHANGED Told \/ Told' = [Told EXCEPT ![s] = None]
  BY PlanFailsTells, NothingTold DEF PlanReply

\* Steps that publish and delete nothing refine forgetting, or nothing.
LEMMA QuietStep ==
  ASSUME Good, Good', UNCHANGED <<fileStatus, current>>, NEW s \in Session,
         \A v \in Version : verStatus[v] \in {"committed", "expired"}
                             \/ verStatus'[v] \in {"committed", "expired"}
           => verStatus'[v] = verStatus[v] /\ verFile'[v] = verFile[v],
         UNCHANGED Told \/ Told' = [Told EXCEPT ![s] = None]
  PROVE  [Atomic!Next]_(Atomic!avars)
<1>1. UNCHANGED <<fileStatus, Served, Published, Withdrawn>>
  BY Quiet
<1>2. CASE UNCHANGED Told
  BY <1>1, <1>2 DEF Atomic!avars
<1>3. CASE Told' = [Told EXCEPT ![s] = None]
  <2>1. Atomic!Forget(s)
    BY <1>1, <1>3 DEF Atomic!Forget
  <2>2. QED
    BY <2>1 DEF Atomic!Next
<1>4. QED
  BY <1>2, <1>3

\* The steps of a session that touch neither files nor versions.
LEMMA SessionQuiet ==
  ASSUME Good, Good', NEW s \in Session,
         \/ BeginLookup(s) \/ BeginResume(s) \/ BeginLoses(s) \/ Place(s) \/ PlaceFails(s)
         \/ InsertPlacement(s) \/ InsertFails(s) \/ PutFragment(s) \/ Stop(s) \/ VerifyReceipts(s)
  PROVE  [Atomic!Next]_(Atomic!avars)
<1>1. UNCHANGED <<fileStatus, current, verStatus, verFile>>
  BY Zenon DEF BeginLookup, BeginResume, BeginLoses, Place, PlaceFails, InsertPlacement, InsertFails,
         PutFragment, Stop, VerifyReceipts, tables
<1>2. TypeOK /\ Grounded(s)
  BY DEF Good, Inv, SessionInv
<1>3. UNCHANGED Told \/ Told' = [Told EXCEPT ![s] = None]
  <2>1. CASE BeginLookup(s)
    <3>1. reply[s] = "none" /\ UNCHANGED reply
      BY <1>2, <2>1 DEF BeginLookup, Grounded, Fresh
    <3>2. \E v : ver' = [ver EXCEPT ![s] = v]
      BY <2>1 DEF BeginLookup
    <3>3. QED
      BY <1>2, <3>1, <3>2, NothingTold, Zenon
  <2>2. CASE BeginResume(s) \/ PutFragment(s)
    BY <1>2, <2>2, NothingTold DEF BeginResume, PutFragment
  <2>3. CASE BeginLoses(s) \/ Stop(s)
    BY <1>2, <2>3, LeaveForgets DEF BeginLoses, Stop
  <2>4. CASE PlaceFails(s) \/ InsertFails(s)
    BY <1>2, <2>4, PlanFailsTells DEF PlaceFails, InsertFails
  <2>5. CASE Place(s)
    BY <1>2, <2>5, PlanReplyTells, NothingTold, Zenon DEF Place
  <2>6. CASE InsertPlacement(s)
    BY <1>2, <2>6, PlanReplyTells, NothingTold DEF InsertPlacement
  <2>7. CASE VerifyReceipts(s)
    <3>1. UNCHANGED ver /\ (UNCHANGED reply \/ reply' = [reply EXCEPT ![s] = "invalid"])
      BY <2>7 DEF VerifyReceipts, Answer
    <3>2. QED
      BY <1>2, <3>1, Zenon DEF Told, TypeOK, UploadTypeOK
  <2>8. QED
    BY <2>1, <2>2, <2>3, <2>4, <2>5, <2>6, <2>7
<1>4. QED
  BY <1>1, <1>3, QuietStep

\* A new version is not published, and an aborted one was not.
LEMMA VersionQuiet ==
  ASSUME Good, Good', NEW s \in Session, BeginVersion(s) \/ AbortUpload(s)
  PROVE  [Atomic!Next]_(Atomic!avars)
<1>1. TypeOK /\ Grounded(s)
  BY DEF Good, Inv, SessionInv
<1>2. CASE BeginVersion(s)
  <2>1. PICK v \in Version : NewVersion(s, v, file[s])
    BY <1>2 DEF BeginVersion
  <2>2. reply[s] = "none" /\ UNCHANGED reply /\ ver' = [ver EXCEPT ![s] = v]
    BY <1>1, <1>2, <2>1, Zenon DEF BeginVersion, NewVersion, Grounded, Fresh
  <2>3. UNCHANGED Told
    BY <1>1, <2>2, NothingTold, Zenon
  <2>4. \A w \in Version : w # v => verStatus'[w] = verStatus[w] /\ verFile'[w] = verFile[w]
    BY <1>1, <2>1 DEF NewVersion, TypeOK, TablesTypeOK
  <2>5. verStatus[v] = "none" /\ verStatus'[v] = "pending"
    BY <1>1, <2>1 DEF NewVersion, TypeOK, TablesTypeOK
  <2>6. UNCHANGED <<fileStatus, current>>
    BY <1>2 DEF BeginVersion
  <2>7. QED
    BY <2>3, <2>4, <2>5, <2>6, QuietStep
<1>3. CASE AbortUpload(s)
  <2>1. UNCHANGED <<fileStatus, current, verFile>> /\ Told' = [Told EXCEPT ![s] = None]
    BY <1>1, <1>3, LeaveForgets DEF AbortUpload
  <2>2. \A w \in Version : \/ verStatus'[w] = verStatus[w]
                           \/ verStatus[w] = "pending" /\ verStatus'[w] = "aborted"
    BY <1>1, <1>3 DEF AbortUpload, TypeOK, TablesTypeOK
  <2>3. QED
    BY <2>1, <2>2, QuietStep, Zenon
<1>4. QED
  BY <1>2, <1>3

\* A first plan of a free path opens the file.
LEMMA FileOpens ==
  ASSUME Good, Good', NEW s \in Session, BeginFile(s)
  PROVE  Atomic!Next
<1>1. TypeOK /\ Grounded(s) /\ RefInv
  BY DEF Good, Inv, SessionInv
<1>2. PICK x \in File, v \in Version :
        /\ fileStatus[x] = "none"
        /\ fileStatus' = [fileStatus EXCEPT ![x] = "uploading"]
        /\ NewVersion(s, v, x)
  BY Zenon DEF BeginFile
<1>3. reply[s] = "none" /\ UNCHANGED <<reply, current>> /\ ver' = [ver EXCEPT ![s] = v]
  BY <1>1, <1>2, Zenon DEF BeginFile, NewVersion, Grounded, Fresh
<1>4. UNCHANGED Told
  BY <1>1, <1>3, NothingTold, Zenon
<1>5. \A w \in Version : w # v => verStatus'[w] = verStatus[w] /\ verFile'[w] = verFile[w]
  BY <1>1, <1>2 DEF NewVersion, TypeOK, TablesTypeOK
<1>6. verStatus[v] = "none" /\ verStatus'[v] = "pending"
  BY <1>1, <1>2 DEF NewVersion, TypeOK, TablesTypeOK
<1>7. \A y \in File : Committed(y)' = Committed(y)
  BY <1>5, <1>6 DEF Committed
<1>8. UNCHANGED <<Served, Published>>
  <2>1. \A y \in File : fileStatus'[y] = "active" <=> fileStatus[y] = "active"
    BY <1>1, <1>2 DEF TypeOK, TablesTypeOK
  <2>2. QED
    BY <1>3, <1>7, <2>1, TablesShow, TablesShowNext DEF Good, Inv
<1>9. UNCHANGED Withdrawn
  BY <1>5, <1>6 DEF Withdrawn
<1>10. Atomic!Create(x)
  BY <1>2, <1>4, <1>8, <1>9, Zenon DEF Atomic!Create, BeginFile, LiveFiles
<1>11. QED
  BY <1>10 DEF Atomic!Next

\* A commit publishes its version, or answers.
LEMMA CommitPublishes ==
  ASSUME Good, Good', NEW s \in Session, CommitUpload(s)
  PROVE  [Atomic!Next]_(Atomic!avars)
<1> DEFINE v == ver[s]
           x == verFile[v]
<1>1. TypeOK /\ Grounded(s) /\ RefInv /\ FilesMatchVersions
  BY DEF Good, Inv, SessionInv
<1>2. v \in Version /\ x \in File /\ fileStatus[x] # "none"
  BY <1>1, ManifestAssumption, Zenon DEF CommitUpload, Grounded, RefInv
<1>3. UNCHANGED ver
  BY DEF CommitUpload
<1>4. CASE UNCHANGED tables /\ \E r \in Replies \ {"ok"} : reply' = [reply EXCEPT ![s] = r]
  <2>1. Told' = [Told EXCEPT ![s] = None]
    BY <1>1, <1>3, <1>4, Zenon DEF Told, TypeOK, UploadTypeOK
  <2>2. QED
    BY <1>4, <2>1, QuietStep, Zenon DEF tables
<1>5. CASE /\ UNCHANGED tables /\ verStatus[v] = "committed"
           /\ reply' = [reply EXCEPT ![s] = "ok"]
  <2>1. Told' = [Told EXCEPT ![s] = v]
    BY <1>1, <1>3, <1>5, Zenon DEF Told, TypeOK, UploadTypeOK
  <2>2. UNCHANGED <<fileStatus, Served, Published, Withdrawn>>
    BY <1>5, Quiet DEF tables
  <2>3. fileStatus[x] = "active" /\ v \in Published[x]
    BY <1>1, <1>2, <1>5, TablesShow DEF FilesMatchVersions, Committed, Good
  <2>4. Atomic!Tell(s, x)
    BY <2>1, <2>2, <2>3, Zenon DEF Atomic!Tell
  <2>5. QED
    BY <1>2, <2>4 DEF Atomic!Next
<1>6. CASE /\ fileStatus[x] # "deleted" /\ verStatus[v] = "pending"
           /\ verStatus' = [verStatus EXCEPT ![v] = "committed"]
           /\ fileStatus' = [fileStatus EXCEPT ![x] = "active"]
           /\ current' = [current EXCEPT ![x] = v]
           /\ reply' = [reply EXCEPT ![s] = "ok"]
           /\ UNCHANGED verFile
  <2>1. Told' = [Told EXCEPT ![s] = v]
    BY <1>1, <1>3, <1>6, Zenon DEF Told, TypeOK, UploadTypeOK
  <2>2. \A y \in File : Committed(y)' = IF y = x THEN Committed(y) \cup {v} ELSE Committed(y)
    BY <1>1, <1>2, <1>6 DEF Committed, TypeOK, TablesTypeOK
  <2>3. Published' = [Published EXCEPT ![x] = @ \cup {v}]
    BY <1>2, <2>2, TablesShow, TablesShowNext DEF Good, Inv
  <2>4. Served' = [Served EXCEPT ![x] = v]
    BY <1>1, <1>2, <1>6, TablesShow, TablesShowNext DEF Good, Inv, TypeOK, TablesTypeOK
  <2>5. UNCHANGED Withdrawn
    BY <1>1, <1>2, <1>6 DEF Withdrawn, TypeOK, TablesTypeOK
  <2>6. v \notin Withdrawn /\ \A y \in File : v \notin Published[y]
    BY <1>6, TablesShow DEF Withdrawn, Committed, Good, Inv
  <2>7. fileStatus[x] \in {"uploading", "active"}
    BY <1>1, <1>2, <1>6 DEF TypeOK, TablesTypeOK, FileStatus
  <2> HIDE DEF v, x
  <2>8. Atomic!Publish(s, x, v)
    BY <1>6, <2>1, <2>3, <2>4, <2>5, <2>6, <2>7 DEF Atomic!Publish
  <2>9. QED
    BY <1>2, <2>8 DEF Atomic!Next
<1>7. QED
  BY <1>4, <1>5, <1>6 DEF CommitUpload, Answer, Replies

\* A delete withdraws what was published and what was about to be.
LEMMA DeleteWithdraws ==
  ASSUME Good, Good', NEW x \in File, SoftDeleteFile(x), UNCHANGED uploadVars
  PROVE  Atomic!Next
<1> DEFINE drafts == {v \in Version : verFile[v] = x /\ verStatus[v] = "pending"}
<1>1. TypeOK
  BY DEF Good, Inv
<1>2. UNCHANGED Told
  BY DEF Told, uploadVars
<1>3. \A v \in Version : verStatus'[v] = IF verFile[v] = x /\ verStatus[v] \in {"pending", "committed"}
                                         THEN "expired" ELSE verStatus[v]
  BY DEF SoftDeleteFile
<1>4. \A y \in File : Committed(y)' = IF y = x THEN {} ELSE Committed(y)
  BY <1>3 DEF SoftDeleteFile, Committed
<1>5. /\ Published = [y \in File |-> Committed(y)]
      /\ Published' = [Published EXCEPT ![x] = {}]
  BY <1>4, TablesShow, TablesShowNext DEF Good, Inv
<1>6. Served' = [Served EXCEPT ![x] = None]
  BY <1>1, TablesShow, TablesShowNext DEF SoftDeleteFile, Good, Inv, TypeOK, TablesTypeOK
<1>7. Withdrawn' = Withdrawn \cup Published[x] \cup drafts
  BY <1>3, <1>5 DEF Withdrawn, Committed
<1>8. \A y \in File \ {x} : drafts \cap Published[y] = {}
  BY <1>5 DEF Committed
<1>9. drafts \in SUBSET Version
  OBVIOUS
<1> HIDE DEF drafts
<1>10. Atomic!Delete(x)
  BY <1>2, <1>5, <1>6, <1>7, <1>8, <1>9 DEF Atomic!Delete, SoftDeleteFile
<1>11. QED
  BY <1>10 DEF Atomic!Next

\* Every step of the system is a step of atomic uploads, or none.
LEMMA StepRefines ==
  Good /\ Good' /\ [Next]_vars => [Atomic!Next]_(Atomic!avars)
<1> SUFFICES ASSUME Good, Good', [Next]_vars PROVE [Atomic!Next]_(Atomic!avars)
  OBVIOUS
<1>1. CASE UNCHANGED <<fileStatus, current, verStatus, verFile, ver, reply>>
  <2>1. UNCHANGED <<fileStatus, Served, Published, Withdrawn>>
    BY <1>1, Quiet
  <2>2. UNCHANGED Told
    BY <1>1 DEF Told
  <2>3. QED
    BY <2>1, <2>2 DEF Atomic!avars
<1>2. ASSUME NEW s \in Session, PlanStep(s) \/ CommitStep(s) \/ ClientStep(s)
      PROVE  [Atomic!Next]_(Atomic!avars)
  BY <1>2, SessionQuiet, VersionQuiet, FileOpens, CommitPublishes
  DEF PlanStep, CommitStep, ClientStep
<1>3. CASE LifecycleNext /\ UNCHANGED uploadVars
  <2>1. ASSUME NEW x \in File, SoftDeleteFile(x) PROVE Atomic!Next
    BY <1>3, <2>1, DeleteWithdraws
  <2>2. CASE ReaperStep \/ ReapFails
    BY <1>1, <1>3, <2>2 DEF ReaperStep, IssueDeleteTicket, DeleteFragment, ConfirmDeleted,
                            ReapFails, tables, uploadVars
  <2>3. QED
    BY <1>3, <2>1, <2>2 DEF LifecycleNext
<1>4. CASE UNCHANGED vars
  BY <1>1, <1>4 DEF vars, tables, uploadVars
<1>5. QED
  BY <1>2, <1>3, <1>4 DEF Next, UploadNext

\* With clients that ask for as many receipts as CommitUpload does, uploads by
\* any number of clients, their aborts, retries and lost answers, deletes and
\* the reaper are atomic: a version appears whole and stays until its delete.
THEOREM UploadIsAtomic ==
  ASSUME ClientAssumption
  PROVE  Spec => ImplementsAtomicUpload
<1>1. Init => Atomic!Init
  <2> SUFFICES ASSUME Init PROVE Atomic!Init
    OBVIOUS
  <2>1. Served = [x \in File |-> None] /\ Withdrawn = {}
    BY DEF Init, TablesInit, Served, Withdrawn
  <2>2. Published = [x \in File |-> {}]
    BY DEF Init, TablesInit, Published, Whole
  <2>3. Told = [s \in Session |-> None]
    BY DEF Init, UploadInit, Told
  <2>4. QED
    BY <2>1, <2>2, <2>3 DEF Init, TablesInit, Atomic!Init
<1>2. Spec => []Good
  BY Invariance, CommitIsDurable, PTL DEF Good
<1>3. QED
  BY <1>1, <1>2, StepRefines, PTL DEF Spec, ImplementsAtomicUpload, Atomic!Spec
=============================================================================
