---------------------------- MODULE UploadProofs ----------------------------
(***************************************************************************)
(* Proofs that the upload protocol keeps its promises for every number of  *)
(* clients, files, versions, chunks, fragments and nodes.                  *)
(***************************************************************************)
EXTENDS UploadSystem, FiniteSetTheorems, TLAPS

\* The client asks for at least as many receipts as the commit does.
ClientAssumption == ClientThreshold \in Nat /\ ClientThreshold >= CommitThreshold

-----------------------------------------------------------------------------
(* The inductive invariant                                                 *)

GotOf(s, c) == {t \in got[s] : chunkOf[t[1]] = c}

\* A session that has not begun a plan holds nothing.
Fresh(s) ==
  /\ plan[s] = EmptyPlan
  /\ tickets[s] = {} /\ got[s] = {} /\ stored[s] = {}
  /\ reply[s] = "none"

\* What a session remembers refers to rows that exist and to its own version.
Grounded(s) ==
  /\ pc[s] \in {"idle", "write"} => Fresh(s)
  /\ pc[s] \notin {"idle", "write"} => ver[s] \in Version
  /\ ver[s] # None => verStatus[ver[s]] # "none"
  /\ file[s] # None => fileStatus[file[s]] # "none"
  /\ \A r \in plan[s].assigned \cup plan[s].todo \cup plan[s].pending : VersionOfRow(r) = ver[s]
  /\ \A t \in tickets[s] \cup got[s] : t[1] \in FragmentsOf(ver[s])
  /\ stored[s] \subseteq FragmentsOf(ver[s])

\* What a session has sent stays enough, what CommitUpload is about to count
\* is one receipt per fragment, and an accepted commit stays accepted.
Backed(s) ==
  /\ \A t \in got[s] : <<t[1], t[3]>> \in receipts
  /\ pc[s] \in {"commit", "done"} =>
       \A c \in ChunksOf(ver[s]) : Cardinality(GotOf(s, c)) >= ClientThreshold
  /\ pc[s] = "commit" => \A t, u \in got[s] : t[1] = u[1] => t = u
  /\ reply[s] = "ok" => ver[s] \in Version /\ verStatus[ver[s]] \in {"committed", "expired"}

SessionInv == \A s \in Session : Grounded(s) /\ Backed(s)

\* Rows refer to rows that exist.
RefInv ==
  /\ \A v \in Version : verStatus[v] # "none" =>
       verFile[v] \in File /\ fileStatus[verFile[v]] # "none"
  /\ \A r \in Row : placement[r] # "none" => verStatus[VersionOfRow(r)] # "none"

\* Only a deleted file's placements are given to the reaper.
RetiredInv ==
  /\ \A r \in Row : placement[r] \in {"expiring", "deleted"} =>
       verFile[VersionOfRow(r)] \in File /\ fileStatus[verFile[VersionOfRow(r)]] = "deleted"
  /\ reap # None => placement[reap.row] \in {"expiring", "deleted"}

\* A receipt stands for bytes on the disk until the reaper took them.
DiskInv ==
  \A r \in receipts : r \in disk \/ placement[r] \in {"expiring", "deleted"}

\* Fragments of chunk c for which some agent has signed a receipt.
Receipted(c) == {f \in Fragment : chunkOf[f] = c /\ \E n \in Node : <<f, n>> \in receipts}

\* Every chunk of a committed version has enough fragments with a receipt.
ReceiptedInv ==
  \A v \in Version : verStatus[v] = "committed" =>
    \A c \in ChunksOf(v) : Cardinality(Receipted(c)) >= CommitThreshold

Inv ==
  /\ TypeOK /\ SessionInv /\ RefInv /\ RetiredInv /\ DiskInv
  /\ FilesMatchVersions /\ StoredOnlyCommitted

-----------------------------------------------------------------------------
(* Types                                                                   *)

\* CommitUpload leaves the tables as they are or commits the version whole.
LEMMA CommitKinds ==
  ASSUME NEW s \in Session, CommitUpload(s)
  PROVE  \/ UNCHANGED tables
         \/ /\ verStatus[ver[s]] = "pending"
            /\ placement' = Promoted(stored[s])
            /\ verStatus' = [verStatus EXCEPT ![ver[s]] = "committed"]
            /\ fileStatus' = [fileStatus EXCEPT ![verFile[ver[s]]] = "active"]
            /\ current' = [current EXCEPT ![verFile[ver[s]]] = ver[s]]
            /\ UNCHANGED verFile
  BY DEF CommitUpload

\* The status updates keep placement a function from rows to statuses.
LEMMA UpdateTypes ==
  ASSUME placement \in [Row -> PlacementStatus]
  PROVE  /\ \A rows : Inserted(rows) \in [Row -> PlacementStatus]
         /\ \A frags : Promoted(frags) \in [Row -> PlacementStatus]
         /\ \A set, from : \A to \in PlacementStatus : Moved(set, from, to) \in [Row -> PlacementStatus]
  BY DEF Inserted, Promoted, Moved, PlacementStatus

\* Leaving a session keeps the session variables typed.
LEMMA LeaveTypes ==
  ASSUME UploadTypeOK, NEW s \in Session, Leave(s)
  PROVE  UploadTypeOK'
  BY DEF UploadTypeOK, Leave, Goto, Steps, Replies, Plans, EmptyPlan

\* So does a plan that fails.
LEMMA PlanFailsTypes ==
  ASSUME UploadTypeOK, NEW s \in Session, PlanFails(s)
  PROVE  UploadTypeOK'
  BY LeaveTypes DEF PlanFails, UploadTypeOK, Goto, Steps

\* And the answer to a plan that has its rows.
LEMMA PlanReplyTypes ==
  ASSUME UploadTypeOK, NEW s \in Session, NEW p, PlanReply(s, p)
  PROVE  UploadTypeOK'
<1>1. CASE PlanFails(s)
  BY <1>1, PlanFailsTypes
<1>2. CASE /\ \E byFrag \in OnePerFragment(p.pending) :
                tickets' = [tickets EXCEPT ![s] = PlanTickets(p, byFrag)]
           /\ plan' = [plan EXCEPT ![s] = EmptyPlan]
           /\ Goto(s, "client")
           /\ UNCHANGED <<file, ver, got, stored, reply>>
  BY <1>2 DEF UploadTypeOK, Goto, Steps, PlanTickets, EmptyPlan, Plans
<1>3. QED
  BY <1>1, <1>2 DEF PlanReply

\* A plan that is given rows is a plan.
LEMMA AssignTypes ==
  ASSUME NEW p \in Plans, NEW a \in SUBSET Row
  PROVE  [p EXCEPT !.assigned = a, !.todo = a] \in Plans
  BY Zenon DEF Plans

\* Every step keeps the types.
LEMMA TypeStep == TypeOK /\ [Next]_vars => TypeOK'
<1> SUFFICES ASSUME TypeOK, [Next]_vars PROVE TypeOK'
  OBVIOUS
<1> USE DEF TypeOK
<1>1. CASE UNCHANGED vars
  BY <1>1 DEF vars, tables, agents, uploadVars, TablesTypeOK, UploadTypeOK, LifecycleTypeOK
<1>2. ASSUME NEW s \in Session, BeginLookup(s), UNCHANGED reap PROVE TypeOK'
  BY <1>2 DEF BeginLookup, tables, agents, TablesTypeOK, UploadTypeOK, LifecycleTypeOK,
              Goto, Steps, LiveFiles, PendingVersions
<1>3. ASSUME NEW s \in Session, BeginResume(s), UNCHANGED reap PROVE TypeOK'
  BY <1>3 DEF BeginResume, tables, agents, TablesTypeOK, UploadTypeOK, LifecycleTypeOK,
              Goto, Steps, Plans, RowsOf
<1>4. ASSUME NEW s \in Session, BeginVersion(s), UNCHANGED reap PROVE TypeOK'
  BY <1>4, ManifestAssumption, SMTT(30)
  DEF BeginVersion, NewVersion, tables, agents, TablesTypeOK, UploadTypeOK, LifecycleTypeOK,
      Goto, Steps, Plans, EmptyPlan, VersionStatus
<1>5. ASSUME NEW s \in Session, BeginFile(s), UNCHANGED reap PROVE TypeOK'
  BY <1>5, ManifestAssumption, SMTT(30)
  DEF BeginFile, NewVersion, tables, agents, TablesTypeOK, UploadTypeOK, LifecycleTypeOK,
      Goto, Steps, Plans, EmptyPlan, VersionStatus, FileStatus
<1>6. ASSUME NEW s \in Session, BeginLoses(s) \/ Stop(s), UNCHANGED reap PROVE TypeOK'
  BY <1>6, LeaveTypes DEF BeginLoses, Stop, tables, agents, TablesTypeOK, LifecycleTypeOK
<1>7. ASSUME NEW s \in Session, Place(s), UNCHANGED reap PROVE TypeOK'
  <2> DEFINE Planned(a) == [plan[s] EXCEPT !.assigned = a, !.todo = a]
  <2>1. PICK a \in Assignments(Needs(s), Node) :
          \/ /\ plan' = [plan EXCEPT ![s] = Planned(a)]
             /\ Goto(s, "insert")
             /\ UNCHANGED <<file, ver, tickets, got, stored, reply>>
          \/ PlanReply(s, Planned(a))
    BY <1>7, Zenon DEF Place
  <2>2. a \subseteq Row
    BY DEF Assignments, Needs, FragmentsOf, Row
  <2>3. UploadTypeOK'
    <3>1. CASE PlanReply(s, Planned(a))
      BY <3>1, PlanReplyTypes
    <3>2. Planned(a) \in Plans
      BY <2>2, AssignTypes, Zenon DEF UploadTypeOK
    <3> HIDE DEF Planned
    <3>3. CASE /\ plan' = [plan EXCEPT ![s] = Planned(a)]
               /\ Goto(s, "insert")
               /\ UNCHANGED <<file, ver, tickets, got, stored, reply>>
      BY <3>2, <3>3 DEF UploadTypeOK, Goto, Steps
    <3>4. QED
      BY <2>1, <3>1, <3>3
  <2>4. QED
    BY <1>7, <2>3 DEF Place, tables, agents, TablesTypeOK, LifecycleTypeOK
<1>8. ASSUME NEW s \in Session, PlaceFails(s) \/ InsertFails(s), UNCHANGED reap PROVE TypeOK'
  BY <1>8, PlanFailsTypes DEF PlaceFails, InsertFails, tables, agents, TablesTypeOK, LifecycleTypeOK
<1>9. ASSUME NEW s \in Session, InsertPlacement(s), UNCHANGED reap PROVE TypeOK'
  <2> DEFINE Left(r) == [plan[s] EXCEPT !.todo = @ \ {r}]
  <2>1. PICK r \in plan[s].todo :
          /\ placement' = Inserted({r})
          /\ \/ /\ plan' = [plan EXCEPT ![s] = Left(r)]
                /\ UNCHANGED <<pc, file, ver, tickets, got, stored, reply>>
             \/ PlanReply(s, Left(r))
    BY <1>9, Zenon DEF InsertPlacement
  <2>2. UploadTypeOK'
    <3>1. CASE PlanReply(s, Left(r))
      BY <3>1, PlanReplyTypes
    <3>2. Left(r) \in Plans
      <4>1. plan[s] \in Plans
        BY DEF UploadTypeOK
      <4>2. plan[s].todo \ {r} \subseteq plan[s].todo
        OBVIOUS
      <4>3. QED
        BY <4>1, <4>2 DEF Plans
    <3>3. QED
      BY <2>1, <3>1, <3>2, ZenonT(30) DEF UploadTypeOK
  <2>3. placement' \in [Row -> PlacementStatus]
    BY <2>1, UpdateTypes DEF TablesTypeOK
  <2>4. QED
    BY <1>9, <2>2, <2>3, Zenon DEF InsertPlacement, agents, TablesTypeOK, LifecycleTypeOK
<1>10. ASSUME NEW s \in Session, AbortUpload(s), UNCHANGED reap PROVE TypeOK'
  <2>1. UploadTypeOK'
    BY <1>10, LeaveTypes DEF AbortUpload
  <2>2. TablesTypeOK'
    BY <1>10, Zenon DEF AbortUpload, agents, TablesTypeOK, PlacementStatus, VersionStatus
  <2>3. QED
    BY <1>10, <2>1, <2>2 DEF LifecycleTypeOK
<1>11. ASSUME NEW s \in Session, PutFragment(s), UNCHANGED reap PROVE TypeOK'
  BY <1>11 DEF PutFragment, tables, agents, TablesTypeOK, UploadTypeOK, LifecycleTypeOK, Ticket, Row
<1>12. ASSUME NEW s \in Session, VerifyReceipts(s), UNCHANGED reap PROVE TypeOK'
  <2>1. stored' \in [Session -> SUBSET Fragment]
    <3> DEFINE sent == {r[1] : r \in RowsOf(ver[s], {"stored"})} \cup {t[1] : t \in got[s]}
    <3>1. sent \subseteq Fragment
      BY DEF UploadTypeOK, RowsOf, Row, Ticket
    <3>2. stored' = [stored EXCEPT ![s] = sent] \/ stored' = stored
      BY <1>12 DEF VerifyReceipts
    <3>3. QED
      BY <3>1, <3>2 DEF UploadTypeOK
  <2>2. pc' \in [Session -> Steps] /\ reply' \in [Session -> Replies]
    BY <1>12 DEF VerifyReceipts, Answer, Goto, UploadTypeOK, Steps, Replies
  <2>3. QED
    BY <1>12, <2>1, <2>2, Zenon DEF VerifyReceipts, tables, agents, TablesTypeOK, UploadTypeOK, LifecycleTypeOK
<1>13. ASSUME NEW s \in Session, CommitUpload(s), UNCHANGED reap PROVE TypeOK'
  <2>1. UploadTypeOK'
    BY <1>13, SMTT(30) DEF CommitUpload, Answer, Goto, UploadTypeOK, Steps, Replies
  <2>2. TablesTypeOK'
    <3>1. CASE UNCHANGED tables
      BY <1>13, <3>1, SMTT(30) DEF CommitUpload, tables, agents, TablesTypeOK
    <3>2. CASE /\ placement' = Promoted(stored[s])
               /\ verStatus' = [verStatus EXCEPT ![ver[s]] = "committed"]
               /\ fileStatus' = [fileStatus EXCEPT ![verFile[ver[s]]] = "active"]
               /\ current' = [current EXCEPT ![verFile[ver[s]]] = ver[s]]
               /\ UNCHANGED verFile
      <4>1. placement' \in [Row -> PlacementStatus]
        BY <3>2, UpdateTypes DEF TablesTypeOK
      <4>2. QED
        BY <1>13, <3>2, <4>1, Zenon DEF CommitUpload, agents, TablesTypeOK, UploadTypeOK, FileStatus, VersionStatus
    <3>3. QED
      BY <1>13, <3>1, <3>2, CommitKinds
  <2>3. QED
    BY <1>13, <2>1, <2>2 DEF LifecycleTypeOK
<1>14. ASSUME NEW x \in File, SoftDeleteFile(x), UNCHANGED uploadVars PROVE TypeOK'
  BY <1>14, UpdateTypes
  DEF SoftDeleteFile, uploadVars, agents, TablesTypeOK, UploadTypeOK, LifecycleTypeOK,
      FileStatus, VersionStatus, PlacementStatus
<1>15. ASSUME ReaperStep \/ ReapFails, UNCHANGED uploadVars PROVE TypeOK'
  <2>1. /\ UploadTypeOK'
        /\ TablesTypeOK'
    BY <1>15, UpdateTypes
    DEF ReaperStep, ReapFails, IssueDeleteTicket, DeleteFragment, ConfirmDeleted,
        uploadVars, tables, agents, TablesTypeOK, UploadTypeOK, PlacementStatus
  <2>2. LifecycleTypeOK'
    BY <1>15
    DEF ReaperStep, ReapFails, IssueDeleteTicket, DeleteFragment, ConfirmDeleted,
        LifecycleTypeOK, ReapState
  <2>3. QED
    BY <2>1, <2>2
<1>16. QED
  BY <1>1, <1>2, <1>3, <1>4, <1>5, <1>6, <1>7, <1>8, <1>9, <1>10, <1>11, <1>12, <1>13, <1>14, <1>15, SMTT(30)
  DEF Next, UploadNext, PlanStep, CommitStep, ClientStep, LifecycleNext

-----------------------------------------------------------------------------
(* What no step takes back                                                 *)

\* Versions and files, once inserted, keep their file and are never removed;
\* a delete is final; receipts are never withdrawn.
Monotone ==
  /\ \A v \in Version : verStatus[v] # "none" => verStatus'[v] # "none" /\ verFile'[v] = verFile[v]
  /\ \A v \in Version : verStatus[v] \in {"committed", "expired"} =>
                        verStatus'[v] \in {"committed", "expired"}
  /\ \A x \in File : fileStatus[x] # "none" => fileStatus'[x] # "none"
  /\ \A x \in File : fileStatus[x] = "deleted" => fileStatus'[x] = "deleted"
  /\ receipts \subseteq receipts'

SessionStep(s) == PlanStep(s) \/ CommitStep(s) \/ ClientStep(s)

Same(q) ==
  /\ pc'[q] = pc[q] /\ file'[q] = file[q] /\ ver'[q] = ver[q] /\ plan'[q] = plan[q]
  /\ tickets'[q] = tickets[q] /\ got'[q] = got[q] /\ stored'[q] = stored[q]
  /\ reply'[q] = reply[q]

\* A session's step leaves the other sessions alone.
LEMMA OtherSessions ==
  ASSUME UploadTypeOK, NEW s \in Session, SessionStep(s), NEW q \in Session, q # s
  PROVE  Same(q)
<1> USE DEF UploadTypeOK, Same, Goto, Leave, Answer
<1>1. CASE BeginLookup(s)
  BY <1>1 DEF BeginLookup
<1>2. CASE BeginResume(s)
  BY <1>2 DEF BeginResume
<1>3. CASE BeginLoses(s)
  BY <1>3 DEF BeginLoses
<1>4. CASE Stop(s)
  BY <1>4 DEF Stop
<1>5. CASE BeginVersion(s) \/ BeginFile(s)
  BY <1>5 DEF BeginVersion, BeginFile, NewVersion
<1>6. CASE PlaceFails(s)
  BY <1>6 DEF PlaceFails, PlanFails
<1>7. CASE InsertFails(s)
  BY <1>7 DEF InsertFails, PlanFails
<1>8. CASE AbortUpload(s)
  BY <1>8 DEF AbortUpload
<1>9. CASE Place(s)
  BY <1>9 DEF Place, PlanReply, PlanFails
<1>10. CASE InsertPlacement(s)
  BY <1>10 DEF InsertPlacement, PlanReply, PlanFails
<1>11. CASE PutFragment(s)
  BY <1>11 DEF PutFragment
<1>12. CASE VerifyReceipts(s)
  BY <1>12, Zenon DEF VerifyReceipts
<1>13. CASE CommitUpload(s)
  BY <1>13 DEF CommitUpload
<1>14. QED
  BY <1>1, <1>2, <1>3, <1>4, <1>5, <1>6, <1>7, <1>8, <1>9, <1>10, <1>11, <1>12, <1>13, Zenon
  DEF SessionStep, PlanStep, CommitStep, ClientStep

\* Every step is monotone.
LEMMA MonotoneStep == TypeOK /\ SessionInv /\ RefInv /\ [Next]_vars => Monotone /\ RowsRetired
<1> SUFFICES ASSUME TypeOK, SessionInv, RefInv, [Next]_vars PROVE Monotone /\ RowsRetired
  OBVIOUS
<1> USE DEF TypeOK, TablesTypeOK, Monotone, RowsRetired
<1>1. CASE UNCHANGED <<tables, agents>>
  BY <1>1 DEF tables, agents
<1>2. ASSUME NEW s \in Session, BeginVersion(s) PROVE Monotone /\ RowsRetired
  BY <1>2 DEF BeginVersion, NewVersion, agents
<1>3. ASSUME NEW s \in Session, BeginFile(s) PROVE Monotone /\ RowsRetired
  BY <1>3 DEF BeginFile, NewVersion, agents
<1>4. ASSUME NEW s \in Session, InsertPlacement(s) PROVE Monotone /\ RowsRetired
  BY <1>4 DEF InsertPlacement, Inserted, agents
<1>5. ASSUME NEW s \in Session, AbortUpload(s) PROVE Monotone /\ RowsRetired
  BY <1>5 DEF AbortUpload, RowsOf, agents
<1>6. ASSUME NEW s \in Session, PutFragment(s) PROVE Monotone /\ RowsRetired
  BY <1>6 DEF PutFragment, tables
<1>7. ASSUME NEW s \in Session, CommitUpload(s) PROVE Monotone /\ RowsRetired
  BY <1>7, SMTT(30) DEF CommitUpload, Promoted, tables, agents
<1>8. ASSUME NEW x \in File, SoftDeleteFile(x) PROVE Monotone /\ RowsRetired
  BY <1>8 DEF SoftDeleteFile, Moved, agents
<1>9. CASE DeleteFragment
  BY <1>9 DEF DeleteFragment, tables
<1>10. CASE ConfirmDeleted
  BY <1>10 DEF ConfirmDeleted, Moved, agents
<1>11. QED
  BY <1>1, <1>2, <1>3, <1>4, <1>5, <1>6, <1>7, <1>8, <1>9, <1>10, ZenonT(30)
  DEF Next, vars, UploadNext, PlanStep, CommitStep, ClientStep, LifecycleNext, ReaperStep,
      BeginLookup, BeginResume, BeginLoses, Place, PlaceFails, InsertFails, VerifyReceipts,
      Stop, IssueDeleteTicket, ReapFails

\* A session that does not move stays grounded and backed.
LEMMA Frame ==
  ASSUME TypeOK, NEW q \in Session, Grounded(q), Backed(q), Same(q), Monotone
  PROVE  Grounded(q)' /\ Backed(q)'
<1>1. ver[q] \in Version \cup {None} /\ file[q] \in File \cup {None}
  BY DEF TypeOK, UploadTypeOK
<1>2. Grounded(q)'
  <2>1. Fresh(q)' <=> Fresh(q)
    BY DEF Same, Fresh
  <2>2. /\ ver'[q] # None => verStatus'[ver'[q]] # "none"
        /\ file'[q] # None => fileStatus'[file'[q]] # "none"
    BY <1>1 DEF Grounded, Same, Monotone
  <2>3. QED
    BY <2>1, <2>2 DEF Grounded, Same, VersionOfRow, FragmentsOf
<1>3. \A c : GotOf(q, c)' = GotOf(q, c)
  BY DEF GotOf, Same
<1>4. Backed(q)'
  BY <1>1, <1>3 DEF Backed, Same, Monotone, ChunksOf
<1>5. QED
  BY <1>2, <1>4

-----------------------------------------------------------------------------
(* Sessions                                                                *)

\* A session that holds nothing need only refer to rows that exist.
LEMMA FreshKeeps ==
  ASSUME NEW s \in Session, Fresh(s)', pc'[s] \in {"idle", "write", "place"},
         pc'[s] = "place" => ver'[s] \in Version,
         ver'[s] # None => verStatus'[ver'[s]] # "none",
         file'[s] # None => fileStatus'[file'[s]] # "none"
  PROVE  Grounded(s)' /\ Backed(s)'
<1>1. tickets'[s] = {} /\ got'[s] = {} /\ stored'[s] = {} /\ reply'[s] = "none"
  BY DEF Fresh
<1>2. plan'[s].assigned = {} /\ plan'[s].todo = {} /\ plan'[s].pending = {}
  BY DEF Fresh, EmptyPlan
<1>3. Grounded(s)'
  BY <1>1, <1>2 DEF Grounded
<1>4. Backed(s)'
  BY <1>1 DEF Backed
<1>5. QED
  BY <1>3, <1>4

\* A session that is over holds nothing.
LEMMA LeaveKeeps ==
  ASSUME UploadTypeOK, NEW s \in Session, Leave(s)
  PROVE  Grounded(s)' /\ Backed(s)'
<1>1. Fresh(s)' /\ pc'[s] = "idle" /\ ver'[s] = None /\ file'[s] = None
  BY DEF UploadTypeOK, Leave, Goto, Fresh
<1>2. QED
  BY <1>1, FreshKeeps

\* A plan that fails leaves the session to the compensator, or over.
LEMMA PlanFailsKeeps ==
  ASSUME TypeOK, NEW s \in Session, Grounded(s), Backed(s), Monotone, PlanFails(s),
         pc[s] \in {"place", "insert"}
  PROVE  Grounded(s)' /\ Backed(s)'
<1>1. CASE Leave(s)
  BY <1>1, LeaveKeeps DEF TypeOK
<1>2. CASE Goto(s, "abort") /\ UNCHANGED <<file, ver, plan, tickets, got, stored, reply>>
  BY <1>2 DEF TypeOK, UploadTypeOK, Goto, Grounded, Backed, Monotone, VersionOfRow, FragmentsOf
<1>3. QED
  BY <1>1, <1>2 DEF PlanFails

\* The tickets of a plan are for fragments of the session's version.
LEMMA PlanReplyKeeps ==
  ASSUME TypeOK, NEW s \in Session, Grounded(s), Backed(s), Monotone,
         pc[s] \in {"place", "insert"},
         NEW p, PlanReply(s, p),
         \A r \in p.assigned \cup p.pending : VersionOfRow(r) = ver[s]
  PROVE  Grounded(s)' /\ Backed(s)'
<1>1. CASE PlanFails(s)
  BY <1>1, PlanFailsKeeps, Zenon
<1>2. CASE /\ \E byFrag \in OnePerFragment(p.pending) :
                tickets' = [tickets EXCEPT ![s] = PlanTickets(p, byFrag)]
           /\ plan' = [plan EXCEPT ![s] = EmptyPlan]
           /\ Goto(s, "client")
           /\ UNCHANGED <<file, ver, got, stored, reply>>
  <2>1. \A byFrag : \A t \in PlanTickets(p, byFrag) : t[1] \in FragmentsOf(ver[s])
    BY DEF PlanTickets, Ticket, VersionOfRow, FragmentsOf
  <2>2. \A t \in tickets'[s] : t[1] \in FragmentsOf(ver[s])
    <3>1. PICK byFrag : tickets' = [tickets EXCEPT ![s] = PlanTickets(p, byFrag)]
      BY <1>2, Zenon
    <3>2. tickets'[s] = PlanTickets(p, byFrag)
      BY <3>1 DEF TypeOK, UploadTypeOK
    <3>3. QED
      BY <2>1, <3>2, Zenon
  <2>a. /\ pc'[s] = "client" /\ plan'[s].assigned = {} /\ plan'[s].todo = {} /\ plan'[s].pending = {}
        /\ file' = file /\ ver' = ver /\ got' = got /\ stored' = stored /\ reply' = reply
    <3>1. pc'[s] = "client" /\ plan'[s] = EmptyPlan
      BY <1>2 DEF TypeOK, UploadTypeOK, Goto
    <3>2. QED
      BY <1>2, <3>1 DEF EmptyPlan
  <2>b. ver[s] \in Version /\ file[s] \in File \cup {None}
    BY DEF Grounded, TypeOK, UploadTypeOK
  <2>c. /\ ver[s] # None => verStatus'[ver[s]] # "none"
        /\ file[s] # None => fileStatus'[file[s]] # "none"
    <3>1. /\ ver[s] # None => verStatus[ver[s]] # "none"
          /\ file[s] # None => fileStatus[file[s]] # "none"
      BY DEF Grounded
    <3>2. QED
      BY <2>b, <3>1, Zenon DEF Monotone
  <2>3. Grounded(s)'
    <3>1. \A t \in got[s] : t[1] \in FragmentsOf(ver[s])
      BY DEF Grounded
    <3>2. stored[s] \subseteq FragmentsOf(ver[s])
      BY DEF Grounded
    <3>3. QED
      BY <2>2, <2>a, <2>b, <2>c, <3>1, <3>2 DEF Grounded, FragmentsOf
  <2>4. Backed(s)'
    BY <2>a, <2>b DEF Backed, Monotone
  <2>5. QED
    BY <2>3, <2>4
<1>3. QED
  BY <1>1, <1>2, Zenon DEF PlanReply

\* A session that has looked up the path knows rows that exist.
LEMMA LookupKeeps ==
  ASSUME TypeOK, NEW s \in Session, Grounded(s), BeginLookup(s)
  PROVE  Grounded(s)' /\ Backed(s)'
<1>1. pc[s] = "idle" /\ pc'[s] = "write"
  BY DEF BeginLookup, Goto, TypeOK, UploadTypeOK
<1>2. Fresh(s)
  BY <1>1 DEF Grounded
<1>3. UNCHANGED <<tables, plan, tickets, got, stored, reply>>
  BY Zenon DEF BeginLookup
<1>4. file'[s] # None => fileStatus[file'[s]] # "none"
  BY DEF BeginLookup, LiveFiles, TypeOK, UploadTypeOK
<1>5. ver'[s] # None => verStatus[ver'[s]] # "none"
  BY DEF BeginLookup, PendingVersions, TypeOK, UploadTypeOK
<1>6. fileStatus' = fileStatus /\ verStatus' = verStatus
  BY <1>3 DEF tables
<1>7. Fresh(s)'
  BY <1>2, <1>3 DEF Fresh
<1>8. QED
  BY <1>1, <1>4, <1>5, <1>6, <1>7, FreshKeeps

\* The session that moves stays grounded and backed.
LEMMA SessionMoves ==
  ASSUME TypeOK, RefInv, Monotone, NEW s \in Session, Grounded(s), Backed(s), SessionStep(s)
  PROVE  Grounded(s)' /\ Backed(s)'
<1> USE DEF TypeOK, UploadTypeOK, Goto
<1>1. CASE BeginLookup(s)
  BY <1>1, LookupKeeps
<1>2. CASE BeginResume(s)
  <2>1. /\ pc[s] = "write" /\ ver[s] # None /\ pc'[s] = "place"
        /\ UNCHANGED <<tables, agents, file, ver, tickets, got, stored, reply>>
    BY <1>2 DEF BeginResume
  <2>2. plan'[s].assigned = {} /\ plan'[s].todo = {} /\ plan'[s].pending = RowsOf(ver[s], {"pending"})
    BY <1>2 DEF BeginResume
  <2>3. Fresh(s) /\ ver[s] \in Version
    BY <2>1 DEF Grounded
  <2>4. Grounded(s)'
    BY <2>1, <2>2, <2>3 DEF Grounded, RowsOf, tables
  <2>5. Backed(s)'
    BY <2>1, <2>3 DEF Backed, Fresh, tables, agents
  <2>6. QED
    BY <2>4, <2>5
<1>3. CASE BeginVersion(s) \/ BeginFile(s)
  <2>1. PICK v \in Version, x \in File \cup {None} : NewVersion(s, v, x)
    BY <1>3 DEF BeginVersion, BeginFile
  <2>2. Fresh(s) /\ UNCHANGED <<tickets, got, stored, reply>>
    BY <1>3, Zenon DEF BeginVersion, BeginFile, Grounded
  <2>3. pc'[s] = "place" /\ ver'[s] = v /\ verStatus'[v] # "none" /\ plan'[s] = EmptyPlan
    BY <2>1 DEF NewVersion, TablesTypeOK
  <2>4. file'[s] # None => fileStatus'[file'[s]] # "none"
    <3>1. CASE BeginVersion(s)
      BY <3>1, Zenon DEF BeginVersion, Grounded
    <3>2. CASE BeginFile(s)
      BY <3>2 DEF BeginFile, TablesTypeOK
    <3>3. QED
      BY <1>3, <3>1, <3>2, Zenon
  <2>5. Fresh(s)'
    BY <2>2, <2>3, Zenon DEF Fresh
  <2>6. QED
    BY <2>3, <2>4, <2>5, FreshKeeps, Zenon
<1>4. CASE BeginLoses(s) \/ Stop(s) \/ AbortUpload(s)
  BY <1>4, LeaveKeeps, Zenon DEF BeginLoses, Stop, AbortUpload
<1>5. CASE PlaceFails(s) \/ InsertFails(s)
  BY <1>5, PlanFailsKeeps DEF PlaceFails, InsertFails
<1>6. CASE Place(s)
  <2> DEFINE Planned(a) == [plan[s] EXCEPT !.assigned = a, !.todo = a]
  <2>1. PICK a \in Assignments(Needs(s), Node) :
          \/ /\ plan' = [plan EXCEPT ![s] = Planned(a)]
             /\ Goto(s, "insert")
             /\ UNCHANGED <<file, ver, tickets, got, stored, reply>>
          \/ PlanReply(s, Planned(a))
    BY <1>6, Zenon DEF Place
  <2>2. \A r \in a : VersionOfRow(r) = ver[s]
    BY Zenon DEF Assignments, Needs, FragmentsOf, VersionOfRow
  <2>3. /\ Planned(a).assigned = a /\ Planned(a).todo = a
        /\ Planned(a).pending = plan[s].pending
    BY DEF Plans
  <2>4. CASE PlanReply(s, Planned(a))
    <3>1. \A r \in Planned(a).assigned \cup Planned(a).pending : VersionOfRow(r) = ver[s]
      BY <2>2, <2>3 DEF Grounded
    <3>2. pc[s] \in {"place", "insert"}
      BY <1>6 DEF Place
    <3>3. QED
      BY <2>4, <3>1, <3>2, PlanReplyKeeps, Zenon
  <2>5. CASE /\ plan' = [plan EXCEPT ![s] = Planned(a)]
             /\ Goto(s, "insert")
             /\ UNCHANGED <<file, ver, tickets, got, stored, reply>>
    <3>1. plan'[s] = Planned(a) /\ pc'[s] = "insert"
      BY <2>5
    <3>2. pc[s] = "place" /\ UNCHANGED <<tables, agents>>
      BY <1>6 DEF Place
    <3>3. Grounded(s)'
      BY <2>2, <2>3, <2>5, <3>1, <3>2 DEF Grounded, tables, VersionOfRow, FragmentsOf
    <3>4. Backed(s)'
      BY <2>5, <3>1, <3>2 DEF Backed, tables, agents
    <3>5. QED
      BY <3>3, <3>4
  <2>6. QED
    BY <2>1, <2>4, <2>5
<1>7. CASE InsertPlacement(s)
  <2> DEFINE Left(r) == [plan[s] EXCEPT !.todo = @ \ {r}]
  <2>1. PICK r \in plan[s].todo :
          \/ /\ plan' = [plan EXCEPT ![s] = Left(r)]
             /\ UNCHANGED <<pc, file, ver, tickets, got, stored, reply>>
          \/ PlanReply(s, Left(r))
    BY <1>7, Zenon DEF InsertPlacement
  <2>2. /\ Left(r).assigned = plan[s].assigned /\ Left(r).todo \subseteq plan[s].todo
        /\ Left(r).pending = plan[s].pending
    BY DEF Plans
  <2>3. pc[s] = "insert"
    BY <1>7 DEF InsertPlacement
  <2>4. CASE PlanReply(s, Left(r))
    <3>1. \A q \in Left(r).assigned \cup Left(r).pending : VersionOfRow(q) = ver[s]
      BY <2>2 DEF Grounded
    <3>2. QED
      BY <2>3, <2>4, <3>1, PlanReplyKeeps, Zenon
  <2>5. CASE /\ plan' = [plan EXCEPT ![s] = Left(r)]
             /\ UNCHANGED <<pc, file, ver, tickets, got, stored, reply>>
    <3>1. plan'[s] = Left(r)
      BY <2>5
    <3>2. Grounded(s)'
      BY <2>2, <2>3, <2>5, <3>1, SMTT(30) DEF Grounded, Monotone, VersionOfRow, FragmentsOf
    <3>3. Backed(s)'
      BY <2>3, <2>5 DEF Backed, Monotone
    <3>4. QED
      BY <3>2, <3>3
  <2>6. QED
    BY <2>1, <2>4, <2>5
<1>8. CASE PutFragment(s)
  <2>1. PICK t \in tickets[s] :
          /\ receipts' = receipts \cup {<<t[1], t[3]>>}
          /\ tickets' = [tickets EXCEPT ![s] = @ \ {t}]
          /\ got'[s] \subseteq got[s] \cup {t}
    BY <1>8, ZenonT(30) DEF PutFragment
  <2>2. pc[s] = "client" /\ UNCHANGED <<tables, pc, file, ver, plan, stored, reply>>
    BY <1>8 DEF PutFragment
  <2>3. Grounded(s)'
    BY <2>1, <2>2, Zenon DEF Grounded, tables, VersionOfRow, FragmentsOf
  <2>4. Backed(s)'
    BY <2>1, <2>2, Zenon DEF Backed, tables
  <2>5. QED
    BY <2>3, <2>4
<1>9. CASE VerifyReceipts(s)
  <2>1. /\ pc[s] \in {"client", "done"}
        /\ \A c \in ChunksOf(ver[s]) : Cardinality(GotOf(s, c)) >= ClientThreshold
    BY <1>9, Zenon DEF VerifyReceipts, Submits, GotOf, Backed
  <2>2. /\ UNCHANGED <<tables, agents, file, ver, plan, got>>
        /\ tickets'[s] = {}
    BY <1>9, Zenon DEF VerifyReceipts
  <2>3. \/ /\ pc'[s] = "commit" /\ reply' = reply
           /\ stored'[s] = {r[1] : r \in RowsOf(ver[s], {"stored"})} \cup {t[1] : t \in got[s]}
           /\ \A t, u \in got[s] : t[1] = u[1] => t = u
        \/ pc'[s] = "done" /\ reply'[s] = "invalid" /\ stored' = stored
    BY <1>9, Zenon DEF VerifyReceipts, ReceiptsMatch, Answer
  <2>4. stored'[s] \subseteq FragmentsOf(ver[s])
    BY <2>3, SMTT(30) DEF Grounded, RowsOf, Row, VersionOfRow, FragmentsOf
  <2>5. Grounded(s)'
    BY <2>1, <2>2, <2>3, <2>4, Zenon DEF Grounded, tables
  <2>6. \A c : GotOf(s, c)' = GotOf(s, c)
    BY <2>2, Zenon DEF GotOf
  <2>7. Backed(s)'
    BY <2>1, <2>2, <2>3, <2>6, Zenon DEF Backed, tables, agents, ChunksOf
  <2>8. QED
    BY <2>5, <2>7
<1>10. CASE CommitUpload(s)
  <2>1. /\ pc[s] = "commit" /\ pc'[s] = "done" /\ stored'[s] = {}
        /\ UNCHANGED <<agents, file, ver, plan, tickets, got>>
    BY <1>10 DEF CommitUpload, Answer
  <2>2. reply'[s] = "ok" => verStatus'[ver[s]] = "committed"
    BY <1>10, Zenon DEF CommitUpload, Answer, Grounded, tables, TablesTypeOK, Replies
  <2>3. Grounded(s)'
    BY <2>1, Zenon DEF Grounded, Monotone, VersionOfRow, FragmentsOf
  <2>4. \A c : GotOf(s, c)' = GotOf(s, c)
    BY <2>1, Zenon DEF GotOf
  <2>5. Backed(s)'
    BY <2>1, <2>2, <2>4, Zenon DEF Backed, Grounded, agents, ChunksOf
  <2>6. QED
    BY <2>3, <2>5
<1>11. QED
  BY <1>1, <1>2, <1>3, <1>4, <1>5, <1>6, <1>7, <1>8, <1>9, <1>10, SMTT(30)
  DEF SessionStep, PlanStep, CommitStep, ClientStep

\* Every step keeps every session grounded and backed.
LEMMA SessionInvStep == TypeOK /\ SessionInv /\ RefInv /\ [Next]_vars => SessionInv'
<1> SUFFICES ASSUME TypeOK, SessionInv, RefInv, [Next]_vars, NEW q \in Session
             PROVE  Grounded(q)' /\ Backed(q)'
  BY DEF SessionInv
<1>1. Monotone
  BY MonotoneStep
<1>2. Grounded(q) /\ Backed(q)
  BY DEF SessionInv
<1>3. CASE UNCHANGED uploadVars
  BY <1>1, <1>2, <1>3, Frame DEF uploadVars, Same
<1>4. ASSUME NEW s \in Session, SessionStep(s) PROVE Grounded(q)' /\ Backed(q)'
  <2>1. CASE q = s
    BY <1>1, <1>2, <1>4, <2>1, SessionMoves
  <2>2. CASE q # s
    BY <1>1, <1>2, <1>4, <2>2, OtherSessions, Frame, SMTT(30) DEF TypeOK
  <2>3. QED
    BY <2>1, <2>2
<1>5. QED
  BY <1>3, <1>4 DEF Next, vars, UploadNext, SessionStep

-----------------------------------------------------------------------------
(* Tables                                                                  *)

\* Rows keep referring to rows that exist.
LEMMA RefInvStep == Inv /\ [Next]_vars => RefInv'
<1> SUFFICES ASSUME Inv, [Next]_vars PROVE RefInv'
  OBVIOUS
<1> USE DEF Inv, TypeOK, TablesTypeOK, RefInv
<1>0. \A r \in Row : VersionOfRow(r) \in Version
  BY ManifestAssumption DEF Row, VersionOfRow
<1>1. CASE UNCHANGED tables
  BY <1>1, SMTT(30) DEF tables, VersionOfRow
<1>2. ASSUME NEW s \in Session, BeginVersion(s) PROVE RefInv'
  <2>1. file[s] \in File /\ fileStatus[file[s]] # "none"
    <3>1. file[s] # None /\ file[s] \in File \cup {None}
      BY <1>2 DEF BeginVersion, UploadTypeOK
    <3>2. Grounded(s)
      BY DEF SessionInv
    <3>3. QED
      BY <3>1, <3>2, Zenon DEF Grounded
  <2>2. PICK v \in Version : NewVersion(s, v, file[s])
    BY <1>2 DEF BeginVersion
  <2>3. UNCHANGED <<fileStatus, placement>>
    BY <1>2 DEF BeginVersion
  <2>4. QED
    BY <1>0, <2>1, <2>2, <2>3 DEF NewVersion, VersionOfRow
<1>3. ASSUME NEW s \in Session, BeginFile(s) PROVE RefInv'
  BY <1>3 DEF BeginFile, NewVersion, VersionOfRow
<1>4. ASSUME NEW s \in Session, InsertPlacement(s) PROVE RefInv'
  <2>1. \A r \in plan[s].todo : verStatus[VersionOfRow(r)] # "none"
    BY <1>4, ManifestAssumption DEF InsertPlacement, SessionInv, Grounded
  <2>2. QED
    BY <1>4, <2>1 DEF InsertPlacement, Inserted, VersionOfRow
<1>5. ASSUME NEW s \in Session, AbortUpload(s) PROVE RefInv'
  <2>1. \A v \in Version : verStatus'[v] # "none" <=> verStatus[v] # "none"
    BY <1>5 DEF AbortUpload
  <2>2. \A r \in Row : placement'[r] # "none" => placement[r] # "none"
    BY <1>5 DEF AbortUpload
  <2>3. UNCHANGED <<fileStatus, verFile>>
    BY <1>5 DEF AbortUpload
  <2>4. QED
    BY <1>0, <2>1, <2>2, <2>3, SMTT(30) DEF VersionOfRow
<1>6. ASSUME NEW s \in Session, CommitUpload(s) PROVE RefInv'
  <2>1. CASE UNCHANGED tables
    BY <2>1, <1>1
  <2>2. CASE /\ placement' = Promoted(stored[s])
             /\ verStatus' = [verStatus EXCEPT ![ver[s]] = "committed"]
             /\ fileStatus' = [fileStatus EXCEPT ![verFile[ver[s]]] = "active"]
             /\ UNCHANGED verFile
             /\ verStatus[ver[s]] = "pending"
    <3>1. \A v \in Version : verStatus'[v] # "none" => verStatus[v] # "none"
      BY <2>2
    <3>2. \A r \in Row : placement'[r] # "none" => placement[r] # "none"
      BY <2>2 DEF Promoted
    <3>3. \A v \in Version : verStatus[v] # "none" => verStatus'[v] # "none"
      BY <2>2
    <3>4. \A x \in File : fileStatus[x] # "none" => fileStatus'[x] # "none"
      BY <2>2
    <3>5. QED
      BY <1>0, <2>2, <3>1, <3>2, <3>3, <3>4, SMTT(30) DEF VersionOfRow
  <2>3. QED
    BY <1>6, <2>1, <2>2, CommitKinds
<1>7. ASSUME NEW x \in File, SoftDeleteFile(x) PROVE RefInv'
  <2>1. \A v \in Version : verStatus'[v] # "none" <=> verStatus[v] # "none"
    BY <1>7 DEF SoftDeleteFile
  <2>2. \A r \in Row : placement'[r] # "none" => placement[r] # "none"
    BY <1>7 DEF SoftDeleteFile, Moved
  <2>3. UNCHANGED verFile /\ \A y \in File : fileStatus[y] # "none" => fileStatus'[y] # "none"
    BY <1>7 DEF SoftDeleteFile
  <2>4. QED
    BY <1>0, <2>1, <2>2, <2>3, SMTT(30) DEF VersionOfRow
<1>8. CASE ConfirmDeleted
  BY <1>8 DEF ConfirmDeleted, Moved, VersionOfRow
<1>9. QED
  BY <1>1, <1>2, <1>3, <1>4, <1>5, <1>6, <1>7, <1>8, ZenonT(30)
  DEF Next, vars, UploadNext, PlanStep, CommitStep, ClientStep, LifecycleNext, ReaperStep,
      BeginLookup, BeginResume, BeginLoses, Place, PlaceFails, InsertFails, VerifyReceipts,
      Stop, PutFragment, IssueDeleteTicket, DeleteFragment, ReapFails

\* A version's file is fixed once it is inserted, so rows stay where they are.
LEMMA RowFile ==
  ASSUME Inv, Monotone, NEW r \in Row, placement[r] # "none"
  PROVE  /\ VersionOfRow(r) \in Version
         /\ verFile'[VersionOfRow(r)] = verFile[VersionOfRow(r)]
         /\ verFile[VersionOfRow(r)] \in File
  BY ManifestAssumption, Zenon DEF Inv, RefInv, Monotone, Row, VersionOfRow

\* Only a deleted file's placements go to the reaper.
LEMMA RetiredInvStep == Inv /\ [Next]_vars => RetiredInv'
<1> SUFFICES ASSUME Inv, [Next]_vars PROVE RetiredInv'
  OBVIOUS
<1>1. Monotone /\ RowsRetired
  BY MonotoneStep DEF Inv
<1>2. ASSUME NEW r \in Row, placement'[r] \in {"expiring", "deleted"}
      PROVE  /\ verFile'[VersionOfRow(r)] \in File
             /\ fileStatus'[verFile'[VersionOfRow(r)]] = "deleted"
  <2>1. CASE placement[r] \in {"expiring", "deleted"}
    BY <1>1, <2>1, RowFile DEF Inv, RetiredInv, Monotone
  <2>2. CASE placement[r] \notin {"expiring", "deleted"}
    <3>1. PICK x \in File : SoftDeleteFile(x)
      <4>1. placement' # placement
        BY <1>2, <2>2
      <4>2. ASSUME NEW s \in Session PROVE ~InsertPlacement(s) /\ ~AbortUpload(s)
        BY <1>2, <2>2, Zenon DEF InsertPlacement, AbortUpload, Inserted
      <4>3. ASSUME NEW s \in Session PROVE ~CommitUpload(s)
        BY <1>2, <2>2, <4>1 DEF CommitUpload, tables, Promoted
      <4>4. ~ConfirmDeleted
        BY <1>2, <2>2, Zenon DEF ConfirmDeleted, Moved
      <4>5. QED
        BY <4>1, <4>2, <4>3, <4>4, ZenonT(30)
        DEF Next, vars, tables, UploadNext, PlanStep, CommitStep, ClientStep, LifecycleNext,
            ReaperStep, BeginLookup, BeginResume, BeginVersion, BeginFile, BeginLoses, Place,
            PlaceFails, InsertFails, VerifyReceipts, Stop, PutFragment, IssueDeleteTicket,
            DeleteFragment, ReapFails
    <3>2. verFile[VersionOfRow(r)] = x
      BY <1>2, <2>2, <3>1, Zenon DEF SoftDeleteFile, Moved
    <3>3. QED
      BY <3>1, <3>2 DEF SoftDeleteFile, Inv, TypeOK, TablesTypeOK
  <2>3. QED
    BY <2>1, <2>2
<1>3. reap' # None => placement'[reap'.row] \in {"expiring", "deleted"}
  <2>1. CASE reap' = reap
    BY <1>1, <2>1 DEF Inv, TypeOK, LifecycleTypeOK, ReapState, RetiredInv, RowsRetired
  <2>2. ASSUME NEW r \in Row, IssueDeleteTicket(r) PROVE placement'[reap'.row] \in {"expiring", "deleted"}
    BY <2>2 DEF IssueDeleteTicket, tables
  <2>3. CASE DeleteFragment
    BY <2>3 DEF DeleteFragment, tables, Inv, TypeOK, LifecycleTypeOK, ReapState, RetiredInv
  <2>4. QED
    BY <2>1, <2>2, <2>3, Zenon DEF Next, vars, LifecycleNext, ReaperStep, SoftDeleteFile, ConfirmDeleted, ReapFails
<1>4. QED
  BY <1>2, <1>3 DEF RetiredInv, VersionOfRow

\* A receipt stands for bytes on a disk until the reaper took them.
LEMMA DiskInvStep == Inv /\ [Next]_vars => DiskInv'
<1> SUFFICES ASSUME Inv, [Next]_vars, NEW r \in receipts'
             PROVE  r \in disk' \/ placement'[r] \in {"expiring", "deleted"}
  BY DEF DiskInv
<1>1. RowsRetired
  BY MonotoneStep DEF Inv
<1>2. receipts \subseteq Row
  BY DEF Inv, TypeOK, TablesTypeOK
<1>3. CASE UNCHANGED agents
  BY <1>1, <1>2, <1>3 DEF agents, Inv, DiskInv, RowsRetired
<1>4. ASSUME NEW s \in Session, PutFragment(s)
      PROVE  r \in disk' \/ placement'[r] \in {"expiring", "deleted"}
  BY <1>4 DEF PutFragment, tables, Inv, DiskInv
<1>5. CASE DeleteFragment
  BY <1>5 DEF DeleteFragment, tables, Inv, DiskInv, RetiredInv
<1>6. QED
  BY <1>3, <1>4, <1>5, ZenonT(30)
  DEF Next, vars, UploadNext, PlanStep, CommitStep, ClientStep, LifecycleNext, ReaperStep,
      BeginLookup, BeginResume, BeginVersion, BeginFile, BeginLoses, Place, PlaceFails,
      InsertPlacement, InsertFails, AbortUpload, VerifyReceipts, CommitUpload, Stop,
      SoftDeleteFile, IssueDeleteTicket, ConfirmDeleted, ReapFails

\* files, file_versions and current_version keep agreeing.
LEMMA FilesStep == Inv /\ [Next]_vars => FilesMatchVersions'
<1> SUFFICES ASSUME Inv, [Next]_vars PROVE FilesMatchVersions'
  OBVIOUS
<1> USE DEF Inv, TypeOK, TablesTypeOK, FilesMatchVersions
<1>1. CASE UNCHANGED <<fileStatus, current, verStatus, verFile>>
  BY <1>1
<1>2. ASSUME NEW s \in Session, BeginVersion(s) PROVE FilesMatchVersions'
  <2>1. PICK v \in Version : NewVersion(s, v, file[s])
    BY <1>2, Zenon DEF BeginVersion
  <2>2. UNCHANGED <<fileStatus, current>>
    BY <1>2, Zenon DEF BeginVersion
  <2>3. QED
    BY <2>1, <2>2 DEF NewVersion
<1>3. ASSUME NEW s \in Session, BeginFile(s) PROVE FilesMatchVersions'
  <2>1. PICK x \in File, v \in Version :
          /\ fileStatus[x] = "none"
          /\ fileStatus' = [fileStatus EXCEPT ![x] = "uploading"]
          /\ NewVersion(s, v, x)
    BY <1>3, Zenon DEF BeginFile
  <2>2. UNCHANGED current
    BY <1>3 DEF BeginFile
  <2>3. QED
    BY <2>1, <2>2, SMTT(30) DEF NewVersion
<1>4. ASSUME NEW s \in Session, AbortUpload(s) PROVE FilesMatchVersions'
  BY <1>4 DEF AbortUpload
<1>5. ASSUME NEW s \in Session, CommitUpload(s) PROVE FilesMatchVersions'
  <2>1. ver[s] \in Version /\ verFile[ver[s]] \in File
    BY <1>5, ManifestAssumption, ZenonT(30) DEF CommitUpload, SessionInv, Grounded, RefInv
  <2>2. CASE UNCHANGED tables
    BY <2>2, <1>1 DEF tables
  <2>3. CASE /\ verStatus' = [verStatus EXCEPT ![ver[s]] = "committed"]
             /\ fileStatus' = [fileStatus EXCEPT ![verFile[ver[s]]] = "active"]
             /\ current' = [current EXCEPT ![verFile[ver[s]]] = ver[s]]
             /\ UNCHANGED verFile
    BY <2>1, <2>3
  <2>4. QED
    BY <1>5, <2>2, <2>3, CommitKinds
<1>6. ASSUME NEW x \in File, SoftDeleteFile(x) PROVE FilesMatchVersions'
  BY <1>6 DEF SoftDeleteFile
<1>7. QED
  BY <1>1, <1>2, <1>3, <1>4, <1>5, <1>6, ZenonT(30)
  DEF Next, vars, UploadNext, PlanStep, CommitStep, ClientStep, LifecycleNext, ReaperStep,
      BeginLookup, BeginResume, BeginLoses, Place, PlaceFails, InsertFails, VerifyReceipts,
      Stop, PutFragment, IssueDeleteTicket, DeleteFragment, ReapFails,
      InsertPlacement, ConfirmDeleted, tables

\* Only placements of committed versions are stored.
LEMMA StoredStep == Inv /\ [Next]_vars => StoredOnlyCommitted'
<1> SUFFICES ASSUME Inv, [Next]_vars PROVE StoredOnlyCommitted'
  OBVIOUS
<1> USE DEF Inv, TypeOK, TablesTypeOK, StoredOnlyCommitted
<1>0. \A r \in Row : VersionOfRow(r) \in Version
  BY ManifestAssumption DEF Row, VersionOfRow
<1>1. CASE UNCHANGED <<verStatus, placement>>
  BY <1>1 DEF VersionOfRow
<1>2. ASSUME NEW s \in Session, BeginVersion(s) \/ BeginFile(s) PROVE StoredOnlyCommitted'
  BY <1>0, <1>2, Zenon DEF BeginVersion, BeginFile, NewVersion, VersionOfRow
<1>3. ASSUME NEW s \in Session, InsertPlacement(s) PROVE StoredOnlyCommitted'
  BY <1>3 DEF InsertPlacement, Inserted, VersionOfRow
<1>4. ASSUME NEW s \in Session, AbortUpload(s) PROVE StoredOnlyCommitted'
  BY <1>0, <1>4, Zenon DEF AbortUpload, VersionOfRow
<1>5. ASSUME NEW s \in Session, CommitUpload(s) PROVE StoredOnlyCommitted'
  <2>1. CASE UNCHANGED tables
    BY <2>1 DEF tables, VersionOfRow
  <2>2. CASE /\ placement' = Promoted(stored[s])
             /\ verStatus' = [verStatus EXCEPT ![ver[s]] = "committed"]
    <3>1. \A r \in Row : r[1] \in stored[s] => VersionOfRow(r) = ver[s]
      BY Zenon DEF SessionInv, Grounded, FragmentsOf, VersionOfRow
    <3>2. QED
      BY <1>0, <2>2, <3>1, Zenon DEF Promoted, VersionOfRow
  <2>3. QED
    BY <1>5, <2>1, <2>2, CommitKinds
<1>6. ASSUME NEW x \in File, SoftDeleteFile(x) PROVE StoredOnlyCommitted'
  BY <1>0, <1>6 DEF SoftDeleteFile, Moved, VersionOfRow
<1>7. CASE ConfirmDeleted
  BY <1>7 DEF ConfirmDeleted, Moved, VersionOfRow
<1>8. QED
  BY <1>1, <1>2, <1>3, <1>4, <1>5, <1>6, <1>7, ZenonT(30)
  DEF Next, vars, UploadNext, PlanStep, CommitStep, ClientStep, LifecycleNext, ReaperStep,
      BeginLookup, BeginResume, BeginLoses, Place, PlaceFails, InsertFails, VerifyReceipts,
      Stop, PutFragment, IssueDeleteTicket, DeleteFragment, ReapFails, tables

-----------------------------------------------------------------------------
(* Enough fragments behind a commit                                        *)

\* A chunk's receipts, one per fragment, are as many fragments.
LEMMA ReceiptsCount ==
  ASSUME TypeOK, ClientAssumption, NEW s \in Session, Grounded(s), Backed(s), pc[s] = "commit",
         NEW c \in ChunksOf(ver[s])
  PROVE  Cardinality(Receipted(c)) >= CommitThreshold
<1> DEFINE G == GotOf(s, c)
           R == Receipted(c)
           first == [t \in G |-> t[1]]
<1>1. IsFiniteSet(R)
  BY ManifestAssumption, FS_Subset DEF Receipted
<1>2. \A t \in G : t[1] \in R
  BY DEF TypeOK, UploadTypeOK, Ticket, GotOf, Receipted, Backed
<1>3. \A t, u \in G : t[1] = u[1] => t = u
  BY DEF GotOf, Backed
<1>4. first \in Injection(G, R)
  BY <1>2, <1>3 DEF Injection, IsInjective
<1>5. Cardinality(G) <= Cardinality(R) /\ IsFiniteSet(G)
  BY <1>1, <1>4, FS_Injection
<1>6. Cardinality(G) >= ClientThreshold
  BY DEF Backed
<1>7. Cardinality(G) \in Nat /\ Cardinality(R) \in Nat
  BY <1>1, <1>5, FS_CardinalityType
<1> HIDE DEF G, R
<1>8. Cardinality(R) >= CommitThreshold
  BY <1>5, <1>6, <1>7, ThresholdAssumption DEF ClientAssumption
<1>9. QED
  BY <1>8 DEF R

\* A commit finds enough receipted fragments, and receipts stay.
LEMMA ReceiptedStep == ClientAssumption /\ Inv /\ ReceiptedInv /\ [Next]_vars => ReceiptedInv'
<1> SUFFICES ASSUME ClientAssumption, Inv, ReceiptedInv, [Next]_vars,
                    NEW v \in Version, verStatus'[v] = "committed", NEW c \in ChunksOf(v)
             PROVE  Cardinality(Receipted(c)') >= CommitThreshold
  BY DEF ReceiptedInv, ChunksOf
<1>1. Monotone
  BY MonotoneStep DEF Inv
<1>2. Cardinality(Receipted(c)) >= CommitThreshold
  <2>1. CASE verStatus[v] = "committed"
    BY <2>1 DEF ReceiptedInv
  <2>2. CASE verStatus[v] # "committed"
    <3>1. PICK s \in Session : CommitUpload(s) /\ ver[s] = v
      <4>1. ASSUME NEW s \in Session, CommitUpload(s) PROVE ver[s] = v
        BY <2>2, <4>1, Zenon DEF CommitUpload, tables, Inv, TypeOK, TablesTypeOK
      <4>2. ASSUME NEW s \in Session, BeginVersion(s) \/ BeginFile(s) PROVE FALSE
        BY <2>2, <4>2, Zenon DEF BeginVersion, BeginFile, NewVersion, Inv, TypeOK, TablesTypeOK
      <4>3. ASSUME NEW s \in Session, AbortUpload(s) PROVE FALSE
        BY <2>2, <4>3, Zenon DEF AbortUpload, Inv, TypeOK, TablesTypeOK
      <4>4. ASSUME NEW x \in File, SoftDeleteFile(x) PROVE FALSE
        BY <2>2, <4>4, Zenon DEF SoftDeleteFile
      <4>5. CASE UNCHANGED verStatus
        BY <2>2, <4>5
      <4>6. QED
        BY <4>1, <4>2, <4>3, <4>4, <4>5, ZenonT(30)
        DEF Next, vars, UploadNext, PlanStep, CommitStep, ClientStep, LifecycleNext, ReaperStep,
            BeginLookup, BeginResume, BeginLoses, Place, PlaceFails, InsertPlacement, InsertFails,
            VerifyReceipts, Stop, PutFragment, IssueDeleteTicket, DeleteFragment, ConfirmDeleted,
            ReapFails, tables
    <3>2. pc[s] = "commit" /\ Grounded(s) /\ Backed(s)
      BY <3>1, Zenon DEF CommitUpload, Inv, SessionInv
    <3>3. QED
      BY <3>1, <3>2, ReceiptsCount DEF Inv
  <2>3. QED
    BY <2>1, <2>2
<1>3. Receipted(c) \subseteq Receipted(c)'
  BY <1>1, Zenon DEF Monotone, Receipted
<1>4. IsFiniteSet(Receipted(c)')
  BY ManifestAssumption, FS_Subset DEF Receipted
<1>5. /\ Cardinality(Receipted(c)) <= Cardinality(Receipted(c)')
      /\ IsFiniteSet(Receipted(c))
  BY <1>3, <1>4, FS_Subset
<1>6. Cardinality(Receipted(c)) \in Nat /\ Cardinality(Receipted(c)') \in Nat
  BY <1>4, <1>5, FS_CardinalityType
<1>7. QED
  BY <1>2, <1>5, <1>6, ThresholdAssumption

-----------------------------------------------------------------------------
(* The theorems                                                            *)

\* The tables and the sessions always have the statuses and references the
\* code gives them.
THEOREM TypeCorrect == Spec => []TypeOK
<1>1. ASSUME Init PROVE TypeOK
  <2>1. TablesTypeOK
    BY <1>1 DEF Init, TablesInit, TablesTypeOK, FileStatus, VersionStatus, PlacementStatus
  <2>2. EmptyPlan \in Plans
    BY DEF EmptyPlan, Plans
  <2>3. UploadTypeOK
    BY <1>1, <2>2 DEF Init, UploadInit, UploadTypeOK, Steps, Replies
  <2>4. LifecycleTypeOK
    BY <1>1 DEF Init, LifecycleInit, LifecycleTypeOK, ReapState
  <2>5. QED
    BY <2>1, <2>3, <2>4 DEF TypeOK
<1>2. QED
  BY <1>1, TypeStep, PTL DEF Spec

\* Inv is inductive: it holds of the empty tables and every step keeps it.
THEOREM Invariance == Spec => []Inv
<1>1. Init => Inv
  <2> SUFFICES ASSUME Init PROVE Inv
    OBVIOUS
  <2>1. TypeOK
    BY Zenon DEF Init, TablesInit, UploadInit, LifecycleInit, TypeOK, TablesTypeOK, UploadTypeOK,
           LifecycleTypeOK, FileStatus, VersionStatus, PlacementStatus, Steps, Replies, Plans,
           EmptyPlan, ReapState
  <2>2. SessionInv
    BY Zenon DEF Init, UploadInit, SessionInv, Grounded, Backed, Fresh, EmptyPlan
  <2>3. RefInv /\ RetiredInv /\ DiskInv /\ FilesMatchVersions /\ StoredOnlyCommitted
    BY DEF Init, TablesInit, LifecycleInit, RefInv, RetiredInv, DiskInv, FilesMatchVersions,
           StoredOnlyCommitted
  <2>4. QED
    BY <2>1, <2>2, <2>3 DEF Inv
<1>2. Inv /\ [Next]_vars => Inv'
  BY TypeStep, SessionInvStep, RefInvStep, RetiredInvStep, DiskInvStep, FilesStep, StoredStep
  DEF Inv
<1>3. QED
  BY <1>1, <1>2, PTL DEF Spec

\* Whatever BeginUpload, AbortUpload, CommitUpload and SoftDeleteFile interleave,
\* an active file has a committed current version of its own and a committed
\* version has an active file.
THEOREM FilesAgree == Spec => []FilesMatchVersions
<1>1. Inv => FilesMatchVersions
  BY DEF Inv
<1>2. QED
  BY <1>1, Invariance, PTL

\* Only placements of committed versions are ever stored, so billing stops with
\* the delete and never starts for an upload that did not commit.
THEOREM StoredAreCommitted == Spec => []StoredOnlyCommitted
<1>1. Inv => StoredOnlyCommitted
  BY DEF Inv
<1>2. QED
  BY <1>1, Invariance, PTL

\* A commit the client was told of is taken back by nothing but a delete.
THEOREM AcknowledgedStays == Spec => []AcknowledgedKept
<1>1. Inv => AcknowledgedKept
  BY DEF Inv, SessionInv, Backed, AcknowledgedKept
<1>2. QED
  BY <1>1, Invariance, PTL

\* No step of any client, of a delete or of the reaper brings an expiring or
\* deleted placement back.
THEOREM RowsStayRetired == Spec => RowRetired
<1>1. Inv /\ [Next]_vars => [RowsRetired]_placement
  BY MonotoneStep DEF Inv
<1>2. QED
  BY <1>1, Invariance, PTL DEF Spec, RowRetired

\* No step brings a deleted file back, whatever version a session still commits
\* under it.
THEOREM DeletedStays == Spec => DeletedFinal
<1> DEFINE Kept == \A x \in File : fileStatus[x] = "deleted" => fileStatus'[x] = "deleted"
<1>1. Inv /\ [Next]_vars => [Kept]_vars
  BY MonotoneStep DEF Inv, Monotone
<1>2. QED
  BY <1>1, Invariance, PTL DEF Spec, DeletedFinal

\* With a client that asks for as many receipts as CommitUpload does, every
\* chunk of a committed version is on disks in at least CommitThreshold
\* different fragments.
THEOREM CommitIsDurable ==
  ASSUME ClientAssumption
  PROVE  Spec => []CommittedOnDisk
<1>1. Init => ReceiptedInv
  BY DEF Init, TablesInit, ReceiptedInv
<1>2. Spec => []ReceiptedInv
  <2>1. Inv /\ ReceiptedInv /\ [Next]_vars => ReceiptedInv'
    BY ReceiptedStep
  <2>2. QED
    BY <1>1, <2>1, Invariance, PTL DEF Spec
<1>3. Inv /\ ReceiptedInv => CommittedOnDisk
  <2> SUFFICES ASSUME Inv, ReceiptedInv,
                      NEW v \in Version, verStatus[v] = "committed", NEW c \in ChunksOf(v)
               PROVE  Cardinality(OnDisk(c)) >= CommitThreshold
    BY DEF CommittedOnDisk
  <2>1. \A r \in receipts : VersionOfRow(r) = v => r \in disk
    BY DEF Inv, DiskInv, RetiredInv, FilesMatchVersions, TypeOK, TablesTypeOK
  <2>2. Receipted(c) \subseteq OnDisk(c)
    BY <2>1 DEF Receipted, OnDisk, ChunksOf, VersionOfRow
  <2>3. IsFiniteSet(OnDisk(c))
    BY ManifestAssumption, FS_Subset DEF OnDisk
  <2>4. /\ Cardinality(Receipted(c)) <= Cardinality(OnDisk(c))
        /\ IsFiniteSet(Receipted(c))
    BY <2>2, <2>3, FS_Subset
  <2>5. Cardinality(Receipted(c)) \in Nat /\ Cardinality(OnDisk(c)) \in Nat
    BY <2>3, <2>4, FS_CardinalityType
  <2>6. Cardinality(Receipted(c)) >= CommitThreshold
    BY DEF ReceiptedInv
  <2>7. QED
    BY <2>4, <2>5, <2>6, ThresholdAssumption
<1>4. QED
  BY <1>2, <1>3, Invariance, PTL
=============================================================================
