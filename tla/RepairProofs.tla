---------------------------- MODULE RepairProofs ----------------------------
(***************************************************************************)
(* Proofs about RepairSystem: what repair, flap handling and the reaper    *)
(* keep of a committed file, for any number of nodes, workers, failures    *)
(* and faults.                                                             *)
(***************************************************************************)
EXTENDS RepairSystem, FiniteSetTheorems, TLAPS

\* Given up to the reaper.
Retired(r) == placement[r] \in {"expiring", "deleted"}
\* Some agent has ever signed for the fragment.
Signed(f) == \E n \in Node : <<f, n>> \in receipts
\* An intact copy of f that the reaper will not take, on one of the nodes.
KeptOn(f, nodes) == \E n \in nodes : <<f, n>> \in disk /\ ~Retired(<<f, n>>)

\* A worker's record: what it puts are rows, what it commits is signed for.
WorkRec(jobset, signed) ==
  [at : WorkSteps, job : jobset, sources : SUBSET Row, targets : SUBSET Row,
   needs : SUBSET Fragment, todo : SUBSET Row, recs : SUBSET signed]
WorkOK(x, signed) == x \in WorkRec({x.job}, signed)

OnRec == [node : Node, rows : SUBSET Row, surplus : SUBSET Row, at : {"check", "restore", "expire"}]

\* The types the argument needs.
Shape ==
  /\ placement \in [Row -> PlacementStatus]
  /\ disk \subseteq receipts /\ receipts \subseteq Row
  /\ missing \in Nat
  /\ on \in OnRec \cup {None}
  /\ reap \in ReapState
  /\ work = [w \in Worker |-> work[w]] /\ \A w \in Worker : WorkOK(work[w], receipts)

\* Flap handling and the reaper act on rows they read earlier: the rows of the
\* one are still lost, or given up; once checked, they are signed for, and on
\* the disk as long as they are lost.  The reaper's row is given up for good.
HandlerInv ==
  /\ on # None =>
       /\ \A r \in on.rows \cup on.surplus : r[2] = on.node
       /\ on.at # "expire" => \A r \in on.rows : placement[r] \in {"lost", "expiring", "deleted"}
       /\ on.at = "restore" => \A r \in on.rows : r \in receipts /\ (placement[r] = "lost" => r \in disk)
  /\ reap # None => Retired(reap.row)

\* A fragment whose copies are all there: its stored rows are signed for, only
\* the reaper has removed a copy, and if it was ever put or given up there is a
\* copy that stays, also without the rows flap handling is about to give up.
Whole(f) ==
  /\ \A n \in Node :
       /\ placement[<<f, n>>] = "stored" => <<f, n>> \in receipts
       /\ <<f, n>> \in receipts \ disk => Retired(<<f, n>>)
  /\ verStatus[versionOf[chunkOf[f]]] = "committed" =>
       /\ Signed(f) \/ (\E n \in Node : Retired(<<f, n>>)) => KeptOn(f, Node)
       /\ on # None => \A r \in on.surplus : r[1] = f => KeptOn(f, Node \ {r[2]})

\* All fragments are whole but for as many as copies are missing.
CopyInv == \E hit \in SUBSET Fragment :
  Cardinality(hit) <= missing /\ \A f \in Fragment \ hit : Whole(f)

\* As many fragments of each chunk were put as a commit requires.
SignedFragments(c) == {f \in Fragment : chunkOf[f] = c /\ Signed(f)}
SignedInv ==
  /\ \A r \in Row : placement[r] = "stored" => Signed(r[1])
  /\ \A c \in Chunk : Cardinality(SignedFragments(c)) >= CommitThreshold

Inv == Shape /\ HandlerInv /\ CopyInv /\ SignedInv

-----------------------------------------------------------------------------
(* What a step does to the rows, the disks and the handlers                *)

core == <<placement, disk, receipts, missing, verStatus, on, reap>>

\* Rows are inserted; or moved to lost, while copies are put.
Inserts(rows) ==
  placement' = Inserted(rows) /\ UNCHANGED <<disk, receipts, missing, verStatus, on, reap>>
MarksLost(rows, put) ==
  /\ placement' = Moved(rows, {"pending", "stored"}, "lost")
  /\ disk' = disk \cup put /\ receipts' = receipts \cup put
  /\ UNCHANGED <<missing, verStatus, on, reap>>
\* The handler of node.online is done, or never was.
LetsGo == on' = None /\ UNCHANGED <<placement, disk, receipts, missing, verStatus, reap>>
Rots(r) ==
  /\ placement[r] = "stored"
  /\ placement' = Moved({r}, {"pending", "stored"}, "lost")
  /\ disk' = disk \ {r} /\ missing' = missing + 1
  /\ UNCHANGED <<receipts, verStatus, on, reap>>

Lists(n) == OnlineList(n) /\ UNCHANGED reap
Checks == OnlineCheck /\ UNCHANGED reap
Restores == OnlineRestore /\ UNCHANGED reap
Expires == OnlineExpire /\ UNCHANGED reap
Commits(w) == CommitRepair(w) /\ UNCHANGED reap

\* The kinds of steps the core tells apart.
CoreStep ==
  \/ UNCHANGED core
  \/ \E rows \in SUBSET Row : Inserts(rows)
  \/ \E rows, put \in SUBSET Row : MarksLost(rows, put)
  \/ \E r \in Row : Rots(r)
  \/ LetsGo
  \/ (\E n \in Node : Lists(n)) \/ Checks \/ Restores \/ Expires
  \/ \E w \in Worker : Commits(w)
  \/ (ReaperStep \/ ReapFails) /\ UNCHANGED repairVars
  \/ \E x \in File : SoftDeleteFile(x) /\ UNCHANGED repairVars

\* Every step is of one of these kinds.
LEMMA StepKinds ==
  ASSUME Shape, [Next]_vars
  PROVE  CoreStep
<1>1. ASSUME NEW n \in Node, NodeGoesOffline(n) \/ NodeComesOnline(n), UNCHANGED reap PROVE CoreStep
  BY <1>1 DEF NodeGoesOffline, NodeComesOnline, CoreStep, core, tables, agents
<1>2. ASSUME NEW r \in Row, AuditFails(r), UNCHANGED reap PROVE CoreStep
  <2>1. CASE disk' = disk \ {r} /\ missing' = missing + 1
    BY <1>2, <2>1, Zenon DEF AuditFails, CoreStep, Rots, files
  <2>2. CASE UNCHANGED <<disk, missing>>
    <3>1. MarksLost({r}, {})
      BY <1>2, <2>2 DEF AuditFails, MarksLost, files
    <3>2. QED
      BY <3>1 DEF CoreStep
  <2>3. QED
    BY <1>2, <2>1, <2>2 DEF AuditFails
<1>3. ASSUME OfflineFails \/ (\E c \in Chunk : OfflinePublish(c)), UNCHANGED reap PROVE CoreStep
  BY <1>3, Zenon DEF OfflineFails, OfflinePublish, CoreStep, core, tables, agents, monitor
<1>4. ASSUME NEW n \in Node, OfflineMark(n), UNCHANGED reap PROVE CoreStep
  <2>1. PICK rows \in SUBSET Row : placement' = Moved(rows, {"pending", "stored"}, "lost")
    BY <1>4 DEF OfflineMark
  <2>2. MarksLost(rows, {})
    BY <1>4, <2>1 DEF OfflineMark, MarksLost, files, agents, monitor
  <2>3. QED
    BY <2>2 DEF CoreStep
<1>5. ASSUME OnlineFails \/ Restart, UNCHANGED reap PROVE CoreStep
  BY <1>5 DEF OnlineFails, Restart, CoreStep, LetsGo, tables, agents, monitor
<1>6. ASSUME OnlineStep, UNCHANGED reap PROVE CoreStep
  BY <1>6 DEF OnlineStep, CoreStep, Lists, Checks, Restores, Expires
<1>7. ASSUME NEW w \in Worker, UNCHANGED reap,
             \/ \E j \in jobs : TakeJob(w, j)
             \/ RepairPlace(w) \/ Fetch(w) \/ VerifyRepair(w) \/ Recheck(w) \/ JobFails(w)
      PROVE  CoreStep
  BY <1>7, Zenon DEF TakeJob, RepairPlace, Fetch, VerifyRepair, Recheck, JobFails, CoreStep, core, tables,
              agents, monitor
<1>8. ASSUME NEW w \in Worker, RepairInsert(w), UNCHANGED reap PROVE CoreStep
  <2>1. PICK r \in work[w].todo : placement' = Inserted({r})
    BY <1>8 DEF RepairInsert
  <2>2. {r} \in SUBSET Row
    BY DEF Shape, WorkOK, WorkRec
  <2>3. Inserts({r})
    BY <1>8, <2>1 DEF RepairInsert, Inserts, files, agents, monitor
  <2>4. QED
    BY <2>2, <2>3 DEF CoreStep
<1>9. ASSUME NEW w \in Worker, PutTarget(w), UNCHANGED reap PROVE CoreStep
  <2>1. PICK t \in work[w].todo : disk' = disk \cup {t} /\ receipts' = receipts \cup {t}
    BY <1>9 DEF PutTarget
  <2>2. {t} \in SUBSET Row
    BY DEF Shape, WorkOK, WorkRec
  <2>3. placement' = Moved({}, {"pending", "stored"}, "lost")
    BY <1>9 DEF PutTarget, tables, Moved, Shape
  <2>4. MarksLost({}, {t})
    BY <1>9, <2>1, <2>3 DEF PutTarget, MarksLost, tables, monitor
  <2>5. QED
    BY <2>2, <2>4 DEF CoreStep
<1>10. ASSUME NEW w \in Worker, PutFails(w), UNCHANGED reap PROVE CoreStep
  <2>1. PICK t \in work[w].todo :
          /\ \/ disk' = disk \cup {t} /\ receipts' = receipts \cup {t}
             \/ UNCHANGED agents
          /\ placement' = Moved({t}, {"pending", "stored"}, "lost")
    BY <1>10, Zenon DEF PutFails
  <2>2. {t} \in SUBSET Row
    BY DEF Shape, WorkOK, WorkRec
  <2>3. MarksLost({t}, {t}) \/ MarksLost({t}, {})
    BY <1>10, <2>1 DEF PutFails, MarksLost, files, agents, monitor
  <2>4. QED
    BY <2>2, <2>3 DEF CoreStep
<1>11. ASSUME NEW w \in Worker, CommitRepair(w), UNCHANGED reap PROVE CoreStep
  BY <1>11 DEF CoreStep, Commits
<1>12. CASE UNCHANGED vars
  BY <1>12 DEF vars, tables, agents, repairVars, monitor, CoreStep, core
<1>13. CASE KeepNext
  <2>1. CASE (ReaperStep \/ ReapFails) /\ UNCHANGED repairVars
    BY <2>1 DEF CoreStep
  <2>2. CASE EnvironmentStep /\ UNCHANGED reap
    BY <2>2, <1>1, <1>2, <1>3, <1>5, <1>7, <1>10 DEF EnvironmentStep
  <2>3. CASE OfflineStep /\ UNCHANGED reap
    BY <2>3, <1>3, <1>4 DEF OfflineStep
  <2>4. CASE (\E w \in Worker : JobStep(w)) /\ UNCHANGED reap
    BY <2>4, <1>7, <1>8, <1>9, <1>11 DEF JobStep
  <2>5. QED
    BY <1>13, <1>6, <2>1, <2>2, <2>3, <2>4 DEF KeepNext, RepairNext
<1>14. QED
  BY <1>12, <1>13 DEF Next, CoreStep

-----------------------------------------------------------------------------
(* Types                                                                   *)

\* The updates the job loop makes to a worker's record.
LEMMA WorkUpdates ==
  ASSUME NEW signed, NEW x, WorkOK(x, signed)
  PROVE  /\ \A a \in WorkSteps : WorkOK([x EXCEPT !.at = a], signed)
         /\ \A a \in WorkSteps, rows \in SUBSET Row : WorkOK([x EXCEPT !.at = a, !.todo = rows], signed)
         /\ \A rows \in SUBSET Row :
              WorkOK([x EXCEPT !.targets = @ \cup rows, !.needs = {}, !.todo = rows], signed)
         /\ \A r : WorkOK([x EXCEPT !.todo = @ \ {r}], signed)
         /\ \A r : WorkOK([x EXCEPT !.todo = @ \ {r}, !.recs = @ \cup {r}], signed \cup {r})
  BY Zenon DEF WorkOK, WorkRec

\* The record of a worker that has nothing, or a plan of its job.
LEMMA WorkStarts ==
  ASSUME NEW signed, NEW j, NEW sources \in SUBSET Row, NEW targets \in SUBSET Row, NEW needs \in SUBSET Fragment
  PROVE  /\ WorkOK(Idle, signed)
         /\ WorkOK([Idle EXCEPT !.job = j, !.sources = sources, !.targets = targets, !.needs = needs], signed)
  BY Zenon DEF WorkOK, WorkRec, Idle, WorkSteps

\* A worker's record is replaced by a good one, or none is.
WorkStep ==
  \/ work' = work
  \/ \E w \in Worker : \E rec : WorkOK(rec, receipts') /\ work' = [work EXCEPT ![w] = rec]

\* What PlanDone and PutDone leave.
LEMMA WorkDone ==
  ASSUME NEW w \in Worker, NEW rec, WorkOK(rec, receipts'), PlanDone(w, rec) \/ PutDone(w, rec)
  PROVE  WorkStep
<1>1. WorkOK(Idle, receipts')
  BY WorkStarts, Zenon
<1>2. WorkOK([rec EXCEPT !.at = "fetch"], receipts') /\ WorkOK([rec EXCEPT !.at = "verify"], receipts')
  BY WorkUpdates, Zenon DEF WorkSteps
<1>3. QED
  BY <1>1, <1>2 DEF PlanDone, PutDone, Step, WorkStep

\* Every step changes at most one worker's record, and keeps it good; Restart
\* empties them all.
LEMMA WorkMoves ==
  ASSUME Shape, [Next]_vars
  PROVE  WorkStep \/ work' = [w \in Worker |-> Idle]
<1>0. \A w \in Worker : WorkOK(work[w], receipts)
  BY DEF Shape
<1>1. ASSUME NEW w \in Worker, NEW j \in jobs, TakeJob(w, j) PROVE WorkStep
  <2>1. receipts' = receipts
    BY <1>1, Zenon DEF TakeJob, agents
  <2>2. CASE UNCHANGED work
    BY <2>2 DEF WorkStep
  <2>3. CASE work' # work
    <3>1. PICK live \in OnePerFragment(Preferred(j[1])) :
            LET sources == {r \in live : placement[r] = "stored"}
                targets == {r \in live \ sources : r[2] \in Online}
                needs == {f \in Fragment : chunkOf[f] = j[1]} \ {r[1] : r \in sources \cup targets}
                rec == [Idle EXCEPT !.job = j, !.sources = sources, !.targets = targets,
                                    !.needs = needs]
            IN PlanDone(w, rec) \/ Step(w, [rec EXCEPT !.at = "place"])
      BY <1>1, <2>3, Zenon DEF TakeJob
    <3> DEFINE sources == {r \in live : placement[r] = "stored"}
               targets == {r \in live \ sources : r[2] \in Online}
               needs == {f \in Fragment : chunkOf[f] = j[1]} \ {r[1] : r \in sources \cup targets}
               rec == [Idle EXCEPT !.job = j, !.sources = sources, !.targets = targets,
                                   !.needs = needs]
    <3>2. live \subseteq Row
      BY DEF OnePerFragment, Preferred, RowsOfChunk
    <3>3. sources \in SUBSET Row /\ targets \in SUBSET Row /\ needs \in SUBSET Fragment
      BY <3>2
    <3> HIDE DEF sources, targets, needs
    <3>4. WorkOK(rec, receipts')
      BY <3>3, WorkStarts, Zenon
    <3>5. PlanDone(w, rec) \/ Step(w, [rec EXCEPT !.at = "place"])
      BY <3>1 DEF sources, targets, needs
    <3> HIDE DEF rec
    <3>6. WorkOK([rec EXCEPT !.at = "place"], receipts')
      BY <3>4, WorkUpdates, Zenon DEF WorkSteps
    <3>7. QED
      BY <3>4, <3>5, <3>6, WorkDone DEF Step, WorkStep
  <2>4. QED
    BY <2>2, <2>3
<1>2. ASSUME NEW w \in Worker, RepairPlace(w) PROVE WorkStep
  <2>1. PICK a \in Assignments(work[w].needs, Online) :
          LET rec == [work[w] EXCEPT !.targets = @ \cup a, !.needs = {}, !.todo = a]
          IN  PlanDone(w, rec) \/ Step(w, [rec EXCEPT !.at = "insert"])
    BY <1>2, Zenon DEF RepairPlace
  <2> DEFINE rec == [work[w] EXCEPT !.targets = @ \cup a, !.needs = {}, !.todo = a]
  <2>2. a \in SUBSET Row
    BY <1>0 DEF Assignments, Online, Row, WorkOK, WorkRec
  <2>3. WorkOK(rec, receipts')
    BY <1>0, <1>2, <2>2, WorkUpdates, Zenon DEF RepairPlace, agents
  <2>4. PlanDone(w, rec) \/ Step(w, [rec EXCEPT !.at = "insert"])
    BY <2>1
  <2> HIDE DEF rec
  <2>5. WorkOK([rec EXCEPT !.at = "insert"], receipts')
    BY <2>3, WorkUpdates, Zenon DEF WorkSteps
  <2>6. QED
    BY <2>3, <2>4, <2>5, WorkDone DEF Step, WorkStep
<1>3. ASSUME NEW w \in Worker, RepairInsert(w) PROVE WorkStep
  <2>1. PICK r \in work[w].todo :
          LET rec == [work[w] EXCEPT !.todo = @ \ {r}] IN PlanDone(w, rec) \/ Step(w, rec)
    BY <1>3, Zenon DEF RepairInsert
  <2> DEFINE rec == [work[w] EXCEPT !.todo = @ \ {r}]
  <2>2. WorkOK(rec, receipts')
    BY <1>0, <1>3, WorkUpdates, Zenon DEF RepairInsert, agents
  <2>3. PlanDone(w, rec) \/ Step(w, rec)
    BY <2>1
  <2> HIDE DEF rec
  <2>4. QED
    BY <2>2, <2>3, WorkDone DEF Step, WorkStep
<1>4. ASSUME NEW w \in Worker, Fetch(w) PROVE WorkStep
  <2>1. receipts' = receipts
    BY <1>4 DEF Fetch, agents
  <2>2. WorkOK([work[w] EXCEPT !.at = "put", !.todo = work[w].targets], receipts)
    <3>1. work[w].targets \in SUBSET Row
      BY <1>0 DEF WorkOK, WorkRec
    <3>2. QED
      BY <1>0, <3>1, WorkUpdates, Zenon DEF WorkSteps
  <2>3. WorkOK(Idle, receipts)
    BY WorkStarts, Zenon
  <2>4. QED
    BY <1>4, <2>1, <2>2, <2>3 DEF Fetch, Step, WorkStep
<1>5. ASSUME NEW w \in Worker, PutTarget(w) PROVE WorkStep
  <2>1. PICK t \in work[w].todo :
          /\ receipts' = receipts \cup {t}
          /\ PutDone(w, [work[w] EXCEPT !.todo = @ \ {t}, !.recs = @ \cup {t}])
    BY <1>5, Zenon DEF PutTarget
  <2>2. WorkOK([work[w] EXCEPT !.todo = @ \ {t}, !.recs = @ \cup {t}], receipts')
    BY <1>0, <2>1, WorkUpdates, Zenon
  <2>3. QED
    BY <2>1, <2>2, WorkDone
<1>6. ASSUME NEW w \in Worker, PutFails(w) PROVE WorkStep
  <2>1. PICK t \in work[w].todo : PutDone(w, [work[w] EXCEPT !.todo = @ \ {t}])
    BY <1>6 DEF PutFails
  <2>2. receipts \subseteq receipts'
    BY <1>6 DEF PutFails, agents
  <2>3. WorkOK([work[w] EXCEPT !.todo = @ \ {t}], receipts)
    BY <1>0, WorkUpdates, Zenon
  <2> DEFINE rec == [work[w] EXCEPT !.todo = @ \ {t}]
  <2> HIDE DEF rec
  <2>4. WorkOK(rec, receipts')
    BY <2>2, <2>3 DEF WorkOK, WorkRec, rec
  <2>5. QED
    BY <2>1, <2>4, WorkDone DEF rec
<1>7. ASSUME NEW w \in Worker, VerifyRepair(w) \/ CommitRepair(w) \/ Recheck(w) \/ JobFails(w) PROVE WorkStep
  <2>1. receipts' = receipts
    BY <1>7 DEF VerifyRepair, CommitRepair, Recheck, JobFails, agents
  <2>2. /\ WorkOK([work[w] EXCEPT !.at = "commit"], receipts)
        /\ WorkOK([work[w] EXCEPT !.at = "recheck"], receipts)
    BY <1>0, WorkUpdates, Zenon DEF WorkSteps
  <2>3. WorkOK(Idle, receipts)
    BY WorkStarts, Zenon
  <2>4. QED
    BY <1>7, <2>1, <2>2, <2>3 DEF VerifyRepair, CommitRepair, Recheck, JobFails, Step, WorkStep
<1>8. ASSUME UNCHANGED repairVars \/ OfflineStep \/ OnlineStep PROVE WorkStep
  BY <1>8, Zenon DEF repairVars, OfflineStep, OnlineStep, OfflineMark, OfflinePublish, OnlineList, OnlineCheck,
              OnlineRestore, OnlineExpire, WorkStep
<1>9. ASSUME EnvironmentStep PROVE WorkStep \/ work' = [w \in Worker |-> Idle]
  BY <1>9, <1>6, <1>7, Zenon DEF EnvironmentStep, NodeGoesOffline, NodeComesOnline, AuditFails, OfflineFails,
              OnlineFails, Restart, WorkStep
<1>10. QED
  BY <1>1, <1>2, <1>3, <1>4, <1>5, <1>7, <1>8, <1>9
  DEF Next, KeepNext, RepairNext, JobStep, vars, repairVars, WorkStep

\* The rows are finitely many.
LEMMA RowFinite == IsFiniteSet(Row)
  BY FS_Product, ManifestAssumption, RepairAssumption DEF Row

\* Status updates stay within the statuses.
LEMMA UpdateTypes ==
  ASSUME placement \in [Row -> PlacementStatus], NEW rows, NEW from, NEW to \in PlacementStatus
  PROVE  /\ Moved(rows, from, to) \in [Row -> PlacementStatus]
         /\ Inserted(rows) \in [Row -> PlacementStatus]
         /\ Promoted(rows) \in [Row -> PlacementStatus]
  BY DEF Moved, Inserted, Promoted, PlacementStatus

\* The kinds of steps keep the types.
LEMMA ShapeStep ==
  ASSUME Shape, [Next]_vars
  PROVE  Shape'
<1>1. CoreStep
  BY StepKinds
<1>2. receipts \subseteq receipts' /\ receipts' \subseteq Row /\ disk' \subseteq receipts'
  BY <1>1, Zenon DEF CoreStep, core, Inserts, MarksLost, Rots, LetsGo, Lists, Checks, Restores, Expires, Commits,
     OnlineList, OnlineCheck, OnlineRestore, OnlineExpire, CommitRepair, ReaperStep, ReapFails,
     IssueDeleteTicket, DeleteFragment, ConfirmDeleted, SoftDeleteFile, agents, Shape
<1>3. placement' \in [Row -> PlacementStatus]
  <2>0. placement \in [Row -> PlacementStatus] /\ {"lost", "stored", "expiring", "deleted"} \subseteq PlacementStatus
    BY DEF Shape, PlacementStatus
  <2>1. \/ placement' = placement
        \/ \E rows : placement' = Inserted(rows) \/ placement' = Promoted(rows)
        \/ \E rows, from : \E to \in PlacementStatus : placement' = Moved(rows, from, to)
    BY <1>1, <2>0, Zenon
    DEF CoreStep, core, Inserts, MarksLost, Rots, LetsGo, Lists, Checks, Restores, Expires, Commits,
       OnlineList, OnlineCheck, OnlineRestore, OnlineExpire, CommitRepair, ReaperStep, ReapFails,
       IssueDeleteTicket, DeleteFragment, ConfirmDeleted, SoftDeleteFile, tables
  <2>2. ASSUME NEW rows, placement' = Inserted(rows) \/ placement' = Promoted(rows)
        PROVE  placement' \in [Row -> PlacementStatus]
    BY <2>0, <2>2, UpdateTypes, Zenon
  <2>3. ASSUME NEW rows, NEW from, NEW to \in PlacementStatus, placement' = Moved(rows, from, to)
        PROVE  placement' \in [Row -> PlacementStatus]
    BY <2>0, <2>3, UpdateTypes
  <2>4. QED
    BY <2>0, <2>1, <2>2, <2>3, Zenon
<1>4. missing' \in Nat
  <2>1. ASSUME NEW w \in Worker, Commits(w) PROVE missing' \in Nat
    <3> DEFINE U == Unsigned({r[1] : r \in work[w].recs})
    <3>1. IsFiniteSet(U)
      BY RowFinite, FS_Subset DEF Unsigned
    <3>2. Cardinality(U) \in Nat
      BY <3>1, FS_CardinalityType
    <3>3. missing' = missing + Cardinality(U)
      BY <2>1 DEF Commits, CommitRepair
    <3>4. QED
      BY <3>2, <3>3 DEF Shape
  <2>2. ASSUME UNCHANGED repairVars \/ UNCHANGED monitor PROVE missing' = missing
    BY <2>2 DEF repairVars, monitor
  <2>3. ASSUME (\E n \in Node : Lists(n)) \/ Checks \/ Restores \/ Expires PROVE UNCHANGED monitor
    BY <2>3, Zenon DEF Lists, Checks, Restores, Expires, OnlineList, OnlineCheck, OnlineRestore, OnlineExpire
  <2>4. missing' \in {missing, missing + 1} \/ \E w \in Worker : Commits(w)
    BY <1>1, <2>2, <2>3, Zenon DEF CoreStep, core, Inserts, MarksLost, Rots, LetsGo
  <2>5. QED
    BY <2>1, <2>4 DEF Shape
<1>5. on' \in OnRec \cup {None}
  <2>1. ASSUME NEW n \in Node, Lists(n) PROVE on' \in OnRec \cup {None}
    BY <2>1 DEF Lists, OnlineList, Shape, OnRec
  <2>2. CASE Checks
    <3>1. PICK ok \in SUBSET (on.rows \cap disk) : on' = None \/ on' = [on EXCEPT !.rows = ok, !.at = "restore"]
      BY <2>2, Zenon DEF Checks, OnlineCheck
    <3>2. on \in OnRec
      BY <2>2 DEF Checks, OnlineCheck, Shape
    <3>3. QED
      BY <3>1, <3>2, Zenon DEF OnRec
  <2>3. CASE Restores \/ Expires
    BY <2>3 DEF Restores, Expires, OnlineRestore, OnlineExpire, Shape, OnRec
  <2>4. QED
    BY <1>1, <2>1, <2>2, <2>3, Zenon
    DEF CoreStep, core, Inserts, MarksLost, Rots, LetsGo, Commits, CommitRepair, repairVars, Shape
<1>6. reap' \in ReapState
  <2>1. ASSUME ReaperStep \/ ReapFails PROVE reap' \in ReapState
    BY <2>1 DEF ReaperStep, ReapFails, IssueDeleteTicket, DeleteFragment, ConfirmDeleted, ReapState, Shape
  <2>2. reap' = reap \/ ReaperStep \/ ReapFails
    BY <1>1, Zenon DEF CoreStep, core, Inserts, MarksLost, Rots, LetsGo, Lists, Checks, Restores, Expires, Commits,
       SoftDeleteFile
  <2>3. QED
    BY <2>1, <2>2 DEF Shape
<1>7. work' = [w \in Worker |-> work'[w]] /\ \A w \in Worker : WorkOK(work'[w], receipts')
  <2>1. \A x : WorkOK(x, receipts) => WorkOK(x, receipts')
    BY <1>2 DEF WorkOK, WorkRec
  <2>2. CASE WorkStep
    BY <2>1, <2>2 DEF WorkStep, Shape
  <2>3. CASE work' = [w \in Worker |-> Idle]
    BY <2>3, WorkStarts, Zenon
  <2>4. QED
    BY <2>2, <2>3, WorkMoves
<1>8. QED
  BY <1>2, <1>3, <1>4, <1>5, <1>6, <1>7 DEF Shape

-----------------------------------------------------------------------------
(* Rows read earlier                                                       *)

\* No step brings a row back that was given up, makes a lost one pending, or
\* a version committed.
LEMMA RowsStep ==
  ASSUME Shape, [Next]_vars
  PROVE  /\ RowsRetired
         /\ \A r \in Row : Retired(r) => Retired(r)'
         /\ \A r \in Row : placement[r] = "lost" => placement'[r] \in {"lost", "stored", "expiring"}
         /\ \A v \in Version : verStatus'[v] = "committed" => verStatus[v] = "committed"
<1>1. CoreStep
  BY StepKinds
<1>2. placement \in [Row -> PlacementStatus]
  BY DEF Shape
<1>3. \/ placement' = placement
      \/ \E rows : placement' = Inserted(rows) \/ placement' = Promoted(rows)
      \/ \E rows : placement' = Moved(rows, {"pending", "stored"}, "lost")
      \/ \E rows : placement' = Moved(rows, {"lost"}, "stored")
      \/ \E rows : placement' = Moved(rows, {"lost"}, "expiring")
      \/ \E rows : placement' = Moved(rows, {"pending", "stored", "lost"}, "expiring")
      \/ \E rows : placement' = Moved(rows, {"expiring"}, "deleted")
  BY <1>1, Zenon DEF CoreStep, core, Inserts, MarksLost, Rots, LetsGo, Lists, Checks, Restores, Expires, Commits,
     OnlineList, OnlineCheck, OnlineRestore, OnlineExpire, CommitRepair, ReaperStep, ReapFails,
     IssueDeleteTicket, DeleteFragment, ConfirmDeleted, SoftDeleteFile, tables
<1>4. RowsRetired /\ \A r \in Row : placement[r] = "lost" => placement'[r] \in {"lost", "stored", "expiring"}
  BY <1>2, <1>3 DEF RowsRetired, Inserted, Promoted, Moved
<1>5. \A v \in Version : verStatus'[v] = "committed" => verStatus[v] = "committed"
  <2>1. verStatus' = verStatus \/ \E x \in File : SoftDeleteFile(x)
    BY <1>1, Zenon DEF CoreStep, core, Inserts, MarksLost, Rots, LetsGo, Lists, Checks, Restores, Expires, Commits,
       OnlineList, OnlineCheck, OnlineRestore, OnlineExpire, CommitRepair, ReaperStep, ReapFails,
       IssueDeleteTicket, DeleteFragment, ConfirmDeleted, tables, files
  <2>2. QED
    BY <2>1, Zenon DEF SoftDeleteFile
<1>6. QED
  BY <1>4, <1>5 DEF RowsRetired, Retired

\* A lost row is restored by flap handling only, and a copy leaves a disk by rot
\* or through the reaper.
LEMMA CopiesStep ==
  ASSUME Shape, [Next]_vars
  PROVE  /\ \A r \in Row : placement[r] = "lost" /\ placement'[r] = "stored" => Restores
         /\ \A r \in disk \ disk' : \/ Rots(r)
                                    \/ reap # None /\ r = reap.row
<1>1. CoreStep
  BY StepKinds
<1>2. \A r \in Row : placement[r] = "lost" /\ placement'[r] = "stored" => Restores
  <2>1. Restores \/ placement' = placement
        \/ (\E rows : placement' = Inserted(rows) \/ placement' = Promoted(rows))
        \/ (\E rows, from : \E to \in {"lost", "expiring", "deleted"} : placement' = Moved(rows, from, to))
    BY <1>1, Zenon DEF CoreStep, core, Inserts, MarksLost, Rots, LetsGo, Lists, Checks, Expires, Commits,
       OnlineList, OnlineCheck, OnlineExpire, CommitRepair, ReaperStep, ReapFails,
       IssueDeleteTicket, DeleteFragment, ConfirmDeleted, SoftDeleteFile, tables
  <2>2. QED
    BY <2>1 DEF Inserted, Promoted, Moved
<1>3. \/ disk \subseteq disk'
      \/ \E r \in Row : Rots(r)
      \/ DeleteFragment
  BY <1>1, Zenon DEF CoreStep, core, Inserts, MarksLost, LetsGo, Lists, Checks, Restores, Expires, Commits,
     OnlineList, OnlineCheck, OnlineRestore, OnlineExpire, CommitRepair, ReaperStep, ReapFails,
     IssueDeleteTicket, ConfirmDeleted, SoftDeleteFile, agents
<1>4. QED
  BY <1>2, <1>3, Zenon DEF Rots, DeleteFragment

\* The rows the handlers act on stay what they were read as.
LEMMA HandlerStep ==
  ASSUME Shape, HandlerInv, [Next]_vars
  PROVE  HandlerInv'
<1>1. CoreStep
  BY StepKinds
<1>2. /\ RowsRetired
      /\ \A r \in Row : Retired(r) => Retired(r)'
      /\ \A r \in Row : placement[r] = "lost" => placement'[r] \in {"lost", "stored", "expiring"}
  BY RowsStep
<1>3. reap' # None => Retired(reap.row)'
  <2>1. reap # None => reap.row \in Row /\ Retired(reap.row)
    BY DEF HandlerInv, Shape, ReapState
  <2>2. \/ reap' = reap \/ reap' = None
        \/ reap # None /\ reap' = [reap EXCEPT !.at = "deleted"]
        \/ \E r \in Row : Retired(r) /\ reap' = [row |-> r, at |-> "ticket"]
    BY <1>1, Zenon DEF CoreStep, core, Inserts, MarksLost, Rots, LetsGo, Lists, Checks, Restores, Expires, Commits,
       ReaperStep, ReapFails, IssueDeleteTicket, DeleteFragment, ConfirmDeleted, SoftDeleteFile, Retired
  <2>3. reap # None => reap \in [row : Row, at : {"ticket", "deleted"}]
    BY DEF Shape, ReapState
  <2>4. QED
    BY <1>2, <2>1, <2>2, <2>3
<1>4. ASSUME on' # None, on' = on
      PROVE  /\ \A r \in on.rows \cup on.surplus : r[2] = on.node
             /\ on.at # "expire" => \A r \in on.rows : placement'[r] \in {"lost", "expiring", "deleted"}
             /\ on.at = "restore" => \A r \in on.rows : r \in receipts' /\ (placement'[r] = "lost" => r \in disk')
  <2>1. on \in OnRec
    BY <1>4 DEF Shape
  <2>2. receipts \subseteq receipts' /\ ~Restores
    BY <1>1, <1>4, <2>1, Zenon
    DEF CoreStep, core, Inserts, MarksLost, Rots, LetsGo, Lists, Checks, Restores, Expires, Commits,
       OnlineList, OnlineCheck, OnlineRestore, OnlineExpire, CommitRepair, ReaperStep, ReapFails,
       IssueDeleteTicket, DeleteFragment, ConfirmDeleted, SoftDeleteFile, agents, OnRec
  <2>3. ASSUME on.at # "expire", NEW r \in on.rows PROVE placement'[r] \in {"lost", "expiring", "deleted"}
    BY <1>2, <1>4, <2>1, <2>2, <2>3, CopiesStep DEF HandlerInv, OnRec, RowsRetired
  <2>4. ASSUME on.at = "restore", NEW r \in on.rows, placement'[r] = "lost" PROVE r \in disk'
    <3>1. r \in Row /\ placement[r] = "lost" /\ r \in disk
      BY <1>2, <1>4, <2>1, <2>4 DEF HandlerInv, OnRec, RowsRetired
    <3>2. ~Rots(r)
      BY <3>1 DEF Rots
    <3>3. ~(reap # None /\ r = reap.row)
      BY <3>1 DEF HandlerInv, Retired
    <3>4. QED
      BY <3>1, <3>2, <3>3, CopiesStep
  <2>5. QED
    BY <1>4, <2>2, <2>3, <2>4 DEF HandlerInv
<1>5. ASSUME NEW n \in Node, Lists(n), on' # on
      PROVE  /\ \A r \in on'.rows \cup on'.surplus : r[2] = on'.node
             /\ on'.at = "check" /\ \A r \in on'.rows : placement'[r] = "lost"
  BY <1>5 DEF Lists, OnlineList, tables
<1>6. ASSUME Checks, on' # None
      PROVE  /\ \A r \in on'.rows \cup on'.surplus : r[2] = on'.node
             /\ on'.at = "restore"
             /\ \A r \in on'.rows : placement'[r] \in {"lost", "expiring", "deleted"} /\ r \in receipts' /\ r \in disk'
  <2>1. on \in OnRec /\ on.at = "check"
    BY <1>6 DEF Checks, OnlineCheck, Shape
  <2>2. PICK ok \in SUBSET (on.rows \cap disk) : on' = [on EXCEPT !.rows = ok, !.at = "restore"]
    BY <1>6, Zenon DEF Checks, OnlineCheck
  <2>3. on'.rows = ok /\ on'.surplus = on.surplus /\ on'.node = on.node /\ on'.at = "restore"
    BY <2>1, <2>2 DEF OnRec
  <2>4. UNCHANGED <<placement, disk, receipts>>
    BY <1>6 DEF Checks, OnlineCheck, tables, agents
  <2>5. on # None /\ disk \subseteq receipts
    BY <1>6 DEF Checks, OnlineCheck, Shape
  <2>6. \A r \in on.rows \cup on.surplus : r[2] = on.node
    BY <2>5 DEF HandlerInv
  <2>7. \A r \in on.rows : placement[r] \in {"lost", "expiring", "deleted"}
    BY <2>1, <2>5 DEF HandlerInv
  <2>8. QED
    BY <2>2, <2>3, <2>4, <2>5, <2>6, <2>7
<1>7. ASSUME Restores
      PROVE  on'.at = "expire" /\ \A r \in on'.rows \cup on'.surplus : r[2] = on'.node
  BY <1>7 DEF Restores, OnlineRestore, HandlerInv, Shape, OnRec
<1>8. \/ on' = on \/ on' = None \/ Checks \/ Restores
      \/ \E n \in Node : Lists(n)
  BY <1>1, Zenon
  DEF CoreStep, core, Inserts, MarksLost, Rots, LetsGo, Expires, OnlineExpire, Commits, CommitRepair, repairVars
<1>9. QED
  BY <1>3, <1>4, <1>5, <1>6, <1>7, <1>8 DEF HandlerInv

-----------------------------------------------------------------------------
(* Copies that stay                                                        *)

\* A row is given up by flap handling, as surplus, or with its version.
LEMMA RetiresStep ==
  ASSUME Shape, [Next]_vars, NEW r \in Row, ~Retired(r), Retired(r)',
         verStatus'[VersionOfRow(r)] = "committed"
  PROVE  Expires /\ r \in on.surplus
<1>1. CoreStep
  BY StepKinds
<1>2. placement \in [Row -> PlacementStatus] /\ VersionOfRow(r) \in Version
  BY ManifestAssumption DEF Shape, Row, VersionOfRow
<1>3. \/ Expires \/ ConfirmDeleted \/ (\E x \in File : SoftDeleteFile(x)) \/ placement' = placement
      \/ (\E rows : placement' = Inserted(rows) \/ placement' = Promoted(rows))
      \/ (\E rows, from : \E to \in {"lost", "stored"} : placement' = Moved(rows, from, to))
  BY <1>1, Zenon DEF CoreStep, core, Inserts, MarksLost, Rots, LetsGo, Lists, Checks, Restores, Commits,
     OnlineList, OnlineCheck, OnlineRestore, CommitRepair, ReaperStep, ReapFails,
     IssueDeleteTicket, DeleteFragment, tables
<1>4. CASE Expires
  BY <1>2, <1>4 DEF Expires, OnlineExpire, Moved, Retired
<1>5. ~ConfirmDeleted
  BY <1>2 DEF ConfirmDeleted, Moved, Retired
<1>6. ASSUME NEW x \in File, SoftDeleteFile(x) PROVE FALSE
  <2>1. verFile[VersionOfRow(r)] # x
    BY <1>2, <1>6 DEF SoftDeleteFile
  <2>2. QED
    BY <1>2, <1>6, <2>1 DEF SoftDeleteFile, Moved, Retired
<1>7. QED
  BY <1>2, <1>3, <1>4, <1>5, <1>6 DEF Inserted, Promoted, Moved, Retired

\* What a step does not do to a fragment it leaves whole.
Spares(f) ==
  /\ \A r \in Row : Rots(r) => r[1] # f
  /\ \A w \in Worker : Commits(w) => \A r \in Unsigned({q[1] : q \in work[w].recs}) : r[1] # f

\* A copy that stays goes only as surplus, and then another one stays.
LEMMA KeptStep ==
  ASSUME Shape, HandlerInv, [Next]_vars, NEW f \in Fragment, Whole(f), Spares(f),
         verStatus'[versionOf[chunkOf[f]]] = "committed",
         NEW nodes \in SUBSET Node, KeptOn(f, nodes)
  PROVE  KeptOn(f, nodes)' \/ (Expires /\ KeptOn(f, Node)')
<1> DEFINE v == versionOf[chunkOf[f]]
<1>1. verStatus[v] = "committed"
  BY RowsStep, ManifestAssumption
<1>2. ASSUME NEW n \in Node, <<f, n>> \in disk, ~Retired(<<f, n>>),
             Retired(<<f, n>>)' => ~Expires \/ <<f, n>> \notin on.surplus
      PROVE  <<f, n>> \in disk' /\ ~Retired(<<f, n>>)'
  <2>1. <<f, n>> \in Row /\ VersionOfRow(<<f, n>>) = v
    BY DEF Row, VersionOfRow
  <2>2. ~Retired(<<f, n>>)'
    BY <1>2, <2>1, RetiresStep
  <2>3. ~Rots(<<f, n>>) /\ ~(reap # None /\ <<f, n>> = reap.row)
    BY <1>2, <2>1 DEF Spares, HandlerInv
  <2>4. QED
    BY <1>2, <2>1, <2>2, <2>3, CopiesStep
<1>3. PICK n \in nodes : <<f, n>> \in disk /\ ~Retired(<<f, n>>)
  BY DEF KeptOn
<1>4. CASE <<f, n>> \in disk' /\ ~Retired(<<f, n>>)'
  BY <1>4 DEF KeptOn
<1>5. CASE ~(<<f, n>> \in disk' /\ ~Retired(<<f, n>>)')
  <2>1. Expires /\ <<f, n>> \in on.surplus /\ on # None
    BY <1>2, <1>3, <1>5 DEF Expires, OnlineExpire
  <2>2. <<f, n>>[1] = f /\ <<f, n>>[2] = n
    OBVIOUS
  <2>3. PICK m \in Node \ {n} : <<f, m>> \in disk /\ ~Retired(<<f, m>>)
    BY <1>1, <2>1, <2>2 DEF Whole, KeptOn
  <2>4. n = on.node /\ (<<f, m>> \in on.surplus => m = on.node)
    BY <2>1, <2>2 DEF HandlerInv
  <2>5. QED
    BY <1>2, <2>1, <2>3, <2>4 DEF KeptOn
<1>6. QED
  BY <1>4, <1>5

\* A fragment that a step spares stays whole.
LEMMA WholeStep ==
  ASSUME Shape, HandlerInv, [Next]_vars, NEW f \in Fragment, Whole(f), Spares(f)
  PROVE  Whole(f)'
<1> DEFINE v == versionOf[chunkOf[f]]
<1>1. CoreStep
  BY StepKinds
<1>2. v \in Version /\ \A n \in Node : <<f, n>> \in Row
  BY ManifestAssumption DEF Row
<1>3. receipts \subseteq receipts' /\ receipts' \ receipts \subseteq disk'
  BY <1>1, Zenon DEF CoreStep, core, Inserts, MarksLost, Rots, LetsGo, Lists, Checks, Restores, Expires, Commits,
     OnlineList, OnlineCheck, OnlineRestore, OnlineExpire, CommitRepair, ReaperStep, ReapFails,
     IssueDeleteTicket, DeleteFragment, ConfirmDeleted, SoftDeleteFile, agents
<1>4. ASSUME NEW n \in Node, placement'[<<f, n>>] = "stored" PROVE <<f, n>> \in receipts'
  <2>1. CASE placement[<<f, n>>] = "stored"
    BY <1>3, <2>1 DEF Whole
  <2>2. CASE placement[<<f, n>>] # "stored" /\ Restores
    BY <1>2, <1>3, <1>4, <2>2 DEF Restores, OnlineRestore, Moved, HandlerInv
  <2>3. ASSUME NEW w \in Worker, Commits(w), placement[<<f, n>>] # "stored" PROVE <<f, n>> \in receipts'
    BY <1>2, <1>3, <1>4, <2>3 DEF Commits, CommitRepair, Promoted, Spares, Unsigned
  <2>4. \/ Restores \/ (\E w \in Worker : Commits(w)) \/ placement' = placement
        \/ (\E rows : placement' = Inserted(rows))
        \/ (\E rows, from : \E to \in {"lost", "expiring", "deleted"} : placement' = Moved(rows, from, to))
    BY <1>1, Zenon DEF CoreStep, core, Inserts, MarksLost, Rots, LetsGo, Lists, Checks, Expires,
       OnlineList, OnlineCheck, OnlineExpire, ReaperStep, ReapFails,
       IssueDeleteTicket, DeleteFragment, ConfirmDeleted, SoftDeleteFile, tables
  <2>5. QED
    BY <1>2, <1>4, <2>1, <2>2, <2>3, <2>4 DEF Inserted, Moved
<1>5. ASSUME NEW n \in Node, <<f, n>> \in receipts' \ disk' PROVE Retired(<<f, n>>)'
  <2>1. CASE <<f, n>> \notin disk
    BY <1>2, <1>3, <1>5, <2>1, RowsStep DEF Whole
  <2>2. CASE <<f, n>> \in disk
    <3>1. ~Rots(<<f, n>>)
      BY <1>2 DEF Spares
    <3>2. reap # None /\ <<f, n>> = reap.row
      BY <1>5, <2>2, <3>1, CopiesStep
    <3>3. QED
      BY <1>2, <3>2, RowsStep, Zenon DEF HandlerInv
  <2>3. QED
    BY <2>1, <2>2
<1>6. ASSUME verStatus'[v] = "committed", Signed(f)' \/ \E n \in Node : Retired(<<f, n>>)'
      PROVE  KeptOn(f, Node)'
  <2>1. verStatus[v] = "committed"
    BY <1>2, <1>6, RowsStep
  <2>2. CASE Signed(f) \/ \E n \in Node : Retired(<<f, n>>)
    BY <1>6, <2>1, <2>2, KeptStep DEF Whole
  <2>3. CASE ~Signed(f) /\ ~\E n \in Node : Retired(<<f, n>>)
    <3>1. \A n \in Node : <<f, n>> \in on.surplus /\ on # None => KeptOn(f, Node \ {n})
      BY <2>1 DEF Whole
    <3>2. \A n \in Node : <<f, n>> \notin disk
      BY <2>3 DEF Signed, Shape
    <3>3. ~\E n \in Node : Retired(<<f, n>>)'
      BY <1>2, <1>6, <2>3, <3>1, <3>2, RetiresStep DEF KeptOn, VersionOfRow, Expires, OnlineExpire
    <3>4. QED
      BY <1>3, <1>6, <2>3, <3>3 DEF Signed, KeptOn
  <2>4. QED
    BY <2>2, <2>3
<1>7. ASSUME verStatus'[v] = "committed", on' # None, NEW r \in on'.surplus, r[1] = f
      PROVE  KeptOn(f, Node \ {r[2]})'
  <2>1. verStatus[v] = "committed"
    BY <1>2, <1>7, RowsStep
  <2>2. CASE on # None /\ r \in on.surplus
    <3>1. KeptOn(f, Node \ {r[2]}) /\ ~Expires
      BY <1>7, <2>1, <2>2 DEF Whole, Expires, OnlineExpire
    <3>2. QED
      BY <1>7, <3>1, KeptStep
  <2>3. ASSUME NEW n \in Node, Lists(n), on' # on PROVE KeptOn(f, Node \ {r[2]})'
    <3>1. Elsewhere(r) /\ UNCHANGED <<placement, disk>>
      BY <1>7, <2>3 DEF Lists, OnlineList, tables, agents
    <3>2. PICK m \in Node \ {r[2]} : placement[<<f, m>>] = "stored"
      BY <1>7, <3>1 DEF Elsewhere
    <3>3. <<f, m>> \in disk /\ ~Retired(<<f, m>>)
      BY <3>2 DEF Whole, Retired
    <3>4. QED
      BY <3>1, <3>2, <3>3 DEF KeptOn, Retired
  <2>4. \/ on # None /\ r \in on.surplus
        \/ \E n \in Node : Lists(n) /\ on' # on
    <3>1. on' = on \/ on' = None \/ Checks \/ Restores \/ \E n \in Node : Lists(n)
      BY <1>1, Zenon
      DEF CoreStep, core, Inserts, MarksLost, Rots, LetsGo, Expires, OnlineExpire, Commits, CommitRepair, repairVars
    <3>2. Checks \/ Restores => on # None /\ on'.surplus = on.surplus
      BY <1>7, Zenon DEF Checks, Restores, OnlineCheck, OnlineRestore, Shape, OnRec
    <3>3. QED
      BY <1>7, <3>1, <3>2
  <2>5. QED
    BY <2>2, <2>3, <2>4
<1>8. QED
  BY <1>4, <1>5, <1>6, <1>7 DEF Whole

-----------------------------------------------------------------------------
(* Counting                                                                *)

\* Rows stand for no more fragments than there are rows, and for as many when
\* no two of them are of one fragment.
LEMMA RowFragments ==
  ASSUME NEW rows \in SUBSET Row
  PROVE  /\ IsFiniteSet({r[1] : r \in rows})
         /\ Cardinality({r[1] : r \in rows}) <= Cardinality(rows)
         /\ (\A r, q \in rows : r # q => r[1] # q[1])
              => Cardinality({r[1] : r \in rows}) = Cardinality(rows)
<1> DEFINE T == {r[1] : r \in rows}
           f == [r \in rows |-> r[1]]
<1>1. IsFiniteSet(rows)
  BY RowFinite, FS_Subset
<1>2. f \in Surjection(rows, T)
  BY DEF Surjection
<1>3. (\A r, q \in rows : r # q => r[1] # q[1]) => f \in Injection(rows, T)
  BY DEF Injection, IsInjective
<1>4. IsFiniteSet(T) /\ Cardinality(T) <= Cardinality(rows)
      /\ (Cardinality(T) = Cardinality(rows) <=> f \in Injection(rows, T))
  BY <1>1, <1>2, FS_Surjection
<1>5. QED
  BY <1>3, <1>4

\* A step counts as many copies missing as it harms fragments.
LEMMA HarmStep ==
  ASSUME Shape, [Next]_vars
  PROVE  LET harmed == {f \in Fragment : ~Spares(f)}
         IN  IsFiniteSet(harmed) /\ missing + Cardinality(harmed) <= missing'
<1> DEFINE harmed == {f \in Fragment : ~Spares(f)}
<1>1. CoreStep /\ missing \in Nat
  BY StepKinds DEF Shape
<1>2. IsFiniteSet(harmed) /\ Cardinality(harmed) \in Nat
  BY ManifestAssumption, FS_Subset, FS_CardinalityType
<1>3. ASSUME NEW r \in Row, Rots(r) PROVE missing + Cardinality(harmed) <= missing'
  <2>1. \A q \in Row : Rots(q) => q = r
    BY <1>3 DEF Rots, Moved
  <2>2. \A w \in Worker : ~Commits(w)
    BY <1>3 DEF Rots, Moved, Commits, CommitRepair, Promoted
  <2>3. harmed \subseteq {r[1]}
    BY <2>1, <2>2 DEF Spares
  <2>4. Cardinality(harmed) <= 1
    <3>1. IsFiniteSet({r[1]}) /\ Cardinality({r[1]}) = 1
      BY FS_Singleton, Zenon
    <3>2. QED
      BY <2>3, <3>1, FS_Subset
  <2>5. QED
    BY <1>1, <1>2, <1>3, <2>4 DEF Rots
<1>4. ASSUME NEW w \in Worker, Commits(w) PROVE missing + Cardinality(harmed) <= missing'
  <2> DEFINE lone == Unsigned({q[1] : q \in work[w].recs})
  <2>1. \A r \in Row : ~Rots(r)
    BY <1>4 DEF Rots, Moved, Commits, CommitRepair, Promoted
  <2>2. \A x \in Worker : Commits(x) => x = w
    <3>1. SUFFICES ASSUME NEW x \in Worker, Commits(x), x # w PROVE FALSE
      OBVIOUS
    <3>2. work[x].at = "commit" /\ work'[x] = work[x]
      BY <1>4, <3>1 DEF Commits, CommitRepair, Step, Shape
    <3>3. work'[x] = [work[x] EXCEPT !.at = "recheck"]
      BY <3>1 DEF Commits, CommitRepair, Step, Shape
    <3>4. work[x] \in WorkRec({work[x].job}, receipts)
      BY DEF Shape, WorkOK
    <3>5. QED
      BY <3>2, <3>3, <3>4 DEF WorkRec
  <2>3. harmed \subseteq {r[1] : r \in lone}
    BY <2>1, <2>2, Zenon DEF Spares
  <2>4. lone \in SUBSET Row
    BY DEF Unsigned
  <2>5. IsFiniteSet({r[1] : r \in lone}) /\ Cardinality({r[1] : r \in lone}) <= Cardinality(lone)
    BY <2>4, RowFragments, Zenon
  <2>6. Cardinality(harmed) <= Cardinality({r[1] : r \in lone}) /\ Cardinality({r[1] : r \in lone}) \in Nat
    BY <2>3, <2>5, FS_Subset, FS_CardinalityType, Zenon
  <2>7. Cardinality(lone) \in Nat
    BY <2>4, RowFinite, FS_Subset, FS_CardinalityType
  <2>8. missing' = missing + Cardinality(lone)
    BY <1>4 DEF Commits, CommitRepair
  <2>9. QED
    BY <1>1, <1>2, <2>5, <2>6, <2>7, <2>8
<1>5. ASSUME \A r \in Row : ~Rots(r), \A w \in Worker : ~Commits(w)
      PROVE  missing + Cardinality(harmed) <= missing'
  <2>1. harmed = {}
    BY <1>5 DEF Spares
  <2>2. missing' = missing
    BY <1>1, <1>5, Zenon DEF CoreStep, core, Inserts, MarksLost, LetsGo, Lists, Checks, Restores, Expires,
       OnlineList, OnlineCheck, OnlineRestore, OnlineExpire, repairVars, monitor
  <2>3. QED
    BY <1>1, <2>1, <2>2, FS_EmptySet
<1>6. QED
  BY <1>2, <1>3, <1>4, <1>5

\* So the fragments that are not whole stay within the missing copies.
LEMMA CopyStep ==
  ASSUME Shape, HandlerInv, CopyInv, [Next]_vars, Shape'
  PROVE  CopyInv'
<1> DEFINE harmed == {f \in Fragment : ~Spares(f)}
<1>1. PICK hit \in SUBSET Fragment : Cardinality(hit) <= missing /\ \A f \in Fragment \ hit : Whole(f)
  BY DEF CopyInv
<1>2. IsFiniteSet(hit) /\ Cardinality(hit) \in Nat
  BY ManifestAssumption, FS_Subset, FS_CardinalityType
<1>3. IsFiniteSet(harmed) /\ Cardinality(harmed) \in Nat /\ missing + Cardinality(harmed) <= missing'
  BY HarmStep, FS_CardinalityType
<1> HIDE DEF harmed
<1>4. Cardinality(hit \cup harmed) <= Cardinality(hit) + Cardinality(harmed)
  <2>1. Cardinality(hit \cap harmed) \in Nat
    BY <1>2, FS_Intersection, FS_CardinalityType, Zenon
  <2>2. Cardinality(hit \cup harmed) = Cardinality(hit) + Cardinality(harmed) - Cardinality(hit \cap harmed)
    BY <1>2, <1>3, FS_Union
  <2>3. QED
    BY <1>2, <1>3, <2>1, <2>2
<1>5. Cardinality(hit \cup harmed) \in Nat
  BY <1>2, <1>3, FS_Union, FS_CardinalityType, Zenon
<1>6. Cardinality(hit \cup harmed) <= missing'
  BY <1>1, <1>2, <1>3, <1>4, <1>5 DEF Shape
<1>7. \A f \in Fragment \ (hit \cup harmed) : Whole(f)'
  BY <1>1, WholeStep DEF harmed
<1>8. hit \cup harmed \in SUBSET Fragment
  BY DEF harmed
<1>9. QED
  BY <1>6, <1>7, <1>8 DEF CopyInv

\* Nothing becomes stored without a receipt for its fragment, and no receipt is
\* taken back.
LEMMA SignedStep ==
  ASSUME Shape, HandlerInv, SignedInv, [Next]_vars
  PROVE  SignedInv'
<1>1. CoreStep
  BY StepKinds
<1>2. receipts \subseteq receipts'
  BY <1>1, Zenon DEF CoreStep, core, Inserts, MarksLost, Rots, LetsGo, Lists, Checks, Restores, Expires, Commits,
     OnlineList, OnlineCheck, OnlineRestore, OnlineExpire, CommitRepair, ReaperStep, ReapFails,
     IssueDeleteTicket, DeleteFragment, ConfirmDeleted, SoftDeleteFile, agents
<1>3. \A f : Signed(f) => Signed(f)'
  BY <1>2 DEF Signed
<1>4. ASSUME NEW r \in Row, placement'[r] = "stored" PROVE Signed(r[1])'
  <2>1. CASE placement[r] = "stored"
    BY <1>3, <2>1 DEF SignedInv
  <2>2. CASE Restores
    <3>1. placement[r] = "stored" \/ r \in receipts
      BY <1>4, <2>2 DEF Restores, OnlineRestore, Moved, HandlerInv
    <3>2. r = <<r[1], r[2]>> /\ r[2] \in Node
      BY DEF Row
    <3>3. QED
      BY <1>3, <2>1, <3>1, <3>2 DEF Signed
  <2>3. ASSUME NEW w \in Worker, Commits(w), placement[r] # "stored" PROVE Signed(r[1])'
    <3>1. r[1] \in {q[1] : q \in work[w].recs}
      BY <1>4, <2>3 DEF Commits, CommitRepair, Promoted
    <3>2. PICK q \in work[w].recs : r[1] = q[1]
      BY <3>1
    <3>3. q \in receipts /\ q \in Row
      BY DEF Shape, WorkOK, WorkRec
    <3>4. q = <<q[1], q[2]>> /\ q[2] \in Node
      BY <3>3 DEF Row
    <3>5. QED
      BY <1>3, <3>2, <3>3, <3>4 DEF Signed
  <2>4. \/ Restores \/ (\E w \in Worker : Commits(w)) \/ placement' = placement
        \/ (\E rows : placement' = Inserted(rows))
        \/ (\E rows, from : \E to \in {"lost", "expiring", "deleted"} : placement' = Moved(rows, from, to))
    BY <1>1, Zenon DEF CoreStep, core, Inserts, MarksLost, Rots, LetsGo, Lists, Checks, Expires,
       OnlineList, OnlineCheck, OnlineExpire, ReaperStep, ReapFails,
       IssueDeleteTicket, DeleteFragment, ConfirmDeleted, SoftDeleteFile, tables
  <2>5. QED
    BY <1>4, <2>1, <2>2, <2>3, <2>4 DEF Inserted, Moved
<1>5. ASSUME NEW c \in Chunk PROVE Cardinality(SignedFragments(c))' >= CommitThreshold
  <2>1. SignedFragments(c) \subseteq SignedFragments(c)' /\ SignedFragments(c)' \subseteq Fragment
    BY <1>3 DEF SignedFragments
  <2>2. IsFiniteSet(SignedFragments(c)')
    BY <2>1, ManifestAssumption, FS_Subset
  <2>3. /\ Cardinality(SignedFragments(c)) <= Cardinality(SignedFragments(c)')
        /\ Cardinality(SignedFragments(c)') \in Nat /\ Cardinality(SignedFragments(c)) \in Nat
    BY <2>1, <2>2, FS_Subset, FS_CardinalityType
  <2>4. Cardinality(SignedFragments(c))' = Cardinality(SignedFragments(c)')
    OBVIOUS
  <2>5. QED
    BY <2>3, <2>4, ThresholdAssumption DEF SignedInv
<1>6. QED
  BY <1>4, <1>5 DEF SignedInv

-----------------------------------------------------------------------------
(* Theorems                                                                *)

\* A committed upload starts whole.
LEMMA InitInv ==
  ASSUME Init
  PROVE  Inv
<1>1. PICK planned \in {rows \in SUBSET Row : Planned(rows)} : \E rows \in SUBSET planned :
        /\ \A c \in Chunk : Cardinality({r \in rows : ChunkOfRow(r) = c}) >= CommitThreshold
        /\ placement = [r \in Row |-> IF r \in rows THEN "stored"
                                      ELSE IF r \in planned THEN "pending" ELSE "none"]
        /\ disk = rows /\ receipts = rows
  BY DEF Init
<1>2. PICK rows \in SUBSET planned :
        /\ \A c \in Chunk : Cardinality({r \in rows : ChunkOfRow(r) = c}) >= CommitThreshold
        /\ placement = [r \in Row |-> IF r \in rows THEN "stored"
                                      ELSE IF r \in planned THEN "pending" ELSE "none"]
        /\ disk = rows /\ receipts = rows
  BY <1>1
<1>3. rows \subseteq Row /\ \A r, q \in rows : r # q => r[1] # q[1]
  BY <1>1, <1>2 DEF Planned
<1>4. /\ placement \in [Row -> PlacementStatus]
      /\ \A r \in Row : placement[r] = "stored" <=> r \in rows
      /\ \A r \in Row : ~Retired(r)
  BY <1>2, <1>3 DEF PlacementStatus, Retired
<1>5. missing = 0 /\ on = None /\ reap = None /\ work = [w \in Worker |-> Idle]
  BY DEF Init, RepairInit, LifecycleInit
<1>6. Shape
  <2>1. WorkOK(Idle, receipts)
    BY Zenon DEF WorkOK, WorkRec, Idle, WorkSteps
  <2>2. work = [w \in Worker |-> work[w]] /\ \A w \in Worker : WorkOK(work[w], receipts)
    BY <1>5, <2>1
  <2>3. QED
    BY <1>2, <1>3, <1>4, <1>5, <2>2 DEF Shape, ReapState
<1>7. HandlerInv
  BY <1>5 DEF HandlerInv
<1>8. CopyInv
  <2>1. \A f \in Fragment, n \in Node : <<f, n>> \in Row
    BY DEF Row
  <2>2. ASSUME NEW f \in Fragment PROVE Whole(f)
    BY <1>2, <1>4, <1>5, <2>1 DEF Whole, Signed, KeptOn
  <2>3. Cardinality({}) <= missing
    BY <1>5, FS_EmptySet
  <2>4. QED
    BY <2>2, <2>3 DEF CopyInv
<1>9. SignedInv
  <2>1. \A r \in rows : r[1] \in Fragment /\ Signed(r[1])
    <3>1. SUFFICES ASSUME NEW r \in rows PROVE r[1] \in Fragment /\ Signed(r[1])
      OBVIOUS
    <3>2. r = <<r[1], r[2]>> /\ r[1] \in Fragment /\ r[2] \in Node
      BY <1>3 DEF Row
    <3>3. QED
      BY <1>2, <3>2 DEF Signed
  <2>2. ASSUME NEW c \in Chunk PROVE Cardinality(SignedFragments(c)) >= CommitThreshold
    <3> DEFINE mine == {r \in rows : ChunkOfRow(r) = c}
    <3>1. mine \in SUBSET Row /\ \A r, q \in mine : r # q => r[1] # q[1]
      BY <1>3
    <3>2. {r[1] : r \in mine} \subseteq SignedFragments(c)
      BY <2>1 DEF SignedFragments, ChunkOfRow
    <3>3. Cardinality({r[1] : r \in mine}) = Cardinality(mine)
      BY <3>1, RowFragments
    <3>4. IsFiniteSet(SignedFragments(c))
      BY ManifestAssumption, FS_Subset DEF SignedFragments
    <3>5. /\ Cardinality({r[1] : r \in mine}) <= Cardinality(SignedFragments(c))
          /\ Cardinality({r[1] : r \in mine}) \in Nat /\ Cardinality(SignedFragments(c)) \in Nat
      BY <3>2, <3>4, FS_Subset, FS_CardinalityType
    <3>6. Cardinality(mine) >= CommitThreshold
      BY <1>2
    <3>7. QED
      BY <3>3, <3>5, <3>6, ThresholdAssumption
  <2>3. QED
    BY <1>4, <2>1, <2>2 DEF SignedInv
<1>10. QED
  BY <1>6, <1>7, <1>8, <1>9 DEF Inv

\* The invariant of repair: handlers act on rows that stay what they were read
\* as, and all fragments are whole but for as many as copies are missing.
THEOREM RepairInvariant == Spec => []Inv
<1>1. Inv /\ [Next]_vars => Inv'
  BY ShapeStep, HandlerStep, CopyStep, SignedStep DEF Inv
<1>2. QED
  BY <1>1, InitInv, PTL DEF Spec

\* A placement row counts as stored only after some agent has signed for its
\* fragment, however jobs fail, overlap and are delivered again
\* (CommitRepairPlacements, ApplyFlap).
THEOREM StoredAreRebuilt == Spec => []StoredRebuilt
<1>1. Inv => StoredRebuilt
  BY DEF Inv, SignedInv, StoredRebuilt, Signed
<1>2. QED
  BY <1>1, RepairInvariant, PTL

\* A committed chunk keeps as many fragments on disks as a commit requires, less
\* the copies that a disk lost or that a commit stored without a receipt: no
\* interleaving of node losses, repairs, flaps, deletions and reaper passes
\* removes a fragment's last intact copy (onNodeOffline, onNodeOnline, onJob,
\* reap).
THEOREM ChunksStayRecoverable == Spec => []Recoverable
<1>1. ASSUME Inv, NEW c \in Chunk, verStatus[versionOf[c]] = "committed"
      PROVE  Cardinality(OnDisk(c)) + missing >= CommitThreshold
  <2> DEFINE S == SignedFragments(c)
  <2>1. PICK hit \in SUBSET Fragment : Cardinality(hit) <= missing /\ \A f \in Fragment \ hit : Whole(f)
    BY <1>1 DEF Inv, CopyInv
  <2>2. IsFiniteSet(hit) /\ IsFiniteSet(S) /\ IsFiniteSet(OnDisk(c))
    BY ManifestAssumption, FS_Subset DEF SignedFragments, OnDisk
  <2>3. S \subseteq Fragment /\ S \ hit \subseteq OnDisk(c)
    BY <1>1, <2>1 DEF SignedFragments, OnDisk, Whole, KeptOn
  <2>4. Cardinality(S) >= CommitThreshold
    BY <1>1 DEF Inv, SignedInv
  <2> HIDE DEF S
  <2>5. Cardinality(S \ hit) = Cardinality(S) - Cardinality(S \cap hit) /\ IsFiniteSet(S \ hit)
    BY <2>2, FS_Difference, Zenon
  <2>6. Cardinality(S \cap hit) <= Cardinality(hit) /\ IsFiniteSet(S \cap hit)
    BY <2>2, FS_Intersection
  <2>7. Cardinality(S \ hit) <= Cardinality(OnDisk(c))
    BY <2>2, <2>3, FS_Subset
  <2>8. /\ Cardinality(S \ hit) \in Nat /\ Cardinality(S) \in Nat /\ Cardinality(S \cap hit) \in Nat
        /\ Cardinality(hit) \in Nat /\ Cardinality(OnDisk(c)) \in Nat
    BY <2>2, <2>5, <2>6, FS_CardinalityType
  <2>9. missing \in Nat
    BY <1>1 DEF Inv, Shape
  <2>10. QED
    BY <2>1, <2>4, <2>5, <2>6, <2>7, <2>8, <2>9, ThresholdAssumption
<1>2. Inv => Recoverable
  BY <1>1 DEF Recoverable
<1>3. QED
  BY <1>2, RepairInvariant, PTL

\* Flap handling restores only rows whose node still has the fragment, although
\* it checked the node before, in another transaction (onNodeOnline, ApplyFlap).
THEOREM RestoredAreOnDisk == Spec => RestoredOnDisk
<1>1. Inv /\ [Next]_vars =>
        [\A r \in Row : placement[r] = "lost" /\ placement'[r] = "stored" => r \in disk]_placement
  <2>1. SUFFICES ASSUME Inv, [Next]_vars, NEW r \in Row, placement[r] = "lost", placement'[r] = "stored"
                 PROVE  r \in disk
    OBVIOUS
  <2>2. Restores
    BY <2>1, CopiesStep DEF Inv
  <2>3. r \in on.rows /\ on # None /\ on.at = "restore"
    BY <2>1, <2>2 DEF Restores, OnlineRestore, Moved
  <2>4. QED
    BY <2>1, <2>3 DEF Inv, HandlerInv
<1>2. QED
  BY <1>1, RepairInvariant, PTL DEF Spec, RestoredOnDisk

\* No repair, flap or deletion brings back a row that was given up to the
\* reaper.
THEOREM GivenUpStays == Spec => RowRetired
<1>1. Inv /\ [Next]_vars => [RowsRetired]_placement
  BY RowsStep DEF Inv
<1>2. QED
  BY <1>1, RepairInvariant, PTL DEF Spec, RowRetired
=============================================================================
