---------------------------- MODULE AuditProofs -----------------------------
(***************************************************************************)
(* Proofs about one agent's store and the audits of it, for any number of  *)
(* fragments, tickets, monitors, rotten files, failures and stops.         *)
(***************************************************************************)
EXTENDS Audit, TLAPS

-----------------------------------------------------------------------------
(* The inductive invariant                                                 *)

\* The owner has deleted the fragment's file: its row is with the reaper.
Gone(f) == row[f] \in {"expiring", "deleted"}

\* The store: what is indexed was signed for.  A fragment that was signed for
\* is intact, and so is the file of a PUT that is to be indexed, unless the
\* fragment was hurt or its row is gone.  What the scrub and a DELETE have in
\* hand was hurt or is gone.
IntactInv ==
  /\ index \subseteq receipts
  /\ \A f \in Fragment : row[f] = "stored" => f \in receipts
  /\ \A f \in receipts : f \in hurt \/ Gone(f) \/ Good(f)
  /\ \A t \in Ticket : put[t] = "renamed" =>
       ticketFor[t] \in hurt \/ Gone(ticketFor[t]) \/ file[ticketFor[t]] = "good"
  /\ \A f \in scrub.todo : f \in hurt \/ Gone(f)
  /\ \A f \in del : Gone(f)

\* A fragment that is not held is accounted for: its row says so, the scrub
\* has it in hand, or it was dropped.
Accounted(f) == Gone(f) \/ row[f] = "lost" \/ f \in dropped \/ f \in scrub.removed \/ f \in scrub.deleted

\* The scrub drops one fragment of its list at a time, and a fragment that was
\* signed for is held or accounted for.
HeldInv ==
  /\ scrub.removed = {} \/ scrub.deleted = {}
  /\ \A f, g \in scrub.removed \cup scrub.deleted : f = g
  /\ scrub.removed \subseteq scrub.todo /\ scrub.deleted \subseteq scrub.todo
  /\ \A f \in receipts : Held(f) \/ Accounted(f)
  /\ \A t \in Ticket : put[t] = "renamed" => file[ticketFor[t]] # "none" \/ Accounted(ticketFor[t])

\* The audits: a monitor works on a fragment that was signed for, and holds a
\* failure against it only if it was hurt, cut off or is gone.
VerdictInv ==
  \A m \in Monitor :
    /\ audit[m].at # "idle" => audit[m].frag \in receipts
    /\ audit[m].at \in {"fail", "publish"} \/ (audit[m].at = "spend" /\ ~audit[m].ok) =>
         audit[m].frag \in hurt \cup cut \/ Gone(audit[m].frag)

Inv == TypeOK /\ IntactInv /\ HeldInv /\ VerdictInv /\ LostOnlyHurt

-----------------------------------------------------------------------------
(* Types                                                                   *)

\* Every step of the store keeps its types.
LEMMA StoreTypeStep ==
  ASSUME StoreTypeOK, StoreNext
  PROVE  StoreTypeOK'
<1> USE StoreAssumption DEF StoreTypeOK
<1>1. ASSUME NEW t \in Ticket, PutStep(t) PROVE StoreTypeOK'
  <2>1. mishaps' \in 0..MaxMishaps
    BY <1>1 DEF PutStep, PutAdmitted, PutRejected, PutRenamed, PutIndexed, PutIndexFails, Mishap
  <2>2. QED
    BY <1>1, <2>1 DEF PutStep, PutAdmitted, PutRejected, PutRenamed, PutIndexed, PutIndexFails
<1>2. ASSUME NEW f \in Fragment, CommitRow(f) \/ ExpireRow(f) \/ DeleteFile(f) PROVE StoreTypeOK'
  BY <1>2 DEF CommitRow, ExpireRow, DeleteFile
<1>3. ASSUME NEW f \in Fragment, DeleteIndex(f) PROVE StoreTypeOK'
  <2>1. mishaps' \in 0..MaxMishaps
    BY <1>3 DEF DeleteIndex, Mishap
  <2>2. QED
    BY <1>3, <2>1 DEF DeleteIndex
<1>4. ASSUME NEW f \in Fragment, ScrubReportLost(f) PROVE StoreTypeOK'
  <2>1. mishaps' \in 0..MaxMishaps
    BY <1>4 DEF ScrubReportLost, Mishap
  <2>2. QED
    BY <1>4, <2>1 DEF ScrubReportLost, Idle
<1>5. ASSUME NEW f \in Fragment, Rots(f) PROVE StoreTypeOK'
  BY <1>5 DEF Rots
<1>6. CASE ScrubLists
  BY <1>6 DEF ScrubLists, Idle
<1>7. ASSUME NEW f \in Fragment, ScrubRemoves(f) \/ ScrubUnindexes(f) PROVE StoreTypeOK'
  <2>1. scrub' \in [todo : SUBSET Fragment, removed : SUBSET Fragment, deleted : SUBSET Fragment]
    <3>1. CASE scrub' = [scrub EXCEPT !.removed = {f}]
      BY <3>1
    <3>2. CASE scrub' = [scrub EXCEPT !.removed = {}, !.deleted = {f}]
      BY <3>2, Zenon
    <3>3. QED
      BY <1>7, <3>1, <3>2 DEF ScrubRemoves, ScrubUnindexes
  <2>2. file' \in [Fragment -> {"none", "good", "bad"}] /\ index' \subseteq Fragment
    BY <1>7 DEF ScrubRemoves, ScrubUnindexes
  <2>3. QED
    BY <1>7, <2>1, <2>2 DEF ScrubRemoves, ScrubUnindexes
<1>8. ASSUME NEW f \in Fragment, ScrubReported(f) PROVE StoreTypeOK'
  <2>1. scrub' \in [todo : SUBSET Fragment, removed : SUBSET Fragment, deleted : SUBSET Fragment]
    <3>1. CASE scrub' = [scrub EXCEPT !.todo = @ \ {f}, !.deleted = {}]
      BY <3>1, Zenon
    <3>2. CASE scrub' = Idle
      BY <3>2 DEF Idle
    <3>3. QED
      BY <1>8, <3>1, <3>2 DEF ScrubReported
  <2>2. row' \in [Fragment -> {"pending", "stored", "lost", "expiring", "deleted"}] /\ jobs' \subseteq Fragment
    BY <1>8 DEF ScrubReported, Lost
  <2>3. QED
    BY <1>8, <2>1, <2>2 DEF ScrubReported
<1>9. CASE AgentRestarts
  <2>1. mishaps' \in 0..MaxMishaps
    BY <1>9 DEF AgentRestarts, Mishap
  <2>2. QED
    BY <1>9, <2>1 DEF AgentRestarts, Idle
<1>10. QED
  BY <1>1, <1>2, <1>3, <1>4, <1>5, <1>6, <1>7, <1>8, <1>9 DEF StoreNext, ScrubStep

-----------------------------------------------------------------------------
(* The store                                                               *)

\* What never shrinks in a step of the store.
LEMMA StoreGrows ==
  ASSUME StoreTypeOK, IntactInv, StoreNext
  PROVE  /\ receipts \subseteq receipts' /\ hurt \subseteq hurt' /\ dropped \subseteq dropped'
         /\ \A f \in Fragment : Gone(f) => Gone(f)'
<1> USE StoreAssumption DEF StoreTypeOK, IntactInv, Gone
<1>1. ASSUME NEW t \in Ticket, PutStep(t)
      PROVE  /\ receipts \subseteq receipts' /\ hurt \subseteq hurt' /\ dropped \subseteq dropped'
             /\ row' = row
  BY <1>1 DEF PutStep, PutAdmitted, PutRejected, PutRenamed, PutIndexed, PutIndexFails
<1>2. ASSUME NEW f \in Fragment, CommitRow(f) \/ ExpireRow(f) \/ DeleteFile(f) \/ DeleteIndex(f) \/ Rots(f)
      PROVE  /\ receipts \subseteq receipts' /\ hurt \subseteq hurt' /\ dropped \subseteq dropped'
             /\ \A g \in Fragment : Gone(g) => Gone(g)'
  BY <1>2 DEF CommitRow, ExpireRow, DeleteFile, DeleteIndex, Rots
<1>3. ASSUME NEW f \in Fragment, ScrubReported(f)
      PROVE  /\ receipts' = receipts /\ hurt' = hurt /\ dropped' = dropped
             /\ \A g \in Fragment : Gone(g) => Gone(g)'
  BY <1>3 DEF ScrubReported, Lost
<1>4. ASSUME NEW f \in Fragment, ScrubReportLost(f) \/ ScrubRemoves(f) \/ ScrubUnindexes(f)
      PROVE  /\ receipts \subseteq receipts' /\ hurt \subseteq hurt' /\ dropped \subseteq dropped'
             /\ row' = row
  BY <1>4 DEF ScrubReportLost, ScrubRemoves, ScrubUnindexes
<1>5. ASSUME ScrubLists \/ AgentRestarts
      PROVE  /\ receipts \subseteq receipts' /\ hurt \subseteq hurt' /\ dropped \subseteq dropped'
             /\ row' = row
  BY <1>5 DEF ScrubLists, AgentRestarts
<1>6. QED
  BY <1>1, <1>2, <1>3, <1>4, <1>5 DEF StoreNext, ScrubStep

\* A step of the store keeps the fragments that were signed for.
LEMMA IntactStep ==
  ASSUME StoreTypeOK, IntactInv, HeldInv, StoreNext
  PROVE  IntactInv' /\ HeldInv'
<1> USE StoreAssumption DEF StoreTypeOK, IntactInv, HeldInv, Gone, Good, Held, Accounted
<1>1. ASSUME NEW t \in Ticket, PutStep(t) PROVE IntactInv' /\ HeldInv'
  <2>1. CASE PutAdmitted(t)
    BY <2>1 DEF PutAdmitted
  <2>2. CASE PutRejected(t)
    BY <2>2 DEF PutRejected
  <2>3. CASE PutRenamed(t)
    BY <2>3 DEF PutRenamed
  <2>4. CASE PutIndexed(t)
    BY <2>4 DEF PutIndexed
  <2>5. CASE PutIndexFails(t)
    BY <2>5 DEF PutIndexFails
  <2>6. QED
    BY <1>1, <2>1, <2>2, <2>3, <2>4, <2>5 DEF PutStep
<1>2. ASSUME NEW f \in Fragment, CommitRow(f) \/ ExpireRow(f) PROVE IntactInv' /\ HeldInv'
  BY <1>2 DEF CommitRow, ExpireRow
<1>3. ASSUME NEW f \in Fragment, DeleteFile(f) PROVE IntactInv' /\ HeldInv'
  BY <1>3 DEF DeleteFile
<1>4. ASSUME NEW f \in Fragment, DeleteIndex(f) PROVE IntactInv' /\ HeldInv'
  BY <1>4 DEF DeleteIndex
<1>5. ASSUME NEW f \in Fragment, Rots(f) PROVE IntactInv' /\ HeldInv'
  BY <1>5 DEF Rots
<1>6. ASSUME ScrubLists PROVE IntactInv' /\ HeldInv'
  BY <1>6 DEF ScrubLists, Idle
<1>7. ASSUME NEW f \in Fragment, ScrubRemoves(f) PROVE IntactInv' /\ HeldInv'
  BY <1>7 DEF ScrubRemoves
<1>8. ASSUME NEW f \in Fragment, ScrubUnindexes(f) PROVE IntactInv' /\ HeldInv'
  BY <1>8 DEF ScrubUnindexes
<1>9. ASSUME NEW f \in Fragment, ScrubReported(f) PROVE IntactInv' /\ HeldInv'
  <2>1. CASE row[f] \in {"pending", "stored"}
    <3>1. scrub' = [scrub EXCEPT !.todo = scrub.todo \ {f}, !.deleted = {}]
      BY <1>9, <2>1 DEF ScrubReported
    <3>2. scrub'.todo = scrub.todo \ {f} /\ scrub'.removed = scrub.removed /\ scrub'.deleted = {}
      BY <3>1
    <3>3. row' = [row EXCEPT ![f] = "lost"] /\ UNCHANGED <<file, index, put, receipts, del, dropped, hurt>>
      BY <1>9, <2>1 DEF ScrubReported, Lost
    <3>4. f \in scrub.deleted /\ scrub.removed = {} /\ ~Gone(f)
      BY <1>9, <2>1 DEF ScrubReported
    <3>5. IntactInv'
      BY <3>2, <3>3, <3>4
    <3>6. ASSUME NEW g \in Fragment, Accounted(g) PROVE Accounted(g)'
      BY <3>2, <3>3, <3>4, <3>6
    <3>7. HeldInv'
      BY <3>2, <3>3, <3>4, <3>6
    <3>8. QED
      BY <3>5, <3>7
  <2>2. CASE row[f] \notin {"pending", "stored"}
    <3>1. /\ scrub'.todo = {} /\ scrub'.removed = {} /\ scrub'.deleted = {}
          /\ UNCHANGED <<file, index, put, receipts, del, row, dropped, hurt>>
      BY <1>9, <2>2 DEF ScrubReported, Idle
    <3>2. f \in scrub.deleted /\ scrub.removed = {} /\ row[f] # "stored" /\ (Gone(f) \/ row[f] = "lost")
      BY <1>9, <2>2 DEF ScrubReported
    <3>3. QED
      BY <3>1, <3>2
  <2>3. QED
    BY <2>1, <2>2
<1>10. ASSUME NEW f \in Fragment, ScrubReportLost(f) PROVE IntactInv' /\ HeldInv'
  BY <1>10 DEF ScrubReportLost, Idle
<1>11. ASSUME AgentRestarts PROVE IntactInv' /\ HeldInv'
  BY <1>11 DEF AgentRestarts, Idle
<1>12. QED
  BY <1>1, <1>2, <1>3, <1>4, <1>5, <1>6, <1>7, <1>8, <1>9, <1>10, <1>11, Zenon DEF StoreNext, ScrubStep

\* A step of the store marks a row lost only for a fragment that was hurt.
LEMMA StoreMarksHurt ==
  ASSUME StoreTypeOK, IntactInv, HeldInv, StoreNext,
         NEW f \in Fragment, row'[f] = "lost", row[f] # "lost"
  PROVE  f \in hurt
<1> USE DEF StoreTypeOK
<1>1. ASSUME NEW g \in Fragment, ScrubReported(g) PROVE f \in hurt
  <2>1. f = g /\ f \in scrub.deleted /\ ~Gone(f)
    BY <1>1 DEF ScrubReported, Lost, Gone
  <2>2. QED
    BY <2>1 DEF IntactInv, HeldInv
<1>2. ASSUME NEW g \in Fragment,
             CommitRow(g) \/ ExpireRow(g) \/ DeleteFile(g) \/ DeleteIndex(g) \/ ScrubReportLost(g) \/ Rots(g)
               \/ ScrubRemoves(g) \/ ScrubUnindexes(g)
      PROVE  FALSE
  BY <1>2 DEF CommitRow, ExpireRow, DeleteFile, DeleteIndex, ScrubReportLost, Rots, ScrubRemoves, ScrubUnindexes
<1>3. ASSUME NEW t \in Ticket, PutStep(t) PROVE FALSE
  BY <1>3 DEF PutStep, PutAdmitted, PutRejected, PutRenamed, PutIndexed, PutIndexFails
<1>4. ASSUME ScrubLists \/ AgentRestarts PROVE FALSE
  BY <1>4 DEF ScrubLists, AgentRestarts
<1>5. QED
  BY <1>1, <1>2, <1>3, <1>4 DEF StoreNext, ScrubStep

-----------------------------------------------------------------------------
(* The audits                                                              *)

\* The steps of one monitor.
MonitorStep(m) == AuditStep(m) \/ RequestLost(m) \/ ChallengeLost(m) \/ MonitorStops(m)

\* What a monitor's step leaves alone in the store, and what it may do to a row.
LEMMA MonitorFrame ==
  ASSUME TypeOK, NEW m \in Monitor, MonitorStep(m)
  PROVE  /\ UNCHANGED <<file, index, put, receipts, del, scrub, dropped, hurt, rot>>
         /\ \/ row' = row
            \/ /\ audit[m].at = "fail" /\ row[audit[m].frag] \in {"pending", "stored"}
               /\ row' = [row EXCEPT ![audit[m].frag] = "lost"]
         /\ jobs' = jobs \/ (audit[m].at # "idle" /\ jobs' = jobs \cup {audit[m].frag})
         /\ mishaps' \in 0..MaxMishaps
         /\ cut' = cut \/ (audit[m].at # "idle" /\ cut' = cut \cup {audit[m].frag})
         /\ due' \subseteq Fragment
         /\ unspent' \in [Fragment -> SUBSET Seq]
<1> USE StoreAssumption DEF TypeOK, StoreTypeOK
<1>1. CASE ListDueAudits(m) \/ Refill(m) \/ InsertChallengeSet(m) \/ TakeNextUnspent(m) \/ DoChallenge(m) \/ Spend(m)
  <2>1. UNCHANGED storeVars /\ UNCHANGED cut /\ due' \subseteq Fragment
    BY <1>1, Zenon DEF ListDueAudits, Refill, InsertChallengeSet, TakeNextUnspent, DoChallenge, Spend
  <2>2. unspent' \in [Fragment -> SUBSET Seq]
    <3>1. CASE InsertChallengeSet(m)
      BY <3>1, Zenon DEF InsertChallengeSet
    <3>2. CASE Spend(m)
      <4>1. unspent' = [unspent EXCEPT ![audit[m].frag] = unspent[audit[m].frag] \ {audit[m].seq}]
        BY <3>2 DEF Spend
      <4>2. audit[m].frag \in Fragment => unspent[audit[m].frag] \ {audit[m].seq} \in SUBSET Seq
        OBVIOUS
      <4>3. QED
        BY <4>1, <4>2, Zenon
    <3>3. QED
      BY <1>1, <3>1, <3>2, Zenon DEF ListDueAudits, Refill, TakeNextUnspent, DoChallenge
  <2>3. QED
    BY <2>1, <2>2 DEF storeVars
<1>2. CASE MarkPlacementLost(m)
  BY <1>2 DEF MarkPlacementLost, Lost
<1>3. CASE PublishRepair(m)
  BY <1>3 DEF PublishRepair
<1>4. CASE RequestLost(m) \/ ChallengeLost(m) \/ MonitorStops(m)
  BY <1>4 DEF RequestLost, ChallengeLost, MonitorStops, Mishap
<1>5. QED
  BY <1>1, <1>2, <1>3, <1>4 DEF MonitorStep, AuditStep

\* How a monitor's own record moves.  A failure is held against a fragment only
\* if it was not intact, or the challenge was cut off.
LEMMA OwnVerdict ==
  ASSUME TypeOK, IntactInv, VerdictInv, NEW m \in Monitor, MonitorStep(m)
  PROVE  /\ audit' \in [Monitor -> AuditRec]
         /\ \A n \in Monitor : n # m => audit'[n] = audit[n]
         /\ audit'[m].at # "idle" => audit'[m].frag \in receipts
         /\ audit'[m].at \in {"fail", "publish"} \/ (audit'[m].at = "spend" /\ ~audit'[m].ok) =>
              audit'[m].frag \in hurt \cup cut' \/ Gone(audit'[m].frag)
<1> USE DEF TypeOK, AuditRec, Steps
<1>r. Resting \in AuditRec
  BY DEF Resting
<1>1. ASSUME Ends(m) PROVE audit' = [audit EXCEPT ![m] = Resting] /\ audit'[m].at = "idle"
  BY <1>1 DEF Ends, Resting
<1>2. CASE ListDueAudits(m)
  <2>1. PICK f \in due : row[f] = "stored" /\ audit' = [audit EXCEPT ![m] = [Resting EXCEPT !.frag = f,
                      !.at = IF Cardinality(unspent[f]) < LowWater THEN "refill" ELSE "take"]]
    BY <1>2, Zenon DEF ListDueAudits
  <2>2. f \in receipts
    BY <2>1 DEF IntactInv
  <2>3. QED
    BY <2>1, <2>2, Zenon DEF Resting
<1>3. CASE Refill(m)
  <2>1. CASE Good(audit[m].frag) /\ Goto(m, "insert")
    BY <1>3, <2>1 DEF Refill, Goto, VerdictInv
  <2>2. CASE ~Good(audit[m].frag) /\ audit' = [audit EXCEPT ![m].at = "fail", ![m].then = "take"]
    <3>1. audit[m].frag \in hurt \/ Gone(audit[m].frag)
      BY <1>3, <2>2 DEF Refill, VerdictInv, IntactInv
    <3>2. audit[m] \in AuditRec /\ [audit[m] EXCEPT !.at = "fail", !.then = "take"] \in AuditRec
      BY Zenon
    <3>3. audit' = [audit EXCEPT ![m] = [audit[m] EXCEPT !.at = "fail", !.then = "take"]]
      BY <2>2, Zenon
    <3>4. audit' \in [Monitor -> AuditRec] /\ \A n \in Monitor : n # m => audit'[n] = audit[n]
      BY <3>2, <3>3
    <3>5. audit'[m].frag = audit[m].frag
      BY <3>2, <3>3
    <3>6. audit[m].frag \in receipts
      BY <1>3 DEF Refill, VerdictInv
    <3>7. QED
      BY <3>1, <3>4, <3>5, <3>6
  <2>3. CASE Ends(m)
    BY <1>r, <1>1, <2>3
  <2>4. QED
    BY <1>3, <2>1, <2>2, <2>3 DEF Refill
<1>4. CASE InsertChallengeSet(m)
  BY <1>4 DEF InsertChallengeSet, Goto, VerdictInv
<1>5. CASE TakeNextUnspent(m)
  <2>1. CASE Ends(m)
    BY <1>r, <1>1, <2>1
  <2>2. ASSUME NEW q \in unspent[audit[m].frag], audit' = [audit EXCEPT ![m].at = "ask", ![m].seq = q]
        PROVE  audit' \in [Monitor -> AuditRec]
    <3>1. audit[m].frag \in Fragment
      BY <1>5, <2>2, Zenon DEF TakeNextUnspent, VerdictInv, StoreTypeOK
    <3>2. q \in Seq
      BY <2>2, <3>1
    <3>3. audit[m] \in AuditRec /\ [audit[m] EXCEPT !.at = "ask", !.seq = q] \in AuditRec
      BY <3>2, Zenon
    <3>4. audit' = [audit EXCEPT ![m] = [audit[m] EXCEPT !.at = "ask", !.seq = q]]
      BY <2>2, Zenon
    <3>5. QED
      BY <3>3, <3>4
  <2>3. QED
    BY <1>5, <2>1, <2>2 DEF TakeNextUnspent, VerdictInv
<1>6. CASE DoChallenge(m)
  <2>1. PICK ok \in BOOLEAN : (Good(audit[m].frag) => ok) /\ audit' = [audit EXCEPT ![m].at = "spend", ![m].ok = ok]
    BY <1>6, Zenon DEF DoChallenge
  <2>2. audit[m].frag \in receipts
    BY <1>6 DEF DoChallenge, VerdictInv
  <2>3. ~ok => audit[m].frag \in hurt \/ Gone(audit[m].frag)
    BY <2>1, <2>2 DEF IntactInv
  <2>4. audit[m] \in AuditRec /\ [audit[m] EXCEPT !.at = "spend", !.ok = ok] \in AuditRec
    BY Zenon
  <2>5. audit' = [audit EXCEPT ![m] = [audit[m] EXCEPT !.at = "spend", !.ok = ok]]
    BY <2>1, Zenon
  <2>6. audit' \in [Monitor -> AuditRec]
    BY <2>4, <2>5
  <2>7. audit'[m] = [audit[m] EXCEPT !.at = "spend", !.ok = ok]
    BY <2>5
  <2>8. audit'[m].frag = audit[m].frag /\ audit'[m].at = "spend" /\ audit'[m].ok = ok
    BY <2>4, <2>7
  <2>9. \A n \in Monitor : n # m => audit'[n] = audit[n]
    BY <2>5
  <2>10. QED
    BY <2>2, <2>3, <2>6, <2>8, <2>9
<1>7. CASE Spend(m)
  <2>1. CASE Ends(m)
    BY <1>r, <1>1, <2>1
  <2>2. CASE ~audit[m].ok /\ Goto(m, "fail")
    BY <1>7, <2>2 DEF Spend, Goto, VerdictInv
  <2>3. QED
    BY <1>7, <2>1, <2>2 DEF Spend
<1>8. CASE MarkPlacementLost(m)
  <2>1. CASE Ends(m)
    BY <1>r, <1>1, <2>1
  <2>2. CASE Goto(m, "publish")
    BY <1>8, <2>2 DEF MarkPlacementLost, Goto, VerdictInv
  <2>3. QED
    BY <1>8, <2>1, <2>2 DEF MarkPlacementLost
<1>9. CASE PublishRepair(m)
  <2>1. CASE Ends(m)
    BY <1>r, <1>1, <2>1
  <2>2. CASE Goto(m, "take")
    BY <1>9, <2>2 DEF PublishRepair, Goto, VerdictInv
  <2>3. QED
    BY <1>9, <2>1, <2>2 DEF PublishRepair
<1>10. CASE RequestLost(m) \/ MonitorStops(m)
  BY <1>r, <1>1, <1>10 DEF RequestLost, MonitorStops
<1>11. CASE ChallengeLost(m)
  <2>1. audit[m] \in AuditRec /\ [audit[m] EXCEPT !.at = "spend", !.ok = FALSE] \in AuditRec
    BY Zenon
  <2>2. audit' = [audit EXCEPT ![m] = [audit[m] EXCEPT !.at = "spend", !.ok = FALSE]]
    BY <1>11, Zenon DEF ChallengeLost
  <2>3. audit' \in [Monitor -> AuditRec] /\ \A n \in Monitor : n # m => audit'[n] = audit[n]
    BY <2>1, <2>2
  <2>4. audit'[m].frag = audit[m].frag
    BY <2>1, <2>2
  <2>5. audit[m].frag \in receipts /\ audit[m].frag \in cut'
    BY <1>11 DEF ChallengeLost, VerdictInv
  <2>6. QED
    BY <2>3, <2>4, <2>5
<1>12. QED
  BY <1>2, <1>3, <1>4, <1>5, <1>6, <1>7, <1>8, <1>9, <1>10, <1>11 DEF MonitorStep, AuditStep

\* A monitor's step keeps the invariant.
LEMMA MonitorKeeps ==
  ASSUME Inv, NEW m \in Monitor, MonitorStep(m)
  PROVE  Inv'
<1> DEFINE f == audit[m].frag
<1>1. TypeOK /\ IntactInv /\ HeldInv /\ VerdictInv /\ LostOnlyHurt
  BY DEF Inv
<1>2. /\ UNCHANGED <<file, index, put, receipts, del, scrub, dropped, hurt, rot>>
      /\ \/ row' = row
         \/ /\ audit[m].at = "fail" /\ row[f] \in {"pending", "stored"}
            /\ row' = [row EXCEPT ![f] = "lost"]
      /\ jobs' = jobs \/ (audit[m].at # "idle" /\ jobs' = jobs \cup {f})
      /\ mishaps' \in 0..MaxMishaps
      /\ cut' = cut \/ (audit[m].at # "idle" /\ cut' = cut \cup {f})
      /\ due' \subseteq Fragment
      /\ unspent' \in [Fragment -> SUBSET Seq]
  BY <1>1, MonitorFrame
<1>3. /\ audit' \in [Monitor -> AuditRec]
      /\ \A n \in Monitor : n # m => audit'[n] = audit[n]
      /\ audit'[m].at # "idle" => audit'[m].frag \in receipts
      /\ audit'[m].at \in {"fail", "publish"} \/ (audit'[m].at = "spend" /\ ~audit'[m].ok) =>
           audit'[m].frag \in hurt \cup cut' \/ Gone(audit'[m].frag)
  BY <1>1, OwnVerdict
<1>4. audit[m].at # "idle" => f \in receipts /\ f \in Fragment
  BY <1>1 DEF VerdictInv, TypeOK, StoreTypeOK
<1>5. \A g \in Fragment : Gone(g)' <=> Gone(g)
  BY <1>1, <1>2, <1>4 DEF Gone, TypeOK, StoreTypeOK
<1>6. TypeOK'
  <2>1. row' \in [Fragment -> {"pending", "stored", "lost", "expiring", "deleted"}]
    BY <1>1, <1>2 DEF TypeOK, StoreTypeOK
  <2>2. jobs' \subseteq Fragment /\ cut' \subseteq Fragment
    BY <1>1, <1>2, <1>4 DEF TypeOK, StoreTypeOK
  <2>3. QED
    BY <1>1, <1>2, <1>3, <2>1, <2>2 DEF TypeOK, StoreTypeOK
<1>7. IntactInv'
  <2>1. \A g \in Fragment : row'[g] = "stored" => row[g] = "stored"
    BY <1>1, <1>2, <1>4 DEF TypeOK, StoreTypeOK
  <2>2. receipts \subseteq Fragment /\ scrub.todo \subseteq Fragment /\ del \subseteq Fragment
    BY <1>1 DEF TypeOK, StoreTypeOK
  <2>3. \A t \in Ticket : ticketFor[t] \in Fragment
    BY StoreAssumption
  <2>4. QED
    BY <1>1, <1>2, <1>5, <2>1, <2>2, <2>3 DEF IntactInv, Good
<1>8. HeldInv'
  <2>1. \A g \in Fragment : row[g] = "lost" => row'[g] = "lost"
    BY <1>1, <1>2, <1>4 DEF TypeOK, StoreTypeOK
  <2>2. receipts \subseteq Fragment
    BY <1>1 DEF TypeOK, StoreTypeOK
  <2>3. \A t \in Ticket : ticketFor[t] \in Fragment
    BY StoreAssumption
  <2>4. \A g \in Fragment : Accounted(g) => Accounted(g)'
    BY <1>2, <1>5, <2>1 DEF Accounted
  <2>5. QED
    BY <1>1, <1>2, <2>2, <2>3, <2>4 DEF HeldInv, Held
<1>9. VerdictInv'
  <2>1. SUFFICES ASSUME NEW n \in Monitor
                 PROVE  /\ audit'[n].at # "idle" => audit'[n].frag \in receipts'
                        /\ audit'[n].at \in {"fail", "publish"} \/ (audit'[n].at = "spend" /\ ~audit'[n].ok) =>
                             audit'[n].frag \in hurt' \cup cut' \/ row'[audit'[n].frag] \in {"expiring", "deleted"}
    BY DEF VerdictInv, Gone
  <2>2. receipts \subseteq Fragment /\ cut \subseteq cut'
    BY <1>1, <1>2 DEF TypeOK, StoreTypeOK
  <2>3. \A g \in Fragment : row[g] \in {"expiring", "deleted"} => row'[g] \in {"expiring", "deleted"}
    BY <1>5 DEF Gone
  <2>4. CASE n = m
    BY <1>2, <1>3, <2>2, <2>3, <2>4 DEF Gone
  <2>5. CASE n # m
    BY <1>1, <1>2, <1>3, <2>2, <2>3, <2>5 DEF Gone, VerdictInv
  <2>6. QED
    BY <2>4, <2>5
<1>10. LostOnlyHurt'
  <2>1. audit[m].at = "fail" /\ row[f] \in {"pending", "stored"} => f \in hurt \cup cut
    BY <1>1 DEF VerdictInv, Gone
  <2>2. QED
    BY <1>1, <1>2, <1>4, <2>1 DEF LostOnlyHurt, TypeOK, StoreTypeOK
<1>11. QED
  BY <1>6, <1>7, <1>8, <1>9, <1>10 DEF Inv

\* A step of the store keeps the invariant.
LEMMA StoreKeeps ==
  ASSUME Inv, StoreNext, UNCHANGED auditVars
  PROVE  Inv'
<1>1. StoreTypeOK /\ TypeOK /\ IntactInv /\ HeldInv /\ VerdictInv /\ LostOnlyHurt
  BY DEF Inv, TypeOK
<1>2. TypeOK'
  BY <1>1, StoreTypeStep DEF TypeOK, auditVars
<1>3. IntactInv' /\ HeldInv'
  BY <1>1, IntactStep
<1>4. /\ receipts \subseteq receipts' /\ hurt \subseteq hurt'
      /\ \A f \in Fragment : Gone(f) => Gone(f)'
  BY <1>1, StoreGrows
<1>5. VerdictInv'
  <2>1. \A m \in Monitor : audit[m].at # "idle" => audit[m].frag \in Fragment
    BY <1>1 DEF VerdictInv, StoreTypeOK
  <2>2. UNCHANGED <<audit, cut>>
    BY DEF auditVars
  <2>3. QED
    BY <1>1, <1>4, <2>1, <2>2 DEF VerdictInv, Gone
<1>6. LostOnlyHurt'
  BY <1>1, <1>4, StoreMarksHurt DEF LostOnlyHurt, auditVars
<1>7. QED
  BY <1>2, <1>3, <1>5, <1>6 DEF Inv

-----------------------------------------------------------------------------
(* Theorems                                                                *)

\* Inv holds initially.
LEMMA InitInv == Init => Inv
<1> SUFFICES ASSUME Init PROVE Inv
  OBVIOUS
<1> USE StoreAssumption DEF Init, StoreInit
<1>1. StoreTypeOK
  BY DEF StoreTypeOK, Idle
<1>2. TypeOK
  BY <1>1 DEF TypeOK, AuditRec, Steps, Resting
<1>3. IntactInv /\ HeldInv /\ LostOnlyHurt
  BY <1>1 DEF IntactInv, HeldInv, LostOnlyHurt, Idle
<1>4. VerdictInv
  BY DEF VerdictInv, Resting
<1>5. QED
  BY <1>2, <1>3, <1>4 DEF Inv

\* Every step keeps Inv.
LEMMA InvStep == Inv /\ [Next]_vars => Inv'
<1> SUFFICES ASSUME Inv, [Next]_vars PROVE Inv'
  OBVIOUS
<1>1. CASE StoreNext /\ UNCHANGED auditVars
  BY <1>1, StoreKeeps
<1>2. ASSUME NEW m \in Monitor, AuditStep(m) \/ RequestLost(m) \/ ChallengeLost(m) \/ MonitorStops(m) PROVE Inv'
  BY <1>2, MonitorKeeps DEF MonitorStep
<1>3. ASSUME NEW f \in Fragment, IntervalPasses(f) PROVE Inv'
  BY <1>3 DEF IntervalPasses, storeVars, Inv, TypeOK, StoreTypeOK, IntactInv, HeldInv, VerdictInv, LostOnlyHurt,
              Gone, Good, Held, Accounted
<1>4. CASE UNCHANGED vars
  BY <1>4 DEF vars, storeVars, auditVars, Inv, TypeOK, StoreTypeOK, IntactInv, HeldInv, VerdictInv, LostOnlyHurt,
              Gone, Good, Held, Accounted
<1>5. QED
  BY <1>1, <1>2, <1>3, <1>4 DEF Next

\* The inductive invariant holds in every reachable state, for any number of
\* fragments, tickets and monitors.
THEOREM AuditInvariant == Spec => []Inv
<1>1. QED
  BY InitInv, InvStep, PTL DEF Spec

\* What was acknowledged is there: a stored fragment has its file and its index
\* entry, unless the scrub has it in hand or it was dropped by a failed index
\* write or a lost report (Put of store.go signs after rename and index).
THEOREM AcknowledgedHeld == Spec => []StoredHeld
<1>1. Inv => StoredHeld
  BY DEF Inv, IntactInv, HeldInv, StoredHeld, Accounted, Gone
<1>2. QED
  BY <1>1, AuditInvariant, PTL

\* No intact fragment is declared lost, however the audits of any number of
\* monitors, scrubs, PUTs, deletes and restarts interleave (failPlacement of
\* challenge.go and handleScrubReport).
THEOREM IntactNotLost == Spec => []LostOnlyHurt
<1>1. Inv => LostOnlyHurt
  BY DEF Inv
<1>2. QED
  BY <1>1, AuditInvariant, PTL

\* A late audit or scrub report never takes a row from the reaper
\* (MarkPlacementLost asks for pending or stored).
THEOREM ReaperKeepsRows == Spec => DeleteWins
<1> DEFINE Wins == \A f \in Fragment : /\ row[f] = "deleted" => row'[f] = "deleted"
                                       /\ row[f] = "expiring" => row'[f] \in {"expiring", "deleted"}
<1>1. ASSUME Inv, [Next]_vars PROVE [Wins]_vars
  <2>1. ASSUME StoreNext, UNCHANGED auditVars PROVE Wins
    BY <1>1, <2>1, ZenonT(30)
    DEF Inv, TypeOK, StoreTypeOK, StoreNext, PutStep, ScrubStep, PutAdmitted, PutRejected, PutRenamed,
      PutIndexed, PutIndexFails, CommitRow, ExpireRow, DeleteFile, DeleteIndex, ScrubReportLost, Rots, ScrubLists,
      ScrubRemoves, ScrubUnindexes, ScrubReported, Lost, AgentRestarts
  <2>2. ASSUME NEW m \in Monitor, MonitorStep(m) PROVE Wins
    BY <1>1, <2>2, MonitorFrame DEF Inv, TypeOK, StoreTypeOK
  <2>3. ASSUME NEW f \in Fragment, IntervalPasses(f) PROVE Wins
    BY <2>3 DEF IntervalPasses, storeVars
  <2>4. QED
    BY <1>1, <2>1, <2>2, <2>3 DEF Next, MonitorStep
<1>2. QED
  BY <1>1, AuditInvariant, PTL DEF Spec, DeleteWins
=============================================================================
