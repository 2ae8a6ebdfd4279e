---------------------------- MODULE RepairSystem ----------------------------
(***************************************************************************)
(* Repair of committed files while nodes flap, owners delete and the       *)
(* reaper runs: Repair composed with Lifecycle over the shared tables.     *)
(* Uploads have committed before; each file has one version.               *)
(***************************************************************************)
EXTENDS Repair, Lifecycle

ASSUME OneVersionAssumption == File = Version

vars == <<tables, agents, repairVars, reap>>

\* The rows PlanUpload made: each fragment on at most one node, the nodes of a
\* chunk distinct.
Planned(rows) ==
  \A r, q \in rows :
    r # q => r[1] # q[1] /\ (ChunkOfRow(r) = ChunkOfRow(q) => r[2] # q[2])

\* What CommitUpload leaves of them: CommitThreshold stored rows per chunk; a
\* row whose PUT failed is still pending.
Init ==
  /\ fileStatus = [x \in File |-> "active"]
  /\ current = [x \in File |-> x]
  /\ verStatus = [v \in Version |-> "committed"]
  /\ verFile = [v \in Version |-> v]
  /\ \E planned \in {rows \in SUBSET Row : Planned(rows)} : \E rows \in SUBSET planned :
       /\ \A c \in Chunk : Cardinality({r \in rows : ChunkOfRow(r) = c}) >= CommitThreshold
       /\ placement = [r \in Row |-> IF r \in rows THEN "stored"
                                     ELSE IF r \in planned THEN "pending" ELSE "none"]
       /\ disk = rows /\ receipts = rows
  /\ RepairInit /\ LifecycleInit

\* The owner keeps the file: nobody deletes.
KeepNext ==
  \/ RepairNext /\ UNCHANGED reap
  \/ (ReaperStep \/ ReapFails) /\ UNCHANGED repairVars

Next == KeepNext \/ \E x \in File : SoftDeleteFile(x) /\ UNCHANGED repairVars

Spec == Init /\ [][Next]_vars
KeepSpec == Init /\ [][KeepNext]_vars

\* pick draws among the eligible nodes at random, so a job that is planned
\* again and again is some time planned onto nodes without a row of the
\* fragment.
FreshPlace(w) ==
  /\ RepairPlace(w)
  /\ \A r \in work'[w].todo : placement[r] = "none"

\* The two consumers and the job loops keep running.
RepairFairness ==
  /\ WF_vars(OfflineStep /\ UNCHANGED reap)
  /\ WF_vars(OnlineStep /\ UNCHANGED reap)
  /\ \A w \in Worker : /\ WF_vars(JobStep(w) /\ UNCHANGED reap)
                       /\ SF_vars(FreshPlace(w) /\ UNCHANGED reap)

FairKeepSpec == KeepSpec /\ RepairFairness

-----------------------------------------------------------------------------
\* The tables, the streams and the handlers' local state have their types.
TypeOK == TablesTypeOK /\ RepairTypeOK /\ LifecycleTypeOK

\* A row is stored only if an agent, not always the row's own, has signed for
\* its fragment: a failed PUT, a partial plan or a job that is delivered again
\* never lets a fragment nobody has put count as healthy.
StoredRebuilt ==
  \A r \in Row : placement[r] = "stored" => \E n \in Node : <<r[1], n>> \in receipts

\* Flap handling checks the returning node and updates the rows later, in
\* another transaction: still, a lost row counts again only while the node has
\* the fragment, whatever repairs and reaper passes came in between.
RestoredOnDisk ==
  [][\A r \in Row : placement[r] = "lost" /\ placement'[r] = "stored" => r \in disk]_placement

\* A committed chunk loses a fragment only with a copy that was stored and is
\* missing: node losses, failed audits, repairs, flaps and the reaper never
\* remove the last intact copy of a fragment, whatever stale view of the chunk
\* they act on, unless a disk has lost one or a commit has counted one that was
\* never put.
Recoverable ==
  \A c \in Chunk : verStatus[versionOf[c]] = "committed" =>
    Cardinality(OnDisk(c)) + missing >= CommitThreshold

\* Rows of chunk c that count: stored on a node that is not offline.
LiveRows(c) == {r \in RowsOfChunk(c, {"stored"}) : r[2] \in Online}

\* docs/03-data-model.md, node failure: "reconstruction is queued, new
\* placements inserted as `pending`, flipped to `stored` on receipt"; docs/06:
\* "A crashed worker's job simply redelivers via NATS".  After a node or a
\* fragment is lost the chunk is some time back at the repair threshold.
LossRepaired == \A c \in Chunk : []<>(Cardinality(LiveRows(c)) >= RepairThreshold)

-----------------------------------------------------------------------------
(* What the documentation says and the code does not do.                   *)

\* docs/06-scheduler-and-repair.md: "One fragment per node.  Never two
\* fragments of the same chunk on one node."
OneFragmentPerNode ==
  \A r, q \in Row :
    /\ r # q /\ ChunkOfRow(r) = ChunkOfRow(q)
    /\ placement[r] = "stored" /\ placement[q] = "stored"
    => r[2] # q[2]

\* docs/06-scheduler-and-repair.md: "Only fragments actually reconstructed
\* elsewhere cause the returning node's copies to be expired as surplus."  When
\* flap handling gives a copy up, another node has signed for the fragment.
SurplusRebuilt ==
  [][\A r \in Row : placement[r] = "lost" /\ placement'[r] = "expiring" =>
       \E n \in Node \ {r[2]} : <<r[1], n>> \in receipts]_placement

\* docs/03-data-model.md, file deletion: "placements flip to `expiring` in the
\* same transaction (billing stops immediately)".  No row is stored, and
\* billed, under a deleted file.
DeletedNotStored ==
  \A r \in Row : placement[r] = "stored" => fileStatus[verFile[VersionOfRow(r)]] # "deleted"
=============================================================================
