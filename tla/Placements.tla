----------------------------- MODULE Placements -----------------------------
(***************************************************************************)
(* The tables every part of the control plane shares: files,               *)
(* file_versions and fragment_placements (internal/store), and what the    *)
(* node agents really hold (internal/agent/store.go).                      *)
(*                                                                         *)
(* One bucket path is modelled.  Rows of files and file_versions are       *)
(* preallocated: a row that is not inserted yet has status "none".  The    *)
(* chunks and fragments of a version are fixed by its manifest, so they    *)
(* are constants.  A placement row is a pair <<fragment, node>>, which the *)
(* table's UNIQUE (fragment_id, node_id) allows.                           *)
(***************************************************************************)
EXTENDS Naturals, FiniteSets

CONSTANTS
  File,             \* ids of files rows of the path, numbered as allocated
  Version,          \* ids of file_versions rows, numbered as allocated
  Chunk,            \* ids of chunks rows
  Fragment,         \* ids of fragments rows
  Node,             \* node agents
  versionOf,        \* chunks.version_id
  chunkOf,          \* fragments.chunk_id
  Eligible,         \* nodes no cap, quota or missing heartbeat ever excludes
  CommitThreshold,  \* store.CommitThreshold: stored rows a chunk commits with
  None              \* SQL NULL

ASSUME ManifestAssumption ==
  /\ File \subseteq Nat /\ Version \subseteq Nat
  /\ versionOf \in [Chunk -> Version]
  /\ chunkOf \in [Fragment -> Chunk]
  /\ None \notin File /\ None \notin Version
  /\ IsFiniteSet(Fragment)

ASSUME ThresholdAssumption == CommitThreshold \in Nat \ {0}

VARIABLES
  fileStatus,   \* files.status
  current,      \* files.current_version
  verStatus,    \* file_versions.status
  verFile,      \* file_versions.file_id
  placement,    \* fragment_placements.status
  disk,         \* rows whose fragment the node's ChunkStore holds intact
  receipts      \* rows for which the node has ever signed a storage receipt

tables == <<fileStatus, current, verStatus, verFile, placement>>
agents == <<disk, receipts>>

Row == Fragment \X Node

FileStatus == {"none", "uploading", "active", "deleted"}
VersionStatus == {"none", "pending", "committed", "aborted", "expired"}
PlacementStatus == {"none", "pending", "stored", "lost", "expiring", "deleted"}

TablesTypeOK ==
  /\ fileStatus \in [File -> FileStatus]
  /\ current \in [File -> Version \cup {None}]
  /\ verStatus \in [Version -> VersionStatus]
  /\ verFile \in [Version -> File \cup {None}]
  /\ placement \in [Row -> PlacementStatus]
  /\ disk \subseteq Row
  /\ receipts \subseteq Row

TablesInit ==
  /\ fileStatus = [x \in File |-> "none"]
  /\ current = [x \in File |-> None]
  /\ verStatus = [v \in Version |-> "none"]
  /\ verFile = [v \in Version |-> None]
  /\ placement = [r \in Row |-> "none"]
  /\ disk = {}
  /\ receipts = {}

-----------------------------------------------------------------------------
(* The rows a query joins to.                                              *)

ChunkOfRow(r) == chunkOf[r[1]]
VersionOfRow(r) == versionOf[chunkOf[r[1]]]
ChunksOf(v) == {c \in Chunk : versionOf[c] = v}
FragmentsOf(v) == {f \in Fragment : versionOf[chunkOf[f]] = v}
RowsOf(v, statuses) ==
  {r \in Row : VersionOfRow(r) = v /\ placement[r] \in statuses}

\* The live row of the path: at most one, files_bucket_path_live is unique.
LiveFiles == {x \in File : fileStatus[x] \in {"uploading", "active"}}

\* Nodes that hold a pending or stored fragment of chunk c (ListOccupants).
Occupants(c) ==
  {n \in Node : \E f \in Fragment : chunkOf[f] = c
                                    /\ placement[<<f, n>>] \in {"pending", "stored"}}

(* Status updates, each one SQL statement over the placement table. *)

\* Variant with a bug: ON CONFLICT DO UPDATE revives the row.
InsertedRevives(rows) ==
  [r \in Row |-> IF r \in rows /\ placement[r] # "stored" THEN "pending" ELSE placement[r]]

\* INSERT ... 'pending' ON CONFLICT (fragment_id, node_id) DO NOTHING
Inserted(rows) ==
  [r \in Row |-> IF r \in rows /\ placement[r] = "none" THEN "pending" ELSE placement[r]]

\* Every pending row of the listed fragments, whatever its node, is stored.
Promoted(frags) ==
  [r \in Row |-> IF r[1] \in frags /\ placement[r] = "pending" THEN "stored" ELSE placement[r]]

\* Rows of set whose status is in from move to status to.
Moved(set, from, to) ==
  [r \in Row |-> IF r \in set /\ placement[r] \in from THEN to ELSE placement[r]]

\* A map keyed by fragment filled from rows: one row of each fragment is kept,
\* in an order the query does not fix.
OnePerFragment(rows) ==
  {t \in SUBSET rows : /\ \A r, q \in t : r[1] = q[1] => r = q
                       /\ \A r \in rows : \E q \in t : q[1] = r[1]}

\* What scheduler.Place may answer for the fragments of needs: at most one
\* node per fragment, distinct nodes within a chunk, none an occupant of the
\* chunk.  Liveness, capacity, region, ASN, owner and probation limits may
\* exclude any node but the Eligible ones; a fragment no node is left for is
\* omitted.
Assignments(needs, online) ==
  {a \in SUBSET (needs \X online) :
     /\ \A r \in a : r[2] \notin Occupants(ChunkOfRow(r))
     /\ \A r, q \in a : r # q => /\ r[1] # q[1]
                                 /\ ChunkOfRow(r) = ChunkOfRow(q) => r[2] # q[2]
     /\ \A f \in needs, n \in Eligible \cap online :
          \/ n \in Occupants(chunkOf[f])
          \/ \E r \in a : r[1] = f \/ (ChunkOfRow(r) = chunkOf[f] /\ r[2] = n)}

-----------------------------------------------------------------------------
\* Fragments of chunk c that some agent holds intact.
OnDisk(c) == {f \in Fragment : chunkOf[f] = c /\ \E n \in Node : <<f, n>> \in disk}

RowsRetired ==
  \A r \in Row :
    /\ placement[r] = "expiring" => placement'[r] \in {"expiring", "deleted"}
    /\ placement[r] = "deleted" => placement'[r] = "deleted"

\* A placement given up to the reaper never serves again: no plan, commit,
\* abort, repair or flap moves an expiring row anywhere but to deleted, or a
\* deleted row at all, so a reaper's DELETE never removes a fragment that is
\* counted.
RowRetired == [][RowsRetired]_placement
=============================================================================
