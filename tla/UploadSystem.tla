---------------------------- MODULE UploadSystem ----------------------------
(***************************************************************************)
(* Uploads of one path, by any number of clients, running against file     *)
(* deletion and the reaper: Upload composed with Lifecycle over the shared *)
(* tables.                                                                 *)
(***************************************************************************)
EXTENDS Upload, Lifecycle

vars == <<tables, agents, uploadVars, reap>>

Init == TablesInit /\ UploadInit /\ LifecycleInit

Next ==
  \/ UploadNext /\ UNCHANGED reap
  \/ LifecycleNext /\ UNCHANGED uploadVars

Spec == Init /\ [][Next]_vars

\* The reaper's loop comes back to every expiring row it can list, and an
\* agent that answers at all keeps answering.  Clients owe nothing.
ReaperFairness ==
  /\ \A r \in Fragment \X Reachable : SF_vars(IssueDeleteTicket(r) /\ UNCHANGED uploadVars)
  /\ SF_vars(DeleteFragment /\ UNCHANGED uploadVars)
  /\ SF_vars(ConfirmDeleted /\ UNCHANGED uploadVars)

FairSpec == Spec /\ ReaperFairness

-----------------------------------------------------------------------------
\* The tables hold the statuses the code writes and every reference is to a
\* row or NULL.
TypeOK == TablesTypeOK /\ UploadTypeOK /\ LifecycleTypeOK

\* files, file_versions and current_version agree: an active file points at a
\* committed version of its own, and no version stays committed under a file
\* that is deleted or still uploading, whichever of BeginUpload, AbortUpload,
\* CommitUpload and SoftDeleteFile interleave.
FilesMatchVersions ==
  /\ \A x \in File : fileStatus[x] = "active" =>
       /\ current[x] \in Version
       /\ verFile[current[x]] = x
       /\ verStatus[current[x]] = "committed"
  /\ \A v \in Version : verStatus[v] = "committed" =>
       /\ verFile[v] \in File
       /\ fileStatus[verFile[v]] = "active"

\* Storage is billed from stored placements (docs/03-data-model.md: billing
\* stops with the delete).  A placement is stored only while its version is
\* committed: nothing is stored under a deleted file, an aborted plan or an
\* upload that has not committed.
StoredOnlyCommitted ==
  \A r \in Row : placement[r] = "stored" => verStatus[VersionOfRow(r)] = "committed"

\* "The client treats an upload as durable only after the commit response":
\* every chunk of a committed version is on the agents' disks in at least
\* CommitThreshold different fragments, although CommitUpload counts placement
\* rows and not fragments, and although aborts, deletes and the reaper run.
CommittedOnDisk ==
  \A v \in Version : verStatus[v] = "committed" =>
    \A c \in ChunksOf(v) : Cardinality(OnDisk(c)) >= CommitThreshold

\* A client that was told its commit succeeded has a committed version, or one
\* the owner deleted since: no abort or retry of another session takes it back.
AcknowledgedKept ==
  \A s \in Session : reply[s] = "ok" =>
    /\ ver[s] \in Version
    /\ verStatus[ver[s]] \in {"committed", "expired"}

\* A deleted file never comes back: a session that looked the file up before
\* the delete may still insert a version under it, plan it and send receipts,
\* but its commit does not make the file active again.
DeletedFinal ==
  [][\A x \in File : fileStatus[x] = "deleted" => fileStatus'[x] = "deleted"]_vars

\* The reaper's list is not full of rows whose agents do not answer.
ListHasRoom ==
  Cardinality({r \in Row : placement[r] = "expiring" /\ r[2] \notin Reachable}) < ReapBatch

\* Every expiring placement on an agent that answers is eventually deleted,
\* whatever the uploads do meanwhile, if ListExpiringPlacements always leaves
\* room for it: rows of agents that do not answer stay at the head of the list.
ExpiringReaped ==
  []ListHasRoom =>
    \A r \in Fragment \X Reachable : placement[r] = "expiring" ~> placement[r] = "deleted"

-----------------------------------------------------------------------------
(* The refinement mapping to AtomicUpload.                                 *)

\* The versions a client can get back: committed, and on the agents' disks in
\* enough fragments.
Whole(v) ==
  /\ verStatus[v] = "committed"
  /\ \A c \in ChunksOf(v) : Cardinality(OnDisk(c)) >= CommitThreshold

\* LoadDownload serves an active file's current_version.
Served == [x \in File |->
  IF fileStatus[x] = "active" /\ current[x] # None /\ Whole(current[x]) THEN current[x] ELSE None]

Published == [x \in File |-> {v \in Version : verFile[v] = x /\ Whole(v)}]
Withdrawn == {v \in Version : verStatus[v] = "expired"}
Told == [s \in Session |-> IF reply[s] = "ok" THEN ver[s] ELSE None]

Atomic == INSTANCE AtomicUpload WITH
  life <- fileStatus, content <- Served, published <- Published, withdrawn <- Withdrawn, told <- Told

\* Plans, tickets, PUTs, receipts, commits, aborts, retries, deletes and the
\* reaper together implement atomic uploads: what CommitUpload publishes is
\* whole in one step and stays whole until SoftDeleteFile, and a client is
\* only told of what is published.
ImplementsAtomicUpload == Atomic!Spec

-----------------------------------------------------------------------------
(* What the documentation says and the code does not do.                   *)

\* docs/04-storage-pipeline.md: "receipts are idempotent; re-submitting a
\* commit is safe".  A session whose commit was accepted gets the same answer
\* when it sends the same receipts again, unless the file was deleted.
ResubmitSafe ==
  [][\A s \in Session : reply[s] = "ok" => reply'[s] \in {"ok", "none", "notfound"}]_vars

\* docs/03-data-model.md: deletion moves placements to expiring, "a reaper in
\* the repair process issues DELETE tickets, agents remove fragments,
\* placements flip to deleted".  With every agent reachable, no placement of
\* a deleted file stays in the table for good in any other status.
DeletedFileReclaimed ==
  \A x \in File :
    fileStatus[x] = "deleted" ~>
      \A r \in Row : verFile[VersionOfRow(r)] = x => placement[r] \in {"none", "deleted"}
=============================================================================
