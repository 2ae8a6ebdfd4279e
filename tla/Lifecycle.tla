------------------------------ MODULE Lifecycle ------------------------------
(***************************************************************************)
(* File deletion and the reaper (internal/store/files.go SoftDeleteFile,   *)
(* internal/lifecycle/reaper.go).  The owner soft-deletes a file; the      *)
(* reaper, a loop in the repair process, has the node agents delete the    *)
(* expiring fragments and records each confirmed removal.                  *)
(***************************************************************************)
EXTENDS Placements

CONSTANTS
  Reachable,   \* nodes whose agent answers the reaper
  rowId,       \* fragment_placements.id, the order the reaper lists rows in
  ReapBatch    \* rows of a reaper's pass

ASSUME ReachableAssumption == Reachable \subseteq Node

VARIABLE reap   \* [row, at] of the placement the reaper handles, or None

ReapState == [row : Row, at : {"ticket", "deleted"}] \cup {None}

LifecycleTypeOK == reap \in ReapState

LifecycleInit == reap = None

\* Variant with a bug: only pending versions expire.
SoftDeleteFileKeepsVersions(x) ==
  /\ fileStatus[x] # "none"
  /\ fileStatus' = [fileStatus EXCEPT ![x] = "deleted"]
  /\ verStatus' = [v \in Version |->
        IF verFile[v] = x /\ verStatus[v] = "pending" THEN "expired" ELSE verStatus[v]]
  /\ placement' = Moved({r \in Row : verFile[VersionOfRow(r)] = x},
                        {"pending", "stored", "lost"}, "expiring")
  /\ UNCHANGED <<current, verFile, agents, reap>>

\* Variant with a bug: stored placements stay.
SoftDeleteFileKeepsRows(x) ==
  /\ fileStatus[x] # "none"
  /\ fileStatus' = [fileStatus EXCEPT ![x] = "deleted"]
  /\ verStatus' = [v \in Version |->
        IF verFile[v] = x /\ verStatus[v] \in {"pending", "committed"}
        THEN "expired" ELSE verStatus[v]]
  /\ placement' = Moved({r \in Row : verFile[VersionOfRow(r)] = x}, {"pending", "lost"}, "expiring")
  /\ UNCHANGED <<current, verFile, agents, reap>>

\* DELETE /file: one transaction expires the file's versions and placements.
\* FileByID has found the file live, but before the transaction: another
\* request may have deleted it since, and the transaction does not look again.
SoftDeleteFile(x) ==
  /\ fileStatus[x] # "none"
  /\ fileStatus' = [fileStatus EXCEPT ![x] = "deleted"]
  /\ verStatus' = [v \in Version |->
        IF verFile[v] = x /\ verStatus[v] \in {"pending", "committed"}
        THEN "expired" ELSE verStatus[v]]
  /\ placement' = Moved({r \in Row : verFile[VersionOfRow(r)] = x},
                        {"pending", "stored", "lost"}, "expiring")
  /\ UNCHANGED <<current, verFile, agents, reap>>

\* Variant with a bug: the last row of a pass is left out.
ListedButLast(r) ==
  Cardinality({q \in Row : placement[q] = "expiring" /\ rowId[q] < rowId[r]}) < ReapBatch - 1

\* ListExpiringPlacements: ORDER BY id LIMIT 64, whether or not the agents of
\* these rows answer.
Listed(r) ==
  Cardinality({q \in Row : placement[q] = "expiring" /\ rowId[q] < rowId[r]}) < ReapBatch

\* once/reap: the next expiring row gets a DELETE ticket.  For an agent that
\* does not answer, reap logs an error and changes nothing.
IssueDeleteTicket(r) ==
  /\ reap = None
  /\ placement[r] = "expiring" /\ Listed(r) /\ r[2] \in Reachable
  /\ reap' = [row |-> r, at |-> "ticket"]
  /\ UNCHANGED <<tables, agents>>

\* The agent removes the fragment; 404 from the agent counts as removed.
DeleteFragment ==
  /\ reap # None /\ reap.at = "ticket"
  /\ disk' = disk \ {reap.row}
  /\ reap' = [reap EXCEPT !.at = "deleted"]
  /\ UNCHANGED <<tables, receipts>>

ConfirmDeleted ==
  /\ reap # None /\ reap.at = "deleted"
  /\ placement' = Moved({reap.row}, {"expiring"}, "deleted")
  /\ reap' = None
  /\ UNCHANGED <<fileStatus, current, verStatus, verFile, agents>>

\* An unreachable agent, a failed call or a restart of the process; the row
\* is still expiring and a later pass lists it again.
ReapFails ==
  /\ reap # None
  /\ reap' = None
  /\ UNCHANGED <<tables, agents>>

ReaperStep ==
  \/ \E r \in Row : IssueDeleteTicket(r)
  \/ DeleteFragment
  \/ ConfirmDeleted

LifecycleNext ==
  \/ \E x \in File : SoftDeleteFile(x)
  \/ ReaperStep
  \/ ReapFails
=============================================================================
