----------------------------- MODULE AgentStore -----------------------------
(***************************************************************************)
(* The fragment store of one node agent: a file per fragment and an index, *)
(* changed by PUT, DELETE and the scrub, which run concurrently, and       *)
(* stopped by crashes (internal/agent/store.go, fragments.go, scrub.go).   *)
(*                                                                         *)
(* Put renames the file into place and then writes the index; Delete       *)
(* removes the file and then the index entry.  Both are two steps here.    *)
(* The placement rows of the node are in the model as far as a receipt, a  *)
(* scrub report, a delete or an audit moves them.                          *)
(***************************************************************************)
EXTENDS Integers, FiniteSets

CONSTANTS
  Fragment,   \* fragments placed on this node
  Ticket,     \* PUT tickets issued for them
  ticketFor,  \* the fragment of a ticket
  ScrubBatch, \* fragments a scrub pass reads
  MaxRot,     \* fragments that rot on the disk
  MaxMishaps  \* crashes, failed writes and lost requests

ASSUME StoreAssumption ==
  /\ ticketFor \in [Ticket -> Fragment]
  /\ MaxRot \in Nat /\ MaxMishaps \in Nat

VARIABLES
  file,     \* what the file of a fragment holds
  index,    \* fragments with an index entry
  put,      \* the handler of a ticket's PUT
  receipts, \* fragments the agent has signed a receipt for
  del,      \* a DELETE of the fragment between its two steps
  scrub,    \* fragments the scrub pass still has to drop and report
  row,      \* status of the fragment's placement row
  jobs,     \* fragments whose chunk has a repair job published
  dropped,  \* fragments gone from the disk without a report
  hurt,     \* fragments that have rotted, or whose file a failed PUT removed
  rot, mishaps

storeVars == <<file, index, put, receipts, del, scrub, row, jobs, dropped, hurt, rot, mishaps>>

StoreTypeOK ==
  /\ file \in [Fragment -> {"none", "good", "bad"}]
  /\ index \subseteq Fragment
  /\ put \in [Ticket -> {"issued", "admitted", "renamed", "done"}]
  /\ receipts \subseteq Fragment
  /\ del \subseteq Fragment
  /\ scrub \in [todo : SUBSET Fragment, removed : SUBSET Fragment, deleted : SUBSET Fragment]
  /\ row \in [Fragment -> {"pending", "stored", "lost", "expiring", "deleted"}]
  /\ jobs \subseteq Fragment
  /\ dropped \subseteq Fragment /\ hurt \subseteq Fragment
  /\ rot \in 0..MaxRot /\ mishaps \in 0..MaxMishaps

Idle == [todo |-> {}, removed |-> {}, deleted |-> {}]

StoreInit ==
  /\ file = [f \in Fragment |-> "none"]
  /\ index = {}
  /\ put = [t \in Ticket |-> "issued"]
  /\ receipts = {}
  /\ del = {}
  /\ scrub = Idle
  /\ row = [f \in Fragment |-> "pending"]
  /\ jobs = {} /\ dropped = {} /\ hurt = {}
  /\ rot = 0 /\ mishaps = 0

Mishap == mishaps < MaxMishaps /\ mishaps' = mishaps + 1

Held(f) == f \in index /\ file[f] # "none"
Good(f) == f \in index /\ file[f] = "good"

----------------------------------------------------------------------------
(* PUT.                                                                    *)

\* handlePut takes the ticket: its nonce is consumed, so it serves once.
PutAdmitted(t) ==
  /\ put[t] = "issued"
  /\ put' = [put EXCEPT ![t] = "admitted"]
  /\ UNCHANGED <<file, index, receipts, del, scrub, row, jobs, dropped, hurt, rot, mishaps>>

\* The body did not arrive whole or its hash is wrong: the temporary file
\* is removed.
PutRejected(t) ==
  /\ put[t] = "admitted"
  /\ put' = [put EXCEPT ![t] = "done"]
  /\ Mishap
  /\ UNCHANGED <<file, index, receipts, del, scrub, row, jobs, dropped, hurt, rot>>

\* Variant with a bug: the receipt is signed before the index is written.
PutSignsEarly(t) ==
  /\ put[t] = "admitted"
  /\ put' = [put EXCEPT ![t] = "renamed"]
  /\ file' = [file EXCEPT ![ticketFor[t]] = "good"]
  /\ receipts' = receipts \cup {ticketFor[t]}
  /\ UNCHANGED <<index, del, scrub, row, jobs, dropped, hurt, rot, mishaps>>

PutRenamed(t) ==
  /\ put[t] = "admitted"
  /\ put' = [put EXCEPT ![t] = "renamed"]
  /\ file' = [file EXCEPT ![ticketFor[t]] = "good"]
  /\ UNCHANGED <<index, receipts, del, scrub, row, jobs, dropped, hurt, rot, mishaps>>

\* The index is written and the receipt signed.
PutIndexed(t) ==
  /\ put[t] = "renamed"
  /\ put' = [put EXCEPT ![t] = "done"]
  /\ index' = index \cup {ticketFor[t]}
  /\ receipts' = receipts \cup {ticketFor[t]}
  /\ UNCHANGED <<file, del, scrub, row, jobs, dropped, hurt, rot, mishaps>>

\* The index is not written and the file is removed, also when an earlier
\* PUT of the fragment was answered.
PutIndexFails(t) ==
  /\ put[t] = "renamed"
  /\ Mishap
  /\ put' = [put EXCEPT ![t] = "done"]
  /\ file' = [file EXCEPT ![ticketFor[t]] = "none"]
  /\ dropped' = dropped \cup {ticketFor[t]}
  /\ hurt' = hurt \cup {ticketFor[t]}
  /\ UNCHANGED <<index, receipts, del, scrub, row, jobs, rot>>

----------------------------------------------------------------------------
(* DELETE by the reaper, and the rows it works from.                       *)

CommitRow(f) ==
  /\ row[f] = "pending" /\ f \in receipts
  /\ row' = [row EXCEPT ![f] = "stored"]
  /\ UNCHANGED <<file, index, put, receipts, del, scrub, jobs, dropped, hurt, rot, mishaps>>

ExpireRow(f) ==
  /\ row[f] \in {"pending", "stored", "lost"}
  /\ row' = [row EXCEPT ![f] = "expiring"]
  /\ UNCHANGED <<file, index, put, receipts, del, scrub, jobs, dropped, hurt, rot, mishaps>>

DeleteFile(f) ==
  /\ row[f] = "expiring" /\ f \notin del
  /\ file' = [file EXCEPT ![f] = "none"]
  /\ del' = del \cup {f}
  /\ UNCHANGED <<index, put, receipts, scrub, row, jobs, dropped, hurt, rot, mishaps>>

\* The answer reaches the reaper, which marks the row; or it does not, and
\* a later pass deletes again.
DeleteIndex(f) ==
  /\ f \in del
  /\ index' = index \ {f}
  /\ del' = del \ {f}
  /\ \/ row' = [row EXCEPT ![f] = "deleted"] /\ UNCHANGED mishaps
     \/ Mishap /\ UNCHANGED row
  /\ UNCHANGED <<file, put, receipts, scrub, jobs, dropped, hurt, rot>>

----------------------------------------------------------------------------
(* The scrub.                                                              *)

Lost(f) == [row EXCEPT ![f] = "lost"]

\* One pass over at most ScrubBatch index entries, the first in key order;
\* which ones those are depends on the ids.
ScrubLists ==
  /\ scrub = Idle
  /\ \E batch \in SUBSET index :
       /\ Cardinality(batch) = IF Cardinality(index) < ScrubBatch THEN Cardinality(index) ELSE ScrubBatch
       /\ scrub' = [Idle EXCEPT !.todo = {f \in batch : file[f] # "good"}]
  /\ scrub'.todo # {}
  /\ UNCHANGED <<file, index, put, receipts, del, row, jobs, dropped, hurt, rot, mishaps>>

\* Delete, in its two steps, of one fragment of the list; whatever was put
\* there since the list was made goes too.
ScrubRemoves(f) ==
  /\ f \in scrub.todo /\ scrub.removed = {} /\ scrub.deleted = {}
  /\ file' = [file EXCEPT ![f] = "none"]
  /\ scrub' = [scrub EXCEPT !.removed = {f}]
  /\ UNCHANGED <<index, put, receipts, del, row, jobs, dropped, hurt, rot, mishaps>>

ScrubUnindexes(f) ==
  /\ f \in scrub.removed
  /\ index' = index \ {f}
  /\ scrub' = [scrub EXCEPT !.removed = {}, !.deleted = {f}]
  /\ UNCHANGED <<file, put, receipts, del, row, jobs, dropped, hurt, rot, mishaps>>

\* handleScrubReport: the row is marked and a repair job published.  A row
\* that is not pending or stored is an error, and the pass ends.
ScrubReported(f) ==
  /\ f \in scrub.deleted
  /\ IF row[f] \in {"pending", "stored"}
     THEN /\ row' = Lost(f)
          /\ jobs' = jobs \cup {f}
          /\ scrub' = [scrub EXCEPT !.todo = @ \ {f}, !.deleted = {}]
     ELSE /\ scrub' = Idle
          /\ UNCHANGED <<row, jobs>>
  /\ UNCHANGED <<file, index, put, receipts, del, dropped, hurt, rot, mishaps>>

\* The report does not arrive: the pass ends and nothing repeats it.
ScrubReportLost(f) ==
  /\ f \in scrub.deleted
  /\ Mishap
  /\ dropped' = dropped \cup {f}
  /\ scrub' = Idle
  /\ UNCHANGED <<file, index, put, receipts, del, row, jobs, hurt, rot>>

----------------------------------------------------------------------------
(* The disk and the process.                                               *)

Rots(f) ==
  /\ file[f] = "good" /\ rot < MaxRot
  /\ rot' = rot + 1
  /\ file' = [file EXCEPT ![f] = "bad"]
  /\ hurt' = hurt \cup {f}
  /\ UNCHANGED <<index, put, receipts, del, scrub, row, jobs, dropped, mishaps>>

\* The process stops and starts again: handlers and the scrub pass are
\* gone, files and index stay as they are.
AgentRestarts ==
  /\ Mishap
  /\ put' = [t \in Ticket |-> IF put[t] = "issued" THEN "issued" ELSE "done"]
  /\ del' = {}
  /\ dropped' = dropped \cup scrub.removed \cup scrub.deleted
  /\ scrub' = Idle
  /\ UNCHANGED <<file, index, receipts, row, jobs, hurt, rot>>

PutStep(t) == PutAdmitted(t) \/ PutRejected(t) \/ PutRenamed(t) \/ PutIndexed(t) \/ PutIndexFails(t)
ScrubStep == ScrubLists \/ \E f \in Fragment : ScrubRemoves(f) \/ ScrubUnindexes(f) \/ ScrubReported(f)

StoreNext ==
  \/ \E t \in Ticket : PutStep(t)
  \/ \E f \in Fragment : \/ CommitRow(f) \/ ExpireRow(f) \/ DeleteFile(f) \/ DeleteIndex(f)
                         \/ ScrubReportLost(f) \/ Rots(f)
  \/ ScrubStep
  \/ AgentRestarts

----------------------------------------------------------------------------
(* What was acknowledged is there: through concurrent PUTs, deletes,       *)
(* scrubs and restarts, a stored fragment has its file and its index       *)
(* entry, unless the scrub has it in hand or it was dropped by a failed    *)
(* index write or a lost report (Put signs after rename and index).        *)
StoredHeld ==
  \A f \in Fragment :
    row[f] = "stored" => Held(f) \/ f \in scrub.todo \/ f \in dropped
=============================================================================
