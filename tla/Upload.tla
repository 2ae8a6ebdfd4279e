------------------------------- MODULE Upload -------------------------------
(***************************************************************************)
(* The upload protocol: PlanUpload, the fragment PUTs of the client and    *)
(* CommitUpload (internal/metadata/upload.go, internal/store/uploads.go,   *)
(* cmd/dsp/transfer.go cmdPut).  A session is one client uploading the     *)
(* same content to the same path.  A client with other content is refused  *)
(* with ErrConflict by BeginUpload and changes nothing, so it is not here. *)
(*                                                                         *)
(* Each SQL statement outside a transaction, and each transaction, is one  *)
(* action.  BeginUpload's transaction is two actions, what it reads and    *)
(* what it writes: under READ COMMITTED others commit in between.          *)
(***************************************************************************)
EXTENDS Placements

CONSTANTS
  Session,          \* upload clients
  ClientThreshold   \* receipts per chunk the client wants before it commits

VARIABLES
  pc,       \* next step of the session
  file,     \* the file row BeginUpload found, or None
  ver,      \* the version the session uploads, or None
  plan,     \* what PlanUpload knows of the placements
  tickets,  \* PUT tickets <<fragment, planned row's node, ticketed node>>
  got,      \* tickets whose PUT answered with a receipt
  stored,   \* fragment ids CommitUpload passes to the store
  reply     \* last answer to the session's commit

uploadVars == <<pc, file, ver, plan, tickets, got, stored, reply>>

Steps == {"idle", "write", "place", "insert", "abort", "client", "commit", "done"}
Replies == {"none", "ok", "invalid", "notfound", "conflict", "incomplete"}
Ticket == Fragment \X Node \X Node
Plans == [resume : BOOLEAN, stored : SUBSET Row, pending : SUBSET Row,
          assigned : SUBSET Row, todo : SUBSET Row]

EmptyPlan == [resume |-> FALSE, stored |-> {}, pending |-> {}, assigned |-> {}, todo |-> {}]

UploadTypeOK ==
  /\ pc \in [Session -> Steps]
  /\ file \in [Session -> File \cup {None}]
  /\ ver \in [Session -> Version \cup {None}]
  /\ plan \in [Session -> Plans]
  /\ tickets \in [Session -> SUBSET Ticket]
  /\ got \in [Session -> SUBSET Ticket]
  /\ stored \in [Session -> SUBSET Fragment]
  /\ reply \in [Session -> Replies]

UploadInit ==
  /\ pc = [s \in Session |-> "idle"]
  /\ file = [s \in Session |-> None]
  /\ ver = [s \in Session |-> None]
  /\ plan = [s \in Session |-> EmptyPlan]
  /\ tickets = [s \in Session |-> {}]
  /\ got = [s \in Session |-> {}]
  /\ stored = [s \in Session |-> {}]
  /\ reply = [s \in Session |-> "none"]

Goto(s, step) == pc' = [pc EXCEPT ![s] = step]

\* The session is over: it starts again from nothing.
Leave(s) ==
  /\ Goto(s, "idle")
  /\ file' = [file EXCEPT ![s] = None]
  /\ ver' = [ver EXCEPT ![s] = None]
  /\ plan' = [plan EXCEPT ![s] = EmptyPlan]
  /\ tickets' = [tickets EXCEPT ![s] = {}]
  /\ got' = [got EXCEPT ![s] = {}]
  /\ stored' = [stored EXCEPT ![s] = {}]
  /\ reply' = [reply EXCEPT ![s] = "none"]

-----------------------------------------------------------------------------
(* BeginUpload                                                             *)

PendingVersions(x) == {v \in Version : verFile[v] = x /\ verStatus[v] = "pending"}

\* The path's live row and its latest pending version.  An active file is
\* ErrConflict.
BeginLookup(s) ==
  /\ pc[s] = "idle"
  /\ \/ /\ LiveFiles = {}
        /\ file' = [file EXCEPT ![s] = None]
        /\ ver' = [ver EXCEPT ![s] = None]
     \/ \E x \in LiveFiles :
          /\ fileStatus[x] = "uploading"
          /\ file' = [file EXCEPT ![s] = x]
          /\ \/ /\ PendingVersions(x) = {}
                /\ ver' = [ver EXCEPT ![s] = None]
             \/ \E v \in PendingVersions(x) :
                  /\ \A w \in PendingVersions(x) : w <= v
                  /\ ver' = [ver EXCEPT ![s] = v]
  /\ Goto(s, "write")
  /\ UNCHANGED <<tables, agents, plan, tickets, got, stored, reply>>

\* loadPlanned of the version to resume.
BeginResume(s) ==
  /\ pc[s] = "write" /\ ver[s] # None
  /\ plan' = [plan EXCEPT ![s] =
        [resume |-> TRUE, stored |-> RowsOf(ver[s], {"stored"}),
         pending |-> RowsOf(ver[s], {"pending"}), assigned |-> {}, todo |-> {}]]
  /\ Goto(s, "place")
  /\ UNCHANGED <<tables, agents, file, ver, tickets, got, stored, reply>>

NewVersion(s, v, x) ==
  /\ verStatus[v] = "none"
  /\ \A w \in Version : w < v => verStatus[w] # "none"
  /\ verStatus' = [verStatus EXCEPT ![v] = "pending"]
  /\ verFile' = [verFile EXCEPT ![v] = x]
  /\ ver' = [ver EXCEPT ![s] = v]
  /\ plan' = [plan EXCEPT ![s] = EmptyPlan]
  /\ Goto(s, "place")

\* The file row was there without a pending version.  Its id is all the
\* INSERT uses: it may have become active or deleted since the lookup.
BeginVersion(s) ==
  /\ pc[s] = "write" /\ ver[s] = None /\ file[s] # None
  /\ \E v \in Version : NewVersion(s, v, file[s])
  /\ UNCHANGED <<fileStatus, current, placement, agents, file, tickets, got, stored, reply>>

\* No live row: insert the file, the version, its chunks and fragments.
BeginFile(s) ==
  /\ pc[s] = "write" /\ ver[s] = None /\ file[s] = None
  /\ LiveFiles = {}
  /\ \E x \in File, v \in Version :
       /\ fileStatus[x] = "none"
       /\ \A y \in File : y < x => fileStatus[y] # "none"
       /\ fileStatus' = [fileStatus EXCEPT ![x] = "uploading"]
       /\ file' = [file EXCEPT ![s] = x]
       /\ NewVersion(s, v, x)
  /\ UNCHANGED <<current, placement, agents, tickets, got, stored, reply>>

\* Another session inserted the live row first: unique violation, rollback.
BeginLoses(s) ==
  /\ pc[s] = "write" /\ ver[s] = None /\ file[s] = None
  /\ LiveFiles # {}
  /\ Leave(s)
  /\ UNCHANGED <<tables, agents>>

-----------------------------------------------------------------------------
(* The rest of PlanUpload                                                  *)

\* Fragments of the version that had no pending or stored row.
Needs(s) ==
  FragmentsOf(ver[s]) \ {r[1] : r \in plan[s].stored \cup plan[s].pending}

\* The deferred compensator: AbortUpload, unless the plan resumed a version.
PlanFails(s) ==
  \/ plan[s].resume /\ Leave(s)
  \/ ~plan[s].resume /\ Goto(s, "abort") /\ UNCHANGED <<file, ver, plan, tickets, got, stored, reply>>

\* A ticket for every pending or assigned row, addressed to byFrag's node.
PlanTickets(p, byFrag) ==
  {t \in Ticket : \/ <<t[1], t[2]>> \in p.pending /\ <<t[1], t[3]>> \in byFrag
                  \/ <<t[1], t[2]>> \in p.assigned /\ t[3] = t[2]}

\* perChunk: the rows plan p counts for chunk c.
PlannedRows(p, c) ==
  Cardinality({r \in p.stored \cup p.pending \cup p.assigned : ChunkOfRow(r) = c})

\* The plan has its rows: tickets, if every chunk can reach the threshold.
PlanReply(s, p) ==
  \/ /\ \A c \in ChunksOf(ver[s]) : PlannedRows(p, c) >= CommitThreshold
     /\ \E byFrag \in OnePerFragment(p.pending) :
          tickets' = [tickets EXCEPT ![s] = PlanTickets(p, byFrag)]
     /\ plan' = [plan EXCEPT ![s] = EmptyPlan]
     /\ Goto(s, "client")
     /\ UNCHANGED <<file, ver, got, stored, reply>>
  \/ /\ \E c \in ChunksOf(ver[s]) : PlannedRows(p, c) < CommitThreshold
     /\ PlanFails(s)

Place(s) ==
  /\ pc[s] = "place"
  /\ \E a \in Assignments(Needs(s), Node) :
       LET p == [plan[s] EXCEPT !.assigned = a, !.todo = a] IN
       \/ /\ a # {}
          /\ plan' = [plan EXCEPT ![s] = p]
          /\ Goto(s, "insert")
          /\ UNCHANGED <<file, ver, tickets, got, stored, reply>>
       \/ a = {} /\ PlanReply(s, p)
  /\ UNCHANGED <<tables, agents>>

PlaceFails(s) ==
  /\ pc[s] = "place" /\ Needs(s) # {}
  /\ PlanFails(s)
  /\ UNCHANGED <<tables, agents>>

\* InsertPlacements: one autocommitted INSERT per row.
InsertPlacement(s) ==
  /\ pc[s] = "insert"
  /\ \E r \in plan[s].todo :
       LET p == [plan[s] EXCEPT !.todo = @ \ {r}] IN
       /\ placement' = Inserted({r})
       /\ \/ /\ p.todo # {}
             /\ plan' = [plan EXCEPT ![s] = p]
             /\ UNCHANGED <<pc, file, ver, tickets, got, stored, reply>>
          \/ p.todo = {} /\ PlanReply(s, p)
  /\ UNCHANGED <<fileStatus, current, verStatus, verFile, agents>>

InsertFails(s) ==
  /\ pc[s] = "insert"
  /\ PlanFails(s)
  /\ UNCHANGED <<tables, agents>>

\* Variant with a bug: a status the table does not know.
AbortUploadUnknown(s) ==
  /\ pc[s] = "abort"
  /\ placement' = [r \in Row |-> IF r \in RowsOf(ver[s], {"pending"}) THEN "none" ELSE placement[r]]
  /\ verStatus' = [verStatus EXCEPT ![ver[s]] = "failed"]
  /\ Leave(s)
  /\ UNCHANGED <<fileStatus, current, verFile, agents>>

\* Variant with a bug: the version is aborted whatever it has become.
AbortUploadAlways(s) ==
  /\ pc[s] = "abort"
  /\ placement' = [r \in Row |-> IF r \in RowsOf(ver[s], {"pending"}) THEN "none" ELSE placement[r]]
  /\ verStatus' = [verStatus EXCEPT ![ver[s]] = "aborted"]
  /\ Leave(s)
  /\ UNCHANGED <<fileStatus, current, verFile, agents>>

\* AbortUpload: the version's pending rows go; a version with a stored row
\* is left pending.
AbortUpload(s) ==
  /\ pc[s] = "abort"
  /\ placement' = [r \in Row |-> IF r \in RowsOf(ver[s], {"pending"}) THEN "none" ELSE placement[r]]
  /\ verStatus' = IF RowsOf(ver[s], {"stored"}) = {} /\ verStatus[ver[s]] = "pending"
                  THEN [verStatus EXCEPT ![ver[s]] = "aborted"] ELSE verStatus
  /\ Leave(s)
  /\ UNCHANGED <<fileStatus, current, verFile, agents>>

-----------------------------------------------------------------------------
(* The client                                                              *)

\* The agent stores the fragment and signs a receipt; the answer may be lost,
\* and the ticket's nonce is spent either way.
PutFragment(s) ==
  /\ pc[s] = "client"
  /\ \E t \in tickets[s], answered \in BOOLEAN :
       /\ disk' = disk \cup {<<t[1], t[3]>>}
       /\ receipts' = receipts \cup {<<t[1], t[3]>>}
       /\ tickets' = [tickets EXCEPT ![s] = @ \ {t}]
       /\ got' = IF answered THEN [got EXCEPT ![s] = @ \cup {t}] ELSE got
  /\ UNCHANGED <<tables, pc, file, ver, plan, stored, reply>>

\* The client, or the request it is in, dies or gives up at any point.
Stop(s) ==
  /\ pc[s] # "idle"
  /\ Leave(s)
  /\ UNCHANGED <<tables, agents>>

-----------------------------------------------------------------------------
(* CommitUpload                                                            *)

Answer(s, r) ==
  /\ reply' = [reply EXCEPT ![s] = r]
  /\ Goto(s, "done")

\* Variant with a bug: one fragment may be matched by several receipts.
ReceiptsMatchTwice(s, byFrag, seen) ==
  \A t \in got[s] : t[1] \in seen \/ <<t[1], t[3]>> \in byFrag

\* Each receipt must match the target row of a fragment that is not stored
\* yet and that no earlier receipt matched.
ReceiptsMatch(s, byFrag, seen) ==
  /\ \A t \in got[s] : t[1] \notin seen /\ <<t[1], t[3]>> \in byFrag
  /\ \A t, u \in got[s] : t[1] = u[1] => t = u

\* The client sends its receipts: cmdPut once every chunk has
\* ClientThreshold of them, and again when the answer was lost.
Submits(s) ==
  \/ pc[s] = "done"
  \/ /\ pc[s] = "client"
     /\ \A c \in ChunksOf(ver[s]) :
          Cardinality({t \in got[s] : chunkOf[t[1]] = c}) >= ClientThreshold

VerifyReceipts(s) ==
  /\ Submits(s)
  /\ LET seen == {r[1] : r \in RowsOf(ver[s], {"stored"})} IN
     \E byFrag \in OnePerFragment(RowsOf(ver[s], {"pending", "stored"})) :
       \/ /\ ReceiptsMatch(s, byFrag, seen)
          /\ stored' = [stored EXCEPT ![s] = seen \cup {t[1] : t \in got[s]}]
          /\ Goto(s, "commit")
          /\ UNCHANGED reply
       \/ /\ ~ReceiptsMatch(s, byFrag, seen)
          /\ Answer(s, "invalid")
          /\ UNCHANGED stored
  /\ tickets' = [tickets EXCEPT ![s] = {}]
  /\ UNCHANGED <<tables, agents, file, ver, plan, got>>

\* A chunk of v with fewer than CommitThreshold stored rows.
Short(v, table) ==
  \E c \in ChunksOf(v) :
    Cardinality({r \in Row : ChunkOfRow(r) = c /\ table[r] = "stored"}) < CommitThreshold

\* Variant with a bug: the file's status is not looked at.
CommitUploadRevives(s) ==
  /\ pc[s] = "commit"
  /\ LET v == ver[s] IN
     \/ /\ verStatus[v] # "pending" \/ Short(v, Promoted(stored[s]))
        /\ Answer(s, "conflict")
        /\ UNCHANGED tables
     \/ /\ verStatus[v] = "pending" /\ ~Short(v, Promoted(stored[s]))
        /\ placement' = Promoted(stored[s])
        /\ verStatus' = [verStatus EXCEPT ![v] = "committed"]
        /\ fileStatus' = [fileStatus EXCEPT ![verFile[v]] = "active"]
        /\ current' = [current EXCEPT ![verFile[v]] = v]
        /\ Answer(s, "ok")
        /\ UNCHANGED verFile
  /\ stored' = [stored EXCEPT ![s] = {}]
  /\ UNCHANGED <<agents, file, ver, plan, tickets, got>>

CommitUpload(s) ==
  /\ pc[s] = "commit"
  /\ LET v == ver[s]
         x == verFile[v]
     IN
     \/ /\ fileStatus[x] = "deleted"
        /\ Answer(s, "notfound")
        /\ UNCHANGED tables
     \/ /\ fileStatus[x] # "deleted" /\ verStatus[v] = "committed"
        /\ Answer(s, "ok")
        /\ UNCHANGED tables
     \/ /\ fileStatus[x] # "deleted" /\ verStatus[v] \notin {"pending", "committed"}
        /\ Answer(s, "conflict")
        /\ UNCHANGED tables
     \/ /\ fileStatus[x] # "deleted" /\ verStatus[v] = "pending"
        /\ Short(v, Promoted(stored[s]))
        /\ Answer(s, "incomplete")
        /\ UNCHANGED tables
     \/ /\ fileStatus[x] # "deleted" /\ verStatus[v] = "pending"
        /\ ~Short(v, Promoted(stored[s]))
        /\ placement' = Promoted(stored[s])
        /\ verStatus' = [verStatus EXCEPT ![v] = "committed"]
        /\ fileStatus' = [fileStatus EXCEPT ![x] = "active"]
        /\ current' = [current EXCEPT ![x] = v]
        /\ Answer(s, "ok")
        /\ UNCHANGED verFile
  /\ stored' = [stored EXCEPT ![s] = {}]
  /\ UNCHANGED <<agents, file, ver, plan, tickets, got>>

PlanStep(s) ==
  \/ BeginLookup(s) \/ BeginResume(s) \/ BeginVersion(s) \/ BeginFile(s) \/ BeginLoses(s)
  \/ Place(s) \/ PlaceFails(s) \/ InsertPlacement(s) \/ InsertFails(s)
  \/ AbortUpload(s)

CommitStep(s) == VerifyReceipts(s) \/ CommitUpload(s)

ClientStep(s) == PutFragment(s) \/ Stop(s)

UploadNext == \E s \in Session : PlanStep(s) \/ CommitStep(s) \/ ClientStep(s)
=============================================================================
