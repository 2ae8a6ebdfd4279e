------------------------------- MODULE Repair -------------------------------
(***************************************************************************)
(* The repair service (internal/repair/worker.go, internal/metadata/       *)
(* repair.go, internal/store/repair.go) and what feeds it: the health      *)
(* monitor's node events and failed audits, and JetStream (external).      *)
(*                                                                         *)
(* A repair process runs three loops at once: the node.offline consumer,   *)
(* the node.online consumer and the job loop.  The two node consumers are  *)
(* durable and shared, so there is one handler of each kind; every process *)
(* has a job loop, a member of Worker.                                     *)
(*                                                                         *)
(* JetStream delivers a message until it is acknowledged, so an event or a *)
(* job leaves the stream with the acknowledgement.  A job message is       *)
(* <<chunk, healthy, copy>>.  Chunk and health are its message id: the     *)
(* stream drops a message whose id it has seen within the last minute.     *)
(***************************************************************************)
EXTENDS Placements

CONSTANTS
  Worker,           \* job loops
  DataShards,       \* pipeline.ECData: shards a chunk is rebuilt from
  RepairThreshold,  \* repairThreshold: stored rows of a healthy chunk
  MaxFailures,      \* bound: node.offline transitions and failed audits
  MaxFaults,        \* bound: failed calls and process stops
  Faults            \* which of them happen: a subset of FaultKinds

FaultKinds == {"event", "publish", "audit", "flap", "put", "job", "restart"}

ASSUME RepairAssumption ==
  /\ IsFiniteSet(Node)
  /\ DataShards \in Nat \ {0} /\ RepairThreshold \in Nat
  /\ MaxFailures \in Nat /\ MaxFaults \in Nat
  /\ Faults \subseteq FaultKinds

VARIABLES
  nodeStatus,   \* nodes.status as the health monitor last wrote it
  failures,     \* node.offline transitions and failed audits so far
  missing,      \* copies no disk has although a row was stored for them, so far
  faults,       \* failed calls and process stops so far
  offlineEv,    \* node.offline events of each node not yet acknowledged
  onlineEv,     \* node.online events of each node not yet acknowledged
  jobs,         \* repair jobs not yet acknowledged
  published,    \* ids of the jobs the stream has had
  off,          \* onNodeOffline: [node, chunks] still to publish, or None
  on,           \* onNodeOnline: [node, rows, surplus, at], or None
  work          \* onJob of each worker

monitor == <<nodeStatus, failures, missing>>
events == <<offlineEv, onlineEv>>
queue == <<jobs, published>>
repairVars == <<monitor, faults, events, queue, off, on, work>>
files == <<fileStatus, current, verStatus, verFile>>

JobId == Chunk \X Nat
Job == Chunk \X Nat \X Nat
WorkSteps == {"idle", "place", "insert", "fetch", "put", "verify", "commit", "recheck"}
Works == [at : WorkSteps, job : Job \cup {None}, sources : SUBSET Row, targets : SUBSET Row,
          needs : SUBSET Fragment, todo : SUBSET Row, recs : SUBSET Row]
Idle == [at |-> "idle", job |-> None, sources |-> {}, targets |-> {}, needs |-> {},
         todo |-> {}, recs |-> {}]

RepairTypeOK ==
  /\ nodeStatus \in [Node -> {"online", "offline"}]
  /\ failures \in 0..MaxFailures /\ missing \in Nat /\ faults \in 0..MaxFaults
  /\ offlineEv \in [Node -> Nat] /\ onlineEv \in [Node -> Nat]
  /\ jobs \subseteq Job /\ published \subseteq JobId
  /\ off \in [node : Node, chunks : SUBSET Chunk] \cup {None}
  /\ on \in [node : Node, rows : SUBSET Row, surplus : SUBSET Row,
             at : {"check", "restore", "expire"}] \cup {None}
  /\ work \in [Worker -> Works]

RepairInit ==
  /\ nodeStatus = [n \in Node |-> "online"]
  /\ failures = 0 /\ missing = 0 /\ faults = 0
  /\ offlineEv = [n \in Node |-> 0] /\ onlineEv = [n \in Node |-> 0]
  /\ jobs = {} /\ published = {}
  /\ off = None /\ on = None
  /\ work = [w \in Worker |-> Idle]

\* Something of this kind fails, within the bound.
Fault(kind) == kind \in Faults /\ faults < MaxFaults /\ faults' = faults + 1

Sent(ev, n) == [ev EXCEPT ![n] = @ + 1]
Acked(ev, n) == [ev EXCEPT ![n] = @ - 1]

-----------------------------------------------------------------------------
(* Queries and publishing                                                  *)

RowsOfChunk(c, statuses) == {r \in Row : ChunkOfRow(r) = c /\ placement[r] \in statuses}

\* ChunkHealth: stored rows, whatever their fragment.
HealthIn(table, c) == Cardinality({r \in Row : ChunkOfRow(r) = c /\ table[r] = "stored"})
Health(c) == HealthIn(placement, c)

Online == {n \in Node : nodeStatus[n] = "online"}

\* UnderHealthyChunks: a chunk with no stored row at all joins to nothing.
UnderHealthy ==
  {c \in Chunk :
     /\ verStatus[versionOf[c]] = "committed"
     /\ LET up == {r \in RowsOfChunk(c, {"stored"}) : r[2] \in Online}
        IN  up # {} /\ Cardinality(up) < RepairThreshold}

\* The message of id i: a copy number no message in the stream or in the
\* hands of a worker has.
Message(i) ==
  LET taken == jobs \cup {work[w].job : w \in Worker}
  IN  <<i[1], i[2], CHOOSE k \in 1..(Cardinality(taken) + 1) : <<i[1], i[2], k>> \notin taken>>

\* PublishRepair of chunks with these healths, and the acknowledgement of the
\* jobs in acked: no message for a healthy chunk, and an id the stream has had
\* before may fall into its duplicate window and be dropped.
PublishRepair(chunkHealths, acked) ==
  LET ids == {i \in chunkHealths : i[2] < RepairThreshold}
  IN  /\ \E dup \in SUBSET (ids \cap published) :
           jobs' = (jobs \ acked) \cup {Message(i) : i \in ids \ dup}
      /\ published' = published \cup ids

-----------------------------------------------------------------------------
(* Health monitor                                                          *)

\* Monitor.scan: the row is updated, then the event is published; a failed
\* publish is only logged.
NodeGoesOffline(n) ==
  /\ nodeStatus[n] = "online" /\ failures < MaxFailures
  /\ nodeStatus' = [nodeStatus EXCEPT ![n] = "offline"]
  /\ failures' = failures + 1
  /\ \/ offlineEv' = Sent(offlineEv, n) /\ UNCHANGED faults
     \/ Fault("event") /\ UNCHANGED offlineEv
  /\ UNCHANGED <<tables, agents, missing, onlineEv, queue, off, on, work>>

\* handleHeartbeat of a node that was offline, likewise.
NodeComesOnline(n) ==
  /\ nodeStatus[n] = "offline"
  /\ nodeStatus' = [nodeStatus EXCEPT ![n] = "online"]
  /\ \/ onlineEv' = Sent(onlineEv, n) /\ UNCHANGED faults
     \/ Fault("event") /\ UNCHANGED onlineEv
  /\ UNCHANGED <<tables, agents, failures, missing, offlineEv, queue, off, on, work>>

\* A challenge fails (failPlacement) or the agent's scrub removes a rotten
\* fragment and reports it (handleScrubReport).  After a timeout or an agent's
\* error the fragment may still be there.  A failed publish is not retried.
AuditFails(r) ==
  /\ placement[r] = "stored" /\ failures < MaxFailures
  /\ failures' = failures + 1
  /\ \/ disk' = disk \ {r} /\ missing' = missing + 1
     \/ UNCHANGED <<disk, missing>>
  /\ placement' = Moved({r}, {"pending", "stored"}, "lost")
  /\ \/ /\ PublishRepair({<<ChunkOfRow(r), HealthIn(placement', ChunkOfRow(r))>>}, {})
        /\ UNCHANGED faults
     \/ Fault("audit") /\ UNCHANGED queue
  /\ UNCHANGED <<files, receipts, nodeStatus, events, off, on, work>>

-----------------------------------------------------------------------------
(* onNodeOffline                                                           *)

\* MarkPlacementsLostByNode, whatever the node's status is by now.
OfflineMark(n) ==
  /\ offlineEv[n] > 0 /\ off = None
  /\ LET hit == {r \in Row : r[2] = n /\ placement[r] \in {"pending", "stored"}} IN
     /\ placement' = Moved(hit, {"pending", "stored"}, "lost")
     /\ \/ /\ hit = {}
           /\ offlineEv' = Acked(offlineEv, n)
           /\ UNCHANGED off
        \/ /\ hit # {}
           /\ off' = [node |-> n, chunks |-> {ChunkOfRow(r) : r \in hit}]
           /\ UNCHANGED offlineEv
  /\ UNCHANGED <<files, agents, monitor, faults, onlineEv, queue, on, work>>

\* Variant with a bug: only the first chunk of the node is queued.
OfflinePublishOne(c) ==
  /\ off # None /\ c \in off.chunks
  /\ PublishRepair({<<c, Health(c)>>}, {})
  /\ off' = None
  /\ offlineEv' = Acked(offlineEv, off.node)
  /\ UNCHANGED <<tables, agents, monitor, faults, onlineEv, on, work>>

OfflinePublish(c) ==
  /\ off # None /\ c \in off.chunks
  /\ PublishRepair({<<c, Health(c)>>}, {})
  /\ \/ /\ off.chunks = {c}
        /\ off' = None
        /\ offlineEv' = Acked(offlineEv, off.node)
     \/ /\ off.chunks # {c}
        /\ off' = [off EXCEPT !.chunks = @ \ {c}]
        /\ UNCHANGED offlineEv
  /\ UNCHANGED <<tables, agents, monitor, faults, onlineEv, on, work>>

\* ChunkHealth or a publish fails: the event is delivered again.
OfflineFails ==
  /\ off # None
  /\ Fault("publish")
  /\ off' = None
  /\ UNCHANGED <<tables, agents, monitor, events, queue, on, work>>

-----------------------------------------------------------------------------
(* onNodeOnline                                                            *)

\* Variant with a bug: a rebuild that has only been planned counts.
ElsewherePlanned(r) == \E n \in Node \ {r[2]} : placement[<<r[1], n>>] \in {"pending", "stored"}

Elsewhere(r) == \E n \in Node \ {r[2]} : placement[<<r[1], n>>] = "stored"

\* ListLostForNode
OnlineList(n) ==
  /\ onlineEv[n] > 0 /\ on = None
  /\ LET lost == {r \in Row : r[2] = n /\ placement[r] = "lost"} IN
     \/ /\ lost = {}
        /\ onlineEv' = Acked(onlineEv, n)
        /\ UNCHANGED on
     \/ /\ lost # {}
        /\ on' = [node |-> n, rows |-> lost, surplus |-> {r \in lost : Elsewhere(r)},
                  at |-> "check"]
        /\ UNCHANGED onlineEv
  /\ UNCHANGED <<tables, agents, monitor, faults, offlineEv, queue, off, work>>

\* Variant with a bug: every row of the returning node is taken as valid.
OnlineCheckTrusts ==
  /\ on # None /\ on.at = "check"
  /\ on' = [on EXCEPT !.at = "restore"]
  /\ UNCHANGED <<tables, agents, monitor, faults, events, queue, off, work>>

\* revalidate each row: the agent proves it has the fragment, or the row is
\* left lost.
OnlineCheck ==
  /\ on # None /\ on.at = "check"
  /\ \E ok \in SUBSET (on.rows \cap disk) :
       \/ /\ ok = {}
          /\ on' = None
          /\ onlineEv' = Acked(onlineEv, on.node)
       \/ /\ ok # {}
          /\ on' = [on EXCEPT !.rows = ok, !.at = "restore"]
          /\ UNCHANGED onlineEv
  /\ UNCHANGED <<tables, agents, monitor, faults, offlineEv, queue, off, work>>

\* ApplyFlap: RestorePlacements, then ExpirePlacements.
OnlineRestore ==
  /\ on # None /\ on.at = "restore"
  /\ placement' = Moved(on.rows \ on.surplus, {"lost"}, "stored")
  /\ on' = [on EXCEPT !.at = "expire"]
  /\ UNCHANGED <<files, agents, monitor, faults, events, queue, off, work>>

OnlineExpire ==
  /\ on # None /\ on.at = "expire"
  /\ placement' = Moved(on.rows \cap on.surplus, {"lost"}, "expiring")
  /\ on' = None
  /\ onlineEv' = Acked(onlineEv, on.node)
  /\ UNCHANGED <<files, agents, monitor, faults, offlineEv, queue, off, work>>

\* Lost or Flap fails: the event is delivered again.
OnlineFails ==
  /\ on # None
  /\ Fault("flap")
  /\ on' = None
  /\ UNCHANGED <<tables, agents, monitor, events, queue, off, work>>

-----------------------------------------------------------------------------
(* onJob                                                                   *)

Step(w, rec) == work' = [work EXCEPT ![w] = rec]

\* LoadRepairChunk keeps one row per fragment, a stored one if there is one.
Preferred(c) ==
  {r \in RowsOfChunk(c, {"pending", "stored"}) :
     placement[r] = "stored" \/ \A n \in Node : placement[<<r[1], n>>] # "stored"}

\* After PlanRepair: a plan without targets acknowledges the job.
PlanDone(w, rec) ==
  \/ /\ rec.targets = {}
     /\ Step(w, Idle)
     /\ jobs' = jobs \ {rec.job}
  \/ /\ rec.targets # {}
     /\ Step(w, [rec EXCEPT !.at = "fetch"])
     /\ UNCHANGED jobs

\* ChunkHealth and PlanRepair's LoadRepairChunk.  A job may be taken again
\* while another worker is at it, once AckWait has passed.  The job of a
\* version that is not committed any more fails, and is delivered again.
TakeJob(w, j) ==
  /\ work[w].at = "idle" /\ j \in jobs
  /\ \/ /\ Health(j[1]) >= RepairThreshold
        /\ jobs' = jobs \ {j}
        /\ UNCHANGED work
     \/ /\ Health(j[1]) < RepairThreshold
        /\ verStatus[versionOf[j[1]]] = "committed"
        /\ \E live \in OnePerFragment(Preferred(j[1])) :
             LET sources == {r \in live : placement[r] = "stored"}
                 targets == {r \in live \ sources : r[2] \in Online}
                 needs == {f \in Fragment : chunkOf[f] = j[1]} \ {r[1] : r \in sources \cup targets}
                 rec == [Idle EXCEPT !.job = j, !.sources = sources, !.targets = targets,
                                     !.needs = needs]
             IN \/ needs = {} /\ PlanDone(w, rec)
                \/ /\ needs # {}
                   /\ Step(w, [rec EXCEPT !.at = "place"])
                   /\ UNCHANGED jobs
  /\ UNCHANGED <<tables, agents, monitor, faults, events, published, off, on>>

RepairPlace(w) ==
  /\ work[w].at = "place"
  /\ \E a \in Assignments(work[w].needs, Online) :
       LET rec == [work[w] EXCEPT !.targets = @ \cup a, !.needs = {}, !.todo = a] IN
       \/ a = {} /\ PlanDone(w, rec)
       \/ /\ a # {}
          /\ Step(w, [rec EXCEPT !.at = "insert"])
          /\ UNCHANGED jobs
  /\ UNCHANGED <<tables, agents, monitor, faults, events, published, off, on>>

RepairInsert(w) ==
  /\ work[w].at = "insert"
  /\ \E r \in work[w].todo :
       LET rec == [work[w] EXCEPT !.todo = @ \ {r}] IN
       /\ placement' = Inserted({r})
       /\ \/ rec.todo = {} /\ PlanDone(w, rec)
          \/ rec.todo # {} /\ Step(w, rec) /\ UNCHANGED jobs
  /\ UNCHANGED <<files, agents, monitor, faults, events, published, off, on>>

\* fetchSources and ReconstructShards.  A source that went offline may not
\* answer; with too few intact shards the job fails.
Fetch(w) ==
  /\ work[w].at = "fetch"
  /\ \E served \in SUBSET (work[w].sources \cap disk) :
       /\ \A r \in (work[w].sources \cap disk) \ served : r[2] \notin Online
       /\ \/ /\ Cardinality(served) >= DataShards
             /\ Step(w, [work[w] EXCEPT !.at = "put", !.todo = work[w].targets])
          \/ /\ Cardinality(served) < DataShards
             /\ Step(w, Idle)
  /\ UNCHANGED <<tables, agents, monitor, faults, events, queue, off, on>>

\* After the last PUT: with no receipt at all the job fails.
PutDone(w, rec) ==
  \/ rec.todo # {} /\ Step(w, rec)
  \/ rec.todo = {} /\ rec.recs # {} /\ Step(w, [rec EXCEPT !.at = "verify"])
  \/ rec.todo = {} /\ rec.recs = {} /\ Step(w, Idle)

PutTarget(w) ==
  /\ work[w].at = "put"
  /\ \E t \in work[w].todo :
       /\ disk' = disk \cup {t}
       /\ receipts' = receipts \cup {t}
       /\ PutDone(w, [work[w] EXCEPT !.todo = @ \ {t}, !.recs = @ \cup {t}])
  /\ UNCHANGED <<tables, monitor, faults, events, queue, off, on>>

\* Variant with a bug: a failed PUT counts as a receipt.
PutFailsCounted(w) ==
  /\ work[w].at = "put"
  /\ \E t \in work[w].todo :
       /\ \/ t[2] \notin Online /\ UNCHANGED faults
          \/ Fault("put")
       /\ PutDone(w, [work[w] EXCEPT !.todo = @ \ {t}, !.recs = @ \cup {t}])
  /\ UNCHANGED <<tables, agents, monitor, events, queue, off, on>>

\* A PUT fails, or its answer is lost: MarkPlacementLost, and on to the next.
PutFails(w) ==
  /\ work[w].at = "put"
  /\ \E t \in work[w].todo :
       /\ \/ t[2] \notin Online /\ UNCHANGED faults
          \/ Fault("put")
       /\ \/ disk' = disk \cup {t} /\ receipts' = receipts \cup {t}
          \/ UNCHANGED agents
       /\ placement' = Moved({t}, {"pending", "stored"}, "lost")
       /\ PutDone(w, [work[w] EXCEPT !.todo = @ \ {t}])
  /\ UNCHANGED <<files, monitor, events, queue, off, on>>

\* CommitRepair: a receipt that matches no pending target fails the job.
VerifyRepair(w) ==
  /\ work[w].at = "verify"
  /\ \E byFrag \in OnePerFragment(RowsOfChunk(work[w].job[1], {"pending"})) :
       \/ work[w].recs \subseteq byFrag /\ Step(w, [work[w] EXCEPT !.at = "commit"])
       \/ ~(work[w].recs \subseteq byFrag) /\ Step(w, Idle)
  /\ UNCHANGED <<tables, agents, monitor, faults, events, queue, off, on>>

\* Rows that a commit of these fragments stores unsigned.
Unsigned(frags) == {r \in Row \ receipts : r[1] \in frags /\ placement[r] = "pending"}

\* CommitRepairPlacements does not look at the version any more, and stores
\* every pending row of the fragments, also one whose node never signed for it.
CommitRepair(w) ==
  /\ work[w].at = "commit"
  /\ LET frags == {r[1] : r \in work[w].recs} IN
     /\ placement' = Promoted(frags)
     /\ missing' = missing + Cardinality(Unsigned(frags))
  /\ Step(w, [work[w] EXCEPT !.at = "recheck"])
  /\ UNCHANGED <<files, agents, nodeStatus, failures, faults, events, queue, off, on>>

\* The chunk is queued again if it is still short, and the job acknowledged.
Recheck(w) ==
  /\ work[w].at = "recheck"
  /\ PublishRepair({<<work[w].job[1], Health(work[w].job[1])>>}, {work[w].job})
  /\ Step(w, Idle)
  /\ UNCHANGED <<tables, agents, monitor, faults, events, off, on>>

\* A call fails: the job is delivered again.
JobFails(w) ==
  /\ work[w].at # "idle"
  /\ Fault("job")
  /\ Step(w, Idle)
  /\ UNCHANGED <<tables, agents, monitor, events, queue, off, on>>

\* The repair processes start again: Run queues what is short, then consumes
\* what was not acknowledged.
Restart ==
  /\ Fault("restart")
  /\ PublishRepair({<<c, Health(c)>> : c \in UnderHealthy}, {})
  /\ off' = None /\ on' = None
  /\ work' = [w \in Worker |-> Idle]
  /\ UNCHANGED <<tables, agents, monitor, events>>

JobStep(w) ==
  \/ \E j \in jobs : TakeJob(w, j)
  \/ RepairPlace(w) \/ RepairInsert(w) \/ Fetch(w) \/ PutTarget(w)
  \/ VerifyRepair(w) \/ CommitRepair(w) \/ Recheck(w)

OfflineStep ==
  \/ \E n \in Node : OfflineMark(n)
  \/ \E c \in Chunk : OfflinePublish(c)

OnlineStep ==
  \/ \E n \in Node : OnlineList(n)
  \/ OnlineCheck \/ OnlineRestore \/ OnlineExpire

EnvironmentStep ==
  \/ \E n \in Node : NodeGoesOffline(n) \/ NodeComesOnline(n)
  \/ \E r \in Row : AuditFails(r)
  \/ OfflineFails \/ OnlineFails \/ Restart
  \/ \E w \in Worker : PutFails(w) \/ JobFails(w)

RepairNext ==
  \/ EnvironmentStep
  \/ OfflineStep
  \/ OnlineStep
  \/ \E w \in Worker : JobStep(w)
=============================================================================
