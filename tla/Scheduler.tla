----------------------------- MODULE Scheduler -----------------------------
(***************************************************************************)
(* Placement under hard caps (internal/scheduler).  Place reads the fleet, *)
(* the placement counts and the chunk's occupants in separate statements,  *)
(* picks a node for one fragment after the other from what it read, and    *)
(* its caller, an upload plan or a repair job, inserts the rows later.     *)
(* Fragments are lost and dropped meanwhile, and planned again.            *)
(***************************************************************************)
EXTENDS Naturals, FiniteSets

CONSTANTS
  Node, Chunk, Fragment,
  chunkOf,                 \* fragments.chunk_id
  region, asn, owner,      \* attributes of the nodes; None where not declared
  Probation,               \* nodes within their probation time
  RegionCap, ASNCap, OwnerCap, ProbationQuota,
  Planner,                 \* callers of Place
  Together,                \* chunks that several of them may plan at a time
  MayFail,                 \* nodes that may be without heartbeat or free space
  MaxLosses,               \* bound on rows lost or dropped
  None

ASSUME SchedulerAssumption ==
  /\ IsFiniteSet(Node) /\ IsFiniteSet(Fragment) /\ IsFiniteSet(Planner)
  /\ None \notin Chunk
  /\ chunkOf \in [Fragment -> Chunk] /\ Together \subseteq Chunk
  /\ {RegionCap, ASNCap, OwnerCap, ProbationQuota} \subseteq Nat \ {0}

VARIABLES
  table,   \* Row -> status of the placement; "held" is pending or stored
  plan,    \* Planner -> what its call of Place has read and picked
  losses

vars == <<table, plan, losses>>

Row == Fragment \X Node
Rows(c) == {r \in Row : chunkOf[r[1]] = c}
Plan == [at : {"idle", "occupants", "pick"}, chunk : Chunk \cup {None},
         live : SUBSET Node, count : [Probation -> Nat], seen : SUBSET Row,
         needs : SUBSET Fragment, todo : SUBSET Fragment, out : SUBSET Row]
NoPlan == [at |-> "idle", chunk |-> None, live |-> {}, count |-> [n \in Probation |-> 0],
           seen |-> {}, needs |-> {}, todo |-> {}, out |-> {}]

TypeOK ==
  /\ table \in [Row -> {"none", "held", "lost"}]
  /\ plan \in [Planner -> Plan]
  /\ losses \in 0..MaxLosses

Init ==
  /\ table = [r \in Row |-> "none"]
  /\ plan = [p \in Planner |-> NoPlan]
  /\ losses = 0

Held(rows) == {r \in rows : table[r] = "held"}
\* CountLivePlacementsAll, for one node.
LivePlacements(n) == Cardinality({r \in Held(Row) : r[2] = n})
\* Fragments of the chunk that no row holds.
Missing(c) == {f \in Fragment : chunkOf[f] = c /\ \A n \in Node : table[<<f, n>>] # "held"}

\* ListOnlineNodes, the heartbeat keys and the free space leave the nodes that
\* are not down; then the placement counts.
PlaceReads(p, c) ==
  /\ plan[p].at = "idle" /\ Missing(c) # {}
  /\ c \in Together \/ \A q \in Planner : plan[q].chunk # c
  /\ \E down \in SUBSET MayFail :
       plan' = [plan EXCEPT ![p] = [NoPlan EXCEPT !.at = "occupants", !.chunk = c,
                  !.live = Node \ down, !.needs = Missing(c), !.todo = Missing(c),
                  !.count = [n \in Probation |-> LivePlacements(n)]]]
  /\ UNCHANGED <<table, losses>>

\* Variant with a bug: the occupants are not seeded into the cap counters.
ListOccupantsNone(p) ==
  /\ plan[p].at = "occupants"
  /\ plan' = [plan EXCEPT ![p].at = "pick"]
  /\ UNCHANGED <<table, losses>>

ListOccupants(p) ==
  /\ plan[p].at = "occupants"
  /\ plan' = [plan EXCEPT ![p].at = "pick", ![p].seen = Held(Rows(plan[p].chunk))]
  /\ UNCHANGED <<table, losses>>

\* chunkUse: the nodes the chunk is on, as read and as picked since.
Used(p) == {r[2] : r \in plan[p].seen \cup plan[p].out}
Sharing(attr, n, nodes) == Cardinality({m \in nodes : attr[m] = attr[n]})

\* Variant with a bug: one more fragment than the quota.
inQuotaLate(p, n) ==
  n \in Probation => plan[p].count[n] + Cardinality({r \in plan[p].out : r[2] = n}) <= ProbationQuota

\* Variant with a bug: the quota applies to every node.
inQuotaAlways(p, n) ==
  LivePlacements(n) + Cardinality({r \in plan[p].out : r[2] = n}) < ProbationQuota

inQuota(p, n) ==
  n \in Probation => plan[p].count[n] + Cardinality({r \in plan[p].out : r[2] = n}) < ProbationQuota

eligible(p, n) ==
  LET used == Used(p) IN
  /\ n \in plan[p].live \ used
  /\ region[n] # None => Sharing(region, n, used) < RegionCap
  /\ asn[n] # None => Sharing(asn, n, used) < ASNCap
  /\ Sharing(owner, n, used) < OwnerCap
  /\ inQuota(p, n)

\* The fragment the caller listed next goes to one of the eligible nodes:
\* their weights, never zero, make each of them possible.  Without one it is
\* omitted.
Pick(p) ==
  /\ plan[p].at = "pick"
  /\ \E f \in plan[p].todo :
       LET cand == {n \in Node : eligible(p, n)} IN
       \/ /\ cand = {}
          /\ plan' = [plan EXCEPT ![p].todo = @ \ {f}]
       \/ \E n \in cand :
            plan' = [plan EXCEPT ![p].todo = @ \ {f}, ![p].out = @ \cup {<<f, n>>}]
  /\ UNCHANGED <<table, losses>>

Answered(p) == plan[p].at = "pick" /\ plan[p].todo = {}

\* The caller's INSERT ... ON CONFLICT DO NOTHING.
InsertPlacements(p) ==
  /\ Answered(p)
  /\ table' = [r \in Row |-> IF r \in plan[p].out /\ table[r] = "none" THEN "held" ELSE table[r]]
  /\ plan' = [plan EXCEPT ![p] = NoPlan]
  /\ UNCHANGED losses

\* A failed read, Redis write or insert, or the caller gave up.
PlaceFails(p) ==
  /\ plan[p].at # "idle"
  /\ plan' = [plan EXCEPT ![p] = NoPlan]
  /\ UNCHANGED <<table, losses>>

\* A node goes offline, fails an audit or a PUT; or a plan is aborted.
RowGone(r, status) ==
  /\ losses < MaxLosses /\ table[r] = "held"
  /\ table' = [table EXCEPT ![r] = status]
  /\ losses' = losses + 1
  /\ UNCHANGED plan

Next ==
  \/ \E p \in Planner, c \in Chunk : PlaceReads(p, c)
  \/ \E p \in Planner : \/ ListOccupants(p) \/ Pick(p) \/ InsertPlacements(p)
                        \/ PlaceFails(p)
  \/ \E r \in Row, status \in {"none", "lost"} : RowGone(r, status)

Spec == Init /\ [][Next]_vars

-----------------------------------------------------------------------------
WithinCaps(nodes) ==
  \A n \in nodes :
    /\ region[n] # None => Sharing(region, n, nodes) <= RegionCap
    /\ asn[n] # None => Sharing(asn, n, nodes) <= ASNCap
    /\ Sharing(owner, n, nodes) <= OwnerCap

\* "Placement constraints (node/region/ASN/owner caps) hold for every chunk
\* after any sequence of repairs" (docs/10-mvp-roadmap.md, CheckCaps): as long
\* as one caller at a time plans a chunk, Place never brings it over a cap,
\* however often its fragments are lost and placed again.
CapsHeld ==
  \A c \in Chunk :
    /\ WithinCaps({r[2] : r \in Held(Rows(c))})
    /\ \A r, q \in Held(Rows(c)) : r[2] = q[2] => r = q

\* A node in probation holds at most ProbationQuota fragments, and one more
\* for every other chunk that was planned at the same time: each plan counts
\* before the rows of the others are there.
ProbationBound ==
  \A n \in Probation : LivePlacements(n) <= ProbationQuota + Cardinality(Planner) - 1

\* Nodes no cap or quota applies to.
Uncapped == {n \in Node : /\ region[n] = None /\ asn[n] = None /\ n \notin Probation
                          /\ \A m \in Node \ {n} : owner[m] # owner[n]}

P(p) == INSTANCE Placements WITH
  File <- {}, Version <- {0}, versionOf <- [c \in Chunk |-> 0], Eligible <- Uncapped,
  CommitThreshold <- 1, fileStatus <- <<>>, current <- <<>>, verStatus <- <<>>, verFile <- <<>>,
  placement <- [r \in Row |-> IF r \in plan[p].seen THEN "stored" ELSE "none"],
  disk <- {}, receipts <- {}

\* What Place answers is what uploads and repair assume of it: an assignment
\* that puts no two fragments of the chunk on one node, that avoids the nodes
\* it is on, and that omits a fragment only when no free node is left for it.
PlaceAllowed ==
  \A p \in Planner : Answered(p) =>
    plan[p].out \in P(p)!Assignments(plan[p].needs, plan[p].live)
=============================================================================
