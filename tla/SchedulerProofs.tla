--------------------------- MODULE SchedulerProofs ---------------------------
(***************************************************************************)
(* Proofs about Scheduler: the caps, the probation quota and the promise   *)
(* of Place, for every fleet, every set of planners and any number of      *)
(* losses.                                                                 *)
(***************************************************************************)
EXTENDS Scheduler, FiniteSetTheorems, TLAPS

NodesOf(rows) == {r[2] : r \in rows}
\* No two of the rows are on one node.
Spread(rows) == \A r, q \in rows : r[2] = q[2] => r = q

Shape ==
  /\ table \in [Row -> {"none", "held", "lost"}]
  /\ plan \in [Planner -> Plan]

\* A plan works for one chunk: what it has read and picked are rows of that
\* chunk, on different nodes, and on live ones if picked.  A fragment that it
\* omitted had no free node left.
PlanOK(x) ==
  /\ x.at = "idle" <=> x.chunk = None
  /\ x.seen \subseteq Rows(x.chunk)
  /\ x.needs \subseteq {f \in Fragment : chunkOf[f] = x.chunk} /\ x.todo \subseteq x.needs
  /\ x.at = "occupants" => x.out = {} /\ x.todo = x.needs
  /\ x.out \subseteq (x.needs \ x.todo) \X x.live
  /\ Spread(x.out) /\ \A r, q \in x.out : r[1] = q[1] => r = q
  /\ NodesOf(x.out) \cap NodesOf(x.seen) = {}
  /\ \A r \in x.out : r[2] \in Probation => x.count[r[2]] < ProbationQuota
  /\ \A f \in x.needs \ x.todo :
       (\E r \in x.out : r[1] = f) \/ Uncapped \cap x.live \subseteq NodesOf(x.seen \cup x.out)

PlanInv == \A p \in Planner : PlanOK(plan[p])

\* A chunk that is planned by one caller at a time: the caller has seen every
\* row that holds it, and the rows it has seen and picked are within the caps.
Alone(c) == \A p, q \in Planner : plan[p].chunk = c /\ plan[q].chunk = c => p = q
CapOK(c) ==
  /\ Alone(c)
  /\ WithinCaps(NodesOf(Held(Rows(c)))) /\ Spread(Held(Rows(c)))
  /\ \A p \in Planner : plan[p].chunk = c /\ plan[p].at = "pick" =>
       Held(Rows(c)) \subseteq plan[p].seen /\ Spread(plan[p].seen) /\ WithinCaps(Used(p))
CapInv == \A c \in Chunk \ Together : CapOK(c)

\* Plans that may still put a fragment on node n, which is in probation.
Claims(n) == {p \in Planner : plan[p].at # "idle" /\ plan[p].count[n] < ProbationQuota}
QuotaInv ==
  \A n \in Probation : LivePlacements(n) + Cardinality(Claims(n)) < ProbationQuota + Cardinality(Planner)

-----------------------------------------------------------------------------
(* Steps by what they do to the plan of one caller                         *)

Others(p) == \A q \in Planner \ {p} : plan'[q] = plan[q]

\* The plan as Place starts it, has listed the occupants, omits fragment f, and
\* picks node n for it.
Started(c, live) ==
  [NoPlan EXCEPT !.at = "occupants", !.chunk = c, !.live = live, !.needs = Missing(c), !.todo = Missing(c),
                 !.count = [n \in Probation |-> LivePlacements(n)]]
Listing(x) == [x EXCEPT !.at = "pick", !.seen = Held(Rows(x.chunk))]
Omitting(x, f) == [x EXCEPT !.todo = x.todo \ {f}]
Picking(x, f, n) == [x EXCEPT !.todo = x.todo \ {f}, !.out = x.out \cup {<<f, n>>}]

\* The steps of one caller.
Reads(p, c) == Others(p) /\ table' = table /\ \E live \in SUBSET Node : plan'[p] = Started(c, live)
Lists(p) == Others(p) /\ table' = table /\ plan[p].at = "occupants" /\ plan'[p] = Listing(plan[p])
Omits(p, f) ==
  /\ Others(p) /\ table' = table /\ plan[p].at = "pick"
  /\ \A n \in Node : ~eligible(p, n)
  /\ plan'[p] = Omitting(plan[p], f)
Picks(p, f, n) ==
  /\ Others(p) /\ table' = table /\ plan[p].at = "pick"
  /\ eligible(p, n)
  /\ plan'[p] = Picking(plan[p], f, n)
Ends(p) == Others(p) /\ plan'[p] = NoPlan

PlannerStep(p) ==
  \/ \E c \in Chunk : PlaceReads(p, c) /\ Reads(p, c)
  \/ Lists(p)
  \/ \E f \in plan[p].todo : Omits(p, f) \/ \E n \in Node : Picks(p, f, n)
  \/ Ends(p) /\ (InsertPlacements(p) \/ table' = table)

\* A step changes the plan of one caller, takes a row away, or nothing.
LEMMA StepKinds ==
  ASSUME Shape, [Next]_vars
  PROVE  \/ \E p \in Planner : PlannerStep(p)
         \/ plan' = plan /\ \E r \in Row, status \in {"none", "lost"} : RowGone(r, status)
         \/ UNCHANGED <<table, plan>>
<1>1. ASSUME NEW p \in Planner, NEW c \in Chunk, PlaceReads(p, c) PROVE Reads(p, c)
  <2>1. PICK down \in SUBSET MayFail : plan' = [plan EXCEPT ![p] = Started(c, Node \ down)]
    BY <1>1, Zenon DEF PlaceReads, Started
  <2>2. Node \ down \in SUBSET Node /\ p \in DOMAIN plan
    BY DEF Shape
  <2>3. QED
    BY <1>1, <2>1, <2>2, Zenon DEF PlaceReads, Reads, Others, Shape
<1>2. ASSUME NEW p \in Planner, ListOccupants(p) PROVE Lists(p)
  BY <1>2 DEF ListOccupants, Lists, Listing, Others, Shape
<1>3. ASSUME NEW p \in Planner, Pick(p)
      PROVE  \E f \in plan[p].todo : Omits(p, f) \/ \E n \in Node : Picks(p, f, n)
  <2>1. PICK f \in plan[p].todo :
          \/ /\ {n \in Node : eligible(p, n)} = {}
             /\ plan' = [plan EXCEPT ![p] = Omitting(plan[p], f)]
          \/ \E n \in Node : eligible(p, n) /\ plan' = [plan EXCEPT ![p] = Picking(plan[p], f, n)]
    BY <1>3, Zenon DEF Pick, Omitting, Picking
  <2>2. p \in DOMAIN plan /\ table' = table /\ plan[p].at = "pick"
    BY <1>3 DEF Shape, Pick
  <2>3. ASSUME NEW x, plan' = [plan EXCEPT ![p] = x] PROVE plan'[p] = x /\ Others(p)
    BY <2>2, <2>3 DEF Others, Shape
  <2>4. QED
    BY <2>1, <2>2, <2>3 DEF Omits, Picks
<1>4. ASSUME NEW p \in Planner, InsertPlacements(p) \/ PlaceFails(p) PROVE Ends(p)
  BY <1>4 DEF InsertPlacements, PlaceFails, Ends, Others, Shape
<1>5. ASSUME NEW p \in Planner, PlaceFails(p) PROVE table' = table
  BY <1>5 DEF PlaceFails
<1>6. QED
  BY <1>1, <1>2, <1>3, <1>4, <1>5 DEF Next, vars, PlannerStep, RowGone

\* The rows are finitely many, and so are the placements of a node.
LEMMA RowsFinite ==
  /\ IsFiniteSet(Row)
  /\ \A n : IsFiniteSet({r \in Held(Row) : r[2] = n}) /\ LivePlacements(n) \in Nat
<1>1. IsFiniteSet(Row)
  BY FS_Product, SchedulerAssumption DEF Row
<1>2. ASSUME NEW n PROVE IsFiniteSet({r \in Held(Row) : r[2] = n}) /\ LivePlacements(n) \in Nat
  <2>1. {r \in Held(Row) : r[2] = n} \in SUBSET Row
    BY DEF Held
  <2>2. QED
    BY <1>1, <2>1, FS_Subset, FS_CardinalityType DEF LivePlacements
<1>3. QED
  BY <1>1, <1>2

\* The fields of the plan after each step of its caller.
LEMMA NoPlanFields ==
  /\ NoPlan \in Plan /\ NoPlan.at = "idle" /\ NoPlan.chunk = None
  /\ NoPlan.seen = {} /\ NoPlan.needs = {} /\ NoPlan.todo = {} /\ NoPlan.out = {}
  BY DEF NoPlan, Plan

\* Place has read the fleet and the counts.
LEMMA StartedFields ==
  ASSUME NEW c \in Chunk, NEW live \in SUBSET Node, NEW x, x = Started(c, live)
  PROVE  /\ x \in Plan
         /\ x.at = "occupants" /\ x.chunk = c /\ x.live = live /\ x.seen = {} /\ x.out = {}
         /\ x.needs = Missing(c) /\ x.todo = Missing(c)
         /\ \A n \in Probation : x.count[n] = LivePlacements(n)
<1> DEFINE count == [n \in Probation |-> LivePlacements(n)]
           missing == Missing(c)
<1>1. count \in [Probation -> Nat] /\ missing \in SUBSET Fragment
  BY RowsFinite, Zenon DEF Missing
<1>2. \A n \in Probation : count[n] = LivePlacements(n)
  OBVIOUS
<1>3. x = [NoPlan EXCEPT !.at = "occupants", !.chunk = c, !.live = live,
                         !.needs = missing, !.todo = missing, !.count = count]
  BY DEF Started
<1> HIDE DEF count, missing
<1>4. x \in Plan
  BY <1>1, <1>3, NoPlanFields, Zenon DEF Plan
<1>5. /\ x.at = "occupants" /\ x.chunk = c /\ x.live = live /\ x.seen = {} /\ x.out = {}
      /\ x.needs = missing /\ x.todo = missing /\ x.count = count
  BY <1>3, NoPlanFields DEF Plan
<1>6. QED
  BY <1>2, <1>4, <1>5 DEF missing

\* The occupants are listed.
LEMMA ListingFields ==
  ASSUME NEW y \in Plan, NEW x, x = Listing(y)
  PROVE  /\ x \in Plan
         /\ x.at = "pick" /\ x.chunk = y.chunk /\ x.live = y.live /\ x.out = y.out
         /\ x.seen = Held(Rows(y.chunk))
         /\ x.needs = y.needs /\ x.todo = y.todo /\ x.count = y.count
<1>1. Held(Rows(y.chunk)) \in SUBSET Row
  BY DEF Held, Rows
<1>2. QED
  BY <1>1, Zenon DEF Listing, Plan

\* A fragment is omitted.
LEMMA OmittingFields ==
  ASSUME NEW y \in Plan, NEW f \in Fragment, NEW x, x = Omitting(y, f)
  PROVE  /\ x \in Plan
         /\ x.at = y.at /\ x.chunk = y.chunk /\ x.live = y.live /\ x.seen = y.seen /\ x.out = y.out
         /\ x.needs = y.needs /\ x.todo = y.todo \ {f} /\ x.count = y.count
  BY DEF Omitting, Plan

\* A node is picked.
LEMMA PickingFields ==
  ASSUME NEW y \in Plan, NEW f \in Fragment, NEW n \in Node, NEW x, x = Picking(y, f, n)
  PROVE  /\ x \in Plan
         /\ x.at = y.at /\ x.chunk = y.chunk /\ x.live = y.live /\ x.seen = y.seen
         /\ x.out = y.out \cup {<<f, n>>}
         /\ x.needs = y.needs /\ x.todo = y.todo \ {f} /\ x.count = y.count
<1>1. <<f, n>> \in Row
  BY DEF Row
<1>2. QED
  BY <1>1, Zenon DEF Picking, Plan

\* The types are kept.
LEMMA ShapeStep ==
  ASSUME Shape, [Next]_vars
  PROVE  Shape'
<1>1. plan' = [q \in Planner |-> plan'[q]]
  BY Zenon DEF Next, vars, PlaceReads, ListOccupants, Pick, InsertPlacements, PlaceFails, RowGone, Shape
<1>2. \A p \in Planner : plan[p] \in Plan
  BY DEF Shape
<1>3. ASSUME NEW p \in Planner, PlannerStep(p) PROVE Others(p) /\ plan'[p] \in Plan
  <2>1. \A f \in plan[p].todo : f \in Fragment
    BY <1>2 DEF Plan
  <2>2. Others(p)
    BY <1>3 DEF PlannerStep, Reads, Lists, Omits, Picks, Ends
  <2>3. QED
    <3>1. ASSUME NEW c \in Chunk, Reads(p, c) PROVE plan'[p] \in Plan
      BY <3>1, StartedFields DEF Reads
    <3>2. Lists(p) => plan'[p] \in Plan
      BY <1>2, ListingFields DEF Lists
    <3>3. ASSUME NEW f \in plan[p].todo, Omits(p, f) PROVE plan'[p] \in Plan
      BY <1>2, <2>1, <3>3, OmittingFields DEF Omits
    <3>4. ASSUME NEW f \in plan[p].todo, NEW n \in Node, Picks(p, f, n) PROVE plan'[p] \in Plan
      BY <1>2, <2>1, <3>4, PickingFields DEF Picks
    <3>5. Ends(p) => plan'[p] \in Plan
      BY NoPlanFields DEF Ends
    <3>6. QED
      BY <1>3, <2>2, <3>1, <3>2, <3>3, <3>4, <3>5 DEF PlannerStep
<1>4. \A q \in Planner : plan'[q] \in Plan
  BY <1>2, <1>3, StepKinds DEF Others
<1>5. table' \in [Row -> {"none", "held", "lost"}]
  BY Zenon DEF Next, vars, PlaceReads, ListOccupants, Pick, InsertPlacements, PlaceFails, RowGone, Shape
<1>6. QED
  BY <1>1, <1>4, <1>5 DEF Shape

-----------------------------------------------------------------------------
(* What a plan has picked                                                  *)

\* A free node that no limit applies to is always eligible.
LEMMA UncappedEligible ==
  ASSUME Shape, NEW p \in Planner, NEW n \in Uncapped, n \in plan[p].live, n \notin Used(p)
  PROVE  n \in Node /\ eligible(p, n)
<1>1. n \in Node /\ region[n] = None /\ asn[n] = None /\ n \notin Probation
      /\ \A m \in Node \ {n} : owner[m] # owner[n]
  BY DEF Uncapped
<1>2. Used(p) \subseteq Node
  BY DEF Used, Shape, Plan, Row
<1>3. {m \in Used(p) : owner[m] = owner[n]} = {}
  BY <1>1, <1>2
<1>4. Sharing(owner, n, Used(p)) = 0
  BY <1>3, FS_EmptySet DEF Sharing
<1>5. OwnerCap \in Nat \ {0}
  BY SchedulerAssumption
<1>6. QED
  BY <1>1, <1>4, <1>5 DEF eligible, inQuota

\* The nodes a plan uses.
LEMMA UsedNodes ==
  ASSUME NEW p
  PROVE  Used(p) = NodesOf(plan[p].seen \cup plan[p].out)
  BY DEF Used, NodesOf

\* An eligible node in probation has room in the plan's count.
LEMMA EligibleInQuota ==
  ASSUME Shape, NEW p \in Planner, NEW n \in Node, eligible(p, n)
  PROVE  /\ n \in plan[p].live /\ n \notin Used(p)
         /\ n \in Probation => plan[p].count[n] < ProbationQuota
<1>1. n \in plan[p].live /\ n \notin Used(p) /\ inQuota(p, n)
  BY DEF eligible
<1>2. ASSUME n \in Probation PROVE plan[p].count[n] < ProbationQuota
  <2>1. plan[p].count[n] \in Nat /\ ProbationQuota \in Nat
    BY <1>2, SchedulerAssumption DEF Shape, Plan
  <2>2. {r \in plan[p].out : r[2] = n} \in SUBSET Row
    BY DEF Shape, Plan
  <2>3. Cardinality({r \in plan[p].out : r[2] = n}) \in Nat
    BY <2>2, RowsFinite, FS_Subset, FS_CardinalityType
  <2>4. QED
    BY <1>1, <1>2, <2>1, <2>3 DEF inQuota
<1>3. QED
  BY <1>1, <1>2

\* The steps of a caller keep its plan in order.
LEMMA PlanStep ==
  ASSUME Shape, PlanInv, [Next]_vars
  PROVE  PlanInv'
<1>1. ASSUME NEW p \in Planner, PlannerStep(p) PROVE Others(p) /\ PlanOK(plan'[p])
  <2> DEFINE y == plan[p]
  <2>1. y \in Plan /\ PlanOK(y) /\ Others(p)
    BY <1>1 DEF Shape, PlanInv, PlannerStep, Reads, Lists, Omits, Picks, Ends
  <2>2. \A f \in y.todo : f \in Fragment
    BY <2>1 DEF Plan
  <2>3. ASSUME NEW c \in Chunk, NEW live \in SUBSET Node, plan'[p] = Started(c, live) PROVE PlanOK(plan'[p])
    <3> DEFINE x == plan'[p]
    <3>1. /\ x.at = "occupants" /\ x.chunk = c /\ x.seen = {} /\ x.out = {}
          /\ x.needs = Missing(c) /\ x.todo = Missing(c)
      BY <2>3, StartedFields
    <3>2. c # None /\ Missing(c) \subseteq {f \in Fragment : chunkOf[f] = c}
      BY SchedulerAssumption DEF Missing
    <3> HIDE DEF x
    <3>3. QED
      BY <3>1, <3>2 DEF PlanOK, Spread, NodesOf, x
  <2>4. CASE Lists(p)
    <3> DEFINE x == plan'[p]
    <3>1. /\ x.at = "pick" /\ x.chunk = y.chunk /\ x.live = y.live /\ x.out = y.out
          /\ x.seen = Held(Rows(y.chunk))
          /\ x.needs = y.needs /\ x.todo = y.todo /\ x.count = y.count
      BY <2>1, <2>4, ListingFields DEF Lists
    <3>2. y.at = "occupants" /\ y.out = {} /\ y.todo = y.needs
      BY <2>1, <2>4 DEF Lists, PlanOK
    <3>3. Held(Rows(y.chunk)) \subseteq Rows(y.chunk)
      BY DEF Held
    <3>4. y.chunk # None /\ y.needs \subseteq {f \in Fragment : chunkOf[f] = y.chunk}
      BY <2>1, <3>2 DEF PlanOK
    <3> HIDE DEF x, y
    <3>5. PlanOK(x)
      BY <3>1, <3>2, <3>3, <3>4 DEF PlanOK, Spread, NodesOf
    <3>6. QED
      BY <2>1, <3>5 DEF x
  <2>5. ASSUME NEW f \in y.todo, Omits(p, f) PROVE PlanOK(plan'[p])
    <3> DEFINE x == plan'[p]
    <3>1. /\ x.at = y.at /\ x.chunk = y.chunk /\ x.live = y.live /\ x.seen = y.seen /\ x.out = y.out
          /\ x.needs = y.needs /\ x.todo = y.todo \ {f} /\ x.count = y.count
      BY <2>1, <2>2, <2>5, OmittingFields DEF Omits
    <3>2. Uncapped \cap y.live \subseteq NodesOf(y.seen \cup y.out)
      BY <2>5, UncappedEligible, UsedNodes DEF Omits
    <3>3. y.at = "pick"
      BY <2>5 DEF Omits
    <3> HIDE DEF x, y
    <3>4. \A g \in x.needs \ x.todo :
            (\E r \in x.out : r[1] = g) \/ Uncapped \cap x.live \subseteq NodesOf(x.seen \cup x.out)
      BY <2>1, <3>1, <3>2, Zenon DEF PlanOK
    <3>5. x.out \subseteq (x.needs \ x.todo) \X x.live
      BY <2>1, <3>1 DEF PlanOK
    <3>6. PlanOK(x)
      BY <2>1, <3>1, <3>3, <3>4, <3>5, Zenon DEF PlanOK
    <3>7. QED
      BY <3>6 DEF x
  <2>6. ASSUME NEW f \in y.todo, NEW n \in Node, Picks(p, f, n) PROVE PlanOK(plan'[p])
    <3> DEFINE x == plan'[p]
    <3>1. /\ x.at = y.at /\ x.chunk = y.chunk /\ x.live = y.live /\ x.seen = y.seen
          /\ x.out = y.out \cup {<<f, n>>}
          /\ x.needs = y.needs /\ x.todo = y.todo \ {f} /\ x.count = y.count
      BY <2>1, <2>2, <2>6, PickingFields DEF Picks
    <3>2. y.at = "pick" /\ n \in y.live /\ n \notin NodesOf(y.seen \cup y.out)
          /\ (n \in Probation => y.count[n] < ProbationQuota)
      BY <2>6, EligibleInQuota, UsedNodes DEF Picks
    <3>3. f \in y.needs /\ \A r \in y.out : r[1] # f
      BY <2>1, <2>6 DEF PlanOK
    <3> HIDE DEF x, y
    <3>4. x.out \subseteq (x.needs \ x.todo) \X x.live
      BY <2>1, <2>6, <3>1, <3>2, <3>3 DEF PlanOK
    <3>5. Spread(x.out) /\ \A r, q \in x.out : r[1] = q[1] => r = q
      BY <2>1, <3>1, <3>2, <3>3 DEF PlanOK, Spread, NodesOf
    <3>6. NodesOf(x.out) \cap NodesOf(x.seen) = {}
      BY <2>1, <3>1, <3>2 DEF PlanOK, NodesOf
    <3>7. \A r \in x.out : r[2] \in Probation => x.count[r[2]] < ProbationQuota
      BY <2>1, <3>1, <3>2 DEF PlanOK
    <3>8. \A g \in x.needs \ x.todo :
            (\E r \in x.out : r[1] = g) \/ Uncapped \cap x.live \subseteq NodesOf(x.seen \cup x.out)
      <4>1. <<f, n>> \in x.out /\ <<f, n>>[1] = f /\ y.out \subseteq x.out
        BY <3>1
      <4>2. NodesOf(y.seen \cup y.out) \subseteq NodesOf(x.seen \cup x.out)
        BY <3>1 DEF NodesOf
      <4>3. \A g \in y.needs \ y.todo :
              (\E r \in y.out : r[1] = g) \/ Uncapped \cap y.live \subseteq NodesOf(y.seen \cup y.out)
        BY <2>1, Zenon DEF PlanOK
      <4>4. QED
        BY <3>1, <4>1, <4>2, <4>3, Zenon
    <3>9. PlanOK(x)
      BY <2>1, <3>1, <3>2, <3>4, <3>5, <3>6, <3>7, <3>8, Zenon DEF PlanOK
    <3>10. QED
      BY <3>9 DEF x
  <2>7. CASE Ends(p)
    BY <2>7, NoPlanFields DEF Ends, PlanOK, Spread, NodesOf
  <2>8. QED
    BY <1>1, <2>1, <2>3, <2>4, <2>5, <2>6, <2>7 DEF PlannerStep, Reads
<1>2. \A p \in Planner : PlanOK(plan'[p])
  BY <1>1, StepKinds DEF PlanInv, Others
<1>3. QED
  BY <1>2 DEF PlanInv, PlanOK, Rows, Row, Spread, NodesOf, Uncapped

-----------------------------------------------------------------------------
(* The caps                                                                *)

\* A part of a set of nodes shares no more than the whole.
LEMMA SharingPart ==
  ASSUME NEW attr, NEW n, NEW nodes \in SUBSET Node, NEW part \in SUBSET nodes
  PROVE  /\ Sharing(attr, n, nodes) \in Nat
         /\ Sharing(attr, n, part) <= Sharing(attr, n, nodes)
<1> DEFINE whole == {m \in nodes : attr[m] = attr[n]}
           some == {m \in part : attr[m] = attr[n]}
<1>1. whole \in SUBSET Node /\ some \in SUBSET whole
  OBVIOUS
<1>2. IsFiniteSet(whole)
  BY <1>1, SchedulerAssumption, FS_Subset
<1>3. Cardinality(some) <= Cardinality(whole) /\ Cardinality(whole) \in Nat
  BY <1>1, <1>2, FS_Subset, FS_CardinalityType
<1>4. QED
  BY <1>3 DEF Sharing

\* A node more is shared with by one more, if it shares the attribute.
LEMMA SharingMore ==
  ASSUME NEW attr, NEW nodes \in SUBSET Node, NEW n \in Node \ nodes, NEW m
  PROVE  Sharing(attr, m, nodes \cup {n}) =
           IF attr[n] = attr[m] THEN Sharing(attr, m, nodes) + 1 ELSE Sharing(attr, m, nodes)
<1> DEFINE S == {k \in nodes : attr[k] = attr[m]}
           T == {k \in nodes \cup {n} : attr[k] = attr[m]}
<1>1. IsFiniteSet(S) /\ n \notin S
  BY SchedulerAssumption, FS_Subset
<1>2. CASE attr[n] = attr[m]
  <2>1. T = S \cup {n}
    BY <1>2
  <2>2. Cardinality(S \cup {n}) = Cardinality(S) + 1
    BY <1>1, FS_AddElement
  <2>3. QED
    BY <1>2, <2>1, <2>2 DEF Sharing
<1>3. CASE attr[n] # attr[m]
  <2>1. T = S
    BY <1>3
  <2>2. QED
    BY <1>3, <2>1 DEF Sharing
<1>4. QED
  BY <1>2, <1>3

\* Caps that hold for a set of nodes hold for a part of it.
LEMMA CapsPart ==
  ASSUME NEW nodes \in SUBSET Node, NEW part \in SUBSET nodes, WithinCaps(nodes)
  PROVE  WithinCaps(part)
<1>1. SUFFICES ASSUME NEW n \in part
               PROVE  /\ region[n] # None => Sharing(region, n, part) <= RegionCap
                      /\ asn[n] # None => Sharing(asn, n, part) <= ASNCap
                      /\ Sharing(owner, n, part) <= OwnerCap
  BY DEF WithinCaps
<1>2. /\ region[n] # None => Sharing(region, n, nodes) <= RegionCap
      /\ asn[n] # None => Sharing(asn, n, nodes) <= ASNCap
      /\ Sharing(owner, n, nodes) <= OwnerCap
  BY DEF WithinCaps
<1>3. \A attr : Sharing(attr, n, part) <= Sharing(attr, n, nodes) /\ Sharing(attr, n, nodes) \in Nat
                /\ Sharing(attr, n, part) \in Nat
  BY SharingPart
<1>4. RegionCap \in Nat /\ ASNCap \in Nat /\ OwnerCap \in Nat
  BY SchedulerAssumption
<1>5. QED
  BY <1>2, <1>3, <1>4

\* An eligible node brings the chunk over no cap.
LEMMA CapsMore ==
  ASSUME Shape, NEW p \in Planner, NEW n \in Node, eligible(p, n), WithinCaps(Used(p))
  PROVE  WithinCaps(Used(p) \cup {n})
<1> DEFINE used == Used(p)
<1>1. /\ used \in SUBSET Node /\ n \in Node \ used
      /\ region[n] # None => Sharing(region, n, used) < RegionCap
      /\ asn[n] # None => Sharing(asn, n, used) < ASNCap
      /\ Sharing(owner, n, used) < OwnerCap
  <2>1. Used(p) \subseteq Node
    BY DEF Used, Shape, Plan, Row
  <2>2. QED
    BY <2>1 DEF eligible
<1>2. WithinCaps(used)
  OBVIOUS
<1> HIDE DEF used
<1>3. RegionCap \in Nat /\ ASNCap \in Nat /\ OwnerCap \in Nat
  BY SchedulerAssumption
<1>4. \A attr, m : Sharing(attr, m, used) \in Nat
  BY <1>1, SharingPart
<1>5. ASSUME NEW attr, NEW cap \in Nat, NEW m \in used \cup {n},
             attr[n] = attr[m] => Sharing(attr, n, used) < cap,
             m \in used => Sharing(attr, m, used) <= cap
      PROVE  Sharing(attr, m, used \cup {n}) <= cap
  <2>1. attr[n] = attr[m] => Sharing(attr, n, used) = Sharing(attr, m, used)
    BY DEF Sharing
  <2>2. Sharing(attr, m, used \cup {n}) =
          IF attr[n] = attr[m] THEN Sharing(attr, m, used) + 1 ELSE Sharing(attr, m, used)
    BY <1>1, SharingMore
  <2>3. Sharing(attr, m, used) \in Nat
    BY <1>4
  <2>4. CASE attr[n] = attr[m]
    BY <1>5, <2>1, <2>2, <2>3, <2>4
  <2>5. CASE attr[n] # attr[m]
    BY <1>5, <2>2, <2>5
  <2>6. QED
    BY <2>4, <2>5
<1>6. ASSUME NEW m \in used \cup {n}
      PROVE  /\ region[m] # None => Sharing(region, m, used \cup {n}) <= RegionCap
             /\ asn[m] # None => Sharing(asn, m, used \cup {n}) <= ASNCap
             /\ Sharing(owner, m, used \cup {n}) <= OwnerCap
  <2>1. region[m] # None => Sharing(region, m, used \cup {n}) <= RegionCap
    BY <1>1, <1>2, <1>3, <1>5, <1>6 DEF WithinCaps
  <2>2. asn[m] # None => Sharing(asn, m, used \cup {n}) <= ASNCap
    BY <1>1, <1>2, <1>3, <1>5, <1>6 DEF WithinCaps
  <2>3. Sharing(owner, m, used \cup {n}) <= OwnerCap
    BY <1>1, <1>2, <1>3, <1>5, <1>6 DEF WithinCaps
  <2>4. QED
    BY <2>1, <2>2, <2>3
<1>7. WithinCaps(used \cup {n})
  BY <1>6 DEF WithinCaps
<1>8. QED
  BY <1>7 DEF used

\* Nodes of rows of a chunk.
LEMMA HeldNodes ==
  ASSUME NEW rows \in SUBSET Row
  PROVE  NodesOf(rows) \in SUBSET Node
  BY DEF NodesOf, Row

\* What a plan has seen and picked bounds what holds the chunk.
LEMMA CapShrinks ==
  ASSUME NEW c, Shape, CapOK(c), Alone(c)', Held(Rows(c))' \subseteq Held(Rows(c)),
         \A q \in Planner : plan'[q].chunk = c /\ plan'[q].at = "pick" =>
           /\ plan[q].chunk = c /\ plan[q].at = "pick"
           /\ plan'[q].seen = plan[q].seen /\ plan'[q].out = plan[q].out
  PROVE  CapOK(c)'
<1> DEFINE old == Held(Rows(c))
           new == Held(Rows(c))'
<1>1. old \in SUBSET Row /\ new \subseteq old
  BY DEF Held, Rows
<1>2. NodesOf(old) \in SUBSET Node /\ NodesOf(new) \in SUBSET NodesOf(old)
  BY <1>1, HeldNodes DEF NodesOf
<1>3. WithinCaps(NodesOf(new)) /\ Spread(new)
  BY <1>1, <1>2, CapsPart DEF CapOK, Spread
<1>4. ASSUME NEW q \in Planner, plan'[q].chunk = c, plan'[q].at = "pick"
      PROVE  new \subseteq plan'[q].seen /\ Spread(plan'[q].seen) /\ WithinCaps(Used(q)')
  <2>1. /\ plan[q].chunk = c /\ plan[q].at = "pick"
        /\ plan'[q].seen = plan[q].seen /\ plan'[q].out = plan[q].out
    BY <1>4
  <2>2. Used(q)' = Used(q)
    BY <2>1 DEF Used
  <2>3. old \subseteq plan[q].seen /\ Spread(plan[q].seen) /\ WithinCaps(Used(q))
    BY <2>1 DEF CapOK
  <2> HIDE DEF old, new
  <2>4. QED
    BY <1>1, <2>1, <2>2, <2>3
<1>5. WithinCaps(NodesOf(Held(Rows(c))))' = WithinCaps(NodesOf(new)) /\ Spread(Held(Rows(c)))' = Spread(new)
  BY DEF WithinCaps, NodesOf, Spread, Sharing
<1>6. \A q \in Planner : WithinCaps(Used(q))' = WithinCaps(Used(q)') /\ Spread(plan[q].seen)' = Spread(plan'[q].seen)
  BY DEF WithinCaps, Sharing, Spread
<1>7. QED
  BY <1>3, <1>4, <1>5, <1>6 DEF CapOK

\* No step of any caller brings a chunk over a cap.
LEMMA CapStep ==
  ASSUME Shape, PlanInv, CapInv, [Next]_vars, NEW c \in Chunk \ Together
  PROVE  CapOK(c)'
<1>1. CapOK(c) /\ c # None
  BY SchedulerAssumption DEF CapInv
<1>2. \A p \in Planner : plan[p] \in Plan /\ PlanOK(plan[p])
  BY DEF Shape, PlanInv
<1>3. ASSUME NEW p \in Planner, Others(p), table' = table, plan'[p].chunk = plan[p].chunk,
             plan[p].chunk = c /\ plan'[p].at = "pick" =>
               Held(Rows(c)) \subseteq plan'[p].seen /\ Spread(plan'[p].seen) /\ WithinCaps(Used(p)')
      PROVE  CapOK(c)'
  <2>1. Alone(c)'
    BY <1>1, <1>3 DEF CapOK, Alone, Others
  <2>2. Held(Rows(c))' = Held(Rows(c))
    BY <1>3 DEF Held, Rows
  <2>3. CASE plan[p].chunk # c
    BY <1>1, <1>3, <2>1, <2>2, <2>3, CapShrinks DEF Others
  <2>4. CASE plan[p].chunk = c
    <3>1. \A q \in Planner : plan'[q].chunk = c => q = p
      BY <1>3, <2>1, <2>4 DEF Alone
    <3>2. WithinCaps(NodesOf(Held(Rows(c))))' /\ Spread(Held(Rows(c)))'
      <4>1. WithinCaps(NodesOf(Held(Rows(c)))) /\ Spread(Held(Rows(c)))
        BY <1>1 DEF CapOK
      <4>2. /\ WithinCaps(NodesOf(Held(Rows(c))))' = WithinCaps(NodesOf(Held(Rows(c))'))
            /\ Spread(Held(Rows(c)))' = Spread(Held(Rows(c))')
        BY DEF WithinCaps, NodesOf, Spread, Sharing
      <4>3. QED
        BY <2>2, <4>1, <4>2
    <3>3. \A q \in Planner : WithinCaps(Used(q))' = WithinCaps(Used(q)') /\ Spread(plan[q].seen)' = Spread(plan'[q].seen)
      BY DEF WithinCaps, Sharing, Spread
    <3>4. QED
      BY <1>3, <2>1, <2>2, <2>4, <3>1, <3>2, <3>3 DEF CapOK
  <2>5. QED
    BY <2>3, <2>4
<1>4. ASSUME NEW p \in Planner, NEW d \in Chunk, PlaceReads(p, d), Reads(p, d) PROVE CapOK(c)'
  <2>1. plan'[p].chunk = d /\ plan'[p].at = "occupants" /\ Others(p) /\ table' = table
    BY <1>4, StartedFields DEF Reads
  <2>2. d = c => \A q \in Planner : plan[q].chunk # c
    BY <1>4 DEF PlaceReads
  <2>3. Alone(c)'
    BY <1>1, <2>1, <2>2 DEF CapOK, Alone, Others
  <2>4. Held(Rows(c))' = Held(Rows(c))
    BY <2>1 DEF Held, Rows
  <2>5. QED
    BY <1>1, <2>1, <2>3, <2>4, CapShrinks DEF Others
<1>5. ASSUME NEW p \in Planner, Lists(p) PROVE CapOK(c)'
  <2>1. /\ plan'[p].chunk = plan[p].chunk /\ plan'[p].seen = Held(Rows(plan[p].chunk))
        /\ plan'[p].out = plan[p].out /\ Others(p) /\ table' = table
    BY <1>2, <1>5, ListingFields DEF Lists
  <2>2. plan[p].out = {}
    BY <1>2, <1>5, Zenon DEF Lists, PlanOK
  <2>3. Used(p)' = NodesOf(Held(Rows(plan[p].chunk)))
    BY <2>1, <2>2 DEF Used, NodesOf
  <2>4. QED
    BY <1>1, <1>3, <2>1, <2>3 DEF CapOK
<1>6. ASSUME NEW p \in Planner, NEW f \in plan[p].todo, Omits(p, f) PROVE CapOK(c)'
  <2>1. f \in Fragment
    BY <1>2, <1>6 DEF Plan
  <2>2. /\ plan'[p].chunk = plan[p].chunk /\ plan'[p].seen = plan[p].seen
        /\ plan'[p].out = plan[p].out /\ plan[p].at = "pick" /\ Others(p) /\ table' = table
    BY <1>2, <1>6, <2>1, OmittingFields DEF Omits
  <2>3. Used(p)' = Used(p)
    BY <2>2 DEF Used
  <2>4. QED
    BY <1>1, <1>3, <2>2, <2>3 DEF CapOK
<1>7. ASSUME NEW p \in Planner, NEW f \in plan[p].todo, NEW n \in Node, Picks(p, f, n) PROVE CapOK(c)'
  <2>1. f \in Fragment
    BY <1>2, <1>7 DEF Plan
  <2>2. /\ plan'[p].chunk = plan[p].chunk /\ plan'[p].seen = plan[p].seen
        /\ plan'[p].out = plan[p].out \cup {<<f, n>>} /\ plan[p].at = "pick"
        /\ Others(p) /\ table' = table /\ eligible(p, n)
    BY <1>2, <1>7, <2>1, PickingFields DEF Picks
  <2>3. Used(p)' = Used(p) \cup {n}
    <3> DEFINE mine == plan[p].seen \cup plan[p].out
    <3>1. plan'[p].seen \cup plan'[p].out = mine \cup {<<f, n>>}
      BY <2>2
    <3>2. NodesOf(mine \cup {<<f, n>>}) = NodesOf(mine) \cup {n}
      <4>1. <<f, n>>[2] = n
        OBVIOUS
      <4>2. \A m : m \in NodesOf(mine \cup {<<f, n>>}) <=> (\E r \in mine \cup {<<f, n>>} : m = r[2])
        BY DEF NodesOf
      <4>3. \A m : m \in NodesOf(mine) <=> (\E r \in mine : m = r[2])
        BY DEF NodesOf
      <4> HIDE DEF mine
      <4>4. \A m : m \in NodesOf(mine \cup {<<f, n>>}) <=> m \in NodesOf(mine) \cup {n}
        BY <4>1, <4>2, <4>3, Zenon
      <4>5. QED
        BY <4>4, Zenon
    <3>3. QED
      BY <3>1, <3>2 DEF Used, NodesOf
  <2>4. QED
    BY <1>1, <1>3, <2>2, <2>3, CapsMore, Zenon DEF CapOK
<1>8. ASSUME NEW p \in Planner, Ends(p), InsertPlacements(p) \/ table' = table PROVE CapOK(c)'
  <2>1. plan'[p].chunk = None /\ Others(p)
    BY <1>8, NoPlanFields DEF Ends
  <2>2. Alone(c)'
    BY <1>1, <2>1 DEF CapOK, Alone, Others
  <2>3. CASE table' = table \/ plan[p].chunk # c
    <3>1. Held(Rows(c))' = Held(Rows(c))
      <4>1. CASE table' = table
        BY <4>1 DEF Held, Rows
      <4>2. CASE InsertPlacements(p) /\ plan[p].chunk # c
        <5>1. \A r \in plan[p].out : r \notin Rows(c)
          BY <1>2, <4>2, Zenon DEF PlanOK, Rows
        <5>2. Rows(c) \subseteq Row
          BY DEF Rows
        <5>3. QED
          BY <4>2, <5>1, <5>2 DEF InsertPlacements, Held, Shape, Rows
      <4>3. QED
        BY <1>8, <2>3, <4>1, <4>2
    <3>2. QED
      BY <1>1, <2>1, <2>2, <3>1, CapShrinks DEF Others
  <2>4. CASE InsertPlacements(p) /\ plan[p].chunk = c
    <3> DEFINE new == Held(Rows(c))'
               mine == plan[p].seen \cup plan[p].out
    <3>1. /\ Held(Rows(c)) \subseteq plan[p].seen /\ Spread(plan[p].seen) /\ WithinCaps(NodesOf(mine))
      BY <1>1, <2>4, UsedNodes DEF InsertPlacements, Answered, CapOK
    <3>2. new \subseteq mine
      BY <2>4, <3>1 DEF InsertPlacements, Held, Rows
    <3>3. mine \in SUBSET Row
      BY <1>2 DEF Plan
    <3>4. Spread(mine)
      BY <1>2, <3>1 DEF PlanOK, Spread, NodesOf
    <3>5. NodesOf(mine) \in SUBSET Node /\ NodesOf(new) \in SUBSET NodesOf(mine)
      BY <3>2, <3>3, HeldNodes DEF NodesOf
    <3>6. WithinCaps(NodesOf(new)) /\ Spread(new)
      BY <3>1, <3>2, <3>4, <3>5, CapsPart, Zenon DEF Spread
    <3>7. WithinCaps(NodesOf(Held(Rows(c))))' = WithinCaps(NodesOf(new)) /\ Spread(Held(Rows(c)))' = Spread(new)
      BY DEF WithinCaps, NodesOf, Spread, Sharing
    <3>8. \A q \in Planner : plan'[q].chunk # c
      BY <1>1, <2>1, <2>4 DEF CapOK, Alone, Others
    <3>9. QED
      BY <2>2, <3>6, <3>7, <3>8 DEF CapOK
  <2>5. QED
    BY <1>8, <2>3, <2>4
<1>9. ASSUME plan' = plan, NEW r \in Row, NEW status \in {"none", "lost"}, RowGone(r, status) PROVE CapOK(c)'
  <2>1. Held(Rows(c))' \subseteq Held(Rows(c))
    BY <1>9 DEF RowGone, Held, Rows, Shape
  <2>2. Alone(c)'
    BY <1>1, <1>9 DEF CapOK, Alone
  <2>3. QED
    BY <1>1, <1>9, <2>1, <2>2, CapShrinks
<1>10. CASE UNCHANGED <<table, plan>>
  <2>1. Held(Rows(c))' = Held(Rows(c)) /\ Alone(c)'
    BY <1>1, <1>10 DEF Held, Rows, Alone, CapOK
  <2>2. QED
    BY <1>1, <1>10, <2>1, CapShrinks
<1>11. QED
  BY <1>4, <1>5, <1>6, <1>7, <1>8, <1>9, <1>10, StepKinds DEF PlannerStep

-----------------------------------------------------------------------------
(* The probation quota                                                     *)

RowsOn(n) == {r \in Row : table[r] = "held" /\ r[2] = n}

\* The live placements of a node, now and after the step.
LEMMA CountRows ==
  ASSUME NEW n
  PROVE  /\ LivePlacements(n) = Cardinality(RowsOn(n)) /\ LivePlacements(n)' = Cardinality(RowsOn(n)')
         /\ IsFiniteSet(RowsOn(n)) /\ IsFiniteSet(RowsOn(n)')
         /\ LivePlacements(n) \in Nat /\ LivePlacements(n)' \in Nat
<1>1. RowsOn(n) = {r \in Held(Row) : r[2] = n} /\ RowsOn(n)' = {r \in Held(Row)' : r[2] = n}
  BY DEF RowsOn, Held
<1>2. LivePlacements(n) = Cardinality(RowsOn(n)) /\ LivePlacements(n)' = Cardinality(RowsOn(n)')
  BY <1>1 DEF LivePlacements
<1>3. RowsOn(n) \in SUBSET Row /\ RowsOn(n)' \in SUBSET Row
  BY DEF RowsOn
<1>4. QED
  BY <1>2, <1>3, RowsFinite, FS_Subset, FS_CardinalityType

\* The plans with a claim, now and after the step.
LEMMA CountClaims ==
  ASSUME NEW n
  PROVE  /\ Claims(n) \in SUBSET Planner /\ Claims(n)' \in SUBSET Planner
         /\ Cardinality(Claims(n))' = Cardinality(Claims(n)')
         /\ IsFiniteSet(Claims(n)) /\ IsFiniteSet(Claims(n)')
         /\ Cardinality(Claims(n)) \in Nat /\ Cardinality(Claims(n)') \in Nat
         /\ Cardinality(Planner) \in Nat /\ Cardinality(Claims(n)') <= Cardinality(Planner)
<1>1. Claims(n) \in SUBSET Planner /\ Claims(n)' \in SUBSET Planner
  BY DEF Claims
<1>2. Cardinality(Claims(n))' = Cardinality(Claims(n)')
  OBVIOUS
<1>3. QED
  BY <1>1, <1>2, SchedulerAssumption, FS_Subset, FS_CardinalityType

\* A plan claims at most one more placement on a node, and only one that counted
\* the node below its quota does.
LEMMA QuotaStep ==
  ASSUME Shape, PlanInv, QuotaInv, [Next]_vars, NEW n \in Probation
  PROVE  LivePlacements(n)' + Cardinality(Claims(n))' < ProbationQuota + Cardinality(Planner)
<1> DEFINE L == LivePlacements(n)
           C == Claims(n)
           M == LivePlacements(n)'
           D == Claims(n)'
<1>1. L + Cardinality(C) < ProbationQuota + Cardinality(Planner)
  BY DEF QuotaInv
<1>2. /\ L \in Nat /\ M \in Nat /\ Cardinality(C) \in Nat /\ Cardinality(D) \in Nat
      /\ Cardinality(Planner) \in Nat /\ ProbationQuota \in Nat /\ Cardinality(D) <= Cardinality(Planner)
      /\ Cardinality(Claims(n))' = Cardinality(D)
  BY CountRows, CountClaims, SchedulerAssumption
<1>3. SUFFICES M + Cardinality(D) < ProbationQuota + Cardinality(Planner)
  BY <1>2
<1>4. ASSUME M <= L, D \subseteq C
      PROVE  M + Cardinality(D) < ProbationQuota + Cardinality(Planner)
  <2>1. Cardinality(D) <= Cardinality(C)
    BY <1>4, CountClaims, FS_Subset
  <2> HIDE DEF L, C, M, D
  <2>2. QED
    BY <1>1, <1>2, <1>4, <2>1
<1>5. table' = table => M = L
  BY DEF LivePlacements, Held
<1>6. \A p \in Planner : plan[p] \in Plan /\ PlanOK(plan[p])
  BY DEF Shape, PlanInv
<1>7. ASSUME NEW p \in Planner, NEW c \in Chunk, Reads(p, c)
      PROVE  M + Cardinality(D) < ProbationQuota + Cardinality(Planner)
  <2>1. plan'[p].count[n] = L /\ Others(p) /\ M = L
    BY <1>5, <1>7, StartedFields DEF Reads
  <2>2. CASE L < ProbationQuota
    <3> HIDE DEF L, C, M, D
    <3>1. QED
      BY <1>2, <2>1, <2>2
  <2>3. CASE ~(L < ProbationQuota)
    <3>1. D \subseteq C
      BY <2>1, <2>3 DEF Claims, Others
    <3>2. QED
      BY <1>2, <1>4, <2>1, <3>1
  <2>4. QED
    BY <2>2, <2>3
<1>8. ASSUME NEW p \in Planner, Others(p), table' = table, plan[p].at # "idle", plan'[p].count = plan[p].count
      PROVE  M + Cardinality(D) < ProbationQuota + Cardinality(Planner)
  <2>1. D \subseteq C
    BY <1>8 DEF Claims, Others
  <2>2. QED
    BY <1>2, <1>4, <1>5, <1>8, <2>1
<1>9. ASSUME NEW p \in Planner, Lists(p) \/ \E f \in plan[p].todo : Omits(p, f) \/ \E m \in Node : Picks(p, f, m)
      PROVE  M + Cardinality(D) < ProbationQuota + Cardinality(Planner)
  <2>1. \A f \in plan[p].todo : f \in Fragment
    BY <1>6 DEF Plan
  <2>2. Others(p) /\ table' = table /\ plan[p].at # "idle"
    BY <1>9 DEF Lists, Omits, Picks
  <2>3. plan'[p].count = plan[p].count
    <3>1. Lists(p) => plan'[p].count = plan[p].count
      BY <1>6, ListingFields DEF Lists
    <3>2. ASSUME NEW f \in plan[p].todo, Omits(p, f) PROVE plan'[p].count = plan[p].count
      BY <1>6, <2>1, <3>2, OmittingFields DEF Omits
    <3>3. ASSUME NEW f \in plan[p].todo, NEW m \in Node, Picks(p, f, m) PROVE plan'[p].count = plan[p].count
      BY <1>6, <2>1, <3>3, PickingFields DEF Picks
    <3>4. QED
      BY <1>9, <3>1, <3>2, <3>3
  <2>4. QED
    BY <1>8, <2>2, <2>3
<1>10. ASSUME NEW p \in Planner, Ends(p) PROVE D \subseteq C \ {p}
  BY <1>10, NoPlanFields DEF Ends, Claims, Others
<1>11. ASSUME NEW p \in Planner, Ends(p), InsertPlacements(p)
       PROVE  M + Cardinality(D) < ProbationQuota + Cardinality(Planner)
  <2> DEFINE mine == {r \in plan[p].out : r[2] = n}
  <2>1. RowsOn(n)' \subseteq RowsOn(n) \cup mine
    BY <1>11 DEF InsertPlacements, RowsOn
  <2>2. CASE mine = {}
    <3>1. RowsOn(n)' \subseteq RowsOn(n)
      BY <2>1, <2>2
    <3>2. M <= L
      BY <3>1, CountRows, FS_Subset
    <3>3. QED
      BY <1>4, <1>10, <1>11, <3>2
  <2>3. ASSUME NEW r \in mine PROVE M + Cardinality(D) < ProbationQuota + Cardinality(Planner)
    <3>1. plan[p].count[n] < ProbationQuota /\ \A q \in mine : q = r
      <4>1. r \in plan[p].out /\ r[2] = n
        BY <2>3
      <4>2. Spread(plan[p].out)
        BY <1>6, Zenon DEF PlanOK
      <4>3. \A q \in plan[p].out : q[2] \in Probation => plan[p].count[q[2]] < ProbationQuota
        BY <1>6, Zenon DEF PlanOK
      <4>4. QED
        BY <4>1, <4>2, <4>3 DEF Spread
    <3>2. p \in C
      BY <1>11, <3>1 DEF Claims, InsertPlacements, Answered
    <3>3. RowsOn(n)' \subseteq RowsOn(n) \cup {r}
      BY <2>1, <3>1
    <3>4. M <= L + 1
      <4>1. IsFiniteSet(RowsOn(n) \cup {r}) /\ Cardinality(RowsOn(n) \cup {r}) <= L + 1
        <5>1. IsFiniteSet(RowsOn(n)) /\ L = Cardinality(RowsOn(n))
          BY CountRows
        <5>2. /\ IsFiniteSet(RowsOn(n) \cup {r})
              /\ Cardinality(RowsOn(n) \cup {r}) =
                   IF r \in RowsOn(n) THEN Cardinality(RowsOn(n)) ELSE Cardinality(RowsOn(n)) + 1
          BY <5>1, FS_AddElement
        <5> HIDE DEF L
        <5>3. QED
          BY <1>2, <5>1, <5>2
      <4>2. Cardinality(RowsOn(n)') <= Cardinality(RowsOn(n) \cup {r}) /\ Cardinality(RowsOn(n) \cup {r}) \in Nat
        BY <3>3, <4>1, FS_Subset, FS_CardinalityType
      <4>3. M = Cardinality(RowsOn(n)')
        BY CountRows
      <4> HIDE DEF L, M
      <4>4. QED
        BY <1>2, <4>1, <4>2, <4>3
    <3>5. IsFiniteSet(C \ {p}) /\ Cardinality(C \ {p}) = Cardinality(C) - 1
      BY <3>2, CountClaims, FS_RemoveElement
    <3>6. Cardinality(D) <= Cardinality(C \ {p})
      BY <1>10, <1>11, <3>5, FS_Subset
    <3> HIDE DEF L, C, M, D
    <3>7. QED
      BY <1>1, <1>2, <3>4, <3>5, <3>6
  <2>4. QED
    BY <2>2, <2>3
<1>12. ASSUME NEW p \in Planner, Ends(p), table' = table
       PROVE  M + Cardinality(D) < ProbationQuota + Cardinality(Planner)
  BY <1>2, <1>4, <1>5, <1>10, <1>12
<1>13. ASSUME plan' = plan, NEW r \in Row, NEW status \in {"none", "lost"}, RowGone(r, status)
       PROVE  M + Cardinality(D) < ProbationQuota + Cardinality(Planner)
  <2>1. RowsOn(n)' \subseteq RowsOn(n)
    BY <1>13 DEF RowGone, RowsOn, Shape
  <2>2. M <= L
    BY <2>1, CountRows, FS_Subset
  <2>3. D \subseteq C
    BY <1>13 DEF Claims
  <2>4. QED
    BY <1>4, <2>2, <2>3
<1>14. CASE UNCHANGED <<table, plan>>
  <2>1. M = L /\ D \subseteq C
    BY <1>14, <1>5 DEF Claims
  <2>2. QED
    BY <1>2, <1>4, <2>1
<1>15. QED
  BY <1>7, <1>9, <1>11, <1>12, <1>13, <1>14, StepKinds, Zenon DEF PlannerStep

-----------------------------------------------------------------------------
(* Theorems                                                                *)

Inv == Shape /\ PlanInv /\ CapInv /\ QuotaInv

\* An empty table and no plans.
LEMMA InitInv ==
  ASSUME Init
  PROVE  Inv
<1>1. Shape /\ PlanInv
  <2>1. \A p \in Planner : plan[p] = NoPlan
    BY DEF Init
  <2>2. PlanOK(NoPlan)
    BY NoPlanFields DEF PlanOK, Spread, NodesOf
  <2>3. Shape
    BY NoPlanFields DEF Init, Shape
  <2>4. QED
    BY <2>1, <2>2, <2>3 DEF PlanInv
<1>2. \A c : Held(Rows(c)) = {}
  BY DEF Init, Held, Rows
<1>3. CapInv
  <2>1. SUFFICES ASSUME NEW c \in Chunk \ Together PROVE CapOK(c)
    BY DEF CapInv
  <2>2. \A p \in Planner : plan[p].chunk # c
    BY NoPlanFields, SchedulerAssumption DEF Init
  <2>3. QED
    BY <1>2, <2>2 DEF CapOK, Alone, WithinCaps, NodesOf, Spread
<1>4. QuotaInv
  <2>1. SUFFICES ASSUME NEW n \in Probation
                 PROVE  LivePlacements(n) + Cardinality(Claims(n)) < ProbationQuota + Cardinality(Planner)
    BY DEF QuotaInv
  <2>2. RowsOn(n) = {} /\ Claims(n) = {}
    BY NoPlanFields DEF Init, RowsOn, Claims
  <2>3. LivePlacements(n) = 0 /\ Cardinality(Claims(n)) = 0
    BY <2>2, CountRows, FS_EmptySet
  <2>4. ProbationQuota \in Nat \ {0} /\ Cardinality(Planner) \in Nat
    BY SchedulerAssumption, FS_CardinalityType
  <2>5. QED
    BY <2>3, <2>4
<1>5. QED
  BY <1>1, <1>3, <1>4 DEF Inv

\* The invariant of placement: a plan's rows are of one chunk and on different
\* nodes, a chunk that one caller at a time plans is within the caps together
\* with what is picked for it, and every plan that may still use a node in
\* probation is counted against it.
THEOREM PlacementInvariant == Spec => []Inv
<1>1. Inv /\ [Next]_vars => Inv'
  BY ShapeStep, PlanStep, CapStep, QuotaStep DEF Inv, CapInv, QuotaInv
<1>2. QED
  BY <1>1, InitInv, PTL DEF Spec

\* Place never brings a chunk over the node, region, ASN or owner cap, as long
\* as no two callers plan one chunk at a time (eligible, ListOccupants and the
\* callers' inserts).
THEOREM CapsAreHeld ==
  ASSUME Together = {}
  PROVE  Spec => []CapsHeld
<1>1. Inv => CapsHeld
  BY DEF Inv, CapInv, CapOK, CapsHeld, NodesOf, Spread
<1>2. QED
  BY <1>1, PlacementInvariant, PTL

\* However many callers plan at a time, and whatever they plan, a node in
\* probation gets at most one fragment per other caller above its quota
\* (inQuota, CountLivePlacementsAll).
THEOREM ProbationIsBounded == Spec => []ProbationBound
<1>1. ASSUME Inv, NEW n \in Probation PROVE LivePlacements(n) <= ProbationQuota + Cardinality(Planner) - 1
  <2>1. LivePlacements(n) + Cardinality(Claims(n)) < ProbationQuota + Cardinality(Planner)
    BY <1>1 DEF Inv, QuotaInv
  <2>2. /\ LivePlacements(n) \in Nat /\ Cardinality(Claims(n)) \in Nat /\ Cardinality(Planner) \in Nat
        /\ ProbationQuota \in Nat
    BY CountRows, CountClaims, SchedulerAssumption
  <2>3. QED
    BY <2>1, <2>2
<1>2. Inv => ProbationBound
  BY <1>1 DEF ProbationBound
<1>3. QED
  BY <1>2, PlacementInvariant, PTL

\* Place keeps the promise that uploads and repair rely on: every answer is an
\* assignment that Placements allows (Place and pick).
THEOREM AnswersAreAllowed == Spec => []PlaceAllowed
<1>1. ASSUME Inv, NEW p \in Planner, Answered(p)
      PROVE  plan[p].out \in P(p)!Assignments(plan[p].needs, plan[p].live)
  <2> DEFINE x == plan[p]
  <2>1. x \in Plan /\ PlanOK(x) /\ x.todo = {}
    BY <1>1 DEF Inv, Shape, PlanInv, Answered
  <2>2. \A n \in Node : n \in P(p)!Occupants(x.chunk) <=> n \in NodesOf(x.seen)
    <3>1. x.seen \subseteq Row /\ \A r \in x.seen : chunkOf[r[1]] = x.chunk
      BY <2>1 DEF PlanOK, Rows
    <3>2. \A n \in Node : n \in P(p)!Occupants(x.chunk) <=>
                          \E f \in Fragment : chunkOf[f] = x.chunk /\ <<f, n>> \in x.seen
      BY Zenon DEF P!Occupants, P!Row, Row
    <3>3. \A n \in Node : n \in NodesOf(x.seen) <=> \E f \in Fragment : <<f, n>> \in x.seen
      <4>1. \A r \in x.seen : r = <<r[1], r[2]>> /\ r[1] \in Fragment
        BY <3>1 DEF Row
      <4>2. \A f, n : <<f, n>> \in x.seen => n \in NodesOf(x.seen)
        BY DEF NodesOf
      <4>3. \A n : n \in NodesOf(x.seen) => \E r \in x.seen : n = r[2]
        BY DEF NodesOf
      <4>4. \A r \in x.seen : \A n : n = r[2] => <<r[1], n>> \in x.seen /\ r[1] \in Fragment
        BY <4>1
      <4> HIDE DEF x
      <4>5. QED
        BY <4>2, <4>3, <4>4, Zenon
    <3>4. \A f, n : <<f, n>> \in x.seen => chunkOf[f] = x.chunk
      BY <3>1
    <3>5. QED
      BY <3>2, <3>3, <3>4
  <2>3. x.out \in SUBSET (x.needs \X x.live)
    BY <2>1 DEF PlanOK
  <2>4. \A r \in x.out : r[2] \in Node /\ chunkOf[r[1]] = x.chunk /\ r[2] \notin NodesOf(x.seen)
    BY <2>1, <2>3 DEF PlanOK, NodesOf, Plan
  <2>5. \A r \in x.out : r[2] \notin P(p)!Occupants(P(p)!ChunkOfRow(r))
    BY <2>2, <2>4 DEF P!ChunkOfRow
  <2>6. \A r, q \in x.out : r # q => /\ r[1] # q[1]
                                     /\ P(p)!ChunkOfRow(r) = P(p)!ChunkOfRow(q) => r[2] # q[2]
    BY <2>1 DEF PlanOK, Spread
  <2>7. ASSUME NEW f \in x.needs, NEW n \in Uncapped \cap x.live
        PROVE  \/ n \in P(p)!Occupants(chunkOf[f])
               \/ \E r \in x.out : r[1] = f \/ (P(p)!ChunkOfRow(r) = chunkOf[f] /\ r[2] = n)
    <3>1. chunkOf[f] = x.chunk /\ n \in Node
      BY <2>1, <2>7 DEF PlanOK, Uncapped
    <3>2. (\E r \in x.out : r[1] = f) \/ n \in NodesOf(x.seen \cup x.out)
      BY <2>1, <2>7, Zenon DEF PlanOK
    <3>3. n \in NodesOf(x.seen \cup x.out) => n \in NodesOf(x.seen) \/ \E r \in x.out : r[2] = n
      BY DEF NodesOf
    <3>4. QED
      BY <2>2, <2>4, <3>1, <3>2, <3>3 DEF P!ChunkOfRow
  <2>8. QED
    BY <2>3, <2>5, <2>6, <2>7 DEF P!Assignments
<1>2. Inv => PlaceAllowed
  BY <1>1 DEF PlaceAllowed
<1>3. QED
  BY <1>2, PlacementInvariant, PTL
=============================================================================
