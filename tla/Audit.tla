------------------------------- MODULE Audit --------------------------------
(***************************************************************************)
(* Storage challenges over the agent's store: the health monitors list     *)
(* placements that are due, refill their challenge sets with a GET, spend  *)
(* one challenge and mark a placement that fails                           *)
(* (internal/healthmon/challenge.go, internal/store/challenges.go).        *)
(*                                                                         *)
(* Monitors run concurrently on one database.  What a monitor read when it *)
(* listed the placement, the number of challenges left, is used later.     *)
(***************************************************************************)
EXTENDS AgentStore

CONSTANTS
  Monitor,   \* health monitor processes
  SetSize,   \* challenges a refill computes
  LowWater,  \* fewer left than this asks for a refill
  None

Seq == 0..(SetSize - 1)

VARIABLES
  unspent,  \* challenges of a fragment that are not spent
  due,      \* fragments whose last audit is older than the interval
  audit,    \* what each monitor is doing
  cut       \* fragments that failed a challenge because the request did

auditVars == <<unspent, due, audit, cut>>
vars == <<storeVars, auditVars>>

Steps == {"idle", "refill", "insert", "take", "ask", "spend", "fail", "publish"}
AuditRec == [at : Steps, frag : Fragment \cup {None}, seq : Seq \cup {None}, ok : BOOLEAN,
             then : {"idle", "take"}]

Resting == [at |-> "idle", frag |-> None, seq |-> None, ok |-> FALSE, then |-> "idle"]

TypeOK ==
  /\ StoreTypeOK
  /\ unspent \in [Fragment -> SUBSET Seq]
  /\ due \subseteq Fragment
  /\ audit \in [Monitor -> AuditRec]
  /\ cut \subseteq Fragment

Init ==
  /\ StoreInit
  /\ unspent = [f \in Fragment |-> {}]
  /\ due = Fragment
  /\ audit = [m \in Monitor |-> Resting]
  /\ cut = {}

Goto(m, step) == audit' = [audit EXCEPT ![m].at = step]
Ends(m) == audit' = [audit EXCEPT ![m] = Resting]

IntervalPasses(f) ==
  /\ f \notin due
  /\ due' = due \cup {f}
  /\ UNCHANGED <<storeVars, unspent, audit, cut>>

\* One placement of the list a scan reads, with what is left of its set.
ListDueAudits(m) ==
  /\ audit[m].at = "idle"
  /\ \E f \in due :
       /\ row[f] = "stored"
       /\ audit' = [audit EXCEPT ![m] = [Resting EXCEPT !.frag = f,
                      !.at = IF Cardinality(unspent[f]) < LowWater THEN "refill" ELSE "take"]]
  /\ UNCHANGED <<storeVars, unspent, due, cut>>

\* Variant with a bug: the bytes are not compared with the fragment's hash
\* before challenges are computed from them.
RefillUnverified(m) ==
  /\ audit[m].at = "refill"
  /\ IF Held(audit[m].frag) THEN Goto(m, "insert") ELSE Ends(m)
  /\ UNCHANGED <<storeVars, unspent, due, cut>>

\* refill: a GET of the fragment.  Bytes with another hash fail the
\* placement; no bytes end the audit before anything is recorded.
Refill(m) ==
  /\ audit[m].at = "refill"
  /\ LET f == audit[m].frag
     IN  \/ Good(f) /\ Goto(m, "insert")
         \/ Held(f) /\ ~Good(f) /\ audit' = [audit EXCEPT ![m].at = "fail", ![m].then = "take"]
         \/ ~Held(f) /\ Ends(m)
  /\ UNCHANGED <<storeVars, unspent, due, cut>>

RequestLost(m) ==
  /\ audit[m].at = "refill"
  /\ Mishap
  /\ Ends(m)
  /\ UNCHANGED <<file, index, put, receipts, del, scrub, row, jobs, dropped, hurt, rot, unspent, due, cut>>

\* ComputeChallengeSet; the tuples that are left are replaced.
InsertChallengeSet(m) ==
  /\ audit[m].at = "insert"
  /\ unspent' = [unspent EXCEPT ![audit[m].frag] = Seq]
  /\ Goto(m, "take")
  /\ UNCHANGED <<storeVars, due, cut>>

\* The next challenge, not reserved: another monitor may take it as well.
TakeNextUnspent(m) ==
  /\ audit[m].at = "take"
  /\ LET left == unspent[audit[m].frag]
     IN  \/ left = {} /\ Ends(m)
         \/ \E q \in left : /\ \A r \in left : q <= r
                            /\ audit' = [audit EXCEPT ![m].at = "ask", ![m].seq = q]
  /\ UNCHANGED <<storeVars, unspent, due, cut>>

\* The agent's answer: a damaged fragment passes when the range misses the
\* damage.
DoChallenge(m) ==
  /\ audit[m].at = "ask"
  /\ LET f == audit[m].frag
     IN  \E ok \in BOOLEAN :
           /\ Good(f) => ok
           /\ ~Held(f) => ~ok
           /\ audit' = [audit EXCEPT ![m].at = "spend", ![m].ok = ok]
  /\ UNCHANGED <<storeVars, unspent, due, cut>>

\* No answer within the deadline counts as a failed challenge.
ChallengeLost(m) ==
  /\ audit[m].at = "ask"
  /\ Mishap
  /\ audit' = [audit EXCEPT ![m].at = "spend", ![m].ok = FALSE]
  /\ cut' = cut \cup {audit[m].frag}
  /\ UNCHANGED <<file, index, put, receipts, del, scrub, row, jobs, dropped, hurt, rot, unspent, due>>

\* Variant with a bug: a challenge that another monitor has spent meanwhile
\* counts as failed.
SpendMarksFailed(m) ==
  /\ audit[m].at = "spend"
  /\ LET a == audit[m]
     IN  /\ unspent' = [unspent EXCEPT ![a.frag] = @ \ {a.seq}]
         /\ due' = due \ {a.frag}
         /\ IF a.ok /\ a.seq \in unspent[a.frag] THEN Ends(m) ELSE Goto(m, "fail")
  /\ UNCHANGED <<storeVars, cut>>

\* MarkChallengeSpent and TouchLastAudit, then the verdict.
Spend(m) ==
  /\ audit[m].at = "spend"
  /\ LET a == audit[m]
     IN  /\ unspent' = [unspent EXCEPT ![a.frag] = @ \ {a.seq}]
         /\ due' = due \ {a.frag}
         /\ IF a.ok THEN Ends(m) ELSE Goto(m, "fail")
  /\ UNCHANGED <<storeVars, cut>>

\* Variant with a bug: the row is marked whatever its status.
MarkAnyLost(m) ==
  /\ audit[m].at = "fail"
  /\ row' = Lost(audit[m].frag)
  /\ Goto(m, "publish")
  /\ UNCHANGED <<file, index, put, receipts, del, scrub, jobs, dropped, hurt, rot, mishaps, unspent, due, cut>>

\* failPlacement: a row that is no longer pending or stored is an error,
\* which ends the audit.
MarkPlacementLost(m) ==
  /\ audit[m].at = "fail"
  /\ LET f == audit[m].frag
     IN  IF row[f] \in {"pending", "stored"}
         THEN row' = Lost(f) /\ Goto(m, "publish")
         ELSE UNCHANGED row /\ Ends(m)
  /\ UNCHANGED <<file, index, put, receipts, del, scrub, jobs, dropped, hurt, rot, mishaps, unspent, due, cut>>

\* A placement a refill has failed is challenged all the same.
PublishRepair(m) ==
  /\ audit[m].at = "publish"
  /\ jobs' = jobs \cup {audit[m].frag}
  /\ IF audit[m].then = "take" THEN Goto(m, "take") ELSE Ends(m)
  /\ UNCHANGED <<file, index, put, receipts, del, scrub, row, dropped, hurt, rot, mishaps, unspent, due, cut>>

\* The publication fails, or the monitor's process stops anywhere.
MonitorStops(m) ==
  /\ audit[m].at # "idle"
  /\ Mishap
  /\ Ends(m)
  /\ UNCHANGED <<file, index, put, receipts, del, scrub, row, jobs, dropped, hurt, rot, unspent, due, cut>>

AuditStep(m) ==
  \/ ListDueAudits(m) \/ Refill(m) \/ InsertChallengeSet(m) \/ TakeNextUnspent(m) \/ DoChallenge(m)
  \/ Spend(m) \/ MarkPlacementLost(m) \/ PublishRepair(m)

Next ==
  \/ StoreNext /\ UNCHANGED auditVars
  \/ \E m \in Monitor : AuditStep(m) \/ RequestLost(m) \/ ChallengeLost(m) \/ MonitorStops(m)
  \/ \E f \in Fragment : IntervalPasses(f)

Spec == Init /\ [][Next]_vars

(* The monitors' loops go on and the audit interval passes.  Nothing is    *)
(* asked of the scrub.                                                     *)
FairSpec ==
  /\ Spec
  /\ \A m \in Monitor : WF_vars(AuditStep(m))
  /\ \A f \in Fragment : WF_vars(IntervalPasses(f))

----------------------------------------------------------------------------
(* No intact fragment is declared lost: however audits, refills of the     *)
(* same set by two monitors, scrubs, PUTs and restarts interleave, a       *)
(* placement is lost only if its bytes were damaged or removed, or a       *)
(* challenge went unanswered.                                              *)
LostOnlyHurt ==
  \A f \in Fragment : row[f] = "lost" => f \in hurt \/ f \in cut

(* What the owner deleted stays with the reaper: an audit or a scrub       *)
(* report that is late never takes a row out of expiring or deleted        *)
(* (MarkPlacementLost asks for pending or stored).                         *)
DeleteWins ==
  [][\A f \in Fragment : /\ row[f] = "deleted" => row'[f] = "deleted"
                         /\ row[f] = "expiring" => row'[f] \in {"expiring", "deleted"}]_vars

(* Bytes that rot are noticed, without the scrub: the challenges of the    *)
(* set may miss the damage, but it runs low and the refill reads the whole *)
(* fragment.                                                               *)
RotNoticed ==
  \A f \in Fragment :
    (row[f] = "stored" /\ f \in index /\ file[f] = "bad")
      ~> (row[f] # "stored" \/ ~Held(f) \/ Good(f))

(* docs/05-node-agent.md:112: "Failed or slow challenges mark the          *)
(* placement `lost`": a stored fragment the agent does not have is noticed *)
(* by the audits.                                                          *)
MissingNoticed ==
  \A f \in Fragment :
    (row[f] = "stored" /\ ~Held(f)) ~> (row[f] # "stored" \/ Held(f))
=============================================================================
