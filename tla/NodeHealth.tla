----------------------------- MODULE NodeHealth -----------------------------
(***************************************************************************)
(* The health monitor over the registry: heartbeats, the scan for silent   *)
(* nodes and the events it publishes (internal/healthmon/healthmon.go,     *)
(* internal/healthmon/state.go, internal/store/nodes.go, and the agent's   *)
(* heartbeat loop, internal/agent/heartbeat.go).                           *)
(*                                                                         *)
(* The scan is one UPDATE over a snapshot: it decides on the last_seen_at  *)
(* and the status it read, and a heartbeat that commits in between is      *)
(* overwritten.  So the snapshot and the update are two steps.             *)
(***************************************************************************)
EXTENDS NodeRegistry

CONSTANTS
  SuspectAfter, OfflineAfter  \* silence, in ticks of the clock

ASSUME ClockAssumption == SuspectAfter \in Nat /\ OfflineAfter \in Nat

VARIABLES
  silence,  \* ticks since last_seen_at
  beat,     \* heartbeats at the health monitor
  scan,     \* the monitor's pass
  told      \* an offline event was published since the node went offline

healthVars == <<silence, beat, scan, told>>
vars == <<registryVars, healthVars>>

NoBeat == [at |-> "none", node |-> 0, due |-> FALSE]
NoScan == [at |-> "idle", seen |-> {}, todo |-> {}]

\* What the scan read of a node, and what its update returns.
Seen == [node : NodeId, status : {"online", "suspect"}, silence : 0..(OfflineAfter + 1)]
Transition == [node : NodeId, from : {"online", "suspect"}, to : {"suspect", "offline"}]

TypeOK ==
  /\ RegistryTypeOK
  /\ silence \in [NodeId -> 0..(OfflineAfter + 1)]
  /\ beat \in [Agent -> [at : {"none", "admitted", "answered"}, node : NodeId \cup {0},
                         due : BOOLEAN]]
  /\ scan \in [at : {"idle", "update", "publish"}, seen : SUBSET Seen, todo : SUBSET Transition]
  /\ told \in [NodeId -> BOOLEAN]

Init ==
  /\ RegistryInit
  /\ silence = [n \in NodeId |-> 0]
  /\ beat = [a \in Agent |-> NoBeat]
  /\ scan = NoScan
  /\ told = [n \in NodeId |-> FALSE]

----------------------------------------------------------------------------
(* Heartbeats.                                                             *)

AdmitNode(n) == ~row[n].revoked /\ life[row[n].cert] # "expired"

\* The fingerprint of the TLS peer is looked up and the node admitted.  A
\* refused heartbeat changes nothing, and the agent does not try to renew.
Heartbeat(a) ==
  /\ proc[a].pc = "up" /\ beat[a].at = "none"
  /\ proc[a].renewals > 0 => \A k \in Call : call[k].op # "none"
  /\ \E n \in Registered :
       /\ row[n].cert = proc[a].cert
       /\ AdmitNode(n)
       /\ n = disk[a].id
       /\ beat' = [beat EXCEPT ![a] = [at |-> "admitted", node |-> n, due |-> life[row[n].cert] = "due"]]
  /\ proc' = [proc EXCEPT ![a].pc = "beat"]
  /\ UNCHANGED <<code, row, life, call, disk, mishaps, silence, scan, told>>

\* Variant with a bug: an offline node is not brought back.
TouchKeepsOffline(a) ==
  /\ beat[a].at = "admitted"
  /\ LET n == beat[a].node
         to == IF row[n].status \in {"pending", "suspect"} THEN "online" ELSE row[n].status
     IN  /\ row' = [row EXCEPT ![n].status = to]
         /\ silence' = [silence EXCEPT ![n] = 0]
         /\ told' = [told EXCEPT ![n] = @ /\ to # "online"]
         /\ beat' = [beat EXCEPT ![a].at = "answered"]
  /\ UNCHANGED <<code, life, call, disk, proc, mishaps, scan>>

\* One statement: last_seen_at and the status.
TouchNodeStatus(a) ==
  /\ beat[a].at = "admitted"
  /\ LET n == beat[a].node
     IN  /\ row' = [row EXCEPT ![n].status = "online"]
         /\ silence' = [silence EXCEPT ![n] = 0]
         /\ told' = [told EXCEPT ![n] = FALSE]
         /\ beat' = [beat EXCEPT ![a].at = "answered"]
  /\ UNCHANGED <<code, life, call, disk, proc, mishaps, scan>>

\* The handler publishes a return to online, an event no step here reads,
\* and ends; an agent that is still there renews a certificate that
\* is due, on the message and again in maybeRenew.
HeartbeatAnswered(a) ==
  /\ beat[a].at = "answered"
  /\ beat' = [beat EXCEPT ![a] = NoBeat]
  /\ proc' = [proc EXCEPT ![a] = IF proc[a].pc = "beat"
                                 THEN [proc[a] EXCEPT !.pc = "up",
                                                      !.renewals = IF beat[a].due THEN 2 ELSE 0]
                                 ELSE proc[a]]
  /\ UNCHANGED <<code, row, life, call, disk, mishaps, silence, scan, told>>

\* The answer does not reach the agent; the handler goes on.
HeartbeatLost(a) ==
  /\ proc[a].pc = "beat"
  /\ Happens("answer")
  /\ proc' = [proc EXCEPT ![a].pc = "up"]
  /\ UNCHANGED <<code, row, life, call, disk, healthVars>>

----------------------------------------------------------------------------
(* The scan.                                                               *)

\* Variant with a bug: a suspect stays suspect.
SuspectsStay(s) ==
  IF s.status = "online" /\ s.silence > SuspectAfter THEN "suspect" ELSE s.status

\* NextStatus, as the statement decides it.
NextStatus(s) ==
  IF s.silence > OfflineAfter THEN "offline"
  ELSE IF s.status = "online" /\ s.silence > SuspectAfter THEN "suspect"
  ELSE s.status

Stale ==
  {s \in {[node |-> n, status |-> row[n].status, silence |-> silence[n]] : n \in Registered} :
     s.status \in {"online", "suspect"} /\ NextStatus(s) # s.status}

ScanReads ==
  /\ scan.at = "idle"
  /\ Stale # {}
  /\ scan' = [at |-> "update", seen |-> Stale, todo |-> {}]
  /\ UNCHANGED <<registryVars, silence, beat, told>>

Update(ts) ==
  /\ scan.at = "update"
  /\ row' = [n \in NodeId |-> IF \E s \in scan.seen : s.node = n
                              THEN [row[n] EXCEPT !.status = NextStatus(CHOOSE s \in scan.seen : s.node = n)]
                              ELSE row[n]]
  /\ scan' = [at |-> "publish", seen |-> {}, todo |-> {t \in ts : t.from # t.to}]
  /\ UNCHANGED <<code, life, call, disk, proc, mishaps, silence, beat, told>>

\* Variant with a bug: RETURNING gives the new status for both.
TransitionUnreported == Update({[node |-> s.node, from |-> NextStatus(s), to |-> NextStatus(s)] : s \in scan.seen})

TransitionStaleNodes == Update({[node |-> s.node, from |-> s.status, to |-> NextStatus(s)] : s \in scan.seen})

\* The transitions are published one by one.
ScanPublishes ==
  /\ scan.at = "publish"
  /\ \E t \in scan.todo :
       /\ scan' = IF scan.todo = {t} THEN NoScan ELSE [scan EXCEPT !.todo = @ \ {t}]
       /\ \/ told' = [told EXCEPT ![t.node] = @ \/ (t.to = "offline" /\ row[t.node].status = "offline")] /\ UNCHANGED mishaps
          \/ Happens("monitor") /\ UNCHANGED told
  /\ UNCHANGED <<code, row, life, call, disk, proc, silence, beat>>

\* The monitor's process stops and starts: what it had read or still had to
\* publish is gone.
MonitorRestarts ==
  /\ scan.at # "idle"
  /\ Happens("monitor")
  /\ scan' = NoScan
  /\ UNCHANGED <<code, row, life, call, disk, proc, silence, beat, told>>

Tick ==
  /\ \E n \in Registered : silence[n] <= OfflineAfter
  /\ silence' = [n \in NodeId |-> IF n \in Registered /\ silence[n] <= OfflineAfter
                                  THEN silence[n] + 1 ELSE silence[n]]
  /\ UNCHANGED <<registryVars, beat, scan, told>>

----------------------------------------------------------------------------
BeatStep(a) == Heartbeat(a) \/ TouchNodeStatus(a) \/ HeartbeatAnswered(a)
ScanStep == ScanReads \/ TransitionStaleNodes \/ ScanPublishes

Next ==
  \/ RegistryNext /\ UNCHANGED healthVars
  \/ \E a \in Agent : BeatStep(a) \/ HeartbeatLost(a)
  \/ ScanStep \/ MonitorRestarts \/ Tick

Spec == Init /\ [][Next]_vars

(* Time passes, the scan runs on its ticker, handlers end, and an agent's  *)
(* loop goes on: heartbeat, renewal, restart.                              *)
FairSpec ==
  /\ Spec
  /\ WF_vars(Tick) /\ WF_vars(ScanStep)
  /\ \A a \in Agent : /\ WF_vars(BeatStep(a))
                      /\ WF_vars(AgentStep(a) /\ UNCHANGED healthVars)
  /\ WF_vars((\E k \in Call : ServeCall(k)) /\ UNCHANGED healthVars)

----------------------------------------------------------------------------
(* A node is not offline in silence: an offline event was published since  *)
(* it was last online, or is about to be, or a publication failed          *)
(* (Monitor.scan publishes what TransitionStaleNodes returns).             *)
OfflineAnnounced ==
  mishaps["monitor"] = 0 => \A n \in Registered :
    row[n].status = "offline" =>
      told[n] \/ \E t \in scan.todo : t.node = n /\ t.to = "offline"

(* A node that stays silent is found offline, whichever of online and      *)
(* suspect it was in, unless it is heard again (Monitor.Run).              *)
SilentGoesOffline ==
  \A n \in NodeId :
    (row[n].status \in {"online", "suspect"} /\ silence[n] > OfflineAfter)
      ~> (row[n].status = "offline" \/ silence[n] = 0)

Beating(a) ==
  /\ proc[a].pc \in {"up", "beat", "wait", "persist"}
  /\ disk[a].id # 0
  /\ AdmitNode(disk[a].id)
  /\ row[disk[a].id].cert = proc[a].cert

(* An agent that holds the registered, valid certificate comes back        *)
(* online, also when a scan has overwritten its heartbeat                  *)
(* (TouchNodeStatus against TransitionStaleNodes), unless it stops or      *)
(* loses its certificate.                                                  *)
BeatingComesBack ==
  \A a \in Agent :
    Beating(a) ~> (~Beating(a) \/ row[disk[a].id].status = "online")
=============================================================================
