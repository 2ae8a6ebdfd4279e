----------------------------- MODULE NodeProofs -----------------------------
(***************************************************************************)
(* Proofs about registration, renewal, revocation and heartbeats, for any  *)
(* number of machines, codes, requests, lost answers and stops: the        *)
(* invariant of the fleet and what it gives (one node per code, an         *)
(* identity of one's own, revocation that holds), that the registry holds  *)
(* the certificate an agent presents as long as no answer is lost and no   *)
(* agent stops, and that a node that goes offline is announced.            *)
(***************************************************************************)
EXTENDS NodeHealth, FiniteSetTheorems, TLAPS

-----------------------------------------------------------------------------
(* The inductive invariant                                                 *)

\* Requests, codes and rows belong together: a node is registered exactly when
\* the registration it is numbered by was answered, and then its row has that
\* agent's key and its code names it.
ServerInv ==
  /\ \A k \in Call : call[k].op # "none" => call[k].agent \in Agent
  /\ \A k \in Call : call[k].op = "register" => call[k].node = k /\ call[k].code \in Code
  /\ \A k \in Call : call[k].op = "renew" =>
       call[k].node \in Registered /\ row[call[k].node].key = call[k].agent
  /\ \A n \in NodeId : n \in Registered <=> call[n].op = "register" /\ call[n].at = "ok"
  /\ \A n \in Registered : row[n].key = call[n].agent /\ code[call[n].code].node = n
  /\ \A n \in NodeId : row[n].revoked => n \in Registered
  /\ \A c \in Code : code[c].node # 0 =>
       code[c].node \in Registered /\ call[code[c].node].code = c

\* k is an answered request of agent a.
Issued(a, k) == k \in Call /\ call[k].op # "none" /\ call[k].at = "ok" /\ call[k].agent = a

\* A process that has its identity: the certificate it presents was issued to
\* it for the node of its file.
Runs(a) ==
  /\ disk[a].id # 0
  /\ Issued(a, proc[a].cert)
  /\ call[proc[a].cert].node = disk[a].id

\* The two identity files.
FilesInv(a) ==
  /\ disk[a].crt = 0 => disk[a].id = 0
  /\ disk[a].id # 0 => disk[a].id \in Registered /\ row[disk[a].id].key = a
  /\ disk[a].crt > 0 => Issued(a, disk[a].crt)
  /\ disk[a].crt > 0 /\ disk[a].id # 0 => call[disk[a].crt].node = disk[a].id

\* The process made the request it is at, and what it waits for.
Asked(a) == proc[a].call \in Call /\ call[proc[a].call].op # "none" /\ call[proc[a].call].agent = a
Awaits(a) ==
  \/ call[proc[a].call].op = "register" /\ disk[a].crt = 0
  \/ /\ call[proc[a].call].op = "renew" /\ call[proc[a].call].node = disk[a].id
     /\ Runs(a) /\ proc[a].renewals > 0

\* An agent at each place of its loop.
AgentInv(a) ==
  /\ FilesInv(a)
  /\ proc[a].pc \in {"up", "beat"} => Runs(a)
  /\ proc[a].pc \in {"wait", "persist"} => Asked(a)
  /\ proc[a].pc = "wait" => Awaits(a)
  /\ proc[a].pc = "persist" => call[proc[a].call].at = "ok" /\ disk[a].crt = proc[a].call

\* What the monitor has in hand refers to registered nodes.
MonitorInv ==
  /\ \A a \in Agent : beat[a].at # "none" => beat[a].node \in Registered
  /\ \A s \in scan.seen : s.node \in Registered

Inv == TypeOK /\ ServerInv /\ (\A a \in Agent : AgentInv(a)) /\ MonitorInv

-----------------------------------------------------------------------------
(* Types                                                                   *)

\* A request that is made is a request.
LEMMA AskTypes ==
  ASSUME RegistryTypeOK, NEW a \in Agent, NEW op \in {"register", "renew"},
         NEW c \in Code \cup {None}, NEW n \in NodeId \cup {0}, NEW peer \in Cert, Ask(a, op, c, n, peer)
  PROVE  call' \in [Call -> CallRec] /\ proc' \in [Agent -> ProcRec]
<1>1. PICK k \in Call :
        /\ call' = [call EXCEPT ![k] = [op |-> op, at |-> "sent", agent |-> a, code |-> c,
                                        node |-> IF op = "register" THEN k ELSE n, peer |-> peer]]
        /\ proc' = [proc EXCEPT ![a].pc = "wait", ![a].call = k]
  BY Zenon DEF Ask
<1>2. call' \in [Call -> CallRec]
  BY <1>1 DEF RegistryTypeOK, CallRec, NodeId
<1>3. proc' \in [Agent -> ProcRec]
  BY <1>1, Zenon DEF RegistryTypeOK, ProcRec
<1>4. QED
  BY <1>2, <1>3

\* The stages of a request are stages.
LEMMA StageTypes ==
  ASSUME RegistryTypeOK, NEW k \in Call, NEW at \in {"sent", "checked", "ok", "refused"}, Stage(k, at)
  PROVE  call' \in [Call -> CallRec]
<1>1. [call[k] EXCEPT !.at = at] \in CallRec
  BY DEF RegistryTypeOK, CallRec
<1>2. QED
  BY <1>1 DEF Stage, RegistryTypeOK

\* Giving up keeps the process a process: a renewal had tries left.
LEMMA GivesUpTypes ==
  ASSUME RegistryTypeOK, NEW a \in Agent, AgentInv(a), Waiting(a), GivesUp(a)
  PROVE  proc' \in [Agent -> ProcRec]
<1>1. Down \in ProcRec
  BY RegistryAssumption DEF Down, ProcRec, Cert
<1>2. proc[a] \in ProcRec
  BY DEF RegistryTypeOK
<1>3. CASE call[proc[a].call].op = "register"
  BY <1>1, <1>3 DEF GivesUp, RegistryTypeOK
<1>4. CASE call[proc[a].call].op # "register"
  <2>1. proc[a].renewals - 1 \in 0..2
    BY <1>2, <1>4 DEF AgentInv, Awaits, Waiting, ProcRec
  <2>2. [proc[a] EXCEPT !.pc = "up", !.call = 0, !.renewals = @ - 1] \in ProcRec
    BY <1>2, <2>1, Zenon DEF ProcRec
  <2>3. QED
    BY <1>4, <2>2 DEF GivesUp, RegistryTypeOK
<1>5. QED
  BY <1>3, <1>4

\* Every step of the registry keeps its types.
LEMMA RegistryTypeStep ==
  ASSUME RegistryTypeOK, \A a \in Agent : AgentInv(a), RegistryNext
  PROVE  RegistryTypeOK'
<1>1. ASSUME NEW c \in Code, MintCode(c) \/ CodeExpires(c) PROVE RegistryTypeOK'
  <2>1. \A state \in {"valid", "expired"} : [code[c] EXCEPT !.state = state] \in CodeRec
    BY DEF RegistryTypeOK, CodeRec
  <2>2. QED
    BY <1>1, <2>1 DEF MintCode, CodeExpires, RegistryTypeOK
<1>2. ASSUME NEW k \in Call, RegisterCheck(k) PROVE RegistryTypeOK'
  BY <1>2, StageTypes DEF RegisterCheck, RegistryTypeOK
<1>3. ASSUME NEW k \in Call, RegisterNode(k) PROVE RegistryTypeOK'
  <2>1. call' \in [Call -> CallRec]
    BY <1>3, StageTypes DEF RegisterNode, Bound
  <2>2. call[k] \in CallRec /\ k \in Cert
    BY RegistryAssumption DEF RegistryTypeOK, Call, Cert
  <2>3. CASE Bound(k)
    <3>1. [code[call[k].code] EXCEPT !.node = k] \in CodeRec \/ call[k].code \notin Code
      BY DEF RegistryTypeOK, CodeRec, NodeId
    <3>2. [cert |-> k, key |-> call[k].agent, status |-> "pending", revoked |-> FALSE] \in NodeRec
      BY <2>2 DEF CallRec, NodeRec, Status
    <3>3. code' \in [Code -> CodeRec]
      BY <2>3, <3>1, Zenon DEF Bound, RegistryTypeOK
    <3>4. row' \in [NodeId -> NodeRec]
      BY <2>3, <3>2, Zenon DEF Bound, RegistryTypeOK
    <3>5. QED
      BY <1>3, <2>1, <3>3, <3>4 DEF RegisterNode, RegistryTypeOK
  <2>4. CASE UNCHANGED <<code, row>>
    BY <1>3, <2>1, <2>4 DEF RegisterNode, RegistryTypeOK
  <2>5. QED
    BY <1>3, <2>3, <2>4 DEF RegisterNode
<1>4. ASSUME NEW k \in Call, RenewCheck(k) PROVE RegistryTypeOK'
  BY <1>4, StageTypes DEF RenewCheck, RegistryTypeOK
<1>5. ASSUME NEW k \in Call, RotateNodeCert(k) PROVE RegistryTypeOK'
  <2>1. call' \in [Call -> CallRec]
    BY <1>5, StageTypes DEF RotateNodeCert
  <2>2. row' \in [NodeId -> NodeRec]
    <3>1. k \in Cert
      BY RegistryAssumption DEF Call, Cert
    <3>2. \A n \in NodeId : [row[n] EXCEPT !.cert = k] \in NodeRec
      BY <3>1 DEF RegistryTypeOK, NodeRec
    <3>3. QED
      BY <1>5, <3>2 DEF RotateNodeCert, RegistryTypeOK
  <2>3. QED
    BY <1>5, <2>1, <2>2 DEF RotateNodeCert, RegistryTypeOK
<1>6. ASSUME NEW k \in Call, CertAges(k) PROVE RegistryTypeOK'
  BY <1>6 DEF CertAges, RegistryTypeOK, Life
<1>7. ASSUME NEW n \in NodeId, RevokeNode(n) PROVE RegistryTypeOK'
  <2>1. [row[n] EXCEPT !.revoked = TRUE] \in NodeRec
    BY Zenon DEF RegistryTypeOK, NodeRec
  <2>2. QED
    BY <1>7, <2>1 DEF RevokeNode, RegistryTypeOK
<1>8. ASSUME NEW a \in Agent, Open(a) PROVE RegistryTypeOK'
  <2>1. ASSUME NEW c \in Code, Ask(a, "register", c, 0, 0) PROVE RegistryTypeOK'
    <3>1. 0 \in Cert
      BY RegistryAssumption DEF Cert
    <3>2. call' \in [Call -> CallRec] /\ proc' \in [Agent -> ProcRec]
      BY <2>1, <3>1, AskTypes
    <3>3. QED
      BY <1>8, <3>2 DEF Open, RegistryTypeOK
  <2>2. ASSUME disk[a].crt > 0, proc' = [proc EXCEPT ![a] = Up(disk[a].crt)],
               UNCHANGED call
        PROVE  RegistryTypeOK'
    <3>1. disk[a].crt \in Cert
      BY <2>2, RegistryAssumption DEF RegistryTypeOK, Files, Torn, Cert
    <3>2. Up(disk[a].crt) \in ProcRec
      BY <3>1 DEF Up, ProcRec
    <3>3. QED
      BY <1>8, <2>2, <3>2 DEF Open, RegistryTypeOK
  <2>3. QED
    BY <1>8, <2>1, <2>2 DEF Open
<1>9. ASSUME NEW a \in Agent, AskRenewal(a) PROVE RegistryTypeOK'
  <2>1. disk[a].id \in NodeId \cup {0} /\ proc[a].cert \in Cert
    BY DEF RegistryTypeOK, ProcRec, Files
  <2>2. call' \in [Call -> CallRec] /\ proc' \in [Agent -> ProcRec]
    BY <1>9, <2>1, AskTypes, Zenon DEF AskRenewal
  <2>3. QED
    BY <1>9, <2>2 DEF AskRenewal, RegistryTypeOK
<1>10. ASSUME NEW a \in Agent, Refused(a) \/ AnswerLost(a) PROVE RegistryTypeOK'
  <2>1. proc' \in [Agent -> ProcRec]
    BY <1>10, GivesUpTypes DEF Refused, AnswerLost
  <2>2. mishaps' \in [Mishap -> 0..MaxMishaps]
    BY <1>10, RegistryAssumption DEF Refused, AnswerLost, Happens, RegistryTypeOK, Mishap
  <2>3. QED
    BY <1>10, <2>1, <2>2 DEF Refused, AnswerLost, RegistryTypeOK
<1>11. ASSUME NEW a \in Agent, WriteCert(a) PROVE RegistryTypeOK'
  <2>1. proc[a].call \in Call
    BY <1>11 DEF WriteCert, Waiting, AgentInv, Asked
  <2>2. proc[a].call \in Cert
    BY <2>1, RegistryAssumption DEF Call, Cert
  <2>3. [proc[a] EXCEPT !.pc = "persist"] \in ProcRec
    BY DEF RegistryTypeOK, ProcRec
  <2>4. QED
    BY <1>11, <2>2, <2>3 DEF WriteCert, RegistryTypeOK, Files
<1>12. ASSUME NEW a \in Agent, WriteId(a) PROVE RegistryTypeOK'
  <2>1. proc[a].call \in Call
    BY <1>12 DEF WriteId, AgentInv, Asked
  <2>2. call[proc[a].call].node \in NodeId \cup {0}
    BY <2>1 DEF RegistryTypeOK, CallRec
  <2>3. proc[a].call \in Cert
    BY <2>1, RegistryAssumption DEF Call, Cert
  <2>4. Up(proc[a].call) \in ProcRec
    BY <2>3 DEF Up, ProcRec
  <2>5. QED
    BY <1>12, <2>2, <2>4 DEF WriteId, RegistryTypeOK, Files
<1>13. ASSUME NEW a \in Agent, Crash(a) PROVE RegistryTypeOK'
  <2>1. Down \in ProcRec
    BY RegistryAssumption DEF Down, ProcRec, Cert
  <2>2. mishaps' \in [Mishap -> 0..MaxMishaps]
    BY <1>13, RegistryAssumption DEF Crash, Happens, RegistryTypeOK, Mishap
  <2>3. disk' \in [Agent -> Files]
    <3>1. [disk[a] EXCEPT !.crt = Torn] \in Files
      BY DEF RegistryTypeOK, Files
    <3>2. QED
      BY <1>13, <3>1 DEF Crash, RegistryTypeOK
  <2>4. QED
    BY <1>13, <2>1, <2>2, <2>3, Zenon DEF Crash, RegistryTypeOK
<1>14. QED
  BY <1>1, <1>2, <1>3, <1>4, <1>5, <1>6, <1>7, <1>8, <1>9, <1>10, <1>11, <1>12, <1>13
  DEF RegistryNext, ServeCall, AgentStep

\* A row keeps its type under a new status, a process under a new place in
\* its loop.
LEMMA RecordTypes ==
  /\ \A r \in NodeRec, st \in Status : [r EXCEPT !.status = st] \in NodeRec
  /\ \A p \in ProcRec, pc \in {"up", "beat"} : [p EXCEPT !.pc = pc] \in ProcRec
  /\ \A p \in ProcRec, n \in 0..2 :
       [p EXCEPT !.pc = "up", !.renewals = n] \in ProcRec
<1>1. \A r \in NodeRec, st \in Status : [r EXCEPT !.status = st] \in NodeRec
  BY DEF NodeRec
<1>2. \A p \in ProcRec, pc \in {"up", "beat"} : [p EXCEPT !.pc = pc] \in ProcRec
  BY DEF ProcRec
<1>3. ASSUME NEW p \in ProcRec, NEW n \in 0..2
      PROVE  [p EXCEPT !.pc = "up", !.renewals = n] \in ProcRec
  BY Zenon DEF ProcRec
<1>4. QED
  BY <1>1, <1>2, <1>3, Zenon

\* Heartbeats, the scan and the clock keep the types.
LEMMA TypeStep ==
  ASSUME Inv, [Next]_vars
  PROVE  TypeOK'
<1> USE DEF TypeOK
<1>a. row \in [NodeId -> NodeRec] /\ proc \in [Agent -> ProcRec]
  BY DEF Inv, RegistryTypeOK
<1>1. CASE UNCHANGED vars
  BY <1>1 DEF Inv, vars, registryVars, healthVars, RegistryTypeOK
<1>2. CASE RegistryNext /\ UNCHANGED healthVars
  BY <1>2, RegistryTypeStep DEF Inv, healthVars
<1>3. ASSUME NEW a \in Agent, Heartbeat(a) PROVE TypeOK'
  <2>1. [proc[a] EXCEPT !.pc = "beat"] \in ProcRec
    BY <1>a, RecordTypes, Zenon
  <2>2. QED
    BY <1>3, <2>1 DEF Heartbeat, Inv, RegistryTypeOK, Registered
<1>4. ASSUME NEW a \in Agent, TouchNodeStatus(a) PROVE TypeOK'
  <2>1. beat[a].node \in NodeId
    BY <1>4 DEF TouchNodeStatus, Inv, MonitorInv, Registered
  <2>2. [row[beat[a].node] EXCEPT !.status = "online"] \in NodeRec
    BY <1>a, <2>1, RecordTypes, Zenon DEF Status
  <2>3. row' \in [NodeId -> NodeRec]
    BY <1>4, <2>2, Zenon DEF TouchNodeStatus, Inv, RegistryTypeOK
  <2>4. silence' \in [NodeId -> 0..(OfflineAfter + 1)]
    <3>1. silence \in [NodeId -> 0..(OfflineAfter + 1)] /\ 0 \in 0..(OfflineAfter + 1)
      BY ClockAssumption DEF Inv
    <3>2. QED
      BY <1>4, <3>1, Zenon DEF TouchNodeStatus
  <2>5. QED
    BY <1>4, <2>3, <2>4 DEF TouchNodeStatus, Inv, RegistryTypeOK
<1>5. ASSUME NEW a \in Agent, HeartbeatAnswered(a) PROVE TypeOK'
  <2>1. \A n \in 0..2 : [proc[a] EXCEPT !.pc = "up", !.renewals = n] \in ProcRec
    BY <1>a, RecordTypes, Zenon
  <2>2. NoBeat \in [at : {"none", "admitted", "answered"}, node : NodeId \cup {0}, due : BOOLEAN]
    BY DEF NoBeat
  <2>3. proc' \in [Agent -> ProcRec]
    <3>1. (IF beat[a].due THEN 2 ELSE 0) \in 0..2
      OBVIOUS
    <3>2. (IF proc[a].pc = "beat"
           THEN [proc[a] EXCEPT !.pc = "up", !.renewals = IF beat[a].due THEN 2 ELSE 0]
           ELSE proc[a]) \in ProcRec
      BY <1>a, <2>1, <3>1, Zenon
    <3>3. QED
      BY <1>5, <1>a, <3>2 DEF HeartbeatAnswered
  <2>4. QED
    BY <1>5, <2>2, <2>3 DEF HeartbeatAnswered, Inv, RegistryTypeOK
<1>6. ASSUME NEW a \in Agent, HeartbeatLost(a) PROVE TypeOK'
  <2>1. [proc[a] EXCEPT !.pc = "up"] \in ProcRec
    BY <1>a, RecordTypes, Zenon
  <2>2. mishaps' \in [Mishap -> 0..MaxMishaps]
    BY <1>6, RegistryAssumption DEF HeartbeatLost, Happens, Inv, RegistryTypeOK, Mishap
  <2>3. QED
    BY <1>6, <2>1, <2>2 DEF HeartbeatLost, healthVars, Inv, RegistryTypeOK
<1>7. CASE ScanReads
  <2>1. Stale \subseteq Seen
    BY DEF Stale, Seen, Registered, Inv
  <2>2. QED
    BY <1>7, <2>1 DEF ScanReads, registryVars, Inv, RegistryTypeOK
<1>8. CASE TransitionStaleNodes
  <2>1. \A s \in scan.seen : NextStatus(s) \in {"online", "suspect", "offline"}
    BY DEF NextStatus, Inv, Seen
  <2>2. \A n \in NodeId : (\E s \in scan.seen : s.node = n) =>
          NextStatus(CHOOSE s \in scan.seen : s.node = n) \in {"online", "suspect", "offline"}
    BY <2>1
  <2>3. row' \in [NodeId -> NodeRec]
    <3>1. \A n \in NodeId, st \in Status : [row[n] EXCEPT !.status = st] \in NodeRec
      BY <1>a, RecordTypes, Zenon
    <3>2. QED
      BY <1>8, <2>2, <3>1, Zenon DEF TransitionStaleNodes, Update, Inv, RegistryTypeOK, Status
  <2>4. {t \in {[node |-> s.node, from |-> s.status, to |-> NextStatus(s)] : s \in scan.seen} : t.from # t.to}
          \subseteq Transition
    BY <2>1 DEF Transition, NextStatus, Inv, Seen
  <2>5. QED
    BY <1>8, <2>3, <2>4, Zenon DEF TransitionStaleNodes, Update, Inv, RegistryTypeOK
<1>9. CASE ScanPublishes
  <2>1. mishaps' \in [Mishap -> 0..MaxMishaps]
    BY <1>9, RegistryAssumption DEF ScanPublishes, Happens, Inv, RegistryTypeOK, Mishap
  <2>2. told' \in [NodeId -> BOOLEAN]
    BY <1>9, Zenon DEF ScanPublishes, Inv
  <2>3. scan' \in [at : {"idle", "update", "publish"}, seen : SUBSET Seen, todo : SUBSET Transition]
    BY <1>9 DEF ScanPublishes, Inv, NoScan
  <2>4. QED
    BY <1>9, <2>1, <2>2, <2>3 DEF ScanPublishes, Inv, RegistryTypeOK
<1>10. CASE MonitorRestarts
  <2>1. mishaps' \in [Mishap -> 0..MaxMishaps]
    BY <1>10, RegistryAssumption DEF MonitorRestarts, Happens, Inv, RegistryTypeOK, Mishap
  <2>2. QED
    BY <1>10, <2>1 DEF MonitorRestarts, NoScan, Inv, RegistryTypeOK
<1>11. CASE Tick
  <2>1. silence' \in [NodeId -> 0..(OfflineAfter + 1)]
    BY <1>11, ClockAssumption DEF Tick, Inv
  <2>2. QED
    BY <1>11, <2>1 DEF Tick, registryVars, Inv, RegistryTypeOK
<1>12. QED
  BY <1>1, <1>2, <1>3, <1>4, <1>5, <1>6, <1>7, <1>8, <1>9, <1>10, <1>11
  DEF Next, BeatStep, ScanStep

-----------------------------------------------------------------------------
(* Requests, codes and rows                                                *)

\* What almost every step leaves as it is: no request is made, no registration
\* answered, and a node that is revoked is registered.
Keeps ==
  /\ \A k \in Call :
       /\ call'[k].op = call[k].op /\ call'[k].agent = call[k].agent
       /\ call'[k].code = call[k].code /\ call'[k].node = call[k].node
       /\ call[k].at = "ok" => call'[k].at = "ok"
       /\ call[k].op = "register" => (call'[k].at = "ok" => call[k].at = "ok")
  /\ \A c \in Code : code'[c].node = code[c].node
  /\ \A n \in NodeId :
       /\ row'[n].key = row[n].key
       /\ row'[n].status = "none" <=> row[n].status = "none"
       /\ row'[n].revoked => row[n].revoked \/ n \in Registered

\* A request is made.
Asks(a) ==
  /\ \/ \E c \in Code : disk[a].crt = 0 /\ Ask(a, "register", c, 0, 0)
     \/ /\ proc[a].pc = "up" /\ proc[a].renewals > 0
        /\ Ask(a, "renew", None, disk[a].id, proc[a].cert)
  /\ UNCHANGED <<code, row, disk>>

\* A registration is answered.
Registers(k) ==
  /\ call[k].op = "register" /\ call[k].at = "checked"
  /\ Usable(call[k].code) /\ Bound(k)
  /\ UNCHANGED <<disk, proc>>

\* A request that is not answered yet moves on.
LEMMA StageKeeps ==
  ASSUME Inv, NEW k \in Call, NEW at, Stage(k, at), call[k].at # "ok",
         call[k].op = "register" => at # "ok", UNCHANGED code,
         \A n \in NodeId : /\ row'[n].key = row[n].key /\ row'[n].status = row[n].status
                           /\ row'[n].revoked = row[n].revoked
  PROVE  Keeps
  BY DEF Inv, TypeOK, RegistryTypeOK, CallRec, Stage, Keeps

\* Every step is of one of the three kinds.
LEMMA StepKinds ==
  ASSUME Inv, [Next]_vars
  PROVE  Keeps \/ (\E a \in Agent : Asks(a)) \/ (\E k \in Call : Registers(k))
<1>a. row \in [NodeId -> NodeRec] /\ code \in [Code -> CodeRec]
  BY DEF Inv, TypeOK, RegistryTypeOK
<1>1. ASSUME UNCHANGED <<code, row, call>> PROVE Keeps
  BY <1>1 DEF Keeps
<1>2. ASSUME NEW c \in Code, MintCode(c) \/ CodeExpires(c) PROVE Keeps
  BY <1>a, <1>2 DEF MintCode, CodeExpires, Keeps, CodeRec
<1>3. ASSUME NEW k \in Call, RegisterCheck(k) PROVE Keeps
  BY <1>3, StageKeeps DEF RegisterCheck
<1>4. ASSUME NEW k \in Call, RegisterNode(k) PROVE Keeps \/ Registers(k)
  BY <1>4, StageKeeps DEF RegisterNode, Registers
<1>5. ASSUME NEW k \in Call, RenewCheck(k) PROVE Keeps
  BY <1>5, StageKeeps DEF RenewCheck
<1>6. ASSUME NEW k \in Call, RotateNodeCert(k) PROVE Keeps
  <2>1. \A n \in NodeId : /\ row'[n].key = row[n].key /\ row'[n].status = row[n].status
                          /\ row'[n].revoked = row[n].revoked
    BY <1>a, <1>6 DEF RotateNodeCert, NodeRec
  <2>2. QED
    BY <1>6, <2>1, StageKeeps DEF RotateNodeCert
<1>7. ASSUME NEW n \in NodeId, RevokeNode(n) PROVE Keeps
  BY <1>a, <1>7 DEF RevokeNode, Keeps, NodeRec
<1>8. ASSUME NEW a \in Agent, Open(a) \/ AskRenewal(a) PROVE Keeps \/ Asks(a)
  BY <1>8, <1>1 DEF Open, AskRenewal, Asks
<1>9. ASSUME NEW a \in Agent, TouchNodeStatus(a) PROVE Keeps
  <2>1. row[beat[a].node].status # "none"
    BY <1>9 DEF TouchNodeStatus, Inv, MonitorInv, Registered
  <2>2. QED
    BY <1>a, <1>9, <2>1 DEF TouchNodeStatus, Keeps, NodeRec
<1>10. CASE TransitionStaleNodes
  <2>1. \A n \in NodeId : (\E s \in scan.seen : s.node = n) =>
          /\ row[n].status # "none"
          /\ NextStatus(CHOOSE s \in scan.seen : s.node = n) # "none"
    BY DEF NextStatus, Inv, TypeOK, Seen, MonitorInv, Registered
  <2>2. QED
    BY <1>a, <1>10, <2>1 DEF TransitionStaleNodes, Update, Keeps, NodeRec
<1>11. CASE RegistryNext
  BY <1>11, <1>1, <1>2, <1>3, <1>4, <1>5, <1>6, <1>7, <1>8
  DEF RegistryNext, ServeCall, AgentStep, CertAges, Refused, WriteCert, WriteId, AnswerLost, Crash
<1>12. QED
  BY <1>1, <1>9, <1>10, <1>11, Zenon
  DEF Next, vars, registryVars, BeatStep, ScanStep, Heartbeat, HeartbeatAnswered, HeartbeatLost,
      ScanReads, ScanPublishes, MonitorRestarts, Tick

\* Requests, codes and rows still belong together.
LEMMA ServerStep ==
  ASSUME Inv, [Next]_vars
  PROVE  ServerInv'
<1>1. CASE Keeps
  <2>1. Registered' = Registered
    BY <1>1 DEF Keeps, Registered
  <2>2. \A k \in Call : call'[k].op = "renew" =>
          call'[k].node \in Registered' /\ row'[call'[k].node].key = call'[k].agent
    <3>1. \A n \in Registered : row'[n].key = row[n].key
      BY <1>1 DEF Keeps, Registered
    <3>2. QED
      BY <1>1, <2>1, <3>1 DEF Keeps, ServerInv, Inv
  <2>3. \A n \in NodeId : n \in Registered' <=> call'[n].op = "register" /\ call'[n].at = "ok"
    BY <1>1, <2>1 DEF Keeps, ServerInv, Inv, NodeId
  <2>4. \A n \in Registered' : row'[n].key = call'[n].agent /\ code'[call'[n].code].node = n
    <3>1. \A n \in Registered : n \in NodeId /\ n \in Call /\ call[n].code \in Code
      BY DEF Registered, NodeId, ServerInv, Inv
    <3>2. QED
      BY <1>1, <2>1, <3>1 DEF Keeps, ServerInv, Inv
  <2>5. \A c \in Code : code'[c].node # 0 =>
          code'[c].node \in Registered' /\ call'[code'[c].node].code = c
    <3>1. \A n \in Registered : n \in Call
      BY DEF Registered, NodeId
    <3>2. QED
      BY <1>1, <2>1, <3>1 DEF Keeps, ServerInv, Inv
  <2>6. QED
    BY <1>1, <2>1, <2>2, <2>3, <2>4, <2>5 DEF Keeps, ServerInv, Inv
<1>2. ASSUME NEW a \in Agent, Asks(a) PROVE ServerInv'
  <2>1. Registered' = Registered /\ row' = row /\ code' = code
    BY <1>2 DEF Asks, Registered
  <2>2. ASSUME NEW k \in Call, NEW op \in {"register", "renew"}, NEW c, NEW n, NEW peer,
               call[k].op = "none",
               call' = [call EXCEPT ![k] = [op |-> op, at |-> "sent", agent |-> a, code |-> c,
                                            node |-> n, peer |-> peer]],
               op = "register" => n = k /\ c \in Code,
               op = "renew" => n \in Registered /\ row[n].key = a
        PROVE  ServerInv'
    <3>1. /\ \A j \in Call : j # k => call'[j] = call[j]
          /\ call'[k].op = op /\ call'[k].at = "sent" /\ call'[k].agent = a
          /\ call'[k].code = c /\ call'[k].node = n
      BY <2>2 DEF Inv, TypeOK, RegistryTypeOK
    <3>2. k \notin Registered
      BY <2>2 DEF Inv, ServerInv, NodeId
    <3>3. QED
      BY <2>1, <2>2, <3>1, <3>2 DEF ServerInv, Inv, NodeId, Registered
  <2>3. ASSUME NEW c \in Code, Ask(a, "register", c, 0, 0) PROVE ServerInv'
    BY <2>2, <2>3, Zenon DEF Ask
  <2>4. CASE proc[a].pc = "up" /\ Ask(a, "renew", None, disk[a].id, proc[a].cert)
    <3>1. disk[a].id \in Registered /\ row[disk[a].id].key = a
      BY <2>4 DEF Inv, AgentInv, FilesInv, Runs
    <3>2. PICK k \in Call :
            /\ call[k].op = "none"
            /\ call' = [call EXCEPT ![k] = [op |-> "renew", at |-> "sent", agent |-> a,
                           code |-> None, node |-> disk[a].id, peer |-> proc[a].cert]]
      BY <2>4, Zenon DEF Ask
    <3>3. QED
      BY <2>2, <3>1, <3>2, Zenon
  <2>5. QED
    BY <1>2, <2>3, <2>4 DEF Asks
<1>3. ASSUME NEW k \in Call, Registers(k) PROVE ServerInv'
  <2>a. row \in [NodeId -> NodeRec] /\ code \in [Code -> CodeRec] /\ call \in [Call -> CallRec]
    BY DEF Inv, TypeOK, RegistryTypeOK
  <2>1. call[k].code \in Code /\ code[call[k].code].node = 0 /\ k \notin Registered /\ k # 0
    BY <1>3 DEF Registers, Usable, Inv, ServerInv, NodeId, Call
  <2>2. Registered' = Registered \cup {k}
    BY <1>3, <2>a DEF Registers, Bound, Registered, NodeId
  <2>3. /\ \A n \in NodeId : n # k => row'[n] = row[n]
        /\ row'[k].key = call[k].agent /\ ~row'[k].revoked
    BY <1>3, <2>a DEF Registers, Bound, NodeId
  <2>4. /\ \A c \in Code : c # call[k].code => code'[c].node = code[c].node
        /\ code'[call[k].code].node = k
    BY <1>3, <2>1, <2>a DEF Registers, Bound, CodeRec
  <2>5. \A j \in Call : /\ call'[j].op = call[j].op /\ call'[j].agent = call[j].agent
                        /\ call'[j].code = call[j].code /\ call'[j].node = call[j].node
                        /\ call'[j].at = IF j = k THEN "ok" ELSE call[j].at
    BY <1>3, <2>a DEF Registers, Bound, Stage, CallRec
  <2>6. \A n \in Registered : call[n].code # call[k].code
    BY <2>1 DEF Inv, ServerInv, Registered, NodeId, Call
  <2>b. ServerInv /\ call[k].op = "register"
    BY <1>3 DEF Inv, Registers
  <2>7. (/\ \A j \in Call : call[j].op # "none" => call[j].agent \in Agent
         /\ \A j \in Call : call[j].op = "register" => call[j].node = j /\ call[j].code \in Code)'
    BY <2>5, <2>b DEF ServerInv
  <2>8. (\A j \in Call : call[j].op = "renew" =>
           call[j].node \in Registered /\ row[call[j].node].key = call[j].agent)'
    BY <2>1, <2>2, <2>3, <2>5, <2>b DEF ServerInv, Registered
  <2>9. (\A n \in NodeId : n \in Registered <=> call[n].op = "register" /\ call[n].at = "ok")'
    BY <2>2, <2>5, <2>b DEF ServerInv, NodeId
  <2>10. (\A n \in Registered : row[n].key = call[n].agent /\ code[call[n].code].node = n)'
    BY <2>1, <2>2, <2>3, <2>4, <2>5, <2>6, <2>b DEF ServerInv, Registered, NodeId
  <2>11. (\A n \in NodeId : row[n].revoked => n \in Registered)'
    BY <2>2, <2>3, <2>b DEF ServerInv
  <2>12. (\A c \in Code : code[c].node # 0 => code[c].node \in Registered /\ call[code[c].node].code = c)'
    BY <2>2, <2>4, <2>5, <2>b DEF ServerInv, Registered, NodeId
  <2>13. QED
    BY <2>7, <2>8, <2>9, <2>10, <2>11, <2>12, Zenon DEF ServerInv
<1>4. QED
  BY <1>1, <1>2, <1>3, StepKinds

-----------------------------------------------------------------------------
(* Identities                                                              *)

\* Nothing an agent relies on is taken back: a request keeps what it asked
\* for, an answer stays, a node stays registered under its key.
Grows ==
  /\ \A k \in Call : call[k].op # "none" =>
       /\ call'[k].op = call[k].op /\ call'[k].agent = call[k].agent
       /\ call'[k].node = call[k].node
       /\ call[k].at = "ok" => call'[k].at = "ok"
  /\ \A n \in Registered : n \in Registered' /\ row'[n].key = row[n].key

\* Every step only adds to that.
LEMMA StepGrows ==
  ASSUME Inv, [Next]_vars
  PROVE  Grows
<1>1. CASE Keeps
  BY <1>1 DEF Keeps, Grows, Registered
<1>2. ASSUME NEW a \in Agent, Asks(a) PROVE Grows
  <2>1. \A k \in Call : call[k].op # "none" => call'[k] = call[k]
    BY <1>2 DEF Asks, Ask, Inv, TypeOK, RegistryTypeOK
  <2>2. QED
    BY <1>2, <2>1 DEF Asks, Grows, Registered
<1>3. ASSUME NEW k \in Call, Registers(k) PROVE Grows
  <2>1. k \notin Registered
    BY <1>3 DEF Registers, Inv, ServerInv, NodeId
  <2>2. row \in [NodeId -> NodeRec] /\ call \in [Call -> CallRec]
    BY DEF Inv, TypeOK, RegistryTypeOK
  <2>3. \A j \in Call : /\ call'[j].op = call[j].op /\ call'[j].agent = call[j].agent
                        /\ call'[j].node = call[j].node
                        /\ call'[j].at = IF j = k THEN "ok" ELSE call[j].at
    BY <1>3, <2>2 DEF Registers, Bound, Stage, CallRec
  <2>4. \A n \in Registered : row'[n] = row[n]
    BY <1>3, <2>1, <2>2 DEF Registers, Bound, Registered, NodeId
  <2>5. QED
    BY <2>3, <2>4 DEF Grows, Registered
<1>4. QED
  BY <1>1, <1>2, <1>3, StepKinds

\* What was issued stays issued, for the same node.
LEMMA IssuedGrows ==
  ASSUME Grows, NEW a \in Agent, NEW k, Issued(a, k)
  PROVE  Issued(a, k)' /\ call'[k].node = call[k].node
  BY DEF Grows, Issued

\* Files that are not written keep their invariant.
LEMMA FilesFrame ==
  ASSUME Grows, NEW a \in Agent, FilesInv(a), disk'[a] = disk[a]
  PROVE  FilesInv(a)'
<1>1. disk[a].crt > 0 => Issued(a, disk[a].crt)' /\ call'[disk[a].crt].node = call[disk[a].crt].node
  BY IssuedGrows DEF FilesInv
<1>2. disk[a].id # 0 => disk[a].id \in Registered' /\ row'[disk[a].id].key = a
  BY DEF FilesInv, Grows
<1>3. QED
  BY <1>1, <1>2 DEF FilesInv

\* An agent that takes no step keeps its invariant.
LEMMA AgentFrame ==
  ASSUME Grows, NEW a \in Agent, AgentInv(a), disk'[a] = disk[a], proc'[a] = proc[a]
  PROVE  AgentInv(a)'
<1>1. Runs(a) => Runs(a)'
  BY IssuedGrows DEF Runs
<1>2. FilesInv(a)'
  BY FilesFrame DEF AgentInv
<1>3. Asked(a) =>
        /\ Asked(a)' /\ call'[proc[a].call].op = call[proc[a].call].op
        /\ call'[proc[a].call].node = call[proc[a].call].node
        /\ call[proc[a].call].at = "ok" => call'[proc[a].call].at = "ok"
  BY DEF Asked, Grows
<1>4. Asked(a) /\ Awaits(a) => Awaits(a)'
  BY <1>1, <1>3 DEF Awaits
<1>5. QED
  BY <1>1, <1>2, <1>3, <1>4 DEF AgentInv

\* A process that stops, or goes on with what it has, keeps its invariant as
\* well: its files are as they were.
LEMMA AgentRests ==
  ASSUME Grows, NEW a \in Agent, AgentInv(a), disk'[a] = disk[a],
         \/ proc'[a] = Down
         \/ proc'[a].pc \in {"up", "beat"} /\ proc'[a].cert = proc[a].cert /\ Runs(a)
  PROVE  AgentInv(a)'
<1>1. Runs(a) /\ proc'[a].cert = proc[a].cert => Runs(a)'
  BY IssuedGrows DEF Runs
<1>2. FilesInv(a)'
  BY FilesFrame DEF AgentInv
<1>3. QED
  BY <1>1, <1>2 DEF AgentInv, Down

\* What the request an agent makes looks like to it.
LEMMA AskWaits ==
  ASSUME TypeOK, NEW a \in Agent, NEW op, NEW c, NEW n, NEW peer, Ask(a, op, c, n, peer)
  PROVE  /\ proc'[a].pc = "wait" /\ proc'[a].call \in Call
         /\ proc'[a].cert = proc[a].cert /\ proc'[a].renewals = proc[a].renewals
         /\ call'[proc'[a].call].op = op /\ call'[proc'[a].call].agent = a
         /\ op # "register" => call'[proc'[a].call].node = n
<1>1. PICK k \in Call :
        /\ call' = [call EXCEPT ![k] = [op |-> op, at |-> "sent", agent |-> a, code |-> c,
                                        node |-> IF op = "register" THEN k ELSE n, peer |-> peer]]
        /\ proc' = [proc EXCEPT ![a].pc = "wait", ![a].call = k]
  BY Zenon DEF Ask
<1>2. proc'[a].pc = "wait" /\ proc'[a].call = k /\ proc'[a].cert = proc[a].cert
      /\ proc'[a].renewals = proc[a].renewals
  BY <1>1 DEF TypeOK, RegistryTypeOK, ProcRec
<1>3. call'[k].op = op /\ call'[k].agent = a /\ (op # "register" => call'[k].node = n)
  BY <1>1 DEF TypeOK, RegistryTypeOK
<1>4. QED
  BY <1>2, <1>3

\* An answered request is for a registered node of the agent that made it.
LEMMA AnsweredNode ==
  ASSUME Inv, NEW k \in Call, call[k].op # "none", call[k].at = "ok"
  PROVE  call[k].node \in Registered /\ row[call[k].node].key = call[k].agent
<1>1. call[k].op \in {"register", "renew"}
  BY DEF Inv, TypeOK, RegistryTypeOK, CallRec
<1>2. CASE call[k].op = "register"
  BY <1>2 DEF Inv, ServerInv, NodeId
<1>3. CASE call[k].op = "renew"
  BY <1>3 DEF Inv, ServerInv
<1>4. QED
  BY <1>1, <1>2, <1>3

\* The steps an agent takes keep its own invariant.
LEMMA OwnStep ==
  ASSUME Inv, Grows, NEW a \in Agent,
         AgentStep(a) \/ AnswerLost(a) \/ Crash(a) \/ Heartbeat(a) \/ HeartbeatAnswered(a) \/ HeartbeatLost(a)
  PROVE  AgentInv(a)'
<1>a. AgentInv(a) /\ proc \in [Agent -> ProcRec] /\ disk \in [Agent -> Files] /\ TypeOK
  BY DEF Inv, TypeOK, RegistryTypeOK
<1>b. FilesInv(a) /\ (disk'[a] = disk[a] => FilesInv(a)')
  BY <1>a, FilesFrame DEF AgentInv
<1>1. ASSUME NEW c \in Code, disk[a].crt = 0, Ask(a, "register", c, 0, 0), UNCHANGED disk
      PROVE  AgentInv(a)'
  <2>1. proc'[a].pc = "wait" /\ Asked(a)' /\ call'[proc'[a].call].op = "register"
    BY <1>a, <1>1, AskWaits DEF Asked
  <2>2. Awaits(a)'
    BY <1>1, <2>1 DEF Awaits
  <2>3. QED
    BY <1>b, <1>1, <2>1, <2>2 DEF AgentInv
<1>2. CASE Open(a) /\ disk[a].crt > 0 /\ disk[a].id # 0 /\ proc' = [proc EXCEPT ![a] = Up(disk[a].crt)]
  <2>1. proc'[a].pc = "up" /\ proc'[a].cert = disk[a].crt /\ disk' = disk
    BY <1>a, <1>2 DEF Up, Open
  <2>2. \A k : k = disk[a].crt => Issued(a, k)' /\ call'[k].node = disk[a].id
    BY <1>b, <1>2, IssuedGrows DEF FilesInv
  <2>3. Runs(a)'
    BY <1>2, <2>1, <2>2 DEF Runs
  <2>4. QED
    BY <1>b, <2>1, <2>3 DEF AgentInv
<1>3. CASE AskRenewal(a)
  <2>1. disk' = disk /\ Ask(a, "renew", None, disk[a].id, proc[a].cert) /\ Runs(a) /\ proc[a].renewals > 0
    BY <1>a, <1>3 DEF AskRenewal, AgentInv
  <2>2. /\ proc'[a].pc = "wait" /\ proc'[a].call \in Call
        /\ proc'[a].cert = proc[a].cert /\ proc'[a].renewals = proc[a].renewals
        /\ call'[proc'[a].call].op = "renew" /\ call'[proc'[a].call].agent = a
        /\ call'[proc'[a].call].node = disk[a].id
    BY <1>a, <2>1, AskWaits
  <2>3. \A k : k = proc[a].cert => Issued(a, k)' /\ call'[k].node = disk[a].id
    BY <2>1, IssuedGrows DEF Runs
  <2>4. Runs(a)'
    BY <2>1, <2>2, <2>3 DEF Runs
  <2>5. Asked(a)'
    BY <2>2 DEF Asked
  <2>6. Awaits(a)'
    BY <2>1, <2>2, <2>4 DEF Awaits
  <2>7. QED
    BY <1>b, <2>1, <2>2, <2>5, <2>6 DEF AgentInv
<1>4. CASE Waiting(a) /\ GivesUp(a) /\ UNCHANGED disk
  <2>1. CASE call[proc[a].call].op = "register"
    BY <1>a, <1>4, <2>1, AgentRests DEF GivesUp
  <2>2. CASE call[proc[a].call].op # "register"
    <3>1. Runs(a)
      BY <1>a, <1>4, <2>2 DEF Waiting, AgentInv, Awaits
    <3>2. proc'[a].pc = "up" /\ proc'[a].cert = proc[a].cert
      BY <1>a, <1>4, <2>2 DEF GivesUp, ProcRec
    <3>3. QED
      BY <1>a, <1>4, <3>1, <3>2, AgentRests
  <2>3. QED
    BY <2>1, <2>2
<1>5. CASE WriteCert(a)
  <2>1. /\ disk'[a].crt = proc[a].call /\ disk'[a].id = disk[a].id
        /\ proc'[a].pc = "persist" /\ proc'[a].call = proc[a].call
        /\ call' = call /\ row' = row
    BY <1>a, <1>5 DEF WriteCert, ProcRec, Files
  <2>2. Asked(a) /\ Awaits(a) /\ call[proc[a].call].at = "ok"
    BY <1>a, <1>5 DEF WriteCert, Waiting, AgentInv
  <2>3. Issued(a, proc[a].call) /\ proc[a].call > 0
    BY <2>2 DEF Asked, Issued, Call
  <2>4. disk[a].id # 0 => call[proc[a].call].node = disk[a].id
    BY <1>b, <2>2 DEF Awaits, FilesInv
  <2>5. \A k : k = proc[a].call => Issued(a, k)'
    BY <2>3, IssuedGrows
  <2>6. Registered' = Registered
    BY <2>1 DEF Registered
  <2>7. FilesInv(a)'
    BY <1>b, <2>1, <2>3, <2>4, <2>5, <2>6 DEF FilesInv
  <2>8. Asked(a)'
    BY <2>1, <2>2 DEF Asked
  <2>9. QED
    BY <2>1, <2>2, <2>7, <2>8 DEF AgentInv
<1>6. CASE WriteId(a)
  <2>1. /\ disk'[a].crt = disk[a].crt /\ disk'[a].id = call[proc[a].call].node
        /\ proc'[a].pc = "up" /\ proc'[a].cert = proc[a].call
        /\ call' = call /\ row' = row
    BY <1>a, <1>6 DEF WriteId, Up, Files
  <2>2. Issued(a, proc[a].call) /\ disk[a].crt = proc[a].call /\ proc[a].call > 0
    BY <1>a, <1>6 DEF WriteId, AgentInv, Asked, Issued, Call
  <2>3. call[proc[a].call].node \in Registered /\ row[call[proc[a].call].node].key = a
    BY <2>2, AnsweredNode DEF Issued
  <2>4. call[proc[a].call].node # 0
    BY <2>3 DEF Registered, NodeId, Call
  <2>5. \A k : k = proc[a].call => Issued(a, k)'
    BY <2>2, IssuedGrows
  <2>6. Runs(a)'
    BY <2>1, <2>4, <2>5 DEF Runs
  <2>7. Registered' = Registered
    BY <2>1 DEF Registered
  <2>8. FilesInv(a)'
    BY <2>1, <2>2, <2>3, <2>4, <2>5, <2>7 DEF FilesInv
  <2>9. QED
    BY <2>1, <2>6, <2>8 DEF AgentInv
<1>7. CASE Crash(a)
  <2>1. proc'[a] = Down
    BY <1>a, <1>7 DEF Crash
  <2>2. CASE disk' = disk
    BY <1>a, <2>1, <2>2, AgentRests
  <2>3. CASE disk' = [disk EXCEPT ![a].crt = Torn]
    <3>1. disk'[a].crt = -1 /\ disk'[a].id = disk[a].id
      BY <1>a, <2>3 DEF Torn, Files
    <3>2. row' = row /\ Registered' = Registered
      BY <1>7 DEF Crash, Registered
    <3>3. FilesInv(a)'
      BY <1>b, <3>1, <3>2 DEF FilesInv
    <3>4. QED
      BY <2>1, <3>3 DEF AgentInv, Down
  <2>4. QED
    BY <1>7, <2>2, <2>3 DEF Crash
<1>8. CASE Heartbeat(a) \/ HeartbeatLost(a)
  <2>1. Runs(a) /\ disk' = disk
    BY <1>a, <1>8 DEF Heartbeat, HeartbeatLost, AgentInv
  <2>2. proc'[a].pc \in {"up", "beat"} /\ proc'[a].cert = proc[a].cert
    BY <1>a, <1>8 DEF Heartbeat, HeartbeatLost, ProcRec
  <2>3. QED
    BY <1>a, <2>1, <2>2, AgentRests
<1>9. CASE HeartbeatAnswered(a)
  <2>1. CASE proc[a].pc = "beat"
    <3>1. Runs(a) /\ disk' = disk
      BY <1>a, <1>9, <2>1 DEF HeartbeatAnswered, AgentInv
    <3>2. proc'[a].pc = "up" /\ proc'[a].cert = proc[a].cert
      BY <1>a, <1>9, <2>1 DEF HeartbeatAnswered, ProcRec
    <3>3. QED
      BY <1>a, <3>1, <3>2, AgentRests
  <2>2. CASE proc[a].pc # "beat"
    BY <1>a, <1>9, <2>2, AgentFrame DEF HeartbeatAnswered
  <2>3. QED
    BY <2>1, <2>2
<1>10. QED
  BY <1>1, <1>2, <1>3, <1>4, <1>5, <1>6, <1>7, <1>8, <1>9, Zenon DEF AgentStep, Open, Refused, AnswerLost

\* Whoever takes the step, every agent keeps its invariant.
LEMMA AgentsStep ==
  ASSUME Inv, [Next]_vars
  PROVE  \A a \in Agent : AgentInv(a)'
<1> SUFFICES ASSUME NEW a \in Agent PROVE AgentInv(a)'
  OBVIOUS
<1>a. Grows /\ AgentInv(a) /\ proc \in [Agent -> ProcRec] /\ disk \in [Agent -> Files]
  BY StepGrows DEF Inv, TypeOK, RegistryTypeOK
<1>1. CASE UNCHANGED <<disk, proc>>
  BY <1>a, <1>1, AgentFrame
<1>2. ASSUME NEW b \in Agent,
             \/ AgentStep(b) \/ AnswerLost(b) \/ Crash(b)
             \/ Heartbeat(b) \/ HeartbeatAnswered(b) \/ HeartbeatLost(b)
      PROVE  AgentInv(a)'
  <2>1. CASE b = a
    BY <1>a, <1>2, <2>1, OwnStep
  <2>2. CASE b # a
    <3>1. proc'[a] = proc[a] /\ disk'[a] = disk[a]
      BY <1>a, <1>2, <2>2
      DEF AgentStep, Open, AskRenewal, Ask, Refused, GivesUp, WriteCert, WriteId, AnswerLost, Crash,
          Heartbeat, HeartbeatAnswered, HeartbeatLost
    <3>2. QED
      BY <1>a, <3>1, AgentFrame
  <2>3. QED
    BY <2>1, <2>2
<1>3. QED
  BY <1>1, <1>2, Zenon
  DEF Next, RegistryNext, MintCode, CodeExpires, ServeCall, RegisterCheck, RegisterNode, RenewCheck,
      RotateNodeCert, CertAges, RevokeNode, BeatStep, TouchNodeStatus, ScanStep, ScanReads,
      TransitionStaleNodes, Update, ScanPublishes, MonitorRestarts, Tick, vars, registryVars

-----------------------------------------------------------------------------
(* The invariant and the theorems                                          *)

\* The monitor goes on referring to registered nodes.
LEMMA MonitorStep ==
  ASSUME Inv, [Next]_vars
  PROVE  MonitorInv'
<1>1. Registered \subseteq Registered'
  BY StepGrows DEF Grows
<1>a. beat \in [Agent -> [at : {"none", "admitted", "answered"}, node : NodeId \cup {0}, due : BOOLEAN]]
  BY DEF Inv, TypeOK
<1>2. CASE UNCHANGED <<beat, scan>>
  BY <1>1, <1>2 DEF Inv, MonitorInv
<1>3. ASSUME NEW a \in Agent, Heartbeat(a) PROVE MonitorInv'
  BY <1>1, <1>3, <1>a DEF Inv, MonitorInv, Heartbeat
<1>4. ASSUME NEW a \in Agent, TouchNodeStatus(a) PROVE MonitorInv'
  BY <1>1, <1>4, <1>a DEF Inv, MonitorInv, TouchNodeStatus
<1>5. ASSUME NEW a \in Agent, HeartbeatAnswered(a) PROVE MonitorInv'
  BY <1>1, <1>5, <1>a DEF Inv, MonitorInv, HeartbeatAnswered, NoBeat
<1>6. CASE ScanReads
  <2>1. \A s \in Stale : s.node \in Registered
    BY DEF Stale
  <2>2. QED
    BY <1>1, <1>6, <2>1 DEF Inv, MonitorInv, ScanReads
<1>7. CASE TransitionStaleNodes \/ ScanPublishes \/ MonitorRestarts
  <2>1. scan'.seen \subseteq scan.seen
    BY <1>7 DEF TransitionStaleNodes, Update, ScanPublishes, MonitorRestarts, NoScan, Inv, TypeOK
  <2>2. beat' = beat
    BY <1>7 DEF TransitionStaleNodes, Update, ScanPublishes, MonitorRestarts
  <2>3. QED
    BY <1>1, <2>1, <2>2 DEF Inv, MonitorInv
<1>8. QED
  BY <1>2, <1>3, <1>4, <1>5, <1>6, <1>7
  DEF Next, BeatStep, ScanStep, HeartbeatLost, Tick, vars, healthVars

\* The invariant holds at the start and is kept.
LEMMA InitInv == Init => Inv
<1> SUFFICES ASSUME Init PROVE Inv
  OBVIOUS
<1> USE DEF Init, RegistryInit
<1>1. TypeOK
  <2>1. RegistryTypeOK
    BY RegistryAssumption
    DEF RegistryTypeOK, CodeRec, NodeRec, CallRec, ProcRec, Files, NoCall, Down, Cert, Status, Life, Mishap
  <2>2. QED
    BY <2>1, ClockAssumption DEF TypeOK, NoBeat, NoScan
<1>2. Registered = {}
  BY DEF Registered
<1>3. ServerInv
  BY <1>2 DEF ServerInv, NoCall, NodeId
<1>4. \A a \in Agent : AgentInv(a)
  BY DEF AgentInv, FilesInv, Down
<1>5. MonitorInv
  BY DEF MonitorInv, NoBeat, NoScan
<1>6. QED
  BY <1>1, <1>3, <1>4, <1>5 DEF Inv

\* Every step keeps it.
LEMMA InvStep == Inv /\ [Next]_vars => Inv'
  BY TypeStep, ServerStep, AgentsStep, MonitorStep DEF Inv

\* The invariant of the fleet: the tables, the files and the processes always
\* belong together.
THEOREM FleetInvariant == Spec => []Inv
  BY InitInv, InvStep, PTL DEF Spec

\* However registrations race, and however often they are retried, a node has
\* exactly one code and a used code names its node (store.RegisterNode).
THEOREM CodesBindOneNode == Spec => []CodeBindsOneNode
<1>1. Inv => CodeBindsOneNode
  <2> SUFFICES ASSUME Inv PROVE CodeBindsOneNode
    OBVIOUS
  <2>1. ASSUME NEW n \in Registered PROVE Cardinality({c \in Code : code[c].node = n}) = 1
    <3>1. n # 0 /\ call[n].code \in Code
      BY DEF Registered, NodeId, Call, Inv, ServerInv
    <3>2. {c \in Code : code[c].node = n} = {call[n].code}
      BY <3>1 DEF Inv, ServerInv
    <3>3. QED
      BY <3>2, FS_Singleton, Zenon
  <2>2. QED
    BY <2>1 DEF CodeBindsOneNode, Inv, ServerInv
<1>2. QED
  BY <1>1, FleetInvariant, PTL

\* Whatever answers are lost and whenever processes stop, a running agent
\* presents a certificate of its own node (persistIdentity, loadIdentity).
THEOREM AgentsKeepIdentity == Spec => []OwnIdentity
<1>1. Inv => OwnIdentity
  <2> SUFFICES ASSUME Inv, NEW a \in Agent, proc[a].pc \in {"up", "beat"}
               PROVE  disk[a].id # 0 /\ call[proc[a].cert].node = disk[a].id /\ row[disk[a].id].key = a
    BY DEF OwnIdentity
  <2>1. FilesInv(a) /\ Runs(a)
    BY DEF Inv, AgentInv
  <2>2. QED
    BY <2>1 DEF FilesInv, Runs
<1>2. QED
  BY <1>1, FleetInvariant, PTL

\* No renewal, whenever it was checked, changes the certificate of a revoked
\* node (RotateNodeCert).
THEOREM RevocationHolds == Spec => RevokedKeepsCert
<1>1. Inv /\ [Next]_vars =>
        [\A n \in NodeId : row[n].revoked => row'[n].cert = row[n].cert /\ row'[n].revoked]_registryVars
  <2> SUFFICES ASSUME Inv, [Next]_vars, NEW n \in NodeId, row[n].revoked
               PROVE  row'[n].cert = row[n].cert /\ row'[n].revoked
    OBVIOUS
  <2>a. row \in [NodeId -> NodeRec] /\ n \in Registered
    BY DEF Inv, TypeOK, RegistryTypeOK, ServerInv
  <2>1. CASE UNCHANGED row
    BY <2>1
  <2>2. ASSUME NEW k \in Call, RegisterNode(k) PROVE row'[n] = row[n]
    <3>1. n # k
      BY <2>2, <2>a DEF RegisterNode, Inv, ServerInv, NodeId
    <3>2. QED
      BY <2>2, <2>a, <3>1 DEF RegisterNode, Bound
  <2>3. ASSUME NEW k \in Call, RotateNodeCert(k) PROVE row'[n] = row[n]
    BY <2>3, <2>a DEF RotateNodeCert
  <2>4. ASSUME NEW m \in NodeId, RevokeNode(m)
        PROVE  row'[n].cert = row[n].cert /\ row'[n].revoked
    BY <2>4, <2>a DEF RevokeNode, NodeRec
  <2>5. ASSUME NEW a \in Agent, TouchNodeStatus(a)
        PROVE  row'[n].cert = row[n].cert /\ row'[n].revoked
    BY <2>5, <2>a DEF TouchNodeStatus, NodeRec
  <2>6. CASE TransitionStaleNodes
    BY <2>6, <2>a DEF TransitionStaleNodes, Update, NodeRec
  <2>7. QED
    BY <2>1, <2>2, <2>3, <2>4, <2>5, <2>6, Zenon
    DEF Next, RegistryNext, MintCode, CodeExpires, ServeCall, RegisterCheck, RenewCheck, CertAges,
        AgentStep, Open, AskRenewal, Refused, WriteCert, WriteId, AnswerLost, Crash, BeatStep,
        Heartbeat, HeartbeatAnswered, HeartbeatLost, ScanStep, ScanReads, ScanPublishes,
        MonitorRestarts, Tick, vars, registryVars
<1>2. QED
  BY <1>1, FleetInvariant, PTL DEF Spec, RevokedKeepsCert

-----------------------------------------------------------------------------
(* Where the certificate is                                                *)

\* No answer was lost and no agent stopped.
Calm == mishaps["answer"] = 0 /\ mishaps["agent"] = 0

\* The registry holds the certificate the agent presents, or the one its
\* request was answered with.
Presented(a) == row[disk[a].id].cert = proc[a].cert
Granted(a) == row[call[proc[a].call].node].cert = proc[a].call
Renews(a) == proc[a].pc = "wait" /\ call[proc[a].call].op = "renew"

\* Where the registered certificate of an agent's node is, at each place of
\* its loop.
CalmAgent(a) ==
  /\ proc[a].pc = "down" => disk[a].crt = 0
  /\ proc[a].pc \in {"up", "beat"} => proc[a].cert = disk[a].crt /\ Presented(a)
  /\ Renews(a) => proc[a].cert = disk[a].crt
  /\ Renews(a) /\ call[proc[a].call].at # "ok" => Presented(a)
  /\ proc[a].pc \in {"wait", "persist"} /\ call[proc[a].call].at = "ok" => Granted(a)

\* Every request at work is the one its agent waits for.
Awaited ==
  \A k \in Call : call[k].at \in {"sent", "checked"} =>
    /\ call[k].agent \in Agent /\ proc[call[k].agent].pc = "wait"
    /\ proc[call[k].agent].call = k

CalmInv == Calm => Awaited /\ \A a \in Agent : CalmAgent(a)

\* An agent that takes no step while its rows keep their certificates.
LEMMA CalmFrame ==
  ASSUME Inv, NEW a \in Agent, CalmAgent(a), Grows, disk'[a] = disk[a], proc'[a] = proc[a],
         \A n \in Registered : row[n].key = a => row'[n].cert = row[n].cert,
         \A k \in Call : call[k].op # "none" /\ call[k].agent = a =>
           (call'[k].at = "ok" => call[k].at = "ok")
  PROVE  CalmAgent(a)'
<1>a. AgentInv(a) /\ FilesInv(a)
  BY DEF Inv, AgentInv
<1>1. disk[a].id # 0 => row'[disk[a].id].cert = row[disk[a].id].cert
  BY <1>a DEF FilesInv
<1>2. proc[a].pc \in {"wait", "persist"} => Asked(a)
  BY <1>a, Zenon DEF AgentInv
<1>3. Asked(a) =>
        /\ call'[proc[a].call].op = call[proc[a].call].op
        /\ call'[proc[a].call].node = call[proc[a].call].node
        /\ call'[proc[a].call].at = "ok" <=> call[proc[a].call].at = "ok"
  BY DEF Asked, Grows
<1>4. Asked(a) /\ call[proc[a].call].at = "ok" /\ Granted(a) => Granted(a)'
  <2>1. Asked(a) /\ call[proc[a].call].at = "ok" =>
          call[proc[a].call].node \in Registered /\ row[call[proc[a].call].node].key = a
    BY AnsweredNode DEF Asked
  <2>2. QED
    BY <1>3, <2>1, Zenon DEF Granted
<1>5. proc[a].pc \in {"up", "beat"} \/ Renews(a) => disk[a].id # 0
  BY <1>a DEF AgentInv, Awaits, Renews, Runs
<1>6. disk[a].id # 0 => (Presented(a)' <=> Presented(a))
  BY <1>1 DEF Presented
<1>7. Renews(a)' <=> Renews(a)
  BY <1>2, <1>3 DEF Renews
<1>8. (proc[a].pc \in {"up", "beat"} => proc[a].cert = disk[a].crt /\ Presented(a))'
  BY <1>5, <1>6 DEF CalmAgent
<1>9. (Renews(a) => proc[a].cert = disk[a].crt /\ (call[proc[a].call].at # "ok" => Presented(a)))'
  <2>1. Renews(a) => Asked(a)
    BY <1>2 DEF Renews
  <2>2. Asked(a) => (call'[proc'[a].call].at = "ok" <=> call[proc[a].call].at = "ok")
    BY <1>3
  <2>3. QED
    BY <1>5, <1>6, <1>7, <2>1, <2>2 DEF CalmAgent
<1>10. (proc[a].pc \in {"wait", "persist"} /\ call[proc[a].call].at = "ok" => Granted(a))'
  BY <1>2, <1>3, <1>4, Zenon DEF CalmAgent
<1>11. QED
  BY <1>8, <1>9, <1>10 DEF CalmAgent

\* The service answers: the certificate changes only for the agent that waits.
LEMMA CalmAnswer ==
  ASSUME Inv, Awaited, \A a \in Agent : CalmAgent(a), Grows, NEW k \in Call,
         RegisterNode(k) \/ RotateNodeCert(k)
  PROVE  \A a \in Agent : CalmAgent(a)'
<1> SUFFICES ASSUME NEW a \in Agent PROVE CalmAgent(a)'
  OBVIOUS
<1>a. /\ row \in [NodeId -> NodeRec] /\ call \in [Call -> CallRec]
      /\ AgentInv(a) /\ ServerInv /\ UNCHANGED <<disk, proc>>
  BY DEF Inv, TypeOK, RegistryTypeOK, RegisterNode, RotateNodeCert
<1>b. /\ call[k].op \in {"register", "renew"} /\ call[k].at = "checked"
      /\ \A j \in Call : j # k => call'[j] = call[j]
      /\ call'[k].op = call[k].op /\ call'[k].node = call[k].node
  BY <1>a DEF RegisterNode, RotateNodeCert, Bound, Stage, CallRec
<1>1. \A n \in Registered : n # call[k].node => row'[n] = row[n]
  BY <1>a DEF RegisterNode, RotateNodeCert, Bound, Registered, ServerInv
<1>2. CASE call[k].agent # a
  <2>1. \A n \in Registered : row[n].key = a => n # call[k].node
    <3>1. CASE call[k].op = "register"
      <4>1. call[k].node = k
        BY <1>a, <3>1 DEF ServerInv
      <4>2. \A n \in Registered : n \in NodeId /\ call[n].at = "ok"
        BY <1>a DEF ServerInv, Registered
      <4>3. QED
        BY <1>b, <4>1, <4>2
    <3>2. CASE call[k].op = "renew"
      <4>1. row[call[k].node].key = call[k].agent
        BY <1>a, <3>2 DEF ServerInv
      <4>2. QED
        BY <1>2, <4>1
    <3>3. QED
      BY <1>b, <3>1, <3>2
  <2>2. QED
    BY <1>a, <1>b, <1>1, <1>2, <2>1, CalmFrame
<1>3. CASE call[k].agent = a /\ call'[k].at # "ok"
  <2>1. row' = row
    BY <1>a, <1>3 DEF RegisterNode, RotateNodeCert, Bound, Stage, CallRec
  <2>2. QED
    BY <1>a, <1>b, <1>3, <2>1, CalmFrame
<1>4. CASE call[k].agent = a /\ call'[k].at = "ok"
  <2>1. proc[a].pc = "wait" /\ proc[a].call = k
    BY <1>b, <1>4 DEF Awaited
  <2>2. row'[call[k].node].cert = k
    BY <1>a, <1>4
    DEF RegisterNode, RotateNodeCert, Bound, Stage, ServerInv, NodeId, NodeRec, CallRec, Registered
  <2>3. Granted(a)' /\ proc'[a].pc = "wait" /\ call'[proc'[a].call].at = "ok"
    BY <1>a, <1>b, <1>4, <2>1, <2>2 DEF Granted
  <2>4. Renews(a)' => proc'[a].cert = disk'[a].crt
    BY <1>a, <1>b, <2>1 DEF Renews, CalmAgent
  <2>5. QED
    BY <2>3, <2>4 DEF CalmAgent
<1>5. QED
  BY <1>2, <1>3, <1>4

\* The steps an agent takes while nothing is lost.
LEMMA CalmOwn ==
  ASSUME Inv, Awaited, NEW a \in Agent, CalmAgent(a),
         AgentStep(a) \/ Heartbeat(a) \/ HeartbeatAnswered(a)
  PROVE  CalmAgent(a)'
<1>a. /\ AgentInv(a) /\ proc \in [Agent -> ProcRec] /\ disk \in [Agent -> Files] /\ TypeOK
      /\ ServerInv /\ row' = row
  BY DEF Inv, TypeOK, RegistryTypeOK, AgentStep, Open, AskRenewal, Refused, WriteCert, WriteId,
         Heartbeat, HeartbeatAnswered
<1>1. CASE Open(a) \/ AskRenewal(a)
  <2>1. disk' = disk
    BY <1>1 DEF Open, AskRenewal
  <2>2. ASSUME NEW op \in {"register", "renew"}, NEW c, NEW n, NEW peer, Ask(a, op, c, n, peer),
               op = "renew" => proc[a].pc = "up"
        PROVE  CalmAgent(a)'
    <3>1. call'[proc'[a].call].at = "sent"
      BY <1>a, <2>2 DEF Ask, RegistryTypeOK, TypeOK, ProcRec
    <3>2. proc'[a].pc = "wait" /\ proc'[a].cert = proc[a].cert /\ call'[proc'[a].call].op = op
      BY <1>a, <2>2, AskWaits
    <3>3. op = "renew" => proc[a].cert = disk[a].crt /\ Presented(a)
      BY <2>2 DEF CalmAgent
    <3>4. op = "renew" => proc'[a].cert = disk'[a].crt /\ Presented(a)'
      BY <1>a, <2>1, <3>2, <3>3 DEF Presented
    <3>5. Renews(a)' => op = "renew"
      BY <3>2 DEF Renews
    <3>6. QED
      BY <3>1, <3>2, <3>4, <3>5 DEF CalmAgent
  <2>3. CASE Open(a)
    <3>1. proc[a].pc = "down" /\ disk[a].crt = 0
      BY <2>3, Zenon DEF Open, CalmAgent
    <3>2. PICK c \in Code : Ask(a, "register", c, 0, 0)
      BY <2>3, <3>1 DEF Open
    <3>3. QED
      BY <2>2, <3>2
  <2>4. CASE AskRenewal(a)
    <3>1. proc[a].pc = "up" /\ Ask(a, "renew", None, disk[a].id, proc[a].cert)
      BY <2>4 DEF AskRenewal
    <3>2. QED
      BY <2>2, <3>1
  <2>5. QED
    BY <1>1, <2>3, <2>4
<1>2. CASE Refused(a)
  <2>1. CASE call[proc[a].call].op = "register"
    <3>1. proc'[a] = Down /\ disk[a].crt = 0 /\ disk' = disk
      BY <1>a, <1>2, <2>1 DEF Refused, GivesUp, Waiting, AgentInv, Awaits
    <3>2. proc'[a].pc = "down" /\ disk'[a].crt = 0
      BY <3>1 DEF Down
    <3>3. QED
      BY <3>2 DEF CalmAgent, Renews
  <2>2. CASE call[proc[a].call].op # "register"
    <3>1. proc'[a].pc = "up" /\ proc'[a].cert = proc[a].cert /\ disk' = disk
      BY <1>a, <1>2, <2>2 DEF Refused, GivesUp, ProcRec
    <3>2. Renews(a) /\ call[proc[a].call].at # "ok"
      BY <1>a, <1>2, <2>2 DEF Refused, Waiting, AgentInv, Awaits, Renews
    <3>3. proc'[a].cert = disk'[a].crt /\ Presented(a)'
      BY <1>a, <3>1, <3>2, Zenon DEF CalmAgent, Presented
    <3>4. QED
      BY <3>1, <3>3 DEF CalmAgent, Renews
  <2>3. QED
    BY <2>1, <2>2
<1>3. CASE WriteCert(a)
  <2>1. /\ proc'[a].pc = "persist" /\ proc'[a].call = proc[a].call /\ call' = call
        /\ proc[a].pc = "wait" /\ call[proc[a].call].at = "ok"
    BY <1>a, <1>3 DEF WriteCert, Waiting, ProcRec
  <2>2. Granted(a)
    BY <2>1 DEF CalmAgent
  <2>3. Granted(a)'
    BY <1>a, <2>1, <2>2 DEF Granted
  <2>4. QED
    BY <2>1, <2>3 DEF CalmAgent, Renews
<1>4. CASE WriteId(a)
  <2>1. /\ disk'[a].crt = disk[a].crt /\ disk'[a].id = call[proc[a].call].node
        /\ proc'[a].pc = "up" /\ proc'[a].cert = proc[a].call /\ proc[a].pc = "persist"
    BY <1>a, <1>4 DEF WriteId, Up, Files
  <2>2. Granted(a) /\ disk[a].crt = proc[a].call
    BY <1>a, <2>1, Zenon DEF CalmAgent, AgentInv
  <2>3. Presented(a)' /\ proc'[a].cert = disk'[a].crt
    BY <1>a, <2>1, <2>2 DEF Granted, Presented
  <2>4. QED
    BY <2>1, <2>3, Zenon DEF CalmAgent, Renews
<1>5. CASE Heartbeat(a)
  <2>1. proc'[a].pc = "beat" /\ proc'[a].cert = proc[a].cert /\ disk' = disk /\ proc[a].pc = "up"
    BY <1>a, <1>5 DEF Heartbeat, ProcRec
  <2>2. Presented(a)' /\ proc'[a].cert = disk'[a].crt
    <3>1. Presented(a) /\ proc[a].cert = disk[a].crt
      BY <2>1, Zenon DEF CalmAgent
    <3>2. QED
      BY <1>a, <2>1, <3>1, Zenon DEF Presented
  <2>3. QED
    BY <2>1, <2>2, Zenon DEF CalmAgent, Renews
<1>6. CASE HeartbeatAnswered(a)
  <2>1. CASE proc[a].pc = "beat"
    <3>1. proc'[a].pc = "up" /\ proc'[a].cert = proc[a].cert /\ disk' = disk
      BY <1>a, <1>6, <2>1 DEF HeartbeatAnswered, ProcRec
    <3>2. Presented(a) /\ proc[a].cert = disk[a].crt
      BY <2>1 DEF CalmAgent
    <3>3. Presented(a)' /\ proc'[a].cert = disk'[a].crt
      BY <1>a, <3>1, <3>2, Zenon DEF Presented
    <3>4. QED
      BY <3>1, <3>3, Zenon DEF CalmAgent, Renews
  <2>2. CASE proc[a].pc # "beat"
    <3>1. proc'[a] = proc[a] /\ disk' = disk /\ call' = call
      BY <1>a, <1>6, <2>2 DEF HeartbeatAnswered
    <3>2. (Presented(a)' <=> Presented(a)) /\ (Granted(a)' <=> Granted(a)) /\ (Renews(a)' <=> Renews(a))
      BY <1>a, <3>1 DEF Presented, Granted, Renews
    <3>3. QED
      BY <3>1, <3>2 DEF CalmAgent
  <2>3. QED
    BY <2>1, <2>2
<1>7. QED
  BY <1>1, <1>2, <1>3, <1>4, <1>5, <1>6 DEF AgentStep

\* A request at work stays the one its agent waits for.
LEMMA AwaitedOwn ==
  ASSUME Inv, Awaited, NEW a \in Agent, AgentStep(a) \/ Heartbeat(a) \/ HeartbeatAnswered(a)
  PROVE  Awaited'
<1>a. proc \in [Agent -> ProcRec] /\ call \in [Call -> CallRec] /\ TypeOK
  BY DEF Inv, TypeOK, RegistryTypeOK
<1>1. ASSUME NEW op, NEW c, NEW n, NEW peer, Ask(a, op, c, n, peer), proc[a].pc # "wait"
      PROVE  Awaited'
  <2>1. PICK k \in Call :
          /\ call' = [call EXCEPT ![k] = [op |-> op, at |-> "sent", agent |-> a, code |-> c,
                                          node |-> IF op = "register" THEN k ELSE n, peer |-> peer]]
          /\ proc' = [proc EXCEPT ![a].pc = "wait", ![a].call = k]
    BY <1>1, Zenon DEF Ask
  <2>2. proc'[a].pc = "wait" /\ proc'[a].call = k /\ \A b \in Agent : b # a => proc'[b] = proc[b]
    BY <1>a, <2>1 DEF ProcRec
  <2>3. call'[k].agent = a /\ \A j \in Call : j # k => call'[j] = call[j]
    BY <1>a, <2>1
  <2>4. \A j \in Call : call[j].at \in {"sent", "checked"} =>
          /\ call[j].agent \in Agent /\ call[j].agent # a
          /\ proc[call[j].agent].pc = "wait" /\ proc[call[j].agent].call = j
    BY <1>1 DEF Awaited
  <2>5. \A j \in Call : j # k /\ call'[j].at \in {"sent", "checked"} =>
          /\ call'[j].agent \in Agent
          /\ proc'[call'[j].agent].pc = "wait" /\ proc'[call'[j].agent].call = j
    BY <2>2, <2>3, <2>4
  <2>6. QED
    <3>1. ASSUME NEW j \in Call, call'[j].at \in {"sent", "checked"}
          PROVE  /\ call'[j].agent \in Agent /\ proc'[call'[j].agent].pc = "wait"
                 /\ proc'[call'[j].agent].call = j
      <4>1. CASE j = k
        BY <2>2, <2>3, <4>1
      <4>2. CASE j # k
        BY <2>5, <3>1, <4>2
      <4>3. QED
        BY <4>1, <4>2
    <3>2. QED
      BY <3>1 DEF Awaited
<1>2. CASE call' = call /\ (\A b \in Agent : b # a => proc'[b] = proc[b])
           /\ (proc[a].pc = "wait" => call[proc[a].call].at \notin {"sent", "checked"})
  BY <1>2 DEF Awaited
<1>3. CASE HeartbeatAnswered(a) /\ proc[a].pc # "beat"
  BY <1>a, <1>3 DEF HeartbeatAnswered, Awaited
<1>4. QED
  BY <1>a, <1>1, <1>2, <1>3
  DEF AgentStep, Open, AskRenewal, Refused, GivesUp, WriteCert, Waiting, WriteId, Heartbeat,
      HeartbeatAnswered

\* While nothing is lost, a step finds and leaves the certificates in place.
LEMMA CalmStep == Inv /\ CalmInv /\ [Next]_vars => CalmInv'
<1> SUFFICES ASSUME Inv, CalmInv, [Next]_vars, Calm'
             PROVE  Awaited' /\ \A a \in Agent : CalmAgent(a)'
  BY DEF CalmInv
<1>a. /\ proc \in [Agent -> ProcRec] /\ call \in [Call -> CallRec] /\ row \in [NodeId -> NodeRec]
      /\ disk \in [Agent -> Files] /\ mishaps \in [Mishap -> 0..MaxMishaps] /\ Grows
  BY StepGrows DEF Inv, TypeOK, RegistryTypeOK
<1>b. ASSUME NEW m \in {"answer", "agent"}, Happens(m) PROVE FALSE
  BY <1>a, <1>b, RegistryAssumption DEF Happens, Calm, Mishap
<1>c. ASSUME Happens("monitor") PROVE Calm
  BY <1>a, <1>c DEF Happens, Calm, Mishap
<1>d. mishaps' = mishaps => Calm
  BY DEF Calm
<1>1. ASSUME Calm, UNCHANGED <<call, proc, disk>>, \A n \in NodeId : row'[n].cert = row[n].cert
      PROVE  Awaited' /\ \A a \in Agent : CalmAgent(a)'
  BY <1>a, <1>1, CalmFrame DEF CalmInv, Awaited, Registered
<1>2. ASSUME NEW k \in Call, ServeCall(k)
      PROVE  Awaited' /\ \A a \in Agent : CalmAgent(a)'
  <2>1. Calm /\ UNCHANGED <<proc, disk>>
    BY <1>2, <1>d DEF ServeCall, RegisterCheck, RegisterNode, RenewCheck, RotateNodeCert
  <2>2. /\ call[k].at \in {"sent", "checked"}
        /\ \A j \in Call : call'[j].agent = call[j].agent /\ (j # k => call'[j] = call[j])
    BY <1>a, <1>2 DEF ServeCall, RegisterCheck, RegisterNode, RenewCheck, RotateNodeCert, Bound, Stage, CallRec
  <2>3. Awaited'
    BY <2>1, <2>2 DEF Awaited, CalmInv
  <2>4. CASE RegisterNode(k) \/ RotateNodeCert(k)
    BY <1>a, <2>1, <2>3, <2>4, CalmAnswer DEF CalmInv
  <2>5. CASE RegisterCheck(k) \/ RenewCheck(k)
    <3>1. row' = row /\ call'[k].at # "ok"
      BY <1>a, <2>5 DEF RegisterCheck, RenewCheck, Stage, CallRec
    <3>2. QED
      BY <1>a, <2>1, <2>2, <2>3, <3>1, CalmFrame, Zenon DEF CalmInv
  <2>6. QED
    BY <1>2, <2>4, <2>5 DEF ServeCall
<1>3. ASSUME NEW a \in Agent, AgentStep(a) \/ Heartbeat(a) \/ HeartbeatAnswered(a)
      PROVE  Awaited' /\ \A b \in Agent : CalmAgent(b)'
  <2>1. Calm /\ row' = row
    BY <1>3, <1>d
    DEF AgentStep, Open, AskRenewal, Refused, WriteCert, WriteId, Heartbeat, HeartbeatAnswered
  <2>2. ASSUME NEW b \in Agent, b # a PROVE CalmAgent(b)'
    <3>1. proc'[b] = proc[b] /\ disk'[b] = disk[b]
      BY <1>a, <1>3, <2>2
      DEF AgentStep, Open, AskRenewal, Ask, Refused, GivesUp, WriteCert, WriteId, Heartbeat, HeartbeatAnswered
    <3>2. \A k \in Call : call[k].op # "none" => call'[k] = call[k]
      BY <1>a, <1>3
      DEF AgentStep, Open, AskRenewal, Ask, Refused, WriteCert, WriteId, Heartbeat, HeartbeatAnswered
    <3>3. QED
      BY <1>a, <2>1, <3>1, <3>2, CalmFrame, Zenon DEF CalmInv
  <2>3. QED
    BY <1>3, <2>1, <2>2, CalmOwn, AwaitedOwn DEF CalmInv
<1>4. ASSUME NEW a \in Agent, TouchNodeStatus(a) PROVE \A n \in NodeId : row'[n].cert = row[n].cert
  BY <1>a, <1>4 DEF TouchNodeStatus, NodeRec
<1>5. ASSUME TransitionStaleNodes PROVE \A n \in NodeId : row'[n].cert = row[n].cert
  BY <1>a, <1>5 DEF TransitionStaleNodes, Update, NodeRec
<1>6. ASSUME NEW n \in NodeId, RevokeNode(n) PROVE \A m \in NodeId : row'[m].cert = row[m].cert
  BY <1>a, <1>6 DEF RevokeNode, NodeRec
<1>7. CASE ScanPublishes
  <2>1. Calm
    BY <1>7, <1>c, <1>d DEF ScanPublishes
  <2>2. QED
    BY <1>1, <1>7, <2>1 DEF ScanPublishes
<1>8. QED
  BY <1>b, <1>c, <1>d, <1>1, <1>2, <1>3, <1>4, <1>5, <1>6, <1>7, Zenon
  DEF Next, RegistryNext, MintCode, CodeExpires, CertAges, RevokeNode, AnswerLost, Crash, BeatStep,
      TouchNodeStatus, HeartbeatLost, ScanStep, ScanReads, TransitionStaleNodes, Update,
      MonitorRestarts, Tick, vars, registryVars

\* As long as nothing was lost, the registry holds the certificate an agent
\* presents (renewCert against RenewCertificate).
THEOREM AgentsStayInRegistry == Spec => []AgentInRegistry
<1>1. Init => CalmInv
  BY DEF Init, RegistryInit, CalmInv, Awaited, CalmAgent, Renews, NoCall, Down
<1>2. CalmInv => AgentInRegistry
  BY Zenon DEF CalmInv, Calm, CalmAgent, Presented, AgentInRegistry
<1>3. QED
  BY <1>1, <1>2, CalmStep, FleetInvariant, PTL DEF Spec

-----------------------------------------------------------------------------
(* Offline events                                                          *)

\* Node n is not offline in silence.
Told(n) == row[n].status = "offline" => told[n] \/ \E t \in scan.todo : t.node = n /\ t.to = "offline"

\* The monitor owes events only while it publishes.
TellInv ==
  /\ scan.at # "publish" => scan.todo = {}
  /\ mishaps["monitor"] = 0 => \A n \in NodeId : Told(n)

\* Steps that take no node offline and leave the scan alone.
LEMMA TellFrame ==
  ASSUME TellInv, scan' = scan, mishaps'["monitor"] = 0 => mishaps["monitor"] = 0,
         \A n \in NodeId : row'[n].status = "offline" => row[n].status = "offline" /\ told'[n] = told[n]
  PROVE  TellInv'
  BY DEF TellInv, Told

\* A mishap is counted where it happens.
LEMMA MishapCounts ==
  ASSUME TypeOK, NEW m \in Mishap, Happens(m)
  PROVE  mishaps'["monitor"] = 0 => mishaps["monitor"] = 0 /\ m # "monitor"
  BY DEF TypeOK, RegistryTypeOK, Mishap, Happens

\* Every step keeps the account of the events.
LEMMA TellStep ==
  ASSUME Inv, TellInv, [Next]_vars
  PROVE  TellInv'
<1>a. TypeOK /\ row \in [NodeId -> NodeRec] /\ told \in [NodeId -> BOOLEAN]
  BY DEF Inv, TypeOK, RegistryTypeOK
<1>1. ASSUME UNCHANGED <<row, scan, told>>, mishaps'["monitor"] = 0 => mishaps["monitor"] = 0
      PROVE  TellInv'
  BY <1>1, TellFrame
<1>2. CASE RegistryNext /\ UNCHANGED healthVars
  <2>0. scan' = scan /\ told' = told
    BY <1>2 DEF healthVars
  <2>1. ASSUME NEW k \in Call, RegisterNode(k) \/ RotateNodeCert(k)
        PROVE  TellInv'
    <3>1. \A n \in NodeId : row'[n].status = "offline" => row[n].status = "offline"
      BY <1>a, <2>1 DEF RegisterNode, Bound, RotateNodeCert, NodeRec, NodeId
    <3>2. mishaps' = mishaps
      BY <2>1 DEF RegisterNode, RotateNodeCert
    <3>3. QED
      BY <2>0, <3>1, <3>2, TellFrame
  <2>2. ASSUME NEW n \in NodeId, RevokeNode(n)
        PROVE  TellInv'
    <3>1. \A i \in NodeId : row'[i].status = row[i].status
      BY <1>a, <2>2 DEF RevokeNode, NodeRec
    <3>2. QED
      BY <2>0, <2>2, <3>1, TellFrame DEF RevokeNode
  <2>3. ASSUME NEW a \in Agent, AnswerLost(a) \/ Crash(a)
        PROVE  TellInv'
    <3>1. row' = row /\ (Happens("answer") \/ Happens("agent"))
      BY <2>3 DEF AnswerLost, Crash
    <3>2. mishaps'["monitor"] = 0 => mishaps["monitor"] = 0
      BY <1>a, <3>1, MishapCounts DEF Mishap
    <3>3. QED
      BY <1>1, <2>0, <3>1, <3>2
  <2>4. CASE UNCHANGED <<row, mishaps>>
    BY <1>1, <2>0, <2>4
  <2>5. QED
    BY <1>2, <2>1, <2>2, <2>3, <2>4
    DEF RegistryNext, MintCode, CodeExpires, ServeCall, RegisterCheck, RenewCheck, CertAges,
        AgentStep, Open, AskRenewal, Refused, WriteCert, WriteId
<1>3. ASSUME NEW a \in Agent, Heartbeat(a) \/ HeartbeatAnswered(a)
      PROVE  TellInv'
  BY <1>1, <1>3 DEF Heartbeat, HeartbeatAnswered
<1>4. ASSUME NEW a \in Agent, HeartbeatLost(a)
      PROVE  TellInv'
  <2>1. mishaps'["monitor"] = 0 => mishaps["monitor"] = 0
    BY <1>a, <1>4, MishapCounts DEF HeartbeatLost, Mishap
  <2>2. QED
    BY <1>1, <1>4, <2>1 DEF HeartbeatLost, healthVars
<1>5. ASSUME NEW a \in Agent, TouchNodeStatus(a)
      PROVE  TellInv'
  <2>1. /\ scan' = scan /\ mishaps' = mishaps
        /\ row' = [row EXCEPT ![beat[a].node].status = "online"]
        /\ told' = [told EXCEPT ![beat[a].node] = FALSE]
    BY <1>5 DEF TouchNodeStatus
  <2>2. \A n \in NodeId : row'[n].status = "offline" => row[n].status = "offline" /\ told'[n] = told[n]
    <3>1. \A n \in NodeId : n # beat[a].node => row'[n] = row[n] /\ told'[n] = told[n]
      BY <1>a, <2>1, Zenon
    <3>2. beat[a].node \in NodeId => row'[beat[a].node].status = "online"
      BY <1>a, <2>1 DEF NodeRec
    <3>3. QED
      BY <3>1, <3>2
  <2>3. QED
    BY <2>1, <2>2, TellFrame, Zenon
<1>6. CASE ScanReads \/ Tick
  <2>1. /\ UNCHANGED <<row, told, mishaps>>
        /\ scan'.todo = scan.todo /\ (scan'.at = "publish" <=> scan.at = "publish")
    BY <1>6 DEF ScanReads, Tick, registryVars, TellInv
  <2>2. QED
    BY <2>1 DEF TellInv, Told
<1>7. CASE TransitionStaleNodes
  <2> DEFINE S(n) == CHOOSE s \in scan.seen : s.node = n
             T(s) == [node |-> s.node, from |-> s.status, to |-> NextStatus(s)]
  <2>1. /\ scan.at = "update" /\ UNCHANGED <<told, mishaps>>
        /\ row' = [n \in NodeId |-> IF \E s \in scan.seen : s.node = n
                                    THEN [row[n] EXCEPT !.status = NextStatus(S(n))] ELSE row[n]]
        /\ scan' = [at |-> "publish", seen |-> {}, todo |-> {t \in {T(s) : s \in scan.seen} : t.from # t.to}]
    BY <1>7 DEF TransitionStaleNodes, Update
  <2>2. \A s \in scan.seen : s.status \in {"online", "suspect"}
    BY <1>a DEF TypeOK, Seen
  <2>3. ASSUME NEW n \in NodeId, row'[n].status = "offline", mishaps["monitor"] = 0
        PROVE  told[n] \/ \E t \in scan'.todo : t.node = n /\ t.to = "offline"
    <3>1. CASE \E s \in scan.seen : s.node = n
      <4>1. S(n) \in scan.seen /\ S(n).node = n
        BY <3>1
      <4>2. NextStatus(S(n)) = "offline"
        BY <1>a, <2>1, <2>3, <3>1 DEF NodeRec
      <4> HIDE DEF S
      <4>3. T(S(n)).from # T(S(n)).to /\ T(S(n)).node = n /\ T(S(n)).to = "offline"
        BY <2>2, <4>1, <4>2
      <4> HIDE DEF T
      <4>4. T(S(n)) \in scan'.todo
        BY <2>1, <4>1, <4>3
      <4>5. QED
        BY <4>3, <4>4
    <3>2. CASE ~\E s \in scan.seen : s.node = n
      <4>1. row[n].status = "offline" /\ scan.todo = {}
        BY <2>1, <2>3, <3>2 DEF TellInv
      <4>2. QED
        BY <2>3, <4>1 DEF TellInv, Told
    <3>3. QED
      BY <3>1, <3>2
  <2>4. scan'.at = "publish"
    BY <2>1
  <2>5. QED
    BY <2>1, <2>3, <2>4 DEF TellInv, Told
<1>8. CASE ScanPublishes
  <2>1. PICK t \in scan.todo :
          /\ scan' = IF scan.todo = {t} THEN NoScan ELSE [scan EXCEPT !.todo = scan.todo \ {t}]
          /\ \/ /\ told' = [told EXCEPT ![t.node] = told[t.node] \/ (t.to = "offline" /\ row[t.node].status = "offline")]
                /\ UNCHANGED mishaps
             \/ Happens("monitor")
    BY <1>8, Zenon DEF ScanPublishes
  <2>2. /\ scan.at = "publish" /\ row' = row /\ t.node \in NodeId
        /\ scan'.todo = scan.todo \ {t} /\ (scan'.at # "publish" => scan'.todo = {})
    BY <1>a, <1>8, <2>1 DEF ScanPublishes, NoScan, TypeOK, Transition
  <2>3. CASE Happens("monitor")
    BY <1>a, <2>2, <2>3, MishapCounts DEF Mishap, TellInv
  <2>4. CASE ~Happens("monitor")
    <3>1. /\ told' = [told EXCEPT ![t.node] = told[t.node] \/ (t.to = "offline" /\ row[t.node].status = "offline")]
          /\ mishaps' = mishaps
      BY <2>1, <2>4
    <3>2. ASSUME NEW n \in NodeId, Told(n)
          PROVE  Told(n)'
      <4>1. CASE n = t.node /\ t.to = "offline"
        <5>1. row'[n] = row[n] /\ told'[n] = (told[n] \/ (t.to = "offline" /\ row[n].status = "offline"))
          BY <1>a, <2>2, <3>1, <4>1, Zenon
        <5>2. QED
          BY <4>1, <5>1, Zenon DEF Told
      <4>2. CASE ~(n = t.node /\ t.to = "offline")
        BY <1>a, <2>2, <3>1, <3>2, <4>2 DEF Told
      <4>3. QED
        BY <4>1, <4>2
    <3>3. QED
      BY <2>2, <3>1, <3>2 DEF TellInv
  <2>5. QED
    BY <2>3, <2>4
<1>9. CASE MonitorRestarts
  <2>1. mishaps'["monitor"] # 0 /\ scan' = NoScan
    BY <1>a, <1>9, MishapCounts DEF MonitorRestarts, Mishap
  <2>2. QED
    BY <2>1 DEF TellInv, NoScan
<1>10. CASE UNCHANGED vars
  BY <1>1, <1>10 DEF vars, registryVars, healthVars
<1>11. QED
  BY <1>2, <1>3, <1>4, <1>5, <1>6, <1>7, <1>8, <1>9, <1>10 DEF Next, BeatStep, ScanStep

\* As long as no publication failed and the monitor did not stop, no node goes
\* offline without an event (Monitor.scan and TransitionStaleNodes), whatever
\* heartbeats commit between the scan's snapshot and its update.
THEOREM OfflineIsAnnounced == Spec => []OfflineAnnounced
<1>1. Init => TellInv
  BY DEF Init, RegistryInit, NoScan, TellInv, Told
<1>2. Inv /\ TellInv /\ [Next]_vars => TellInv'
  BY TellStep
<1>3. TellInv => OfflineAnnounced
  BY DEF TellInv, Told, OfflineAnnounced, Registered
<1>4. QED
  BY <1>1, <1>2, <1>3, FleetInvariant, PTL DEF Spec
=============================================================================
