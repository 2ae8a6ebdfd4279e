---------------------------- MODULE NodeRegistry ----------------------------
(***************************************************************************)
(* How a machine becomes a node and keeps its certificate: registration    *)
(* codes, the ceremony, renewal and revocation (internal/metadata/nodes.go,*)
(* internal/store/registration_codes.go, internal/store/nodes.go,          *)
(* internal/agent/identity.go, agent.go Open and renew.go).                *)
(*                                                                         *)
(* A request of an agent to the metadata service has a number.  The node   *)
(* id a registration makes up and the certificate a request is answered    *)
(* with carry the number of that request.  The server goes on with a       *)
(* request whose agent has given up, so requests of one agent overlap.     *)
(***************************************************************************)
EXTENDS Integers, FiniteSets

CONSTANTS
  Agent,      \* machines, each with its data directory and its key
  Code,       \* registration codes
  MaxCalls,   \* requests to the metadata service in a behaviour
  MaxMishaps, \* answers lost, processes stopped, publications failed
  None

ASSUME RegistryAssumption ==
  /\ MaxCalls \in Nat /\ MaxMishaps \in Nat
  /\ None \notin Agent /\ None \notin Code

Call == 1..MaxCalls
NodeId == Call
Cert == 0..MaxCalls   \* 0: no certificate
Torn == -1            \* node.crt cut short by a crash

VARIABLES
  code,     \* the registration_codes table
  row,      \* the nodes table
  life,     \* validity left on a certificate
  call,     \* requests at the metadata service
  disk,     \* node.crt and node.id of a machine
  proc,     \* the agent's process
  mishaps   \* how often each kind of failure has happened

registryVars == <<code, row, life, call, disk, proc, mishaps>>

Status == {"none", "pending", "online", "suspect", "offline"}
Life == {"fresh", "due", "expired"}  \* due: within the seven days of renewLead
Mishap == {"answer", "agent", "monitor"}
CodeRec == [state : {"unminted", "valid", "expired"}, node : NodeId \cup {0}]
NodeRec == [cert : Cert, key : Agent \cup {None}, status : Status, revoked : BOOLEAN]
CallRec == [op : {"none", "register", "renew"}, at : {"new", "sent", "checked", "ok", "refused"},
            agent : Agent \cup {None}, code : Code \cup {None}, node : NodeId \cup {0}, peer : Cert]
ProcRec == [pc : {"down", "wait", "persist", "up", "beat"}, cert : Cert, call : Call \cup {0},
            renewals : 0..2]
Files == [crt : Cert \cup {Torn}, id : NodeId \cup {0}]

RegistryTypeOK ==
  /\ code \in [Code -> CodeRec]
  /\ row \in [NodeId -> NodeRec]
  /\ life \in [Call -> Life]
  /\ call \in [Call -> CallRec]
  /\ disk \in [Agent -> Files]
  /\ proc \in [Agent -> ProcRec]
  /\ mishaps \in [Mishap -> 0..MaxMishaps]

NoCall == [op |-> "none", at |-> "new", agent |-> None, code |-> None, node |-> 0, peer |-> 0]
Down == [pc |-> "down", cert |-> 0, call |-> 0, renewals |-> 0]
Up(cert) == [pc |-> "up", cert |-> cert, call |-> 0, renewals |-> 0]

RegistryInit ==
  /\ code = [c \in Code |-> [state |-> "unminted", node |-> 0]]
  /\ row = [n \in NodeId |-> [cert |-> 0, key |-> None, status |-> "none", revoked |-> FALSE]]
  /\ life = [k \in Call |-> "fresh"]
  /\ call = [k \in Call |-> NoCall]
  /\ disk = [a \in Agent |-> [crt |-> 0, id |-> 0]]
  /\ proc = [a \in Agent |-> Down]
  /\ mishaps = [m \in Mishap |-> 0]

Happens(m) ==
  /\ mishaps["answer"] + mishaps["agent"] + mishaps["monitor"] < MaxMishaps
  /\ mishaps' = [mishaps EXCEPT ![m] = @ + 1]

Registered == {n \in NodeId : row[n].status # "none"}

Stage(k, at) == call' = [call EXCEPT ![k].at = at]

\* The next request of agent a, with the certificate its process presents.
Ask(a, op, c, n, peer) ==
  /\ \E k \in Call :
       /\ call[k].op = "none"
       /\ \A j \in 1..(k - 1) : call[j].op # "none"
       /\ call' = [call EXCEPT ![k] = [op |-> op, at |-> "sent", agent |-> a, code |-> c,
                                       node |-> IF op = "register" THEN k ELSE n, peer |-> peer]]
       /\ proc' = [proc EXCEPT ![a].pc = "wait", ![a].call = k]

----------------------------------------------------------------------------
(* The registration code and the ceremony.                                 *)

MintCode(c) ==
  /\ code[c].state = "unminted"
  /\ code' = [code EXCEPT ![c].state = "valid"]
  /\ UNCHANGED <<row, life, call, disk, proc, mishaps>>

\* Only the validity of a code that is not used is ever looked at.
CodeExpires(c) ==
  /\ code[c].state = "valid" /\ code[c].node = 0
  /\ code' = [code EXCEPT ![c].state = "expired"]
  /\ UNCHANGED <<row, life, call, disk, proc, mishaps>>

\* Variant with a bug: a missing node.id is not noticed.
OpenWithoutId(a) ==
  /\ proc[a].pc = "down"
  /\ \/ /\ disk[a].crt = 0
        /\ \E c \in Code : code[c].state # "unminted" /\ Ask(a, "register", c, 0, 0)
     \/ /\ disk[a].crt > 0
        /\ proc' = [proc EXCEPT ![a] = Up(disk[a].crt)]
        /\ UNCHANGED call
  /\ UNCHANGED <<code, row, life, disk, mishaps>>

\* Open: an agent without node.crt registers; one with a certificate but
\* without its node id, or with a torn certificate, does not start.
Open(a) ==
  /\ proc[a].pc = "down"
  /\ \/ /\ disk[a].crt = 0
        /\ \E c \in Code : code[c].state # "unminted" /\ Ask(a, "register", c, 0, 0)
     \/ /\ disk[a].crt > 0
        /\ disk[a].id # 0
        /\ proc' = [proc EXCEPT ![a] = Up(disk[a].crt)]
        /\ UNCHANGED call
  /\ UNCHANGED <<code, row, life, disk, mishaps>>

Usable(c) == code[c].node = 0 /\ code[c].state = "valid"

\* The service looks the code up and has the certificate issued.
RegisterCheck(k) ==
  /\ call[k].op = "register" /\ call[k].at = "sent"
  /\ Stage(k, IF Usable(call[k].code) THEN "checked" ELSE "refused")
  /\ UNCHANGED <<code, row, life, disk, proc, mishaps>>

Bound(k) ==
  /\ code' = [code EXCEPT ![call[k].code].node = k]
  /\ row' = [row EXCEPT ![k] = [cert |-> k, key |-> call[k].agent, status |-> "pending",
                                revoked |-> FALSE]]
  /\ Stage(k, "ok")

\* Variant with a bug: the transaction trusts the look-up made before it.
RegisterTwice(k) ==
  /\ call[k].op = "register" /\ call[k].at = "checked"
  /\ Bound(k)
  /\ UNCHANGED <<life, disk, proc, mishaps>>

\* One transaction: the code is locked and looked at again, the node row
\* inserted and the code bound to it.
RegisterNode(k) ==
  /\ call[k].op = "register" /\ call[k].at = "checked"
  /\ \/ Usable(call[k].code) /\ Bound(k)
     \/ ~Usable(call[k].code) /\ Stage(k, "refused") /\ UNCHANGED <<code, row>>
  /\ UNCHANGED <<life, disk, proc, mishaps>>

----------------------------------------------------------------------------
(* Renewal and revocation.                                                 *)

\* renewCert: reached only after a heartbeat that was accepted.
AskRenewal(a) ==
  /\ proc[a].pc = "up" /\ proc[a].renewals > 0
  /\ Ask(a, "renew", None, disk[a].id, proc[a].cert)
  /\ UNCHANGED <<code, row, life, disk, mishaps>>

AdmitNodeRenew(n) == ~row[n].revoked

\* The registry must hold the certificate the request came with.
RenewCheck(k) ==
  /\ call[k].op = "renew" /\ call[k].at = "sent"
  /\ LET n == call[k].node
     IN  Stage(k, IF AdmitNodeRenew(n) /\ row[n].cert = call[k].peer THEN "checked" ELSE "refused")
  /\ UNCHANGED <<code, row, life, disk, proc, mishaps>>

\* Variant with a bug: the update does not ask for revoked_at IS NULL.
RotateRevoked(k) ==
  /\ call[k].op = "renew" /\ call[k].at = "checked"
  /\ row' = [row EXCEPT ![call[k].node].cert = k]
  /\ Stage(k, "ok")
  /\ UNCHANGED <<code, life, disk, proc, mishaps>>

RotateNodeCert(k) ==
  /\ call[k].op = "renew" /\ call[k].at = "checked"
  /\ LET n == call[k].node
     IN  IF row[n].revoked
         THEN Stage(k, "refused") /\ UNCHANGED row
         ELSE Stage(k, "ok") /\ row' = [row EXCEPT ![n].cert = k]
  /\ UNCHANGED <<code, life, disk, proc, mishaps>>

RevokeNode(n) ==
  /\ n \in Registered /\ ~row[n].revoked
  /\ row' = [row EXCEPT ![n].revoked = TRUE]
  /\ UNCHANGED <<code, life, call, disk, proc, mishaps>>

\* Only the validity of a registered certificate is ever looked at.
CertAges(k) ==
  /\ \E n \in Registered : row[n].cert = k
  /\ life[k] # "expired"
  /\ life' = [life EXCEPT ![k] = IF @ = "fresh" THEN "due" ELSE "expired"]
  /\ UNCHANGED <<code, row, call, disk, proc, mishaps>>

----------------------------------------------------------------------------
(* The agent takes its answer, gives up on it, or stops.                   *)

Waiting(a) == proc[a].pc = "wait"

\* A refusal, or no answer: registering, the process exits; renewing, it
\* goes on with the certificate it has, for one more try.
GivesUp(a) ==
  proc' = [proc EXCEPT ![a] = IF call[proc[a].call].op = "register" THEN Down
                              ELSE [proc[a] EXCEPT !.pc = "up", !.call = 0, !.renewals = @ - 1]]

Refused(a) ==
  /\ Waiting(a) /\ call[proc[a].call].at = "refused"
  /\ GivesUp(a)
  /\ UNCHANGED <<code, row, life, call, disk, mishaps>>

AnswerLost(a) ==
  /\ Waiting(a)
  /\ Happens("answer")
  /\ GivesUp(a)
  /\ UNCHANGED <<code, row, life, call, disk>>

\* persistIdentity, first file.
WriteCert(a) ==
  /\ Waiting(a) /\ call[proc[a].call].at = "ok"
  /\ disk' = [disk EXCEPT ![a].crt = proc[a].call]
  /\ proc' = [proc EXCEPT ![a].pc = "persist"]
  /\ UNCHANGED <<code, row, life, call, mishaps>>

\* Variant with a bug: the process goes on with the certificate it started
\* with, as if renewCert did not replace a.tlsCert.
WriteIdKeepCert(a) ==
  /\ proc[a].pc = "persist"
  /\ disk' = [disk EXCEPT ![a].id = call[proc[a].call].node]
  /\ proc' = [proc EXCEPT ![a].pc = "up", ![a].renewals = 0,
                         ![a].cert = IF @ = 0 THEN proc[a].call ELSE @]
  /\ UNCHANGED <<code, row, life, call, mishaps>>

\* persistIdentity, second file; then the process uses the certificate.
WriteId(a) ==
  /\ proc[a].pc = "persist"
  /\ disk' = [disk EXCEPT ![a].id = call[proc[a].call].node]
  /\ proc' = [proc EXCEPT ![a] = Up(proc[a].call)]
  /\ UNCHANGED <<code, row, life, call, mishaps>>

\* The process stops; in the middle of writing node.crt it leaves it torn.
Crash(a) ==
  /\ proc[a].pc # "down"
  /\ Happens("agent")
  /\ proc' = [proc EXCEPT ![a] = Down]
  /\ disk' \in {disk} \cup (IF proc[a].pc = "persist" THEN {[disk EXCEPT ![a].crt = Torn]} ELSE {})
  /\ UNCHANGED <<code, row, life, call>>

ServeCall(k) == RegisterCheck(k) \/ RegisterNode(k) \/ RenewCheck(k) \/ RotateNodeCert(k)

AgentStep(a) == Open(a) \/ AskRenewal(a) \/ Refused(a) \/ WriteCert(a) \/ WriteId(a)

RegistryNext ==
  \/ \E c \in Code : MintCode(c) \/ CodeExpires(c)
  \/ \E k \in Call : ServeCall(k) \/ CertAges(k)
  \/ \E n \in NodeId : RevokeNode(n)
  \/ \E a \in Agent : AgentStep(a) \/ AnswerLost(a) \/ Crash(a)

----------------------------------------------------------------------------
(* A registration code makes one node: whatever retries and rival          *)
(* registrations are under way, every registered node has its own code,    *)
(* and a code that was used names the node it made                         *)
(* (store.RegisterNode's FOR UPDATE).                                      *)
CodeBindsOneNode ==
  /\ \A n \in Registered : Cardinality({c \in Code : code[c].node = n}) = 1
  /\ \A c \in Code : code[c].node # 0 => code[c].node \in Registered

(* As long as no answer was lost and no agent stopped, an agent between    *)
(* two requests presents the certificate of its file, and the registry     *)
(* holds that one (renewCert against RenewCertificate).                    *)
AgentInRegistry ==
  mishaps["answer"] = 0 /\ mishaps["agent"] = 0 =>
    \A a \in Agent : proc[a].pc \in {"up", "beat"} =>
      /\ proc[a].cert = disk[a].crt
      /\ row[disk[a].id].cert = proc[a].cert

(* Losses and stops included, a process never speaks for a node that is    *)
(* not its own: certificate, node.id and registered key belong together    *)
(* (persistIdentity writes two files, loadIdentity reads both).            *)
OwnIdentity ==
  \A a \in Agent : proc[a].pc \in {"up", "beat"} =>
    /\ disk[a].id # 0
    /\ call[proc[a].cert].node = disk[a].id
    /\ row[disk[a].id].key = a

(* Once a node is revoked its registered certificate never changes, though *)
(* a renewal checked before the revocation is still under way              *)
(* (RotateNodeCert WHERE revoked_at IS NULL).                              *)
RevokedKeepsCert ==
  [][\A n \in NodeId : row[n].revoked => row'[n].cert = row[n].cert /\ row'[n].revoked]_registryVars

(* metadata/nodes.go:110: "peerFP must match the registry fingerprint so a *)
(* superseded leaf cannot rotate the node": a rotation replaces the very   *)
(* certificate its request was sent with.                                  *)
SupersededCannotRotate ==
  [][\A n \in Registered : row'[n].cert # row[n].cert => call[row'[n].cert].peer = row[n].cert]_registryVars
=============================================================================
