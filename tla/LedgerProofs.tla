---------------------------- MODULE LedgerProofs ----------------------------
(***************************************************************************)
(* Proofs about downloads, their receipts and the hourly accrual, for any  *)
(* number of files' chunks, fragments, nodes, downloads, report requests,  *)
(* ledger processes, hours and failures.                                   *)
(***************************************************************************)
EXTENDS Ledger, FiniteSetTheorems, TLAPS

-----------------------------------------------------------------------------
(* The inductive invariant                                                 *)

\* The types of what the properties look at.
Shape ==
  /\ hour \in Hour /\ live \in BOOLEAN /\ stored \subseteq Fragment
  /\ get \in [Session -> GetRec]
  /\ rep \in [Request -> RepRec]
  /\ receipts \in [Nonce -> Hour \cup {None}]
  /\ stream \subseteq Event /\ usage \subseteq Event

\* A download that was written had the whole file in its plan.
ReadInv ==
  \A s \in Session : get[s].at = "written" =>
    \A c \in Chunk : Cardinality(Shards(get[s].got, c)) = Need

\* The usage events, those published and those archived.
Events == stream \cup usage

\* A receipt a request has kept was consumed, by this request and no other, and
\* has no event yet; a receipt has one event at most.
ArchiveInv ==
  /\ \A r \in Request : \A n \in rep[r].kept : n \in Consumed /\ \A e \in Events : e.nonce # n
  /\ \A r, q \in Request : r # q => rep[r].kept \cap rep[q].kept = {}
  /\ \A e \in Events : e.nonce \in Consumed
  /\ \A d, e \in Events : d.nonce = e.nonce => d = e

\* The charges of a window the customer is to pay.
Egress(w) == <<"egress_charge", Customer, w>>
Storage(w) == <<"storage_charge", Customer, w>>

\* Window w is over and everything the meters show for the customer is posted.
Posted(w) ==
  /\ CustomerEgress(w) > 0 => Egress(w) \in DOMAIN txns
  /\ live => Storage(w) \in DOMAIN txns

\* What was posted is what the meters showed, and hours that are over are closed:
\* their receipts no longer change.  The hours below the watermark, and below
\* the window a pass has in hand, are posted.
BillInv ==
  /\ first = 0
  /\ watermark \in Int /\ -1 <= watermark /\ watermark < hour
  /\ \A k \in Nonce : receipts[k] # None => receipts[k] <= hour
  /\ acc \in [Accruer -> [at : {"idle", "accrue", "mark"}, win : Nat, last : Int]]
  /\ \A a \in Accruer : acc[a].at # "idle" => acc[a].win <= acc[a].last /\ acc[a].last < hour
  /\ \A w \in Nat : Egress(w) \in DOMAIN txns => w < hour /\ txns[Egress(w)].amount = CustomerEgress(w)
  /\ \A w \in Nat : Storage(w) \in DOMAIN txns => txns[Storage(w)].amount = 1
  /\ \A w \in Nat : w <= watermark => Posted(w)
  /\ \A a \in Accruer : \A w \in Nat : acc[a].at # "idle" /\ w < acc[a].win => Posted(w)
  /\ \A a \in Accruer : acc[a].at = "mark" => Posted(acc[a].win)

-----------------------------------------------------------------------------
(* Downloads and reports                                                   *)

\* The steps of the rest of the system change what they change.
LEMMA ShapeStep ==
  ASSUME Shape, [Next]_vars
  PROVE  Shape'
<1> USE DownloadAssumption DEF Shape, Hour
<1>1. CASE HourPasses /\ UNCHANGED ledgerVars
  BY <1>1 DEF HourPasses, ledgerVars
<1>2. CASE DeleteFile /\ UNCHANGED ledgerVars
  BY <1>2, Zenon DEF DeleteFile, ledgerVars
<1>3. ASSUME NEW f \in Fragment, PlacementLost(f), UNCHANGED ledgerVars PROVE Shape'
  BY <1>3 DEF PlacementLost, ledgerVars
<1>4. ASSUME NEW s \in Session, GetStep(s), UNCHANGED ledgerVars PROVE Shape'
  <2>0. get[s] \in GetRec /\ NoGet \in GetRec /\ [NoGet EXCEPT !.at = "failed"] \in GetRec
    BY DEF GetRec, NoGet
  <2>1. get' \in [Session -> GetRec]
    <3>1. CASE LoadFile(s)
      BY <3>1 DEF LoadFile, GetRec
    <3>2. CASE PlanDownload(s)
      <4> DEFINE listed == {c \in Chunk : Shards(stored, c) # {}}
      <4>1. PICK online \in SUBSET Node : get' = [get EXCEPT ![s] =
             IF \E c \in listed : Cardinality(Picked(c, online)) < Need
             THEN [NoGet EXCEPT !.at = "failed"]
             ELSE [get[s] EXCEPT !.at = "fetch", !.listed = listed,
                                 !.tickets = UNION {Picked(c, online) : c \in listed}]]
        BY <3>2, Zenon DEF PlanDownload
      <4>2. UNION {Picked(c, online) : c \in listed} \in SUBSET Fragment
        <5>1. \A c : Picked(c, online) \subseteq stored
          BY DEF Picked, Shards
        <5>2. QED
          BY <5>1
      <4>3. listed \in SUBSET Chunk
        OBVIOUS
      <4> HIDE DEF listed
      <4>4. [get[s] EXCEPT !.at = "fetch", !.listed = listed,
                           !.tickets = UNION {Picked(c, online) : c \in listed}] \in GetRec
        BY <2>0, <4>2, <4>3, Zenon DEF GetRec
      <4>5. QED
        BY <2>0, <4>1, <4>4
    <3>3. CASE FetchChunks(s)
      <4>1. PICK got \in SUBSET get[s].tickets : get' = [get EXCEPT ![s] =
               IF get[s].listed = Chunk THEN [get[s] EXCEPT !.at = "written", !.got = got]
               ELSE [NoGet EXCEPT !.at = "failed"]]
        BY <3>3, Zenon DEF FetchChunks
      <4>2. [get[s] EXCEPT !.at = "written", !.got = got] \in GetRec
        BY <2>0, Zenon DEF GetRec
      <4>3. QED
        BY <2>0, <4>1, <4>2
    <3>4. CASE FetchFails(s)
      BY <2>0, <3>4 DEF FetchFails
    <3>5. QED
      BY <1>4, <3>1, <3>2, <3>3, <3>4 DEF GetStep
  <2>2. UNCHANGED <<hour, live, stored, rep, receipts, stream, usage>>
    BY <1>4, Zenon DEF GetStep, LoadFile, PlanDownload, FetchChunks, FetchFails, ledgerVars
  <2>3. QED
    BY <2>1, <2>2
<1>5. ASSUME NEW r \in Request, ReportStep(r), UNCHANGED ledgerVars PROVE Shape'
  <2>0. rep[r] \in RepRec /\ NoRep \in RepRec
    BY DEF RepRec, NoRep
  <2>1. CASE StartReport(r)
    <3>1. PICK s \in Session : \E wires \in SUBSET {<<s, f>> : f \in get[s].got} :
            rep' = [rep EXCEPT ![r] = [NoRep EXCEPT !.at = "consume", !.left = wires]]
      BY <2>1, Zenon DEF StartReport
    <3>2. PICK wires \in SUBSET {<<s, f>> : f \in get[s].got} :
            rep' = [rep EXCEPT ![r] = [NoRep EXCEPT !.at = "consume", !.left = wires]]
      BY <3>1, Zenon
    <3>3. wires \in SUBSET Nonce
      BY DEF GetRec, Nonce
    <3>4. [NoRep EXCEPT !.at = "consume", !.left = wires] \in RepRec
      BY <2>0, <3>3, Zenon DEF RepRec
    <3>5. QED
      BY <1>5, <2>1, <3>2, <3>4 DEF StartReport, ledgerVars
  <2>2. CASE ConsumeDownloadReceipt(r)
    <3>1. PICK n \in rep[r].left :
            IF receipts[n] = None
            THEN receipts' = [receipts EXCEPT ![n] = hour] /\ Taken(r, n)
            ELSE rep' = [rep EXCEPT ![r] = NoRep] /\ UNCHANGED receipts
      BY <2>2 DEF ConsumeDownloadReceipt
    <3>2. receipts' \in [Nonce -> Hour \cup {None}]
      BY <3>1
    <3>3. ASSUME Taken(r, n) PROVE rep' \in [Request -> RepRec]
      <4>1. rep[r].left \ {n} \in SUBSET Nonce /\ rep[r].kept \cup {n} \in SUBSET Nonce
        BY <2>0 DEF RepRec
      <4>2. NodesOf(rep[r].kept \cup {n}) \in SUBSET Node
        BY <4>1 DEF NodesOf, Nonce
      <4> DEFINE left == rep[r].left \ {n}
                 kept == rep[r].kept \cup {n}
                 new == [rep[r] EXCEPT !.left = left, !.kept = kept,
                                   !.at = IF left = {} THEN "bump" ELSE "consume",
                                   !.nodes = IF left = {} THEN NodesOf(kept) ELSE {}]
      <4>3. rep' = [rep EXCEPT ![r] = new]
        BY <3>3 DEF Taken
      <4> HIDE DEF left, kept
      <4>4. new \in RepRec
        BY <2>0, <4>1, <4>2, Zenon DEF RepRec, left, kept
      <4>5. QED
        BY <4>3, <4>4
    <3>4. rep' \in [Request -> RepRec]
      BY <2>0, <3>1, <3>3
    <3>5. QED
      BY <1>5, <2>2, <3>2, <3>4 DEF ConsumeDownloadReceipt, ledgerVars
  <2>3. CASE BumpNodeBytes(r)
    <3>1. PICK n \in rep[r].nodes : rep' = [rep EXCEPT ![r] =
                 [rep[r] EXCEPT !.nodes = rep[r].nodes \ {n},
                                !.at = IF rep[r].nodes \ {n} = {} THEN "publish" ELSE "bump",
                                !.window = IF rep[r].nodes \ {n} = {} THEN hour ELSE 0]]
      BY <2>3, Zenon DEF BumpNodeBytes
    <3>2. [rep[r] EXCEPT !.nodes = rep[r].nodes \ {n},
                         !.at = IF rep[r].nodes \ {n} = {} THEN "publish" ELSE "bump",
                         !.window = IF rep[r].nodes \ {n} = {} THEN hour ELSE 0] \in RepRec
      <4> DEFINE nodes == rep[r].nodes \ {n}
                 at == IF nodes = {} THEN "publish" ELSE "bump"
                 window == IF nodes = {} THEN hour ELSE 0
      <4>1. nodes \in SUBSET Node /\ at \in {"bump", "publish"} /\ window \in Hour
        BY <2>0 DEF RepRec
      <4> HIDE DEF nodes, at, window
      <4>2. [rep[r] EXCEPT !.nodes = nodes, !.at = at, !.window = window] \in RepRec
        BY <2>0, <4>1, Zenon DEF RepRec
      <4>3. QED
        BY <4>2 DEF nodes, at, window
    <3>3. QED
      BY <1>5, <2>3, <3>1, <3>2 DEF BumpNodeBytes, ledgerVars
  <2>4. CASE PublishUsage(r)
    <3>1. PICK n \in rep[r].kept :
            /\ stream' = stream \cup {[nonce |-> n, window |-> rep[r].window]}
            /\ rep' = [rep EXCEPT ![r] = IF rep[r].kept \ {n} = {} THEN NoRep
                                        ELSE [rep[r] EXCEPT !.kept = rep[r].kept \ {n}]]
      BY <2>4, Zenon DEF PublishUsage
    <3>2. stream' \subseteq Event /\ [rep[r] EXCEPT !.kept = rep[r].kept \ {n}] \in RepRec
      BY <2>0, <3>1 DEF RepRec, Event
    <3>3. rep' \in [Request -> RepRec]
      BY <2>0, <3>1, <3>2
    <3>4. QED
      BY <1>5, <2>4, <3>2, <3>3 DEF PublishUsage, ledgerVars
  <2>5. CASE ReportStops(r)
    BY <1>5, <2>0, <2>5 DEF ReportStops, ledgerVars
  <2>6. QED
    BY <1>5, <2>1, <2>2, <2>3, <2>4, <2>5 DEF ReportStep
<1>6. ASSUME NEW a \in Accruer, AccrueStep(a) \/ AccruerStops(a) PROVE Shape'
  BY <1>6 DEF AccrueStep, AccruerStops, CatchUp, AccrueWindow, SetAccrualWatermark, downloadVars
<1>7. ASSUME NEW c \in Cycle, CloseCycle(c) PROVE Shape'
  BY <1>7 DEF CloseCycle, downloadVars
<1>8. ASSUME NEW e \in stream, RecordUsageEvent(e) PROVE Shape'
  BY <1>8 DEF RecordUsageEvent
<1>9. CASE UNCHANGED vars
  BY <1>9 DEF vars, downloadVars, ledgerVars
<1>10. QED
  BY <1>1, <1>2, <1>3, <1>4, <1>5, <1>6, <1>7, <1>8, <1>9 DEF Next, DownloadNext

\* A download is written only after the check of the whole content.
LEMMA ReadStep ==
  ASSUME Shape, ReadInv, [Next]_vars
  PROVE  ReadInv'
<1>1. ASSUME NEW s \in Session, FetchChunks(s) PROVE ReadInv'
  <2>1. PICK got \in SUBSET get[s].tickets :
          /\ \A c \in get[s].listed : Cardinality(Shards(got, c)) = Need
          /\ get' = [get EXCEPT ![s] = IF get[s].listed = Chunk THEN [get[s] EXCEPT !.at = "written", !.got = got]
                                       ELSE [NoGet EXCEPT !.at = "failed"]]
    BY <1>1, Zenon DEF FetchChunks, Enough
  <2>2. CASE get[s].listed = Chunk
    <3>1. get'[s].got = got
      BY <2>1, <2>2 DEF Shape, GetRec
    <3>2. \A u \in Session : u # s => get'[u] = get[u]
      BY <2>1 DEF Shape
    <3>3. QED
      BY <2>1, <2>2, <3>1, <3>2 DEF ReadInv, Shards
  <2>3. CASE get[s].listed # Chunk
    <3>1. get'[s].at = "failed" /\ \A u \in Session : u # s => get'[u] = get[u]
      BY <2>1, <2>3 DEF Shape, NoGet
    <3>2. QED
      BY <3>1 DEF ReadInv, Shards
  <2>4. QED
    BY <2>2, <2>3
<1>2. ASSUME NEW s \in Session, LoadFile(s) \/ PlanDownload(s) \/ FetchFails(s) PROVE ReadInv'
  <2>1. get'[s].at # "written" /\ \A u \in Session : u # s => get'[u] = get[u]
    <3>1. CASE LoadFile(s)
      BY <3>1 DEF LoadFile, Shape, GetRec
    <3>2. CASE PlanDownload(s)
      BY <3>2 DEF PlanDownload, Shape, GetRec, NoGet
    <3>3. CASE FetchFails(s)
      BY <3>3 DEF FetchFails, Shape, NoGet
    <3>4. QED
      BY <1>2, <3>1, <3>2, <3>3
  <2>2. QED
    BY <2>1 DEF ReadInv, Shards
<1>3. ASSUME UNCHANGED get PROVE ReadInv'
  BY <1>3 DEF ReadInv, Shards
<1>4. QED
  BY <1>1, <1>2, <1>3, Zenon
  DEF Next, DownloadNext, GetStep, HourPasses, DeleteFile, PlacementLost, ReportStep, StartReport,
    ConsumeDownloadReceipt, BumpNodeBytes, PublishUsage, ReportStops, AccrueStep, CatchUp, AccrueWindow,
    SetAccrualWatermark, AccruerStops, CloseCycle, RecordUsageEvent, vars, downloadVars

\* A step that consumes no receipt, keeps no more of them and makes no event.
LEMMA ArchiveRests ==
  ASSUME Shape, ArchiveInv, UNCHANGED receipts, Events' = Events,
         \A r \in Request : rep'[r].kept \subseteq rep[r].kept
  PROVE  ArchiveInv'
BY DEF ArchiveInv, Consumed

\* A receipt is kept by the request that consumed it until its event is out.
LEMMA ArchiveStep ==
  ASSUME Shape, ArchiveInv, [Next]_vars
  PROVE  ArchiveInv'
<1>1. ASSUME NEW r \in Request, ConsumeDownloadReceipt(r), UNCHANGED ledgerVars PROVE ArchiveInv'
  <2>1. PICK n \in rep[r].left :
          IF receipts[n] = None
          THEN receipts' = [receipts EXCEPT ![n] = hour] /\ Taken(r, n)
          ELSE rep' = [rep EXCEPT ![r] = NoRep] /\ UNCHANGED receipts
    BY <1>1 DEF ConsumeDownloadReceipt
  <2>2. Events' = Events
    BY <1>1 DEF ConsumeDownloadReceipt, Events, ledgerVars
  <2>3. CASE receipts[n] = None
    <3>1. n \in Nonce /\ hour # None
      BY DownloadAssumption DEF Shape, RepRec, Hour
    <3>2. Consumed' = Consumed \cup {n} /\ n \notin Consumed
      BY <2>1, <2>3, <3>1 DEF Consumed, Shape
    <3>3. rep'[r].kept = rep[r].kept \cup {n} /\ \A q \in Request : q # r => rep'[q] = rep[q]
      <4> DEFINE left == rep[r].left \ {n}
                 at == IF left = {} THEN "bump" ELSE "consume"
                 nodes == IF left = {} THEN NodesOf(rep[r].kept \cup {n}) ELSE {}
      <4>1. rep' = [rep EXCEPT ![r] = [rep[r] EXCEPT !.left = left, !.kept = rep[r].kept \cup {n},
                                                     !.at = at, !.nodes = nodes]]
        BY <2>1, <2>3 DEF Taken
      <4> HIDE DEF left, at, nodes
      <4>2. QED
        BY <4>1 DEF Shape, RepRec
    <3>4. \A q \in Request : n \notin rep[q].kept
      BY <3>2 DEF ArchiveInv
    <3>5. \A e \in Events : e.nonce # n
      BY <3>2 DEF ArchiveInv
    <3>6. \A q \in Request : rep'[q].kept \subseteq rep[q].kept \cup {n} /\ (q # r => n \notin rep'[q].kept)
      BY <3>3, <3>4
    <3>7. QED
      BY <2>2, <3>2, <3>4, <3>5, <3>6 DEF ArchiveInv
  <2>4. CASE receipts[n] # None
    <3>1. UNCHANGED receipts /\ \A q \in Request : rep'[q].kept \subseteq rep[q].kept
      BY <2>1, <2>4 DEF Shape, NoRep
    <3>2. QED
      BY <2>2, <3>1, ArchiveRests
  <2>5. QED
    BY <2>3, <2>4
<1>2. ASSUME NEW r \in Request, PublishUsage(r), UNCHANGED ledgerVars PROVE ArchiveInv'
  <2>1. PICK n \in rep[r].kept :
          /\ stream' = stream \cup {[nonce |-> n, window |-> rep[r].window]}
          /\ rep' = [rep EXCEPT ![r] = IF rep[r].kept \ {n} = {} THEN NoRep
                                      ELSE [rep[r] EXCEPT !.kept = rep[r].kept \ {n}]]
    BY <1>2, Zenon DEF PublishUsage
  <2>2. UNCHANGED <<receipts, usage>> /\ Consumed' = Consumed
    BY <1>2 DEF PublishUsage, ledgerVars, Consumed
  <2>3. PICK d : d.nonce = n /\ Events' = Events \cup {d}
    BY <2>1, <2>2, Zenon DEF Events
  <2>4. rep'[r].kept = rep[r].kept \ {n} /\ \A q \in Request : q # r => rep'[q] = rep[q]
    BY <2>1 DEF Shape, RepRec, NoRep
  <2>5. n \in Consumed /\ \A e \in Events : e.nonce # n
    BY DEF ArchiveInv
  <2>6. \A q \in Request : rep'[q].kept \subseteq rep[q].kept /\ n \notin rep'[q].kept
    BY <2>4 DEF ArchiveInv
  <2>7. QED
    BY <2>2, <2>3, <2>5, <2>6 DEF ArchiveInv
<1>3. ASSUME NEW r \in Request, StartReport(r) \/ BumpNodeBytes(r) \/ ReportStops(r), UNCHANGED ledgerVars
      PROVE  ArchiveInv'
  <2>1. UNCHANGED receipts /\ Events' = Events
    BY <1>3, Zenon DEF StartReport, BumpNodeBytes, ReportStops, Events, ledgerVars
  <2>2. \A q \in Request : rep'[q].kept \subseteq rep[q].kept
    <3>1. CASE StartReport(r)
      BY <3>1 DEF StartReport, Shape, NoRep
    <3>2. CASE BumpNodeBytes(r)
      BY <3>2 DEF BumpNodeBytes, Shape, RepRec
    <3>3. CASE ReportStops(r)
      BY <3>3 DEF ReportStops, Shape, NoRep
    <3>4. QED
      BY <1>3, <3>1, <3>2, <3>3
  <2>3. QED
    BY <2>1, <2>2, ArchiveRests
<1>4. ASSUME NEW e \in stream, RecordUsageEvent(e) PROVE ArchiveInv'
  <2>1. UNCHANGED receipts /\ UNCHANGED rep /\ Events' = Events
    BY <1>4 DEF RecordUsageEvent, Events
  <2>2. QED
    BY <2>1, ArchiveRests
<1>5. ASSUME UNCHANGED <<receipts, rep, stream, usage>> PROVE ArchiveInv'
  <2>1. UNCHANGED receipts /\ UNCHANGED rep /\ Events' = Events
    BY <1>5 DEF Events
  <2>2. QED
    BY <2>1, ArchiveRests
<1>6. QED
  BY <1>1, <1>2, <1>3, <1>4, <1>5, Zenon
  DEF Next, DownloadNext, HourPasses, DeleteFile, PlacementLost, GetStep, LoadFile,
    PlanDownload, FetchChunks, FetchFails, ReportStep, AccrueStep, CatchUp, AccrueWindow, SetAccrualWatermark,
    AccruerStops, CloseCycle, vars, downloadVars, ledgerVars

-----------------------------------------------------------------------------
(* The accrual                                                             *)

\* Receipts are finite, so the meter is a number.
LEMMA EgressIsNat == \A w : CustomerEgress(w) \in Nat
<1>1. IsFiniteSet(Nonce)
  BY DownloadAssumption, FS_Product DEF Nonce
<1>2. QED
  BY <1>1, FS_Subset, FS_CardinalityType DEF CustomerEgress

\* What the meters show for the customer.
LEMMA CustomerMeters ==
  /\ \A w : Metered("egress_charge", Customer, w) = CustomerEgress(w)
  /\ \A w : Metered("storage_charge", Customer, w) = CustomerStored
BY LedgerAssumption DEF Metered

\* The ids of the customer's charges are ids of transactions.
LEMMA ChargeIds == \A w \in Hour : Egress(w) \in Txn /\ Storage(w) \in Txn
<1>1. "egress_charge" = Kinds[3] /\ "storage_charge" = Kinds[1]
  BY DEF Kinds
<1>2. "egress_charge" \in Kind /\ "storage_charge" \in Kind
  BY <1>1 DEF Kind
<1>3. QED
  BY <1>2 DEF Egress, Storage, Txn, Account

\* What a step may not do to what is posted: charges stay as they are, a file
\* that is deleted stays deleted, and the receipts of a past hour stay.
Keeps ==
  /\ hour' \in Hour /\ hour <= hour'
  /\ live' => live
  /\ \A t \in DOMAIN txns : t \in DOMAIN txns' /\ txns'[t] = txns[t]
  /\ \A w \in Nat : w < hour => CustomerEgress(w)' = CustomerEgress(w)

\* What is posted stays posted.
LEMMA PostedStays ==
  ASSUME Keeps, NEW w \in Nat, w < hour, Posted(w)
  PROVE  Posted(w)'
BY DEF Keeps, Posted, Egress, Storage

\* A step that posts nothing and moves no accruer.
LEMMA BillRests ==
  ASSUME Shape, BillInv, Keeps, UNCHANGED <<first, watermark, acc, txns>>,
         \A k \in Nonce : receipts'[k] # None => receipts'[k] <= hour'
  PROVE  BillInv'
<1> USE DEF Shape, Hour
<1>1. hour \in Nat /\ hour' \in Nat
  BY DownloadAssumption DEF Keeps
<1>2. \A w \in Nat : w < hour /\ Posted(w) => Posted(w)'
  BY PostedStays
<1>3. \A a \in Accruer : acc[a].at # "idle" => acc[a].win \in Nat /\ acc[a].last \in Int /\ acc[a].win < hour
  BY <1>1 DEF BillInv
<1>4. \A w \in Nat : w <= watermark' => Posted(w)'
  BY <1>1, <1>2 DEF BillInv
<1>5. \A a \in Accruer : \A w \in Nat : acc'[a].at # "idle" /\ w < acc'[a].win => Posted(w)'
  BY <1>1, <1>2, <1>3 DEF BillInv
<1>6. \A a \in Accruer : acc'[a].at = "mark" => Posted(acc[a].win)'
  <2> SUFFICES ASSUME NEW a \in Accruer, acc[a].at = "mark" PROVE Posted(acc[a].win)'
    OBVIOUS
  <2> DEFINE v == acc[a].win
  <2>1. v \in Nat /\ v < hour /\ Posted(v)
    BY <1>3 DEF BillInv
  <2>2. v' = v
    OBVIOUS
  <2> HIDE DEF v
  <2>3. \A u \in Nat : u < hour /\ Posted(u) => Posted(u)'
    BY <1>2
  <2>4. QED
    BY <2>1, <2>2, <2>3, Zenon DEF v, Posted, Egress, Storage, CustomerEgress
<1>7. \A w \in Nat : Egress(w) \in DOMAIN txns' => w < hour' /\ txns'[Egress(w)].amount = CustomerEgress(w)'
  BY <1>1 DEF BillInv, Keeps
<1>8. QED
  BY <1>1, <1>4, <1>5, <1>6, <1>7 DEF BillInv, Keeps, Egress, Storage

\* The steps of the rest of the system keep the books.
LEMMA OthersKeep ==
  ASSUME Shape, BillInv, DownloadNext /\ UNCHANGED ledgerVars
  PROVE  BillInv'
<1> USE DEF Hour
<1>0. hour \in Nat /\ None \notin Int /\ UNCHANGED <<first, watermark, acc, txns>>
  BY DownloadAssumption DEF Shape, ledgerVars
<1>1. CASE HourPasses
  <2>1. hour' = hour + 1 /\ hour' \in Hour /\ UNCHANGED <<live, receipts>>
    BY <1>1, DownloadAssumption DEF HourPasses, Shape
  <2>2. Keeps
    BY <1>0, <2>1 DEF Keeps, CustomerEgress
  <2>3. \A k \in Nonce : receipts'[k] # None => receipts'[k] <= hour'
    BY <1>0, <2>1, DownloadAssumption DEF BillInv, Shape
  <2>4. QED
    BY <1>0, <2>2, <2>3, BillRests
<1>2. ASSUME NEW r \in Request, ConsumeDownloadReceipt(r) PROVE BillInv'
  <2>1. PICK n \in rep[r].left :
          (receipts[n] = None /\ receipts' = [receipts EXCEPT ![n] = hour]) \/ UNCHANGED receipts
    BY <1>2 DEF ConsumeDownloadReceipt
  <2>2. UNCHANGED <<hour, live>> /\ n \in Nonce
    BY <1>2 DEF ConsumeDownloadReceipt, Shape, RepRec
  <2>3. \A w \in Nat : w < hour => {k \in Nonce : receipts'[k] = w} = {k \in Nonce : receipts[k] = w}
    BY <1>0, <2>1, <2>2 DEF Shape
  <2>4. Keeps
    <3>1. \A w \in Nat : w < hour => CustomerEgress(w)' = CustomerEgress(w)
      <4>1. SUFFICES ASSUME NEW w \in Nat, w < hour PROVE CustomerEgress(w)' = CustomerEgress(w)
        OBVIOUS
      <4>2. CustomerEgress(w)' = Cardinality({k \in Nonce : receipts'[k] = w})
        BY DEF CustomerEgress
      <4>3. QED
        BY <2>3, <4>1, <4>2 DEF CustomerEgress
    <3>2. hour' \in Hour /\ hour <= hour' /\ (live' => live)
      BY <1>0, <2>2 DEF Shape
    <3>3. QED
      BY <1>0, <3>1, <3>2 DEF Keeps
  <2>5. \A k \in Nonce : receipts'[k] # None => receipts'[k] <= hour'
    BY <1>0, <2>1, <2>2 DEF BillInv, Shape
  <2>6. QED
    BY <1>0, <2>4, <2>5, BillRests
<1>3. ASSUME UNCHANGED <<hour, receipts>>, live' => live PROVE BillInv'
  <2>1. \A w \in Nat : w < hour => CustomerEgress(w)' = CustomerEgress(w)
    BY <1>3 DEF CustomerEgress
  <2>2. hour' \in Hour /\ hour <= hour'
    BY <1>0, <1>3 DEF Shape
  <2>3. \A t \in DOMAIN txns : t \in DOMAIN txns' /\ txns'[t] = txns[t]
    BY <1>0
  <2>4. Keeps
    BY <1>3, <2>1, <2>2, <2>3, Zenon DEF Keeps
  <2>5. \A k \in Nonce : receipts'[k] # None => receipts'[k] <= hour'
    BY <1>3 DEF BillInv
  <2>6. QED
    BY <1>0, <2>4, <2>5, BillRests
<1>4. DeleteFile => UNCHANGED <<hour, receipts>> /\ (live' => live)
  BY DEF DeleteFile
<1>5. \A f \in Fragment : PlacementLost(f) => UNCHANGED <<hour, receipts, live>>
  BY DEF PlacementLost
<1>6. \A s \in Session : GetStep(s) => UNCHANGED <<hour, receipts, live>>
  BY Zenon DEF GetStep, LoadFile, PlanDownload, FetchChunks, FetchFails
<1>7. \A r \in Request :
        StartReport(r) \/ BumpNodeBytes(r) \/ PublishUsage(r) \/ ReportStops(r) => UNCHANGED <<hour, receipts, live>>
  BY Zenon DEF StartReport, BumpNodeBytes, PublishUsage, ReportStops
<1>8. QED
  BY <1>1, <1>2, <1>3, <1>4, <1>5, <1>6, <1>7 DEF DownloadNext, ReportStep

\* Postings of a window that is over are what the meters show, and add to what
\* is there.
LEMMA PostingsRight ==
  ASSUME Shape, BillInv, NEW v \in Nat, v < hour, NEW S \in SUBSET Due(v),
         UNCHANGED <<hour, live, receipts>>, InsertLedgerTxns(Postings(S))
  PROVE  /\ Keeps
         /\ DOMAIN txns' = DOMAIN txns \cup S
         /\ \A w \in Nat : Egress(w) \in DOMAIN txns' => w < hour' /\ txns'[Egress(w)].amount = CustomerEgress(w)'
         /\ \A w \in Nat : Storage(w) \in DOMAIN txns' => txns'[Storage(w)].amount = 1
<1>1. /\ DOMAIN txns' = DOMAIN txns \cup S
      /\ \A t \in DOMAIN txns : txns'[t] = txns[t]
      /\ \A t \in S : t \notin DOMAIN txns => txns'[t].amount = Metered(t[1], t[2], t[3])
  BY DEF InsertLedgerTxns, Postings, Added
<1>2. \A w : CustomerEgress(w)' = CustomerEgress(w)
  BY DEF CustomerEgress
<1>3. hour \in Hour /\ hour <= hour'
  BY DownloadAssumption DEF Shape, Hour
<1>4. Keeps
  BY <1>1, <1>2, <1>3 DEF Keeps
<1>5. ASSUME NEW w \in Nat, Egress(w) \in DOMAIN txns'
      PROVE  w < hour' /\ txns'[Egress(w)].amount = CustomerEgress(w)'
  <2>1. CASE Egress(w) \in DOMAIN txns
    BY <1>1, <1>2, <2>1 DEF BillInv
  <2>2. CASE Egress(w) \notin DOMAIN txns
    <3>1. Egress(w) \in S
      BY <1>1, <1>5, <2>2
    <3>2. w = v
      BY <3>1 DEF Due, Egress
    <3>3. txns'[Egress(w)].amount = Metered("egress_charge", Customer, w)
      BY <1>1, <2>2, <3>1 DEF Egress
    <3>4. QED
      BY <1>2, <3>2, <3>3, CustomerMeters
  <2>3. QED
    BY <2>1, <2>2
<1>6. ASSUME NEW w \in Nat, Storage(w) \in DOMAIN txns'
      PROVE  txns'[Storage(w)].amount = 1
  <2>1. CASE Storage(w) \in DOMAIN txns
    BY <1>1, <2>1 DEF BillInv
  <2>2. CASE Storage(w) \notin DOMAIN txns
    <3>1. Storage(w) \in S
      BY <1>1, <1>6, <2>2
    <3>2. Metered("storage_charge", Customer, w) > 0
      BY <3>1 DEF Due, Storage
    <3>3. txns'[Storage(w)].amount = Metered("storage_charge", Customer, w)
      BY <1>1, <2>2, <3>1 DEF Storage
    <3>4. QED
      BY <3>2, <3>3, CustomerMeters DEF CustomerStored
  <2>3. QED
    BY <2>1, <2>2
<1>7. QED
  BY <1>1, <1>4, <1>5, <1>6

\* A pass of an accruer.
LEMMA AccrualStep ==
  ASSUME Shape, BillInv, NEW a \in Accruer, AccrueStep(a) \/ AccruerStops(a)
  PROVE  BillInv'
<1> USE DEF Hour
<1>1. hour \in Nat /\ acc[a].win \in Nat /\ acc[a].last \in Int
  BY DownloadAssumption DEF Shape, BillInv
<1>a. /\ acc \in [Accruer -> [at : {"idle", "accrue", "mark"}, win : Nat, last : Int]]
      /\ \A b \in Accruer : acc[b].at # "idle" => acc[b].win <= acc[b].last /\ acc[b].last < hour
  BY DEF BillInv
<1>b. \A b \in Accruer : \A w \in Nat : acc[b].at # "idle" /\ w < acc[b].win => Posted(w)
  BY DEF BillInv
<1>c. \A b \in Accruer : acc[b].at = "mark" => Posted(acc[b].win)
  BY DEF BillInv
<1>2. UNCHANGED <<hour, live, receipts>>
  BY DEF AccrueStep, AccruerStops, CatchUp, AccrueWindow, SetAccrualWatermark, downloadVars
<1>3. \A k \in Nonce : receipts'[k] # None => receipts'[k] <= hour'
  BY <1>2 DEF BillInv
<1>4. CASE CatchUp(a)
  <2> DEFINE last == Min({hour - 1, watermark + 1 + MaxCatchUp - 1})
             new == [at |-> "accrue", win |-> watermark + 1, last |-> last]
  <2>1. watermark # None
    BY DownloadAssumption DEF BillInv
  <2>2. watermark + 1 <= hour - 1 /\ acc' = [acc EXCEPT ![a] = new]
    BY <1>4, <2>1 DEF CatchUp, Begin
  <2>3. last \in Int /\ watermark + 1 <= last /\ last < hour
    <3>1. PICK i \in {hour - 1, watermark + 1 + MaxCatchUp - 1} :
            \A j \in {hour - 1, watermark + 1 + MaxCatchUp - 1} : i <= j
      BY <1>1, LedgerAssumption DEF BillInv
    <3>2. /\ last \in {hour - 1, watermark + 1 + MaxCatchUp - 1}
          /\ \A j \in {hour - 1, watermark + 1 + MaxCatchUp - 1} : last <= j
      BY <3>1 DEF Min
    <3>3. QED
      BY <1>1, <2>2, <3>2, LedgerAssumption DEF BillInv
  <2> HIDE DEF last
  <2>4. new \in [at : {"idle", "accrue", "mark"}, win : Nat, last : Int]
    BY <2>3 DEF BillInv
  <2>5. UNCHANGED <<first, watermark, txns>>
    BY <1>4 DEF CatchUp
  <2>6. \A w : Posted(w)' <=> Posted(w)
    BY <1>2, <2>5 DEF Posted, CustomerEgress, Egress, Storage
  <2>7. acc' \in [Accruer -> [at : {"idle", "accrue", "mark"}, win : Nat, last : Int]]
    BY <1>a, <2>2, <2>4
  <2>8. acc'[a] = new /\ \A b \in Accruer : b # a => acc'[b] = acc[b]
    BY <1>a, <2>2
  <2>9. \A b \in Accruer : acc'[b].at # "idle" => acc'[b].win <= acc'[b].last /\ acc'[b].last < hour
    BY <1>a, <2>3, <2>8
  <2>10. \A w \in Nat : w < watermark + 1 => Posted(w)
    BY DEF BillInv
  <2>11. \A b \in Accruer : \A w \in Nat : acc'[b].at # "idle" /\ w < acc'[b].win => Posted(w)
    BY <1>b, <2>8, <2>10
  <2>12. \A b \in Accruer : acc'[b].at = "mark" => Posted(acc'[b].win)
    BY <2>8 DEF BillInv
  <2>13. QED
    BY <1>2, <1>3, <2>5, <2>6, <2>7, <2>9, <2>11, <2>12 DEF BillInv, CustomerEgress, Egress, Storage
<1>5. ASSUME acc[a].at = "accrue", NEW S \in SUBSET Due(acc[a].win), InsertLedgerTxns(Postings(S)),
             UNCHANGED <<first, watermark>>,
             NEW at \in {"idle", "mark"}, NEW win \in {0, acc[a].win}, NEW last \in {0, acc[a].last},
             acc' = [acc EXCEPT ![a] = [at |-> at, win |-> win, last |-> last]],
             at = "mark" => S = Due(acc[a].win) /\ win = acc[a].win /\ last = acc[a].last
      PROVE  BillInv'
  <2> DEFINE v == acc[a].win
  <2>1. v \in Nat /\ v < hour
    BY <1>1, <1>5, <1>a
  <2>2. /\ Keeps
        /\ DOMAIN txns' = DOMAIN txns \cup S
        /\ \A w \in Nat : Egress(w) \in DOMAIN txns' => w < hour' /\ txns'[Egress(w)].amount = CustomerEgress(w)'
        /\ \A w \in Nat : Storage(w) \in DOMAIN txns' => txns'[Storage(w)].amount = 1
    BY <1>2, <1>5, <2>1, PostingsRight, Zenon
  <2>3. \A w \in Nat : w < hour /\ Posted(w) => Posted(w)'
    BY <2>2, PostedStays
  <2>4. acc' \in [Accruer -> [at : {"idle", "accrue", "mark"}, win : Nat, last : Int]]
    BY <1>1, <1>5, <1>a
  <2>5. acc'[a] = [at |-> at, win |-> win, last |-> last] /\ \A b \in Accruer : b # a => acc'[b] = acc[b]
    BY <1>5, <1>a
  <2>6. \A b \in Accruer : acc'[b].at # "idle" => acc'[b].win <= acc'[b].last /\ acc'[b].last < hour
    BY <1>5, <1>a, <2>5
  <2>7. \A b \in Accruer : \A w \in Nat : acc'[b].at # "idle" /\ w < acc'[b].win => w < hour /\ Posted(w)
    BY <1>1, <1>5, <1>b, <2>4, <2>5, <2>6
  <2>8. \A w \in Nat : w <= watermark => w < hour /\ Posted(w)
    BY <1>1 DEF BillInv
  <2>9. ASSUME at = "mark"
        PROVE  /\ CustomerEgress(v) > 0 => Egress(v) \in DOMAIN txns'
               /\ live => Storage(v) \in DOMAIN txns'
    <3>1. Egress(v) \in Txn /\ Storage(v) \in Txn
      <4>1. v \in Hour
        <5>1. hour \in 0..MaxHour /\ MaxHour \in Nat
          BY DownloadAssumption DEF Shape
        <5>2. QED
          BY <2>1, <5>1
      <4>2. QED
        BY <4>1, ChargeIds
    <3>2. CustomerEgress(v) > 0 => Egress(v) \in Due(v)
      BY <3>1, CustomerMeters DEF Due, Egress
    <3>3. live => Storage(v) \in Due(v)
      BY <3>1, CustomerMeters DEF Due, Storage, CustomerStored
    <3>4. QED
      BY <1>5, <2>2, <2>9, <3>2, <3>3
  <2>10. \A b \in Accruer : acc'[b].at = "mark" =>
           /\ CustomerEgress(acc'[b].win) > 0 => Egress(acc'[b].win) \in DOMAIN txns'
           /\ live => Storage(acc'[b].win) \in DOMAIN txns'
    BY <1>5, <2>2, <2>5, <2>9 DEF BillInv, Posted
  <2>11. (\A w \in Nat : w <= watermark => Posted(w))'
    BY <1>5, <2>3, <2>8
  <2>12. (\A b \in Accruer : \A w \in Nat : acc[b].at # "idle" /\ w < acc[b].win => Posted(w))'
    BY <2>3, <2>7
  <2>13. (\A b \in Accruer : acc[b].at = "mark" => Posted(acc[b].win))'
    BY <1>2, <2>10 DEF Posted, CustomerEgress
  <2>14. (first = 0 /\ watermark \in Int /\ -1 <= watermark /\ watermark < hour)'
    BY <1>2, <1>5 DEF BillInv
  <2>15. (\A b \in Accruer : acc[b].at # "idle" => acc[b].win <= acc[b].last /\ acc[b].last < hour)'
    BY <1>2, <2>6
  <2>16. QED
    BY <1>3, <2>2, <2>4, <2>11, <2>12, <2>13, <2>14, <2>15 DEF BillInv
<1>6. CASE AccrueWindow(a)
  <2>1. acc' = [acc EXCEPT ![a] = [at |-> "mark", win |-> acc[a].win, last |-> acc[a].last]]
    <3>1. acc[a] = [at |-> acc[a].at, win |-> acc[a].win, last |-> acc[a].last]
      BY DEF BillInv
    <3>2. [acc[a] EXCEPT !.at = "mark"] = [at |-> "mark", win |-> acc[a].win, last |-> acc[a].last]
      BY <3>1 DEF BillInv
    <3>3. acc' = [acc EXCEPT ![a] = [acc[a] EXCEPT !.at = "mark"]]
      BY <1>6 DEF AccrueWindow
    <3>4. QED
      BY <3>2, <3>3, Zenon
  <2>2. /\ acc[a].at = "accrue" /\ InsertLedgerTxns(Postings(Due(acc[a].win)))
        /\ UNCHANGED <<first, watermark>>
    BY <1>6 DEF AccrueWindow
  <2>3. QED
    BY <1>5, <2>1, <2>2
<1>7. CASE AccruerStops(a) /\ acc[a].at = "accrue"
  <2>1. acc' = [acc EXCEPT ![a] = [at |-> "idle", win |-> 0, last |-> 0]]
    BY <1>7 DEF AccruerStops, NoPass
  <2>2. PICK S \in SUBSET Due(acc[a].win) : InsertLedgerTxns(Postings(S))
    <3>1. PICK k \in 1..4 : \E D \in SUBSET {t \in Due(acc[a].win) : t[1] = Kinds[k]} :
            InsertLedgerTxns(Postings(D \cup UNION {{t \in Due(acc[a].win) : t[1] = Kinds[i]} : i \in 1..(k-1)}))
      BY <1>7, Zenon DEF AccruerStops
    <3>2. PICK D \in SUBSET Due(acc[a].win) :
            InsertLedgerTxns(Postings(D \cup UNION {{t \in Due(acc[a].win) : t[1] = Kinds[i]} : i \in 1..(k-1)}))
      BY <3>1, Zenon
    <3>3. D \cup UNION {{t \in Due(acc[a].win) : t[1] = Kinds[i]} : i \in 1..(k-1)} \in SUBSET Due(acc[a].win)
      OBVIOUS
    <3>4. QED
      BY <3>2, <3>3
  <2>3. UNCHANGED <<first, watermark>>
    BY <1>7 DEF AccruerStops
  <2>4. QED
    BY <1>5, <1>7, <2>1, <2>2, <2>3
<1>8. ASSUME UNCHANGED <<first, txns>>, acc' = [acc EXCEPT ![a] = acc'[a]],
             watermark' = watermark \/ (acc[a].at = "mark" /\ watermark' = acc[a].win),
             \/ acc'[a] = NoPass
             \/ /\ acc[a].at = "mark" /\ acc[a].win < acc[a].last
                /\ acc'[a] = [at |-> "accrue", win |-> acc[a].win + 1, last |-> acc[a].last]
      PROVE  BillInv'
  <2>1. \A w : Posted(w)' <=> Posted(w)
    BY <1>2, <1>8 DEF Posted, CustomerEgress, Egress, Storage
  <2>2. acc'[a] \in [at : {"idle", "accrue", "mark"}, win : Nat, last : Int]
    BY <1>1, <1>8 DEF NoPass
  <2>3. acc' \in [Accruer -> [at : {"idle", "accrue", "mark"}, win : Nat, last : Int]]
    BY <1>8, <1>a, <2>2
  <2>4. \A b \in Accruer : b # a => acc'[b] = acc[b]
    BY <1>8, <1>a
  <2>5. watermark' \in Int /\ -1 <= watermark' /\ watermark' < hour
    BY <1>1, <1>8 DEF BillInv
  <2>6. \A w \in Nat : acc[a].at = "mark" /\ w <= acc[a].win => Posted(w)
    BY <1>1, <1>b, <1>c
  <2>7. \A w \in Nat : w <= watermark' => Posted(w)
    BY <1>8, <2>6 DEF BillInv
  <2>8. acc'[a].at # "idle" => /\ acc'[a].win <= acc'[a].last /\ acc'[a].last < hour
                               /\ acc'[a].at # "mark"
                               /\ \A w \in Nat : w < acc'[a].win => Posted(w)
    <3>1. acc[a].at = "mark" => acc[a].last < hour
      BY <1>a
    <3>2. QED
      BY <1>1, <1>8, <2>6, <3>1 DEF NoPass
  <2>9. \A b \in Accruer : acc'[b].at # "idle" => acc'[b].win <= acc'[b].last /\ acc'[b].last < hour
    BY <1>a, <2>4, <2>8
  <2>10. \A b \in Accruer : \A w \in Nat : acc'[b].at # "idle" /\ w < acc'[b].win => Posted(w)
    BY <1>b, <2>4, <2>8
  <2>11. \A b \in Accruer : acc'[b].at = "mark" => Posted(acc'[b].win)
    BY <2>4, <2>8 DEF BillInv
  <2>12. QED
    BY <1>2, <1>3, <1>8, <2>1, <2>3, <2>5, <2>7, <2>9, <2>10, <2>11 DEF BillInv, CustomerEgress, Egress, Storage
<1>9. CASE AccruerStops(a) /\ acc[a].at # "accrue"
  <2>1. UNCHANGED <<first, txns, watermark>> /\ acc' = [acc EXCEPT ![a] = NoPass]
    BY <1>9 DEF AccruerStops
  <2>2. acc'[a] = NoPass
    BY <2>1 DEF BillInv
  <2>3. QED
    BY <1>8, <2>1, <2>2, Zenon
<1>10. CASE SetAccrualWatermark(a)
  <2> DEFINE new == IF acc[a].win = acc[a].last THEN NoPass
                    ELSE [at |-> "accrue", win |-> acc[a].win + 1, last |-> acc[a].last]
  <2>1. /\ acc[a].at = "mark" /\ watermark' = acc[a].win /\ acc' = [acc EXCEPT ![a] = new]
        /\ first' = IF first = None \/ acc[a].win < first THEN acc[a].win ELSE first
        /\ UNCHANGED txns
    BY <1>10 DEF SetAccrualWatermark
  <2>2. first' = first
    BY <1>1, <2>1, DownloadAssumption DEF BillInv
  <2>3. acc'[a] = new
    BY <2>1 DEF BillInv
  <2>4. acc[a].win <= acc[a].last
    BY <2>1 DEF BillInv
  <2>5. CASE acc[a].win = acc[a].last
    BY <1>8, <2>1, <2>2, <2>3, <2>5, Zenon
  <2>6. CASE acc[a].win # acc[a].last
    <3>1. acc[a].win < acc[a].last
      BY <1>1, <2>4, <2>6
    <3>2. QED
      BY <1>8, <2>1, <2>2, <2>3, <2>6, <3>1, Zenon
  <2>7. QED
    BY <2>5, <2>6
<1>11. QED
  BY <1>4, <1>6, <1>7, <1>9, <1>10 DEF AccrueStep

-----------------------------------------------------------------------------
(* Theorems                                                                *)

\* Every step keeps the invariant of the accrual.
LEMMA BillStep ==
  ASSUME Shape, BillInv, [Next]_vars
  PROVE  BillInv'
<1>1. ASSUME UNCHANGED <<hour, live, receipts, first, watermark, acc, txns>> PROVE BillInv'
  BY <1>1, Zenon DEF BillInv, Posted, CustomerEgress, Egress, Storage
<1>2. ASSUME NEW c \in Cycle, CloseCycle(c) PROVE UNCHANGED <<hour, live, receipts, first, watermark, acc, txns>>
  BY <1>2 DEF CloseCycle, downloadVars
<1>3. ASSUME NEW e \in stream, RecordUsageEvent(e)
      PROVE  UNCHANGED <<hour, live, receipts, first, watermark, acc, txns>>
  BY <1>3 DEF RecordUsageEvent
<1>4. ASSUME UNCHANGED vars PROVE UNCHANGED <<hour, live, receipts, first, watermark, acc, txns>>
  BY <1>4 DEF vars, downloadVars, ledgerVars
<1>5. QED
  BY <1>1, <1>2, <1>3, <1>4, OthersKeep, AccrualStep DEF Next

\* The types hold in every reachable state.
LEMMA ShapeHolds == Spec => []Shape
<1>1. Init => Shape
  <2>1. NoGet \in GetRec /\ NoRep \in RepRec /\ 0 \in Hour
    BY DownloadAssumption DEF NoGet, GetRec, NoRep, RepRec, Hour
  <2>2. ASSUME Init
        PROVE  get \in [Session -> GetRec] /\ rep \in [Request -> RepRec]
    BY <2>1, <2>2 DEF Init, DownloadInit
  <2>3. ASSUME Init
        PROVE  receipts \in [Nonce -> Hour \cup {None}]
    BY <2>3 DEF Init, DownloadInit
  <2>4. QED
    BY <2>1, <2>2, <2>3 DEF Init, DownloadInit, Shape
<1>2. Shape /\ [Next]_vars => Shape'
  BY ShapeStep
<1>3. QED
  BY <1>1, <1>2, PTL DEF Spec

\* What `dsp get` writes is the whole file, however placements are lost and the
\* file is deleted while it is read (fetchChunk and the content hash of
\* transfer.go).
THEOREM DownloadsWhole == Spec => []ReturnsWhole
<1>1. Init => ReadInv
  BY DEF Init, DownloadInit, ReadInv, NoGet
<1>2. Shape /\ ReadInv /\ [Next]_vars => ReadInv'
  BY ReadStep
<1>3. ReadInv => ReturnsWhole
  BY DownloadAssumption DEF ReadInv, ReturnsWhole
<1>4. QED
  BY <1>1, <1>2, <1>3, ShapeHolds, PTL DEF Spec

\* Each receipt is archived once, however reports and deliveries are repeated
\* and stopped (ReportDownload, PublishUsage, RecordUsageEvent).
THEOREM ReceiptsArchivedOnce == Spec => []ArchivedOnce
<1>1. Init => ArchiveInv
  BY DEF Init, DownloadInit, ArchiveInv, Events, NoRep
<1>2. Shape /\ ArchiveInv /\ [Next]_vars => ArchiveInv'
  BY ArchiveStep
<1>3. ArchiveInv => ArchivedOnce
  BY DEF ArchiveInv, ArchivedOnce, Events
<1>4. QED
  BY <1>1, <1>2, <1>3, ShapeHolds, PTL DEF Spec

\* The inductive invariant of the accrual, once an hour has been accrued.
THEOREM BooksInvariant ==
  ASSUME ~Fresh
  PROVE  Spec => []BillInv
<1>1. Init => BillInv
  BY DownloadAssumption DEF Init, DownloadInit, BillInv, NoPass, Posted, Hour
<1>2. Shape /\ BillInv /\ [Next]_vars => BillInv'
  BY BillStep
<1>3. QED
  BY <1>1, <1>2, ShapeHolds, PTL DEF Spec

\* For every hour the watermark has passed the customer is charged for exactly
\* the receipts of that hour (AccrueWindow, DeterministicTxnID and the
\* unconditional SetAccrualWatermark), with any number of ledger processes.
THEOREM EgressIsBilled ==
  ASSUME ~Fresh
  PROVE  Spec => []EgressBilled
<1>1. Shape /\ BillInv => EgressBilled
  <2> SUFFICES ASSUME Shape, BillInv, NEW w \in Settled
               PROVE  Amount(<<"egress_charge", Customer, w>>) = CustomerEgress(w)
    BY DEF EgressBilled
  <2>1. w \in Nat /\ w <= watermark
    BY DownloadAssumption DEF Settled, BillInv
  <2>2. CustomerEgress(w) > 0 => Egress(w) \in DOMAIN txns
    BY <2>1 DEF BillInv, Posted
  <2>3. Egress(w) \in DOMAIN txns => txns[Egress(w)].amount = CustomerEgress(w)
    BY <2>1 DEF BillInv
  <2>4. QED
    BY <2>2, <2>3, EgressIsNat DEF Amount, Egress
<1>2. QED
  BY <1>1, ShapeHolds, BooksInvariant, PTL

\* A file that has not been deleted is charged for each hour up to the
\* watermark, over stops, missed hours and the limit on one pass (CatchUp).
THEOREM NoHourLeftOut ==
  ASSUME ~Fresh
  PROVE  Spec => []NoHourSkipped
<1>1. BillInv => NoHourSkipped
  <2> SUFFICES ASSUME BillInv, live, NEW w \in Settled
               PROVE  Amount(<<"storage_charge", Customer, w>>) = 1
    BY DEF NoHourSkipped
  <2>1. w \in Nat /\ w <= watermark
    BY DownloadAssumption DEF Settled, BillInv
  <2>2. Storage(w) \in DOMAIN txns /\ txns[Storage(w)].amount = 1
    BY <2>1 DEF BillInv, Posted
  <2>3. QED
    BY <2>2 DEF Amount, Storage
<1>2. QED
  BY <1>1, BooksInvariant, PTL

-----------------------------------------------------------------------------
(* Statements                                                              *)

\* A statement is of a cycle that is over, with the balances of its start and end.
StatementInv ==
  \A i \in DOMAIN statement :
    /\ i[2] \in Nat /\ (i[2] + 1) * CycleHours <= hour
    /\ statement[i].open = AccountBalanceAt(i[1], i[2] * CycleHours)
    /\ statement[i].close = AccountBalanceAt(i[1], (i[2] + 1) * CycleHours)

\* The books only grow, by what is posted now, and time goes on.
BooksGrow ==
  /\ hour' \in Nat /\ hour <= hour'
  /\ txns' = txns \/ \E S : txns' = Added(txns, Postings(S))

\* What every step does to the books.
LEMMA StepBooks ==
  ASSUME Shape, [Next]_vars
  PROVE  BooksGrow
<1>0. hour \in Nat
  BY DownloadAssumption DEF Shape, Hour
<1>1. CASE DownloadNext /\ UNCHANGED ledgerVars
  <2>1. hour' = hour \/ HourPasses
    BY <1>1, Zenon DEF DownloadNext, DeleteFile, PlacementLost, GetStep, LoadFile, PlanDownload, FetchChunks,
                FetchFails, StartReport, ReportStep, ConsumeDownloadReceipt, BumpNodeBytes, PublishUsage, ReportStops
  <2>2. QED
    BY <1>0, <1>1, <2>1 DEF HourPasses, ledgerVars, BooksGrow
<1>2. ASSUME NEW a \in Accruer, AccrueStep(a) \/ AccruerStops(a)
      PROVE  BooksGrow
  <2>1. hour' = hour
    BY <1>2 DEF AccrueStep, CatchUp, AccrueWindow, SetAccrualWatermark, AccruerStops, downloadVars
  <2>2. txns' = txns \/ \E S : txns' = Added(txns, Postings(S))
    <3>1. CASE CatchUp(a) \/ SetAccrualWatermark(a)
      BY <3>1 DEF CatchUp, SetAccrualWatermark
    <3>2. CASE AccrueWindow(a)
      BY <3>2, Zenon DEF AccrueWindow, InsertLedgerTxns
    <3>3. CASE AccruerStops(a)
      BY <3>3, Zenon DEF AccruerStops, InsertLedgerTxns
    <3>4. QED
      BY <1>2, <3>1, <3>2, <3>3 DEF AccrueStep
  <2>3. QED
    BY <1>0, <2>1, <2>2 DEF BooksGrow
<1>3. CASE hour' = hour /\ txns' = txns
  BY <1>0, <1>3 DEF BooksGrow
<1>4. QED
  BY <1>1, <1>2, <1>3
  DEF Next, CloseCycle, RecordUsageEvent, vars, downloadVars, ledgerVars

\* The balance of an hour that has begun does not change any more.
LEMMA BalanceFixed ==
  ASSUME Shape, BooksGrow, NEW x, NEW h \in Nat, h <= hour
  PROVE  AccountBalanceAt(x, h)' = AccountBalanceAt(x, h)
<1>0. hour \in Nat
  BY DownloadAssumption DEF Shape, Hour
<1>1. Legs(x, h)' = Legs(x, h)
  <2>1. CASE txns' = txns
    BY <2>1 DEF Legs, Signed
  <2>2. ASSUME NEW S, txns' = Added(txns, Postings(S))
        PROVE  Legs(x, h)' = Legs(x, h)
    <3> DEFINE D == {t \in DOMAIN txns : t[2] = x /\ txns[t].at < h}
               E == {t \in DOMAIN txns' : t[2] = x /\ txns'[t].at < h}
    <3>1. /\ DOMAIN txns' = DOMAIN txns \cup S
          /\ \A t \in DOMAIN txns : txns'[t] = txns[t]
          /\ \A t \in S : t \notin DOMAIN txns => txns'[t].at = hour
      BY <2>2 DEF Added, Postings
    <3>2. D = E
      BY <1>0, <3>1
    <3>3. \A t \in D : Signed(t)' = Signed(t)
      BY <3>1 DEF Signed
    <3>4. Legs(x, h)' = [t \in E |-> Signed(t)'] /\ Legs(x, h) = [t \in D |-> Signed(t)]
      BY DEF Legs
    <3>5. QED
      BY <3>2, <3>3, <3>4
  <2>3. QED
    BY <2>1, <2>2 DEF BooksGrow
<1>2. AccountBalanceAt(x, h) = SumFunction(Legs(x, h)) /\ AccountBalanceAt(x, h)' = SumFunction(Legs(x, h)')
  BY DEF AccountBalanceAt
<1>3. QED
  BY <1>1, <1>2

\* A statement that is made, and one that is there, say what the books say.
LEMMA StatementStep ==
  ASSUME Shape, StatementInv, [Next]_vars
  PROVE  StatementInv'
<1>0. hour \in Nat /\ CycleHours \in Nat /\ BooksGrow
  BY DownloadAssumption, LedgerAssumption, StepBooks DEF Shape, Hour
<1>1. ASSUME NEW c \in Nat, (c + 1) * CycleHours <= hour
      PROVE  /\ c * CycleHours \in Nat /\ (c + 1) * CycleHours \in Nat
             /\ c * CycleHours <= hour /\ c * CycleHours + CycleHours = (c + 1) * CycleHours
  BY <1>0, <1>1
<1>2. ASSUME NEW i \in DOMAIN statement
      PROVE  /\ i[2] \in Nat /\ (i[2] + 1) * CycleHours <= hour'
             /\ statement[i].open = AccountBalanceAt(i[1], i[2] * CycleHours)'
             /\ statement[i].close = AccountBalanceAt(i[1], (i[2] + 1) * CycleHours)'
  <2> DEFINE s == i[2] * CycleHours
             e == (i[2] + 1) * CycleHours
  <2>1. /\ i[2] \in Nat /\ e <= hour
        /\ statement[i].open = AccountBalanceAt(i[1], s) /\ statement[i].close = AccountBalanceAt(i[1], e)
    BY DEF StatementInv
  <2>2. s \in Nat /\ e \in Nat /\ s <= hour
    BY <1>1, <2>1
  <2>3. e <= hour'
    BY <1>0, <2>1, <2>2 DEF BooksGrow
  <2> HIDE DEF s, e
  <2>4. AccountBalanceAt(i[1], s)' = AccountBalanceAt(i[1], s) /\ AccountBalanceAt(i[1], e)' = AccountBalanceAt(i[1], e)
    BY <1>0, <2>1, <2>2, BalanceFixed
  <2>5. QED
    BY <2>1, <2>3, <2>4 DEF s, e
<1>3. CASE statement' = statement
  BY <1>2, <1>3 DEF StatementInv
<1>4. ASSUME NEW c \in Cycle, CloseCycle(c)
      PROVE  StatementInv'
  <2> DEFINE s == c * CycleHours
             rows == {<<x, c>> : x \in {t[2] : t \in DOMAIN txns}}
             new == [i \in rows |-> [open |-> AccountBalanceAt(i[1], s), close |-> AccountBalanceAt(i[1], s + CycleHours)]]
  <2>1. statement' = Added(statement, new) /\ UNCHANGED <<hour, txns>> /\ (c + 1) * CycleHours <= hour
    BY <1>4 DEF CloseCycle, Statements, downloadVars
  <2>2. c \in Nat
    BY DEF Cycle
  <2>3. s + CycleHours = (c + 1) * CycleHours
    BY <1>1, <2>1, <2>2
  <2> HIDE DEF s
  <2>4. ASSUME NEW i \in rows
        PROVE  i[2] = c /\ new[i].open = AccountBalanceAt(i[1], s) /\ new[i].close = AccountBalanceAt(i[1], s + CycleHours)
    OBVIOUS
  <2>5. \A x, h : AccountBalanceAt(x, h)' = AccountBalanceAt(x, h)
    BY <2>1, Zenon DEF AccountBalanceAt, Legs, Signed
  <2>6. DOMAIN new = rows
    OBVIOUS
  <2> HIDE DEF new, rows
  <2>7. /\ DOMAIN statement' = DOMAIN statement \cup rows
        /\ \A i \in DOMAIN statement : statement'[i] = statement[i]
        /\ \A i \in rows : i \notin DOMAIN statement => statement'[i] = new[i]
    BY <2>1, <2>6 DEF Added
  <2>8. ASSUME NEW i \in rows, i \notin DOMAIN statement
        PROVE  /\ i[2] \in Nat /\ (i[2] + 1) * CycleHours <= hour'
               /\ statement'[i].open = AccountBalanceAt(i[1], i[2] * CycleHours)'
               /\ statement'[i].close = AccountBalanceAt(i[1], (i[2] + 1) * CycleHours)'
    BY <2>1, <2>2, <2>3, <2>4, <2>5, <2>7, <2>8 DEF s
  <2>9. QED
    BY <1>2, <2>7, <2>8 DEF StatementInv
<1>5. ASSUME NEW a \in Accruer, AccrueStep(a) \/ AccruerStops(a)
      PROVE  statement' = statement
  BY <1>5 DEF AccrueStep, CatchUp, AccrueWindow, SetAccrualWatermark, AccruerStops
<1>6. QED
  BY <1>3, <1>4, <1>5 DEF Next, ledgerVars, vars, RecordUsageEvent

\* A statement agrees with the books for good, although postings for hours of
\* its cycle go on after it was made (CloseCycle and AccountBalanceAt, which
\* goes by the time a leg was created).
THEOREM StatementsStayTrue == Spec => []StatementsAgree
<1>1. Init => StatementInv
  BY DEF Init, StatementInv
<1>2. Shape /\ StatementInv /\ [Next]_vars => StatementInv'
  BY StatementStep
<1>3. StatementInv => StatementsAgree
  BY DEF StatementInv, StatementsAgree
<1>4. QED
  BY <1>1, <1>2, <1>3, ShapeHolds, PTL DEF Spec
=============================================================================
