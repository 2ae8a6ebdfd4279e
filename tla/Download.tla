------------------------------ MODULE Download ------------------------------
(***************************************************************************)
(* Reading a file back and metering the egress: PlanDownload over the      *)
(* placement rows, the CLI's concurrent fetch, and ReportDownload over the *)
(* node-signed receipts (internal/metadata/upload.go,                      *)
(* internal/store/uploads.go, internal/store/lifecycle.go,                 *)
(* cmd/dsp/transfer.go).                                                   *)
(*                                                                         *)
(* A nonce <<s, f>> stands for the ticket of fragment f in the plan of     *)
(* session s, and for the receipt the node signs with it.  Every fragment  *)
(* has size 1.  Time is the hour that meters are kept by.                  *)
(***************************************************************************)
EXTENDS Integers, FiniteSets, FiniteSetsExt

CONSTANTS
  Chunk, Fragment, Node,
  chunkOf,    \* the chunk a fragment belongs to
  nodeOf,     \* the node its placement names
  Need,       \* shards that rebuild a chunk (ec_data_shards)
  Session,    \* runs of `dsp get`
  Request,    \* report requests in flight
  MaxHour,    \* bound: hours modelled
  MaxMishaps, \* bound: stops and failures
  None

ASSUME DownloadAssumption ==
  /\ chunkOf \in [Fragment -> Chunk]
  /\ nodeOf \in [Fragment -> Node]
  /\ Need \in Nat \ {0}
  /\ MaxHour \in Nat
  /\ MaxMishaps \in Nat
  /\ IsFiniteSet(Fragment) /\ IsFiniteSet(Session)
  /\ None \notin Int

Hour == 0..MaxHour
Nonce == Session \X Fragment

VARIABLES
  hour,
  live,      \* the file is not deleted
  stored,    \* fragments whose placement row is stored
  get,       \* what each `dsp get` is doing
  rep,       \* what each report request is doing
  receipts,  \* download_receipts: the hour of each nonce consumed
  served,    \* node_stats.bytes_served per node and hour
  stream,    \* usage events published and not acknowledged
  mishaps

downloadVars == <<hour, live, stored, get, rep, receipts, served, stream, mishaps>>

GetRec == [at : {"idle", "load", "fetch", "written", "failed"},
           listed : SUBSET Chunk, tickets : SUBSET Fragment, got : SUBSET Fragment]
RepRec == [at : {"idle", "consume", "bump", "publish"}, left : SUBSET Nonce,
           kept : SUBSET Nonce, nodes : SUBSET Node, window : Hour]
Event == [nonce : Nonce, window : Hour]

NoGet == [at |-> "idle", listed |-> {}, tickets |-> {}, got |-> {}]
NoRep == [at |-> "idle", left |-> {}, kept |-> {}, nodes |-> {}, window |-> 0]

DownloadTypeOK ==
  /\ hour \in Hour
  /\ live \in BOOLEAN
  /\ stored \subseteq Fragment
  /\ get \in [Session -> GetRec]
  /\ rep \in [Request -> RepRec]
  /\ receipts \in [Nonce -> Hour \cup {None}]
  /\ served \in [Node -> [Hour -> Nat]]
  /\ stream \subseteq Event
  /\ mishaps \in 0..MaxMishaps

DownloadInit ==
  /\ hour = 0
  /\ live = TRUE
  /\ stored = Fragment
  /\ get = [s \in Session |-> NoGet]
  /\ rep = [r \in Request |-> NoRep]
  /\ receipts = [n \in Nonce |-> None]
  /\ served = [n \in Node |-> [h \in Hour |-> 0]]
  /\ stream = {}
  /\ mishaps = 0

Mishap == mishaps < MaxMishaps /\ mishaps' = mishaps + 1

Shards(S, c) == {f \in S : chunkOf[f] = c}
Consumed == {n \in Nonce : receipts[n] # None}

----------------------------------------------------------------------------
(* The rest of the system, as the download meets it.                       *)

HourPasses ==
  /\ hour < MaxHour
  /\ hour' = hour + 1
  /\ UNCHANGED <<live, stored, get, rep, receipts, served, stream, mishaps>>

\* SoftDeleteFile: the rows expire in the same transaction.
DeleteFile ==
  /\ live
  /\ live' = FALSE
  /\ stored' = {}
  /\ UNCHANGED <<hour, get, rep, receipts, served, stream, mishaps>>

PlacementLost(f) ==
  /\ f \in stored
  /\ Mishap
  /\ stored' = stored \ {f}
  /\ UNCHANGED <<hour, live, get, rep, receipts, served, stream>>

----------------------------------------------------------------------------
(* PlanDownload and the fetch.                                             *)

\* LoadDownload, first statements: the file and its current version.
LoadFile(s) ==
  /\ get[s].at = "idle"
  /\ live
  /\ get' = [get EXCEPT ![s].at = "load"]
  /\ UNCHANGED <<hour, live, stored, rep, receipts, served, stream, mishaps>>

\* pickDownloadPlacements: the online ones when they are enough.
Picked(c, online) ==
  LET rows == Shards(stored, c)
      up == {f \in rows : nodeOf[f] \in online}
  IN  IF Cardinality(up) >= Need THEN up ELSE rows

\* LoadDownload's rows and the tickets.  A chunk with no stored row is not
\* in the plan at all; one with too few makes the file unavailable.  The
\* nodes' status is whatever it is by then.
PlanDownload(s) ==
  /\ get[s].at = "load"
  /\ LET listed == {c \in Chunk : Shards(stored, c) # {}}
     IN  \E online \in SUBSET Node :
           get' = [get EXCEPT ![s] =
             IF \E c \in listed : Cardinality(Picked(c, online)) < Need
             THEN [NoGet EXCEPT !.at = "failed"]
             ELSE [@ EXCEPT !.at = "fetch", !.listed = listed,
                            !.tickets = UNION {Picked(c, online) : c \in listed}]]
  /\ UNCHANGED <<hour, live, stored, rep, receipts, served, stream, mishaps>>

Enough(got, s) == \A c \in get[s].listed : Cardinality(Shards(got, c)) = Need

\* Variant with a bug: the whole content's hash is not compared.
FetchChunksUnchecked(s) ==
  /\ get[s].at = "fetch"
  /\ \E got \in SUBSET get[s].tickets :
       /\ Enough(got, s)
       /\ get' = [get EXCEPT ![s].at = "written", ![s].got = got]
  /\ UNCHANGED <<hour, live, stored, rep, receipts, served, stream, mishaps>>

\* fetchChunk for each chunk of the plan: the first Need good answers
\* rebuild it, and only their receipts are kept.  The content hash then
\* tells a plan that left a chunk out.
FetchChunks(s) ==
  /\ get[s].at = "fetch"
  /\ \E got \in SUBSET get[s].tickets :
       /\ Enough(got, s)
       /\ get' = [get EXCEPT ![s] = IF @.listed = Chunk THEN [@ EXCEPT !.at = "written", !.got = got]
                                   ELSE [NoGet EXCEPT !.at = "failed"]]
  /\ UNCHANGED <<hour, live, stored, rep, receipts, served, stream, mishaps>>

\* Too few agents answer with good bytes.
FetchFails(s) ==
  /\ get[s].at = "fetch"
  /\ Mishap
  /\ get' = [get EXCEPT ![s] = [NoGet EXCEPT !.at = "failed"]]
  /\ UNCHANGED <<hour, live, stored, rep, receipts, served, stream>>

----------------------------------------------------------------------------
(* ReportDownload.  A client may report what it holds more than once.      *)

StartReport(r) ==
  /\ rep[r].at = "idle"
  /\ live
  /\ \E s \in Session :
       /\ get[s].at = "written"
       /\ \E wires \in SUBSET {<<s, f>> : f \in get[s].got} \ {{}} :
            rep' = [rep EXCEPT ![r] = [NoRep EXCEPT !.at = "consume", !.left = wires]]
  /\ UNCHANGED <<hour, live, stored, get, receipts, served, stream, mishaps>>

NodesOf(nonces) == {nodeOf[n[2]] : n \in nonces}

\* Moves to the meters when every receipt has been taken.
Taken(r, n) ==
  LET left == rep[r].left \ {n}
      kept == rep[r].kept \cup {n}
  IN  rep' = [rep EXCEPT ![r] = [@ EXCEPT !.left = left, !.kept = kept,
                                   !.at = IF left = {} THEN "bump" ELSE "consume",
                                   !.nodes = IF left = {} THEN NodesOf(kept) ELSE {}]]

\* Variant with a bug: a receipt that was consumed before is counted again.
ConsumeReplayed(r) ==
  /\ rep[r].at = "consume"
  /\ \E n \in rep[r].left :
       /\ receipts' = [receipts EXCEPT ![n] = IF @ = None THEN hour ELSE @]
       /\ Taken(r, n)
  /\ UNCHANGED <<hour, live, stored, get, served, stream, mishaps>>

\* One receipt: the ticket's row, the signature, ConsumeDownloadReceipt.  A
\* nonce that was consumed before ends the request with an error, before
\* anything is metered.
ConsumeDownloadReceipt(r) ==
  /\ rep[r].at = "consume"
  /\ \E n \in rep[r].left :
       IF receipts[n] = None
       THEN receipts' = [receipts EXCEPT ![n] = hour] /\ Taken(r, n)
       ELSE rep' = [rep EXCEPT ![r] = NoRep] /\ UNCHANGED receipts
  /\ UNCHANGED <<hour, live, stored, get, served, stream, mishaps>>

\* BumpNodeBytes for one node, in the hour it happens; then the events,
\* all stamped with one time.
BumpNodeBytes(r) ==
  /\ rep[r].at = "bump"
  /\ \E n \in rep[r].nodes :
       LET nodes == rep[r].nodes \ {n}
           bytes == Cardinality({k \in rep[r].kept : nodeOf[k[2]] = n})
       IN  /\ served' = [served EXCEPT ![n][hour] = @ + bytes]
           /\ rep' = [rep EXCEPT ![r] =
                 [@ EXCEPT !.nodes = nodes,
                           !.at = IF nodes = {} THEN "publish" ELSE "bump",
                           !.window = IF nodes = {} THEN hour ELSE 0]]
  /\ UNCHANGED <<hour, live, stored, get, receipts, stream, mishaps>>

\* Variant with a bug: a publication that seems to fail is repeated, with
\* the time it is by then.
PublishUsageRetried(r) ==
  /\ rep[r].at = "publish"
  /\ \E n \in rep[r].kept : \E kept \in {rep[r].kept, rep[r].kept \ {n}} :
       /\ stream' = stream \cup {[nonce |-> n, window |-> hour]}
       /\ rep' = [rep EXCEPT ![r] = IF kept = {} THEN NoRep ELSE [@ EXCEPT !.kept = kept]]
  /\ UNCHANGED <<hour, live, stored, get, receipts, served, mishaps>>

\* PublishUsage for one receipt.
PublishUsage(r) ==
  /\ rep[r].at = "publish"
  /\ \E n \in rep[r].kept :
       LET kept == rep[r].kept \ {n}
       IN  /\ stream' = stream \cup {[nonce |-> n, window |-> rep[r].window]}
           /\ rep' = [rep EXCEPT ![r] = IF kept = {} THEN NoRep ELSE [@ EXCEPT !.kept = kept]]
  /\ UNCHANGED <<hour, live, stored, get, receipts, served, mishaps>>

\* A receipt that does not verify, a failing statement or a stopping
\* process: what was consumed stays consumed.
ReportStops(r) ==
  /\ rep[r].at # "idle"
  /\ Mishap
  /\ rep' = [rep EXCEPT ![r] = NoRep]
  /\ UNCHANGED <<hour, live, stored, get, receipts, served, stream>>

GetStep(s) == LoadFile(s) \/ PlanDownload(s) \/ FetchChunks(s) \/ FetchFails(s)

ReportStep(r) ==
  StartReport(r) \/ ConsumeDownloadReceipt(r) \/ BumpNodeBytes(r) \/ PublishUsage(r) \/ ReportStops(r)

DownloadNext ==
  \/ HourPasses \/ DeleteFile
  \/ \E f \in Fragment : PlacementLost(f)
  \/ \E s \in Session : GetStep(s)
  \/ \E r \in Request : ReportStep(r)

----------------------------------------------------------------------------
(* What `dsp get` writes is the whole file: each chunk rebuilt from Need   *)
(* shards, although a chunk whose rows are all gone, or a file deleted     *)
(* between the two reads of LoadDownload, is left out of the plan without  *)
(* an error.                                                               *)
ReturnsWhole ==
  \A s \in Session : get[s].at = "written" =>
    \A c \in Chunk : Cardinality(Shards(get[s].got, c)) >= Need
=============================================================================
