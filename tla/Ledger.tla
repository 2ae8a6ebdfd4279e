------------------------------- MODULE Ledger -------------------------------
(***************************************************************************)
(* The ledger service over the download meters: the hourly accruers with   *)
(* their shared watermark, the monthly statements and the archive of usage *)
(* events (internal/ledger, internal/store/ledger.go,                      *)
(* internal/store/meters.go, cmd/ledger/main.go).                          *)
(*                                                                         *)
(* One customer owns the file; each node is a provider's.  Amounts are in  *)
(* bytes: the rates and their rounding are left out, but a charge of zero  *)
(* is skipped as in the code.                                              *)
(***************************************************************************)
EXTENDS Download

CONSTANTS
  Accruer,     \* ledger processes
  Customer,
  Fresh,       \* no hour has been accrued before
  MaxCatchUp,  \* windows accrued in one pass (maxCatchUpHours)
  CycleHours   \* hours in a billing cycle

ASSUME LedgerAssumption ==
  /\ Customer \notin Node
  /\ Fresh \in BOOLEAN
  /\ MaxCatchUp \in Nat \ {0}
  /\ CycleHours \in Nat \ {0}

Kinds == <<"storage_charge", "storage_earning", "egress_charge", "egress_earning">>
Kind == {Kinds[i] : i \in 1..4}
Account == {Customer} \cup Node
Txn == Kind \X Account \X Hour
Cycle == 0..(MaxHour \div CycleHours)

VARIABLES
  watermark,  \* ledger_watermarks: the last accrued hour
  first,      \* history: the earliest of the hours since, to be accrued
  acc,        \* what each accruer is doing
  txns,       \* ledger_txns and their legs, with the hour of creation
  statement,  \* statements per account and cycle
  usage       \* usage_events

ledgerVars == <<watermark, first, acc, txns, statement, usage>>
vars == <<downloadVars, ledgerVars>>

NoPass == [at |-> "idle", win |-> 0, last |-> 0]

TypeOK ==
  /\ DownloadTypeOK
  /\ watermark \in Hour \cup {-1, None}
  /\ first \in Hour \cup {None}
  /\ \A a \in Accruer :
       /\ acc[a].at \in {"idle", "accrue", "mark"}
       /\ acc[a].win \in Hour /\ acc[a].last \in Hour
  /\ DOMAIN txns \subseteq Txn
  /\ \A t \in DOMAIN txns : txns[t].amount \in Nat \ {0} /\ txns[t].at \in Hour
  /\ DOMAIN statement \subseteq Account \X Cycle
  /\ usage \subseteq Event

Init ==
  /\ DownloadInit
  /\ watermark = IF Fresh THEN None ELSE -1
  /\ first = IF Fresh THEN None ELSE 0
  /\ acc = [a \in Accruer |-> NoPass]
  /\ txns = <<>>
  /\ statement = <<>>
  /\ usage = {}

\* INSERT ... ON CONFLICT DO NOTHING: a row that is there stays as it is.
Added(table, new) ==
  [i \in DOMAIN table \cup DOMAIN new |-> IF i \in DOMAIN table THEN table[i] ELSE new[i]]

----------------------------------------------------------------------------
(* The meters of one window.                                               *)

CustomerStored == IF live THEN 1 ELSE 0
NodeHeld(n) == Cardinality({f \in stored : nodeOf[f] = n})
CustomerEgress(w) == Cardinality({k \in Nonce : receipts[k] = w})

\* What a meter shows for one subject.  Storage is what is there now.
Metered(kind, x, w) ==
  CASE kind = "storage_charge"  /\ x = Customer -> CustomerStored
    [] kind = "storage_earning" /\ x \in Node   -> NodeHeld(x)
    [] kind = "egress_charge"   /\ x = Customer -> CustomerEgress(w)
    [] kind = "egress_earning"  /\ x \in Node   -> served[x][w]
    [] OTHER -> 0

Amount(id) == IF id \in DOMAIN txns THEN txns[id].amount ELSE 0

----------------------------------------------------------------------------
(* CatchUp and AccrueWindow.                                               *)

\* The pass ends at the target hour, or after MaxCatchUp windows.
Begin(a, start, target) ==
  acc' = [acc EXCEPT ![a] = [at |-> "accrue", win |-> start,
                             last |-> Min({target, start + MaxCatchUp - 1})]]

\* Variant with a bug: the current hour is accrued before it is over.
CatchUpToNow(a) ==
  /\ acc[a].at = "idle"
  /\ LET start == IF watermark = None THEN hour ELSE watermark + 1
     IN  start <= hour /\ Begin(a, start, hour)
  /\ UNCHANGED <<downloadVars, watermark, first, txns, statement, usage>>

\* Variant with a bug: only the last complete hour is accrued.
CatchUpLast(a) ==
  /\ acc[a].at = "idle"
  /\ hour > 0
  /\ watermark = None \/ watermark + 1 <= hour - 1
  /\ Begin(a, hour - 1, hour - 1)
  /\ UNCHANGED <<downloadVars, watermark, first, txns, statement, usage>>

\* Variant with a bug: nothing is done when only one hour is missing.
CatchUpStrict(a) ==
  /\ acc[a].at = "idle"
  /\ hour > 0
  /\ LET start == IF watermark = None THEN hour - 1 ELSE watermark + 1
     IN  (watermark = None \/ start < hour - 1) /\ Begin(a, start, hour - 1)
  /\ UNCHANGED <<downloadVars, watermark, first, txns, statement, usage>>

\* From the hour after the watermark, or the last complete hour when there
\* is none.
CatchUp(a) ==
  /\ acc[a].at = "idle"
  /\ hour > 0
  /\ LET start == IF watermark = None THEN hour - 1 ELSE watermark + 1
     IN  start <= hour - 1 /\ Begin(a, start, hour - 1)
  /\ UNCHANGED <<downloadVars, watermark, first, txns, statement, usage>>

\* DeterministicTxnID names kind, subject and window; InsertLedgerTxn of one
\* that is there is a no-op.
InsertLedgerTxns(new) == txns' = Added(txns, new)

\* The subjects of window w that have something to post, kind by kind.
Due(w) == {t \in Txn : t[3] = w /\ Metered(t[1], t[2], w) > 0}

Postings(S) == [t \in S |-> [amount |-> Metered(t[1], t[2], t[3]), at |-> hour]]

\* Each posting is a transaction of its own, and what is zero is skipped.
\* Their order shows only when the pass stops between them.
AccrueWindow(a) ==
  /\ acc[a].at = "accrue"
  /\ InsertLedgerTxns(Postings(Due(acc[a].win)))
  /\ acc' = [acc EXCEPT ![a].at = "mark"]
  /\ UNCHANGED <<downloadVars, watermark, first, statement, usage>>

\* A failing statement or a stopping process ends the pass: the postings
\* of the kinds before are made, and some of one kind.
AccruerStops(a) ==
  /\ acc[a].at # "idle"
  /\ Mishap
  /\ \/ acc[a].at = "mark" /\ UNCHANGED txns
     \/ /\ acc[a].at = "accrue"
        /\ \E k \in 1..4 :
             LET due(i) == {t \in Due(acc[a].win) : t[1] = Kinds[i]}
             IN  \E S \in SUBSET due(k) : InsertLedgerTxns(Postings(S \cup UNION {due(i) : i \in 1..(k-1)}))
  /\ acc' = [acc EXCEPT ![a] = NoPass]
  /\ UNCHANGED <<hour, live, stored, get, rep, receipts, served, stream,
                 watermark, first, statement, usage>>

\* An unconditional overwrite; then the next window of the pass, if any.
SetAccrualWatermark(a) ==
  /\ acc[a].at = "mark"
  /\ LET p == acc[a]
     IN  /\ watermark' = p.win
         /\ first' = IF first = None \/ p.win < first THEN p.win ELSE first
         /\ acc' = [acc EXCEPT ![a] = IF p.win = p.last THEN NoPass
                                      ELSE [at |-> "accrue", win |-> p.win + 1, last |-> p.last]]
  /\ UNCHANGED <<downloadVars, txns, statement, usage>>

----------------------------------------------------------------------------
(* CloseCycle.                                                             *)

Signed(t) == IF t[2] = Customer THEN -txns[t].amount ELSE txns[t].amount

\* The legs of an account created before an hour begins.
Legs(x, h) == [t \in {t \in DOMAIN txns : t[2] = x /\ txns[t].at < h} |-> Signed(t)]

AccountBalanceAt(x, h) == SumFunction(Legs(x, h))

\* Statements of a cycle for the accounts that exist; a row that is there
\* stays as it is.
Statements(c) ==
  LET start == c * CycleHours
      rows == {<<x, c>> : x \in {t[2] : t \in DOMAIN txns}}
  IN  Added(statement, [i \in rows |-> [open |-> AccountBalanceAt(i[1], start),
                                        close |-> AccountBalanceAt(i[1], start + CycleHours)]])

\* Variant with a bug: the cycle that is running is closed.
CloseCycleRunning(c) ==
  /\ c * CycleHours <= hour
  /\ statement' = Statements(c)
  /\ UNCHANGED <<downloadVars, watermark, first, acc, txns, usage>>

\* A pass over a cycle that is over.  The balances it reads, of hours that
\* are past, no longer change, so the accounts are taken in one step.
CloseCycle(c) ==
  /\ (c + 1) * CycleHours <= hour
  /\ statement' = Statements(c)
  /\ UNCHANGED <<downloadVars, watermark, first, acc, txns, usage>>

----------------------------------------------------------------------------
(* The usage consumer.                                                     *)

\* RecordUsageEvent; one that is delivered again is there already.
RecordUsageEvent(e) ==
  /\ e \in stream
  /\ usage' = usage \cup {e}
  /\ stream' = stream \ {e}
  /\ UNCHANGED <<hour, live, stored, get, rep, receipts, served, mishaps,
                 watermark, first, acc, txns, statement>>

AccrueStep(a) == CatchUp(a) \/ AccrueWindow(a) \/ SetAccrualWatermark(a)

Next ==
  \/ DownloadNext /\ UNCHANGED ledgerVars
  \/ \E a \in Accruer : AccrueStep(a) \/ AccruerStops(a)
  \/ \E c \in Cycle : CloseCycle(c)
  \/ \E e \in stream : RecordUsageEvent(e)

Spec == Init /\ [][Next]_vars

(* The accruers tick on.                                                   *)
FairSpec == Spec /\ WF_vars(\E a \in Accruer : AccrueStep(a))

----------------------------------------------------------------------------
Settled == IF watermark = None THEN {} ELSE first..watermark

(* For every hour the watermark has passed since the first one, the        *)
(* customer is charged for exactly the receipts of that hour: with two     *)
(* accruers, a watermark that can move back, postings that are repeated    *)
(* and a report that arrives as the hour changes.                          *)
EgressBilled ==
  \A w \in Settled : Amount(<<"egress_charge", Customer, w>>) = CustomerEgress(w)

(* No hour is left out: a file that has not been deleted is charged for    *)
(* each hour from the first accrued one to the watermark, across stops,    *)
(* missed hours and the limit on one pass.                                 *)
NoHourSkipped ==
  live => \A w \in Settled : Amount(<<"storage_charge", Customer, w>>) = 1

(* No node is paid for a transfer that no customer is charged for: the     *)
(* egress earnings of a node are receipts of its own.                      *)
PaidForReceipts ==
  \A n \in Node :
    MapThenSumSet(LAMBDA w : Amount(<<"egress_earning", n, w>>), Hour)
      <= Cardinality({k \in Consumed : nodeOf[k[2]] = n})

(* Each receipt is archived once: its event's id names the hour, and a     *)
(* report or a delivery that is repeated in another hour adds no second    *)
(* one.                                                                    *)
ArchivedOnce ==
  \A d, e \in usage : d.nonce = e.nonce => d = e /\ e.nonce \in Consumed

(* A statement agrees with the books for good: the balances it was made    *)
(* from are still those of its account at the start and at the end of the  *)
(* cycle, though postings for hours of the cycle go on after it closed.    *)
StatementsAgree ==
  \A i \in DOMAIN statement :
    /\ statement[i].open = AccountBalanceAt(i[1], i[2] * CycleHours)
    /\ statement[i].close = AccountBalanceAt(i[1], (i[2] + 1) * CycleHours)

(* Each complete hour since the first accrued one is accrued in the end.   *)
CaughtUp ==
  \A w \in 0..(MaxHour - 1) :
    (first # None /\ first <= w /\ w < hour) ~> (watermark # None /\ watermark >= w)

(* internal/invariants/invariants.go:79: "CheckUsageReconcile fails if     *)
(* archived egress events diverge from download_receipts": with no report  *)
(* in progress and no event waiting, the two agree on each hour that has   *)
(* events.                                                                 *)
UsageReconciles ==
  (stream = {} /\ \A r \in Request : rep[r].at = "idle") =>
    \A w \in Hour :
      LET events == Cardinality({e \in usage : e.window = w})
      IN  events = 0 \/ events = CustomerEgress(w)
=============================================================================
