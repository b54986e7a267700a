------------------------------ MODULE Billing ------------------------------
(***************************************************************************)
(* Numbered documents: invoices, credit notes and support tickets.  The    *)
(* number comes from a counter row that invoiceNumbering.service and       *)
(* sequentialNumber.util lock until the caller's transaction ends, and     *)
(* create when it is the first of its series.  A booking writes its        *)
(* invoice, and a cancellation its credit note, inside its own transaction *)
(* and means to go on when that fails; but PostgreSQL refuses every        *)
(* statement of a transaction after one has failed.                        *)
(* One shipment per tenant: those of one tenant wait for its wallet.       *)
(*                                                                         *)
(* shipments.status has other writers: the courier's scans (Tracking) and  *)
(* the returns to origin of NdrRto, which make no documents.               *)
(***************************************************************************)
EXTENDS Integers, FiniteSets

CONSTANTS
  Txns,        \* transactions that can be open at the same time
  Shipments,
  Scanned,     \* bound: the shipments that the courier scans or returns
  Tickets,     \* support tickets that tenants open, or that escalations open
  Issued,      \* invoices numbered in the first year before the run begins
  MaxYears,    \* bound: financial years that the run lasts
  MaxFaults    \* bound: failures of statements, connections and processes

ASSUME BillingAssumption ==
  /\ Txns # {} /\ IsFiniteSet(Txns)
  /\ Issued \in Nat
  /\ MaxYears \in Nat \ {0}
  /\ MaxFaults \in Nat
  /\ Shipments \cap Tickets = {}
  /\ Scanned \subseteq Shipments

VARIABLES
  year,        \* the current financial year
  seq,         \* seq[k]: last_number of the committed counter row, Absent without one
  rowOf,       \* rowOf[k]: who has the counter row locked, or inserted it, as a set
  shipment,    \* shipments.status; "booked" stands for all but "cancelled"
  scanning,    \* shipments whose status a scan has read and not written yet
  marking,     \* marking[s]: who has updated the shipment's row, as a set
  refunded,    \* shipments whose freight a committed cancellation paid back
  docs,        \* committed invoices, credit notes and tickets
  txn,         \* txn[x]: the open transaction x, see NoTxn
  lost,        \* lost[k]: transactions rolled back because the row of k appeared
  faults

vars == <<year, seq, rowOf, shipment, scanning, refunded, marking, docs, txn, lost, faults>>

Status == {"none", "booked", "cancelled"}
Years == 1..MaxYears
Series == {"invoice", "credit_note"}

(* Counter rows: one per series and financial year, and one for all tickets. *)
TicketKey == <<0, "support_ticket">>
Keys == (Years \X Series) \cup {TicketKey}
NoKey == <<0, "none">>
Absent == -1
Before(k) == IF k = <<1, "invoice">> THEN Issued ELSE 0

(* does: what the transaction is; of: its shipment or ticket, as a set; key: the   *)
(* counter; read: last_number as it read it; staged: the document it inserted.     *)
NoTxn == [at |-> "idle", does |-> "nothing", of |-> {}, key |-> NoKey,
          read |-> 0, staged |-> {}]

Subjects == Shipments \cup Tickets
Document(k, n, s) == [key |-> k, number |-> n, of |-> s]
HasDocument(series, s) == \E d \in docs : d.key[2] = series /\ d.of = s

Init ==
  /\ year = 1
  /\ seq = [k \in Keys |-> IF Before(k) > 0 THEN Before(k) ELSE Absent]
  /\ rowOf = [k \in Keys |-> {}]
  /\ shipment = [s \in Shipments |-> "none"]
  /\ scanning = {}
  /\ marking = [s \in Shipments |-> {}]
  /\ refunded = {}
  /\ docs = {}
  /\ txn = [x \in Txns |-> NoTxn]
  /\ lost = [k \in Keys |-> 0]
  /\ faults = 0

(* The counter rows as the series of DocumentNumbering, which has no missing rows. *)
DN == INSTANCE DocumentNumbering
        WITH Keys <- Keys, Subjects <- Subjects, docs <- docs,
             last <- [k \in Keys |-> IF seq[k] = Absent THEN 0 ELSE seq[k]]

Goto(x, at) == txn' = [txn EXCEPT ![x].at = at]
Begin(x, at, does, s) ==
  /\ txn[x].at = "idle"
  /\ txn' = [txn EXCEPT ![x] =
       [at |-> at, does |-> does, of |-> {s},
        key |-> IF does = "ticket" THEN TicketKey ELSE NoKey, read |-> 0, staged |-> {}]]
  /\ UNCHANGED <<year, seq, rowOf, shipment, scanning, refunded, marking, docs, lost, faults>>

(* Mutant: the connection goes back to the pool inside the open transaction. *)
EndKeepingRows(x) ==
  /\ txn' = [txn EXCEPT ![x] = NoTxn]
  /\ marking' = [s \in Shipments |-> marking[s] \ {x}]
  /\ UNCHANGED rowOf

(* COMMIT or ROLLBACK ends the transaction and frees what it held. *)
End(x) ==
  /\ txn' = [txn EXCEPT ![x] = NoTxn]
  /\ rowOf' = [k \in Keys |-> rowOf[k] \ {x}]
  /\ marking' = [s \in Shipments |-> marking[s] \ {x}]

-----------------------------------------------------------------------------
(* createShipment has booked and inserted the shipment, whose order no other   *)
(* booking can have (Booking); createShipmentInvoice is next.                 *)
BeginBooking(x, s) ==
  /\ shipment[s] = "none"
  /\ \A o \in Txns : ~ (txn[o].does = "book" /\ txn[o].of = {s})
  /\ Begin(x, "date", "book", s)

(* cancelShipment has found the shipment not cancelled yet, without a lock.  *)
(* (It refuses one that was picked up, too: the model cancels more.)         *)
BeginCancel(x, s) ==
  /\ shipment[s] = "booked"
  /\ Begin(x, "mark", "cancel", s)

(* createTicket and createFromNdrEscalation. *)
BeginTicket(x, s) ==
  /\ ~ HasDocument("support_ticket", s)
  /\ \A o \in Txns : txn[o].of # {s}
  /\ Begin(x, "lock", "ticket", s)

(* The UPDATE to 'cancelled' waits for another one, and happens all the same. *)
MarkCancelled(x) ==
  /\ txn[x].at = "mark"
  /\ \A s \in txn[x].of : marking[s] = {}
  /\ marking' = [s \in Shipments |-> IF s \in txn[x].of THEN {x} ELSE marking[s]]
  /\ Goto(x, "find")
  /\ UNCHANGED <<year, seq, rowOf, shipment, scanning, refunded, docs, lost, faults>>

(* Mutant: an existing credit note is not looked for. *)
FindInvoiceOnly(x) ==
  /\ txn[x].at = "find"
  /\ Goto(x, IF \A s \in txn[x].of : HasDocument("invoice", s) THEN "date" ELSE "finish")
  /\ UNCHANGED <<year, seq, rowOf, shipment, scanning, refunded, marking, docs, lost, faults>>

(* createCancellationCreditNote: nothing to do without an invoice, or twice. *)
FindInvoice(x) ==
  /\ txn[x].at = "find"
  /\ Goto(x, IF \A s \in txn[x].of :
                  HasDocument("invoice", s) /\ ~ HasDocument("credit_note", s)
             THEN "date" ELSE "finish")
  /\ UNCHANGED <<year, seq, rowOf, shipment, scanning, refunded, marking, docs, lost, faults>>

KeyOf(does) == <<year, IF does = "book" THEN "invoice" ELSE "credit_note">>

(* The financial year of a document is that of this moment. *)
ReadYear(x) ==
  /\ txn[x].at = "date"
  /\ txn' = [txn EXCEPT ![x].at = "lock", ![x].key = KeyOf(txn[x].does)]
  /\ UNCHANGED <<year, seq, rowOf, shipment, scanning, refunded, marking, docs, lost, faults>>

(* The tenant's settings or the tax, read on another connection, cannot be had: *)
(* the invoice is given up, and the booking goes on without it.                *)
SkipInvoice(x) ==
  /\ txn[x].at = "date" /\ txn[x].does = "book"
  /\ faults < MaxFaults /\ faults' = faults + 1
  /\ Goto(x, "finish")
  /\ UNCHANGED <<year, seq, rowOf, shipment, scanning, refunded, marking, docs, lost>>

(* Mutant: SELECT without FOR UPDATE. *)
ReadSequenceUnlocked(x) ==
  LET k == txn[x].key IN
  /\ txn[x].at = "lock" /\ seq[k] # Absent
  /\ txn' = [txn EXCEPT ![x].at = "number", ![x].read = seq[k]]
  /\ UNCHANGED <<year, seq, rowOf, shipment, scanning, refunded, marking, docs, lost, faults>>

(* SELECT ... FOR UPDATE waits for the row, and then reads what was committed. *)
LockSequence(x) ==
  LET k == txn[x].key IN
  /\ txn[x].at = "lock" /\ seq[k] # Absent
  /\ rowOf[k] = {}
  /\ rowOf' = [rowOf EXCEPT ![k] = {x}]
  /\ txn' = [txn EXCEPT ![x].at = "number", ![x].read = seq[k]]
  /\ UNCHANGED <<year, seq, shipment, scanning, refunded, marking, docs, lost, faults>>

(* Mutant: the lookup never matches. *)
MissAnySequence(x) ==
  /\ txn[x].at = "lock"
  /\ Goto(x, "create")
  /\ UNCHANGED <<year, seq, rowOf, shipment, scanning, refunded, marking, docs, lost, faults>>

(* A row that is not committed is not seen, and not waited for. *)
MissSequence(x) ==
  /\ txn[x].at = "lock" /\ seq[txn[x].key] = Absent
  /\ Goto(x, "create")
  /\ UNCHANGED <<year, seq, rowOf, shipment, scanning, refunded, marking, docs, lost, faults>>

(* Mutant: without the unique index of the migration the INSERT does not wait. *)
CreateAnotherSequence(x) ==
  LET k == txn[x].key IN
  /\ txn[x].at = "create" /\ seq[k] = Absent
  /\ rowOf' = [rowOf EXCEPT ![k] = @ \cup {x}]
  /\ txn' = [txn EXCEPT ![x].at = "number", ![x].read = 0]
  /\ UNCHANGED <<year, seq, shipment, scanning, refunded, marking, docs, lost, faults>>

(* The INSERT waits for another one of the same key, which ROLLBACK may undo. *)
CreateSequence(x) ==
  LET k == txn[x].key IN
  /\ txn[x].at = "create" /\ seq[k] = Absent
  /\ rowOf[k] = {}
  /\ rowOf' = [rowOf EXCEPT ![k] = {x}]
  /\ txn' = [txn EXCEPT ![x].at = "number", ![x].read = 0]
  /\ UNCHANGED <<year, seq, shipment, scanning, refunded, marking, docs, lost, faults>>

(* Mutant: a savepoint around the document keeps the rest of the transaction. *)
GoOnWithout(x) ==
  LET k == txn[x].key IN
  /\ txn[x].at = "create" /\ seq[k] # Absent
  /\ rowOf[k] = {}
  /\ Goto(x, "finish")
  /\ UNCHANGED <<year, seq, rowOf, shipment, scanning, refunded, marking, docs, lost, faults>>

(* Or the key exists by then, and the whole transaction is aborted: catching *)
(* the error does not help, the next statement fails, and it is rolled back.  *)
LoseRace(x) ==
  LET k == txn[x].key IN
  /\ txn[x].at = "create" /\ seq[k] # Absent
  /\ rowOf[k] = {}
  /\ lost' = [lost EXCEPT ![k] = @ + 1]
  /\ End(x)
  /\ UNCHANGED <<year, seq, shipment, scanning, refunded, docs, faults>>

(* The counter is raised and the document inserted, to be seen at COMMIT. *)
IssueDocument(x) ==
  /\ txn[x].at = "number"
  /\ txn' = [txn EXCEPT ![x].at = "finish",
                        ![x].staged = {Document(txn[x].key, txn[x].read + 1, s) : s \in txn[x].of}]
  /\ UNCHANGED <<year, seq, rowOf, shipment, scanning, refunded, marking, docs, lost, faults>>

(* What a COMMIT makes of the shipment and of the money paid for it. *)
Settle(x) ==
  /\ shipment' = [s \in Shipments |->
       IF s \notin txn[x].of THEN shipment[s]
       ELSE IF txn[x].does = "book" THEN "booked" ELSE "cancelled"]
  /\ refunded' = refunded \cup (IF txn[x].does = "cancel" THEN txn[x].of ELSE {})

(* Mutant: the document is committed and its number is not. *)
CommitWithoutCounter(x) ==
  /\ txn[x].at = "finish"
  /\ docs' = docs \cup txn[x].staged
  /\ Settle(x)
  /\ End(x)
  /\ UNCHANGED <<year, seq, scanning, lost, faults>>

Commit(x) ==
  /\ txn[x].at = "finish"
  /\ docs' = docs \cup txn[x].staged
  /\ seq' = [k \in Keys |-> IF txn[x].staged # {} /\ k = txn[x].key THEN txn[x].read + 1 ELSE seq[k]]
  /\ Settle(x)
  /\ End(x)
  /\ UNCHANGED <<year, scanning, lost, faults>>

(* Any statement fails, the connection or the process is lost. *)
Rollback(x) ==
  /\ txn[x].at # "idle"
  /\ faults < MaxFaults /\ faults' = faults + 1
  /\ End(x)
  /\ UNCHANGED <<year, seq, shipment, scanning, refunded, docs, lost>>

-----------------------------------------------------------------------------
(* The other writers of shipments.status.  Each waits for the row and holds it *)
(* to its COMMIT without waiting for anything more: one action.               *)
UpdateStatus(s, new) ==
  /\ marking[s] = {}
  /\ shipment' = [shipment EXCEPT ![s] = new]
  /\ UNCHANGED <<year, seq, rowOf, marking, refunded, docs, txn, lost, faults>>

(* ingestTrackingEvents reads the status, without a lock, ... *)
ReadScan(s) ==
  /\ shipment[s] = "booked"
  /\ scanning' = scanning \cup {s}
  /\ UNCHANGED <<year, seq, rowOf, shipment, refunded, marking, docs, txn, lost, faults>>

(* ... and writes one that may follow it, "cancelled" by the courier among them, *)
(* over whatever the row holds by then.                                       *)
WriteScan(s, new) ==
  /\ s \in scanning
  /\ UpdateStatus(s, new)
  /\ scanning' = scanning \ {s}

(* A return to origin that detection or the seller begins or completes.      *)
ReturnShipment(s) ==
  /\ shipment[s] = "booked"
  /\ UpdateStatus(s, "cancelled")
  /\ UNCHANGED scanning

OtherWriter(s) ==
  \/ ReadScan(s)
  \/ \E new \in {"booked", "cancelled"} : WriteScan(s, new)
  \/ ReturnShipment(s)

(* The first of April. *)
YearEnds ==
  /\ year < MaxYears
  /\ year' = year + 1
  /\ UNCHANGED <<seq, rowOf, shipment, scanning, refunded, marking, docs, txn, lost, faults>>

Step(x) ==
  \/ MarkCancelled(x) \/ FindInvoice(x) \/ ReadYear(x)
  \/ LockSequence(x) \/ MissSequence(x) \/ CreateSequence(x) \/ LoseRace(x)
  \/ IssueDocument(x) \/ Commit(x)

Next ==
  \/ \E x \in Txns, s \in Shipments : BeginBooking(x, s) \/ BeginCancel(x, s)
  \/ \E x \in Txns, s \in Tickets : BeginTicket(x, s)
  \/ \E x \in Txns : Step(x) \/ SkipInvoice(x) \/ Rollback(x)
  \/ \E s \in Scanned : OtherWriter(s)
  \/ YearEnds

(* A statement returns, and PostgreSQL hands a row to those who wait for it in turn. *)
Fairness == \A x \in Txns : SF_vars(Step(x))

Spec == Init /\ [][Next]_vars
FairSpec == Spec /\ Fairness

-----------------------------------------------------------------------------
Transaction ==
  [at : {"idle", "mark", "find", "date", "lock", "create", "number", "finish"},
   does : {"nothing", "book", "cancel", "ticket"}, of : SUBSET Subjects,
   key : Keys \cup {NoKey}, read : Nat,
   staged : SUBSET [key : Keys, number : Nat \ {0}, of : Subjects]]

(* Types of the variables; rows are held by at most one transaction, which is open. *)
TypeOK ==
  /\ year \in Years
  /\ seq \in [Keys -> Nat \cup {Absent}]
  /\ rowOf \in [Keys -> SUBSET Txns]
  /\ shipment \in [Shipments -> Status]
  /\ scanning \subseteq Shipments
  /\ refunded \subseteq Shipments
  /\ marking \in [Shipments -> SUBSET Txns]
  /\ docs \subseteq [key : Keys, number : Nat \ {0}, of : Subjects]
  /\ txn \in [Txns -> Transaction]
  /\ lost \in [Keys -> Nat]
  /\ faults \in 0..MaxFaults
  /\ \A k \in Keys, x \in Txns, y \in Txns : x \in rowOf[k] /\ y \in rowOf[k] => x = y

(* Numbers of a series and year are consecutive from one and never given twice, *)
(* however bookings of all tenants interleave, fail and are rolled back.        *)
NumbersUnbroken ==
  \A k \in Keys :
    /\ \A d \in docs : d.key = k => d.number \in (Before(k) + 1)..seq[k]
    /\ \A n \in (Before(k) + 1)..seq[k] : \E d \in docs : d.key = k /\ d.number = n
    /\ \A d, e \in docs : d.key = k /\ e.key = k /\ d.number = e.number => d = e

(* The counter rows and documents implement the promise of DocumentNumbering: *)
(* every COMMIT gives one document the next number of its series, or none.   *)
ImplementsNumbering == DN!Spec

(* A shipment has at most one invoice and one credit note, also when it is  *)
(* cancelled twice at the same time, or once more after a late scan revived  *)
(* it; a credit note corrects an invoice, and an invoice is of a booking that *)
(* was committed.                                                           *)
DocumentsMatchShipments ==
  /\ \A d, e \in docs : d.of = e.of /\ d.key[2] = e.key[2] => d = e
  /\ \A s \in Shipments :
       /\ HasDocument("invoice", s) => shipment[s] # "none"
       /\ HasDocument("credit_note", s) => HasDocument("invoice", s)

(* Although the code catches the failure of a credit note and goes on, the   *)
(* money of an invoiced shipment is never paid back without one, and none is *)
(* written unless it is: the two commit together or not at all.              *)
RefundedIsCredited ==
  \A s \in Shipments :
    HasDocument("credit_note", s) <=> s \in refunded /\ HasDocument("invoice", s)

(* Numbering costs a booking only at the start of a series: those that are lost *)
(* to a duplicate counter row began before the first one of it committed.       *)
LostOnlyToFirstNumber == \A k \in Keys : lost[k] <= Cardinality(Txns) - 1

(* Who holds the row that the next statement of x needs. *)
WaitsFor(x) ==
  {y \in Txns :
     \/ txn[x].at = "mark" /\ \E s \in txn[x].of : y \in marking[s]
     \/ txn[x].at = "lock" /\ seq[txn[x].key] # Absent /\ y \in rowOf[txn[x].key]
     \/ txn[x].at = "create" /\ y \in rowOf[txn[x].key]}

(* However many bookings, cancellations and tickets wait for each other's      *)
(* shipment and counter rows, no two waits follow each other to a third one: a *)
(* cancellation may wait for another one, that one for a number, and whoever    *)
(* has the counter row goes on.  So they cannot deadlock.                      *)
WaitsAreShort ==
  \A x, y, z \in Txns : y \in WaitsFor(x) /\ z \in WaitsFor(y) => WaitsFor(z) = {}

(* Nobody waits for ever: wherever its transaction began to wait, it ends. *)
TransactionsEnd == \A x \in Txns : txn[x].at # "idle" ~> txn[x].at = "idle"
=============================================================================
