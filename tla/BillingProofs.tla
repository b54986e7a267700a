---------------------------- MODULE BillingProofs ----------------------------
(***************************************************************************)
(* Proofs about Billing, for any number of transactions, shipments, tickets *)
(* and financial years.                                                     *)
(*                                                                          *)
(* The argument: whoever holds a counter row read what is committed there   *)
(* (RowsHeld), so COMMIT gives the next number (Numbers); and whoever has   *)
(* the shipment's row, or is the only one to work on a new one, decided     *)
(* about its documents on what still holds (Subject).  A counter row is the *)
(* last thing a transaction waits for, so no waits close a circle           *)
(* (HoldersGoOn).                                                           *)
(***************************************************************************)
EXTENDS Billing, FiniteSetTheorems, TLAPS

SeriesOf(does) ==
  CASE does = "book"   -> "invoice"
    [] does = "cancel" -> "credit_note"
    [] OTHER           -> "support_ticket"

(* What a transaction works on, and what it has staged, at each of its steps. *)
WellFormedTxn(r) ==
  /\ r.at = "idle" => r = NoTxn
  /\ r.at # "idle" =>
       \/ r.does \in {"book", "cancel"} /\ \E s \in Shipments : r.of = {s}
       \/ r.does = "ticket" /\ \E s \in Tickets : r.of = {s}
  /\ r.at \in {"mark", "find"} => r.does = "cancel"
  /\ r.at = "date" => r.does # "ticket"
  /\ r.at # "finish" => r.staged = {}
  /\ r.at \in {"lock", "create", "number"} \/ r.staged # {} =>
       r.key \in Keys /\ r.key[2] = SeriesOf(r.does)
  /\ r.staged # {} => r.staged = {Document(r.key, r.read + 1, s) : s \in r.of}

WellFormed == TypeOK /\ \A x \in Txns : WellFormedTxn(txn[x])

-----------------------------------------------------------------------------
(* The initial state is well formed. *)
LEMMA InitWellFormed == Init => WellFormed
<1> SUFFICES ASSUME Init PROVE WellFormed
  OBVIOUS
<1>1. 1 \in Years /\ Issued \in Nat /\ MaxFaults \in Nat
  BY BillingAssumption DEF Years
<1>2. NoTxn \in Transaction /\ WellFormedTxn(NoTxn)
  BY DEF NoTxn, Transaction, WellFormedTxn
<1>3. seq \in [Keys -> Nat \cup {Absent}]
  BY <1>1 DEF Init, Before
<1> QED BY <1>1, <1>2, <1>3 DEF Init, Status, TypeOK, WellFormed

(* A transaction that goes on keeps the state well formed when it is itself. *)
LEMMA OneGoesOn ==
  ASSUME WellFormed, NEW x \in Txns, NEW r \in Transaction, WellFormedTxn(r),
         txn' = [txn EXCEPT ![x] = r],
         UNCHANGED <<year, seq, shipment, scanning, refunded, docs, lost>>, faults' \in 0..MaxFaults,
         marking' \in [Shipments -> SUBSET Txns],
         \/ UNCHANGED rowOf
         \/ \E k \in Keys : rowOf[k] = {} /\ rowOf' = [rowOf EXCEPT ![k] = {x}]
  PROVE  WellFormed'
<1>1. txn' \in [Txns -> Transaction] /\ \A y \in Txns : WellFormedTxn(txn'[y])
  BY DEF WellFormed, TypeOK
<1>2. rowOf' \in [Keys -> SUBSET Txns]
  BY DEF WellFormed, TypeOK
<1>3. \A k \in Keys, y \in Txns, z \in Txns : y \in rowOf'[k] /\ z \in rowOf'[k] => y = z
  BY DEF WellFormed, TypeOK
<1>4. TypeOK'
  BY <1>1, <1>2, <1>3 DEF WellFormed, TypeOK
<1>5. (\A y \in Txns : WellFormedTxn(txn[y]))'
  BY <1>1 DEF WellFormedTxn
<1> QED BY <1>4, <1>5 DEF WellFormed

(* So does a transaction that ends. *)
LEMMA OneEnds ==
  ASSUME WellFormed, NEW x \in Txns, End(x), UNCHANGED year,
         seq' \in [Keys -> Nat \cup {Absent}], lost' \in [Keys -> Nat],
         shipment' \in [Shipments -> Status], UNCHANGED scanning, refunded' \subseteq Shipments,
         docs' \subseteq [key : Keys, number : Nat \ {0}, of : Subjects],
         faults' \in 0..MaxFaults
  PROVE  WellFormed'
<1>1. NoTxn \in Transaction /\ WellFormedTxn(NoTxn)
  BY DEF NoTxn, Transaction, WellFormedTxn
<1>2. txn' \in [Txns -> Transaction] /\ \A y \in Txns : WellFormedTxn(txn'[y])
  BY <1>1 DEF WellFormed, TypeOK, End
<1>3. rowOf' \in [Keys -> SUBSET Txns] /\ marking' \in [Shipments -> SUBSET Txns]
  BY DEF WellFormed, TypeOK, End
<1>4. \A k \in Keys, y \in Txns, z \in Txns : y \in rowOf'[k] /\ z \in rowOf'[k] => y = z
  BY DEF WellFormed, TypeOK, End
<1>5. TypeOK'
  BY <1>2, <1>3, <1>4 DEF WellFormed, TypeOK
<1>6. (\A y \in Txns : WellFormedTxn(txn[y]))'
  BY <1>2 DEF WellFormedTxn
<1> QED BY <1>5, <1>6 DEF WellFormed

(* A transaction that begins. *)
LEMMA OneBegins ==
  ASSUME WellFormed, NEW x \in Txns, NEW s \in Subjects,
         NEW at \in {"mark", "date", "lock"}, NEW does \in {"book", "cancel", "ticket"},
         \/ does = "book" /\ at = "date" /\ s \in Shipments
         \/ does = "cancel" /\ at = "mark" /\ s \in Shipments
         \/ does = "ticket" /\ at = "lock" /\ s \in Tickets,
         Begin(x, at, does, s)
  PROVE  WellFormed'
<1> DEFINE r == [at |-> at, does |-> does, of |-> {s},
                 key |-> IF does = "ticket" THEN TicketKey ELSE NoKey, read |-> 0, staged |-> {}]
<1>1. TicketKey \in Keys /\ TicketKey[2] = "support_ticket"
  BY DEF TicketKey, Keys
<1>2. (IF does = "ticket" THEN TicketKey ELSE NoKey) \in Keys \cup {NoKey}
  BY <1>1
<1>3. r \in Transaction
  BY <1>2 DEF Transaction
<1>4. WellFormedTxn(r)
  BY <1>1 DEF WellFormedTxn, SeriesOf
<1>5. txn' = [txn EXCEPT ![x] = r]
  BY DEF Begin
<1>6. /\ UNCHANGED <<year, seq, shipment, scanning, refunded, docs, lost, rowOf>>
      /\ faults' \in 0..MaxFaults /\ marking' \in [Shipments -> SUBSET Txns]
  BY DEF Begin, WellFormed, TypeOK
<1> HIDE DEF r
<1> QED BY <1>3, <1>4, <1>5, <1>6, OneGoesOn

(* A transaction that only moves to its next step. *)
LEMMA OneMoves ==
  ASSUME WellFormed, NEW x \in Txns, NEW at, Goto(x, at),
         \/ txn[x].at = "mark" /\ at = "find"
         \/ txn[x].at = "find" /\ at \in {"date", "finish"}
         \/ txn[x].at = "date" /\ at = "finish"
         \/ txn[x].at = "lock" /\ at = "create",
         UNCHANGED <<year, seq, rowOf, shipment, scanning, refunded, docs, lost>>,
         faults' \in 0..MaxFaults, marking' \in [Shipments -> SUBSET Txns]
  PROVE  WellFormed'
<1> DEFINE r == [txn[x] EXCEPT !.at = at]
<1>1. txn[x] \in Transaction /\ WellFormedTxn(txn[x])
  BY DEF WellFormed, TypeOK
<1>2. r \in Transaction
  BY <1>1 DEF Transaction
<1>3. WellFormedTxn(r)
  BY <1>1 DEF WellFormedTxn, Transaction
<1>4. txn' = [txn EXCEPT ![x] = r]
  BY DEF Goto
<1> HIDE DEF r
<1> QED BY <1>2, <1>3, <1>4, OneGoesOn

(* The other writers of a shipment's status touch nothing else that matters here, *)
(* and no shipment that was not booked.                                          *)
LEMMA OthersWrite ==
  ASSUME WellFormed, NEW s \in Scanned, OtherWriter(s)
  PROVE  /\ UNCHANGED <<year, seq, rowOf, marking, refunded, docs, txn, lost, faults>>
         /\ s \in Shipments
         /\ shipment[s] = "booked" \/ s \in scanning
         /\ \/ UNCHANGED shipment
            \/ \E new \in {"booked", "cancelled"} : shipment' = [shipment EXCEPT ![s] = new]
         /\ scanning' \subseteq scanning \cup {s}
BY BillingAssumption
DEF OtherWriter, ReadScan, WriteScan, ReturnShipment, UpdateStatus, WellFormed, TypeOK

(* Every step keeps the state well formed. *)
LEMMA StepWellFormed == WellFormed /\ [Next]_vars => WellFormed'
<1> SUFFICES ASSUME WellFormed, [Next]_vars PROVE WellFormed'
  OBVIOUS
<1>t. /\ faults \in 0..MaxFaults /\ marking \in [Shipments -> SUBSET Txns]
      /\ \A x \in Txns : txn[x] \in Transaction /\ WellFormedTxn(txn[x])
  BY DEF WellFormed, TypeOK
<1>1. ASSUME NEW x \in Txns, NEW s \in Shipments, BeginBooking(x, s) PROVE WellFormed'
  BY <1>1, OneBegins DEF BeginBooking, Subjects
<1>2. ASSUME NEW x \in Txns, NEW s \in Shipments, BeginCancel(x, s) PROVE WellFormed'
  BY <1>2, OneBegins DEF BeginCancel, Subjects
<1>3. ASSUME NEW x \in Txns, NEW s \in Tickets, BeginTicket(x, s) PROVE WellFormed'
  BY <1>3, OneBegins DEF BeginTicket, Subjects
<1>4. ASSUME NEW x \in Txns, MarkCancelled(x) PROVE WellFormed'
  <2>1. marking' \in [Shipments -> SUBSET Txns]
    BY <1>4, <1>t DEF MarkCancelled
  <2> QED BY <1>4, <1>t, <2>1, OneMoves DEF MarkCancelled
<1>5. ASSUME NEW x \in Txns, FindInvoice(x) PROVE WellFormed'
  BY <1>5, <1>t, OneMoves DEF FindInvoice
<1>6. ASSUME NEW x \in Txns, ReadYear(x) PROVE WellFormed'
  <2> DEFINE r == [txn[x] EXCEPT !.at = "lock", !.key = KeyOf(txn[x].does)]
  <2>1. txn[x].at = "date" /\ txn[x].does \in {"book", "cancel"}
    BY <1>6, <1>t DEF ReadYear, WellFormedTxn
  <2>2. KeyOf(txn[x].does) \in Keys /\ KeyOf(txn[x].does)[2] = SeriesOf(txn[x].does)
    BY <2>1 DEF KeyOf, Keys, Series, SeriesOf, WellFormed, TypeOK
  <2>3. r \in Transaction
    BY <1>t, <2>2 DEF Transaction
  <2>4. WellFormedTxn(r)
    BY <1>t, <2>1, <2>2 DEF WellFormedTxn, Transaction
  <2>5. txn' = [txn EXCEPT ![x] = r]
    BY <1>6 DEF ReadYear
  <2> HIDE DEF r
  <2> QED BY <1>6, <1>t, <2>3, <2>4, <2>5, OneGoesOn DEF ReadYear
<1>7. ASSUME NEW x \in Txns, SkipInvoice(x) PROVE WellFormed'
  <2>1. faults' \in 0..MaxFaults
    BY <1>7, <1>t, BillingAssumption DEF SkipInvoice
  <2> QED BY <1>7, <1>t, <2>1, OneMoves DEF SkipInvoice
<1>8. ASSUME NEW x \in Txns, LockSequence(x) \/ CreateSequence(x) PROVE WellFormed'
  <2> DEFINE k == txn[x].key
             last == IF LockSequence(x) THEN seq[k] ELSE 0
             r == [txn[x] EXCEPT !.at = "number", !.read = last]
  <2>1. txn[x].at \in {"lock", "create"} /\ k \in Keys
    BY <1>8, <1>t DEF LockSequence, CreateSequence, WellFormedTxn
  <2>2. last \in Nat
    BY <1>8, <2>1 DEF LockSequence, WellFormed, TypeOK
  <2>3. txn' = [txn EXCEPT ![x] = r] /\ rowOf[k] = {} /\ rowOf' = [rowOf EXCEPT ![k] = {x}]
    BY <1>8 DEF LockSequence, CreateSequence
  <2> HIDE DEF last
  <2>4. r \in Transaction
    BY <1>t, <2>2 DEF Transaction
  <2>5. WellFormedTxn(r)
    BY <1>t, <2>1 DEF WellFormedTxn, Transaction
  <2> HIDE DEF r
  <2> QED BY <1>8, <1>t, <2>1, <2>3, <2>4, <2>5, OneGoesOn DEF LockSequence, CreateSequence
<1>9. ASSUME NEW x \in Txns, MissSequence(x) PROVE WellFormed'
  BY <1>9, <1>t, OneMoves DEF MissSequence
<1>10. ASSUME NEW x \in Txns, LoseRace(x) PROVE WellFormed'
  <2>1. txn[x].key \in Keys
    BY <1>10, <1>t DEF LoseRace, WellFormedTxn
  <2>2. lost' \in [Keys -> Nat]
    BY <1>10, <2>1 DEF LoseRace, WellFormed, TypeOK
  <2> QED BY <1>10, <2>2, OneEnds DEF LoseRace, WellFormed, TypeOK
<1>11. ASSUME NEW x \in Txns, IssueDocument(x) PROVE WellFormed'
  <2> DEFINE new == {Document(txn[x].key, txn[x].read + 1, s) : s \in txn[x].of}
             r == [txn[x] EXCEPT !.at = "finish", !.staged = new]
  <2>1. txn[x].at = "number" /\ txn[x].key \in Keys /\ txn[x].key[2] = SeriesOf(txn[x].does)
    BY <1>11, <1>t DEF IssueDocument, WellFormedTxn
  <2>2. new \subseteq [key : Keys, number : Nat \ {0}, of : Subjects]
    BY <1>t, <2>1 DEF Transaction, Document
  <2>3. r \in Transaction
    BY <1>t, <2>2 DEF Transaction
  <2>4. /\ r.at = "finish" /\ r.does = txn[x].does /\ r.of = txn[x].of
        /\ r.key = txn[x].key /\ r.read = txn[x].read /\ r.staged = new
    BY <1>t DEF Transaction
  <2>5. WellFormedTxn(r)
    BY <1>t, <2>1, <2>4 DEF WellFormedTxn
  <2>6. txn' = [txn EXCEPT ![x] = r]
    BY <1>11 DEF IssueDocument
  <2> HIDE DEF r
  <2> QED BY <1>11, <1>t, <2>3, <2>5, <2>6, OneGoesOn DEF IssueDocument
<1>12. ASSUME NEW x \in Txns, Commit(x) PROVE WellFormed'
  <2>1. txn[x].staged \subseteq [key : Keys, number : Nat \ {0}, of : Subjects] /\ txn[x].read + 1 \in Nat
    BY <1>t DEF Transaction
  <2>2. seq' \in [Keys -> Nat \cup {Absent}]
    BY <1>12, <2>1 DEF Commit, WellFormed, TypeOK
  <2>3. shipment' \in [Shipments -> Status]
    BY <1>12 DEF Commit, Settle, Status, WellFormed, TypeOK
  <2>4. refunded' \subseteq Shipments
    BY <1>12, <1>t DEF Commit, Settle, WellFormed, TypeOK, WellFormedTxn
  <2> QED BY <1>12, <2>1, <2>2, <2>3, <2>4, OneEnds DEF Commit, WellFormed, TypeOK
<1>13. ASSUME NEW x \in Txns, Rollback(x) PROVE WellFormed'
  <2>1. faults' \in 0..MaxFaults
    BY <1>13, <1>t, BillingAssumption DEF Rollback
  <2> QED BY <1>13, <2>1, OneEnds DEF Rollback, WellFormed, TypeOK
<1>14. CASE YearEnds
  <2>1. year' \in Years
    BY <1>14, BillingAssumption DEF YearEnds, Years, WellFormed, TypeOK
  <2> QED BY <1>14, <2>1 DEF YearEnds, WellFormed, TypeOK, WellFormedTxn
<1>15. CASE UNCHANGED vars
  BY <1>15 DEF vars, WellFormed, TypeOK, WellFormedTxn
<1>16. ASSUME NEW s \in Scanned, OtherWriter(s) PROVE WellFormed'
  <2>1. shipment' \in [Shipments -> Status] /\ scanning' \subseteq Shipments
    BY <1>16, OthersWrite DEF Status, WellFormed, TypeOK
  <2> QED BY <1>16, <2>1, OthersWrite DEF WellFormed, TypeOK, WellFormedTxn
<1> QED
  BY <1>1, <1>2, <1>3, <1>4, <1>5, <1>6, <1>7, <1>8, <1>9, <1>10, <1>11, <1>12, <1>13, <1>14,
     <1>15, <1>16
  DEF Next, Step

(* TypeOK: the types, and that no two transactions hold the same counter row. *)
THEOREM TypeCorrect == Spec => []TypeOK
<1>1. WellFormed => TypeOK
  BY DEF WellFormed
<1> QED BY <1>1, InitWellFormed, StepWellFormed, PTL DEF Spec

-----------------------------------------------------------------------------
(* The last number given, as DocumentNumbering counts. *)
LastNumber(k) == IF seq[k] = Absent THEN 0 ELSE seq[k]

(* Who is about to number, or has numbered, a document holds the counter row,  *)
(* and the committed row still is as it was read.                             *)
RowsHeld ==
  \A x \in Txns :
    txn[x].at = "number" \/ txn[x].staged # {} =>
      x \in rowOf[txn[x].key] /\ txn[x].read = LastNumber(txn[x].key)

SeriesBegun == \A k \in Keys : Before(k) <= LastNumber(k)

Numbered == RowsHeld /\ SeriesBegun /\ NumbersUnbroken

(* What COMMIT does to documents and counters: nothing, or the next number. *)
LEMMA CommitIssues ==
  ASSUME WellFormed, RowsHeld, NEW x \in Txns, Commit(x), NEW k, k = txn[x].key
  PROVE  \/ txn[x].staged = {} /\ UNCHANGED <<seq, docs>>
         \/ \E s \in Subjects :
              /\ txn[x].staged # {} /\ x \in rowOf[k] /\ k \in Keys /\ txn[x].of = {s}
              /\ k[2] = SeriesOf(txn[x].does)
              /\ docs' = docs \cup {Document(k, LastNumber(k) + 1, s)}
              /\ seq' = [seq EXCEPT ![k] = LastNumber(k) + 1]
<1>1. CASE txn[x].staged = {}
  <2>1. seq' = [j \in Keys |-> seq[j]] /\ docs' = docs
    BY <1>1 DEF Commit
  <2> QED BY <1>1, <2>1 DEF WellFormed, TypeOK
<1>2. CASE txn[x].staged # {}
  <2>1. /\ k \in Keys /\ k[2] = SeriesOf(txn[x].does)
        /\ txn[x].staged = {Document(k, txn[x].read + 1, s) : s \in txn[x].of}
        /\ x \in rowOf[k] /\ txn[x].read = LastNumber(k)
    BY <1>2 DEF WellFormed, WellFormedTxn, RowsHeld
  <2>2. PICK s \in Subjects : txn[x].of = {s}
    BY <1>2 DEF WellFormed, WellFormedTxn, NoTxn, Subjects
  <2>3. txn[x].staged = {Document(k, LastNumber(k) + 1, s)}
    BY <2>1, <2>2
  <2>4. docs' = docs \cup {Document(k, LastNumber(k) + 1, s)}
    BY <2>3 DEF Commit
  <2>5. seq' = [j \in Keys |-> IF j = k THEN LastNumber(k) + 1 ELSE seq[j]]
    BY <1>2, <2>1 DEF Commit
  <2>6. seq' = [seq EXCEPT ![k] = LastNumber(k) + 1]
    BY <2>1, <2>5 DEF WellFormed, TypeOK
  <2> QED BY <1>2, <2>1, <2>2, <2>4, <2>6
<1> QED BY <1>1, <1>2

(* The counter rows stay locked by those who read them. *)
LEMMA RowsStayHeld == WellFormed /\ RowsHeld /\ [Next]_vars => RowsHeld'
<1> SUFFICES ASSUME WellFormed, RowsHeld, [Next]_vars PROVE RowsHeld'
  OBVIOUS
<1>t. /\ rowOf \in [Keys -> SUBSET Txns] /\ txn \in [Txns -> Transaction]
      /\ seq \in [Keys -> Nat \cup {Absent}]
      /\ \A k \in Keys, y \in Txns, z \in Txns : y \in rowOf[k] /\ z \in rowOf[k] => y = z
      /\ \A y \in Txns :
           /\ WellFormedTxn(txn[y])
           /\ txn[y].at = "number" \/ txn[y].staged # {} => txn[y].key \in Keys
  BY DEF WellFormed, TypeOK, WellFormedTxn
<1>1. ASSUME UNCHANGED <<seq, rowOf>>, NEW x \in Txns, NEW r,
             r.at # "number", r.staged = {}, txn' = [txn EXCEPT ![x] = r]
      PROVE  RowsHeld'
  BY <1>1, <1>t DEF RowsHeld, LastNumber
<1>2. ASSUME UNCHANGED <<seq, rowOf>>, NEW x \in Txns, NEW at, Goto(x, at),
             at # "number", txn[x].at # "finish"
      PROVE  RowsHeld'
  <2> DEFINE r == [txn[x] EXCEPT !.at = at]
  <2>1. r.at # "number" /\ r.staged = {} /\ txn' = [txn EXCEPT ![x] = r]
    BY <1>2, <1>t DEF Goto, Transaction, WellFormedTxn
  <2> HIDE DEF r
  <2> QED BY <1>1, <1>2, <2>1
<1>3. ASSUME NEW x \in Txns, End(x), UNCHANGED seq PROVE RowsHeld'
  BY <1>3, <1>t DEF End, RowsHeld, LastNumber, NoTxn
<1>4. ASSUME NEW x \in Txns, NEW s, NEW at \in {"mark", "date", "lock"}, NEW does, Begin(x, at, does, s)
      PROVE  RowsHeld'
  BY <1>4, <1>t DEF Begin, RowsHeld, LastNumber
<1>5. ASSUME NEW x \in Txns, ReadYear(x) PROVE RowsHeld'
  <2> DEFINE r == [txn[x] EXCEPT !.at = "lock", !.key = KeyOf(txn[x].does)]
  <2>1. r.at # "number" /\ r.staged = {} /\ txn' = [txn EXCEPT ![x] = r]
    BY <1>5, <1>t DEF ReadYear, Transaction, WellFormedTxn
  <2> HIDE DEF r
  <2> QED BY <1>1, <1>5, <2>1 DEF ReadYear
<1>6. ASSUME NEW x \in Txns, LockSequence(x) \/ CreateSequence(x) PROVE RowsHeld'
  <2> DEFINE k == txn[x].key
  <2>1. k \in Keys /\ rowOf[k] = {} /\ rowOf' = [rowOf EXCEPT ![k] = {x}] /\ seq' = seq
    BY <1>6, <1>t DEF LockSequence, CreateSequence, WellFormedTxn
  <2>2. txn' = [txn EXCEPT ![x] = [txn[x] EXCEPT !.at = "number", !.read = LastNumber(k)]]
    BY <1>6 DEF LockSequence, CreateSequence, LastNumber
  <2>3. txn'[x].key = k /\ txn'[x].read = LastNumber(k) /\ \A y \in Txns \ {x} : txn'[y] = txn[y]
    BY <2>2, <1>t DEF Transaction
  <2>4. x \in rowOf'[k] /\ \A j \in Keys : rowOf[j] # {} => rowOf'[j] = rowOf[j]
    BY <2>1, <1>t
  <2>5. \A j : LastNumber(j)' = LastNumber(j)
    BY <2>1 DEF LastNumber
  <2> HIDE DEF k
  <2> QED BY <2>1, <2>3, <2>4, <2>5, <1>t DEF RowsHeld
<1>7. ASSUME NEW x \in Txns, IssueDocument(x) PROVE RowsHeld'
  <2>1. /\ txn'[x].key = txn[x].key /\ txn'[x].read = txn[x].read
        /\ \A y \in Txns \ {x} : txn'[y] = txn[y]
    BY <1>7, <1>t DEF IssueDocument, Transaction
  <2> QED BY <1>7, <2>1, <1>t DEF IssueDocument, RowsHeld, LastNumber
<1>8. ASSUME NEW x \in Txns, Commit(x) PROVE RowsHeld'
  <2> DEFINE k == txn[x].key
  <2>1. \/ UNCHANGED seq
        \/ x \in rowOf[k] /\ k \in Keys /\ seq' = [seq EXCEPT ![k] = LastNumber(k) + 1]
    BY <1>8, CommitIssues
  <2>2. CASE UNCHANGED seq
    BY <1>8, <1>3, <2>2 DEF Commit
  <2>3. CASE x \in rowOf[k] /\ k \in Keys /\ seq' = [seq EXCEPT ![k] = LastNumber(k) + 1]
    <3>1. txn'[x] = NoTxn /\ \A y \in Txns \ {x} : txn'[y] = txn[y]
      BY <1>8, <1>t DEF Commit, End
    <3>2. \A y \in Txns \ {x}, j \in Keys : y \in rowOf[j] => y \in rowOf'[j] /\ j # k
      BY <1>8, <1>t, <2>3 DEF Commit, End
    <3>3. \A j \in Keys \ {k} : LastNumber(j)' = LastNumber(j)
      BY <2>3, <1>t DEF LastNumber
    <3> QED BY <3>1, <3>2, <3>3, <1>t DEF RowsHeld, NoTxn
  <2> QED BY <2>1, <2>2, <2>3
<1>9. CASE YearEnds \/ UNCHANGED vars
  BY <1>9 DEF YearEnds, vars, RowsHeld, LastNumber
<1>10. ASSUME NEW x \in Txns,
              MarkCancelled(x) \/ FindInvoice(x) \/ SkipInvoice(x) \/ MissSequence(x)
       PROVE  RowsHeld'
  BY <1>10, <1>2 DEF MarkCancelled, FindInvoice, SkipInvoice, MissSequence
<1>11. ASSUME NEW x \in Txns, LoseRace(x) \/ Rollback(x) PROVE RowsHeld'
  BY <1>11, <1>3 DEF LoseRace, Rollback
<1>12. ASSUME NEW x \in Txns, NEW s \in Subjects,
              BeginBooking(x, s) \/ BeginCancel(x, s) \/ BeginTicket(x, s)
       PROVE  RowsHeld'
  BY <1>12, <1>4 DEF BeginBooking, BeginCancel, BeginTicket
<1>13. ASSUME NEW s \in Scanned, OtherWriter(s) PROVE RowsHeld'
  <2>1. UNCHANGED <<seq, rowOf, txn>>
    BY <1>13, OthersWrite
  <2> QED BY <2>1 DEF RowsHeld, LastNumber
<1> QED
  BY <1>5, <1>6, <1>7, <1>8, <1>9, <1>10, <1>11, <1>12, <1>13 DEF Next, Step, Subjects

(* The documents and counters change only at COMMIT. *)
LEMMA OnlyCommitIssues ==
  ASSUME [Next]_vars
  PROVE  UNCHANGED <<seq, docs>> \/ \E x \in Txns : Commit(x)
BY DEF Next, Step, vars, BeginBooking, BeginCancel, BeginTicket, Begin, MarkCancelled, FindInvoice,
       ReadYear, SkipInvoice, LockSequence, MissSequence, CreateSequence, LoseRace, IssueDocument,
       Rollback, YearEnds, OtherWriter, ReadScan, WriteScan, ReturnShipment, UpdateStatus

LEMMA InitNumbered == Init => Numbered
<1> SUFFICES ASSUME Init PROVE Numbered
  OBVIOUS
<1>1. RowsHeld
  BY DEF Init, RowsHeld, NoTxn
<1>2. \A k \in Keys : Before(k) \in Nat /\ LastNumber(k) = Before(k) /\ seq[k] <= Before(k) /\ seq[k] \in Int
  BY BillingAssumption DEF Init, Before, LastNumber, Absent
<1>3. SeriesBegun
  BY <1>2 DEF SeriesBegun
<1>4. NumbersUnbroken
  BY <1>2 DEF Init, NumbersUnbroken
<1> QED BY <1>1, <1>3, <1>4 DEF Numbered

(* A document with the next number of its series leaves no gap and no duplicate. *)
LEMMA NextNumberFits ==
  ASSUME WellFormed, Numbered, NEW k \in Keys, NEW s \in Subjects,
         docs' = docs \cup {Document(k, LastNumber(k) + 1, s)},
         seq' = [seq EXCEPT ![k] = LastNumber(k) + 1]
  PROVE  SeriesBegun' /\ NumbersUnbroken'
<1> DEFINE n == LastNumber(k) + 1
           new == Document(k, n, s)
<1>1. \A j \in Keys : /\ Before(j) \in Nat /\ LastNumber(j) \in Nat /\ Before(j) <= LastNumber(j)
                      /\ seq[j] \in Int /\ (seq[j] = LastNumber(j) \/ (seq[j] = -1 /\ LastNumber(j) = 0))
  BY BillingAssumption DEF Before, LastNumber, Absent, WellFormed, TypeOK, Numbered, SeriesBegun
<1>2. \A j \in Keys : seq'[j] = IF j = k THEN n ELSE seq[j]
  BY DEF WellFormed, TypeOK
<1>3. \A j \in Keys : LastNumber(j)' = IF j = k THEN n ELSE LastNumber(j)
  BY <1>1, <1>2 DEF LastNumber, Absent
<1>4. SeriesBegun'
  BY <1>1, <1>3 DEF SeriesBegun, Before
<1>5. new.key = k /\ new.number = n /\ new \in docs' /\ n \in Nat
  BY <1>1 DEF Document
<1>6. ASSUME NEW j \in Keys
      PROVE  /\ \A d \in docs : d.key = j => d.number \in (Before(j) + 1)..LastNumber(j)
             /\ \A i \in (Before(j) + 1)..LastNumber(j) : \E d \in docs : d.key = j /\ d.number = i
             /\ \A d, e \in docs : d.key = j /\ e.key = j /\ d.number = e.number => d = e
  BY <1>1, <1>6 DEF Numbered, NumbersUnbroken
<1> HIDE DEF n, new
<1>7. ASSUME NEW j \in Keys, j # k
      PROVE  /\ \A d \in docs' : d.key = j => d.number \in (Before(j) + 1)..seq'[j]
             /\ \A i \in (Before(j) + 1)..seq'[j] : \E d \in docs' : d.key = j /\ d.number = i
             /\ \A d, e \in docs' : d.key = j /\ e.key = j /\ d.number = e.number => d = e
  BY <1>1, <1>2, <1>5, <1>6, <1>7 DEF n, new
<1>8. /\ \A d \in docs' : d.key = k => d.number \in (Before(k) + 1)..n
      /\ \A i \in (Before(k) + 1)..n : \E d \in docs' : d.key = k /\ d.number = i
      /\ \A d, e \in docs' : d.key = k /\ e.key = k /\ d.number = e.number => d = e
  <2>1. \A d \in docs' : d \in docs \/ d = new
    BY DEF new, n
  <2>2. LastNumber(k) \in Nat /\ Before(k) \in Nat /\ Before(k) <= LastNumber(k) /\ n = LastNumber(k) + 1
    BY <1>1 DEF n
  <2>3. \A d \in docs : d.key = k => d.number \in Int /\ d.number < n /\ d.number > Before(k)
    BY <1>6, <2>2
  <2>4. \A i \in (Before(k) + 1)..n : i = n \/ i \in (Before(k) + 1)..LastNumber(k)
    BY <2>2
  <2>5. \A i \in (Before(k) + 1)..n : \E d \in docs' : d.key = k /\ d.number = i
    BY <2>4, <1>5, <1>6
  <2>6. \A d \in docs' : d.key = k => d.number \in (Before(k) + 1)..n
    BY <1>5, <2>1, <2>2, <2>3
  <2>7. \A d, e \in docs' : d.key = k /\ e.key = k /\ d.number = e.number => d = e
    BY <1>5, <1>6, <2>1, <2>2, <2>3
  <2> QED BY <2>5, <2>6, <2>7
<1>9. NumbersUnbroken'
  BY <1>2, <1>7, <1>8 DEF NumbersUnbroken, Before
<1> QED BY <1>4, <1>9

LEMMA StepNumbered == WellFormed /\ Numbered /\ [Next]_vars => Numbered'
<1> SUFFICES ASSUME WellFormed, Numbered, [Next]_vars PROVE Numbered'
  OBVIOUS
<1>1. RowsHeld'
  BY RowsStayHeld DEF Numbered
<1>2. CASE UNCHANGED <<seq, docs>>
  BY <1>1, <1>2 DEF Numbered, SeriesBegun, NumbersUnbroken, LastNumber, Before
<1>3. ASSUME NEW x \in Txns, Commit(x) PROVE Numbered'
  <2>1. CASE \E s \in Subjects, k \in Keys :
               /\ docs' = docs \cup {Document(k, LastNumber(k) + 1, s)}
               /\ seq' = [seq EXCEPT ![k] = LastNumber(k) + 1]
    BY <1>1, <2>1, NextNumberFits DEF Numbered
  <2> QED BY <1>2, <1>3, <2>1, CommitIssues DEF Numbered
<1> QED BY <1>2, <1>3, OnlyCommitIssues

(* NumbersUnbroken: no series has a gap or gives a number twice. *)
THEOREM NumbersAreUnbroken == Spec => []NumbersUnbroken
<1>1. Numbered => NumbersUnbroken
  BY DEF Numbered
<1> QED
  BY <1>1, InitWellFormed, StepWellFormed, InitNumbered, StepNumbered, PTL DEF Spec

(* ImplementsNumbering: the counter rows, read, raised and committed by        *)
(* transactions, implement the numbering in one step of DocumentNumbering.     *)
THEOREM NumberingImplemented == Spec => ImplementsNumbering
<1>1. Init => DN!Init
  BY BillingAssumption DEF Init, DN!Init, Before, Absent
<1>2. WellFormed /\ Numbered /\ [Next]_vars
        => [DN!Next]_<<[k \in Keys |-> IF seq[k] = Absent THEN 0 ELSE seq[k]], docs>>
  <2> SUFFICES ASSUME WellFormed, Numbered, [Next]_vars
               PROVE  [DN!Next]_<<[k \in Keys |-> IF seq[k] = Absent THEN 0 ELSE seq[k]], docs>>
    OBVIOUS
  <2> DEFINE last == [k \in Keys |-> IF seq[k] = Absent THEN 0 ELSE seq[k]]
  <2>1. CASE UNCHANGED <<seq, docs>>
    BY <2>1
  <2>2. ASSUME NEW s \in Subjects, NEW k \in Keys,
               docs' = docs \cup {Document(k, LastNumber(k) + 1, s)},
               seq' = [seq EXCEPT ![k] = LastNumber(k) + 1]
        PROVE  DN!Next
    <3>1. LastNumber(k) \in Nat /\ last[k] = LastNumber(k)
      BY DEF LastNumber, WellFormed, TypeOK, Absent
    <3>2. \A j \in Keys : last'[j] = IF j = k THEN LastNumber(k) + 1 ELSE last[j]
      BY <2>2, <3>1 DEF WellFormed, TypeOK, Absent
    <3>3. last' = [last EXCEPT ![k] = last[k] + 1]
      BY <3>1, <3>2
    <3>4. docs' = docs \cup {[key |-> k, number |-> last[k] + 1, of |-> s]}
      BY <2>2, <3>1 DEF Document
    <3>5. DN!Issue(k, s)
      BY <3>3, <3>4 DEF DN!Issue
    <3> QED BY <3>5 DEF DN!Next
  <2>3. ASSUME NEW x \in Txns, Commit(x)
        PROVE  UNCHANGED <<seq, docs>> \/ DN!Next
    BY <2>2, <2>3, CommitIssues DEF Numbered
  <2> QED BY <2>1, <2>3, OnlyCommitIssues
<1> QED
  BY <1>1, <1>2, InitWellFormed, StepWellFormed, InitNumbered, StepNumbered, PTL
  DEF Spec, ImplementsNumbering, DN!Spec

-----------------------------------------------------------------------------
(* What transaction x, as r describes it, may rely on about the shipment or *)
(* ticket it works on, until it ends.                                       *)
Fits(x, r) ==
  \A s \in Subjects : r.of = {s} =>
    /\ r.does = "book" => shipment[s] = "none"
    /\ r.does = "ticket" => ~ HasDocument("support_ticket", s)
    /\ r.does = "cancel" =>
         /\ shipment[s] # "none"
         /\ r.at # "mark" => x \in marking[s]
         /\ r.at \in {"date", "lock", "create", "number"} \/ r.staged # {} =>
              HasDocument("invoice", s) /\ ~ HasDocument("credit_note", s)
         /\ r.at = "finish" /\ r.staged = {} =>
              HasDocument("credit_note", s) \/ ~ HasDocument("invoice", s)

(* One transaction at a time updates a shipment; two may mean to cancel it. *)
Alone ==
  /\ \A s \in Shipments, x, y \in Txns : x \in marking[s] /\ y \in marking[s] => x = y
  /\ \A x, y \in Txns : x # y /\ txn[x].of = txn[y].of /\ txn[x].of # {} =>
       txn[x].does = "cancel" /\ txn[y].does = "cancel"

(* Only a shipment that was booked is scanned or paid back. *)
AfterBooking == \A s \in scanning \cup refunded : shipment[s] # "none"

Documented ==
  /\ \A x \in Txns : Fits(x, txn[x])
  /\ Alone
  /\ DocumentsMatchShipments
  /\ RefundedIsCredited
  /\ AfterBooking

LEMMA InitDocumented == Init => Documented
BY DEF Init, Documented, Fits, Alone, NoTxn, DocumentsMatchShipments, RefundedIsCredited,
       AfterBooking, HasDocument

(* As long as nothing is committed, only what x relies on has to be shown. *)
LEMMA OthersStillFit ==
  ASSUME WellFormed, Documented, UNCHANGED <<shipment, scanning, refunded, docs>>,
         NEW x \in Txns, NEW r,
         txn' = [txn EXCEPT ![x] = r], Fits(x, r)',
         r.of = {} \/ (r.of = txn[x].of /\ r.does = txn[x].does),
         \/ UNCHANGED marking
         \/ \E s \in Shipments : marking[s] = {} /\ marking' = [marking EXCEPT ![s] = {x}]
         \/ marking' = [s \in Shipments |-> marking[s] \ {x}]
  PROVE  Documented'
<1>1. DocumentsMatchShipments' /\ RefundedIsCredited' /\ AfterBooking'
  BY DEF Documented, DocumentsMatchShipments, RefundedIsCredited, AfterBooking, HasDocument
<1>2. marking \in [Shipments -> SUBSET Txns] /\ txn \in [Txns -> Transaction]
  BY DEF WellFormed, TypeOK
<1>3. Alone'
  BY <1>2 DEF Documented, Alone
<1>4. ASSUME NEW y \in Txns \ {x} PROVE Fits(y, txn[y])'
  <2>1. Fits(y, txn[y]) /\ txn'[y] = txn[y]
    BY <1>2 DEF Documented
  <2>2. \A s \in Shipments : y \in marking[s] => y \in marking'[s]
    BY <1>2
  <2>3. ASSUME NEW s \in Subjects, txn[y].of = {s}, txn[y].does = "cancel" PROVE s \in Shipments
    BY <2>3 DEF WellFormed, WellFormedTxn, NoTxn
  <2> QED BY <2>1, <2>2, <2>3 DEF Fits, HasDocument
<1>5. Fits(x, txn[x])'
  BY <1>2
<1> QED BY <1>1, <1>3, <1>4, <1>5 DEF Documented

LEMMA EndsDocumented ==
  ASSUME WellFormed, Documented, UNCHANGED <<shipment, scanning, refunded, docs>>,
         NEW x \in Txns, End(x)
  PROVE  Documented'
<1>1. Fits(x, NoTxn)'
  BY DEF Fits, NoTxn
<1> QED BY <1>1, OthersStillFit DEF End, NoTxn

(* A transaction begins on what nobody else works on, or to cancel. *)
LEMMA BeginsDocumented ==
  ASSUME WellFormed, Documented, NEW x \in Txns, NEW s \in Subjects,
         NEW at \in {"mark", "date", "lock"}, NEW does \in {"book", "cancel", "ticket"},
         Begin(x, at, does, s),
         does = "book" => s \in Shipments /\ shipment[s] = "none",
         does = "cancel" => s \in Shipments /\ shipment[s] # "none" /\ at = "mark",
         does = "ticket" => s \in Tickets /\ ~ HasDocument("support_ticket", s),
         \A y \in Txns : txn[y].of = {s} => does = "cancel" /\ txn[y].does = "cancel"
  PROVE  Documented'
<1> DEFINE r == [at |-> at, does |-> does, of |-> {s},
                 key |-> IF does = "ticket" THEN TicketKey ELSE NoKey, read |-> 0, staged |-> {}]
<1>1. UNCHANGED <<shipment, scanning, refunded, docs, marking>> /\ txn' = [txn EXCEPT ![x] = r]
  BY DEF Begin
<1>2. DocumentsMatchShipments' /\ RefundedIsCredited' /\ AfterBooking'
  BY <1>1 DEF Documented, DocumentsMatchShipments, RefundedIsCredited, AfterBooking, HasDocument
<1>3. txn \in [Txns -> Transaction] /\ txn'[x] = r /\ \A y \in Txns \ {x} : txn'[y] = txn[y]
  BY <1>1 DEF WellFormed, TypeOK
<1>4. Alone'
  BY <1>1, <1>3 DEF Documented, Alone
<1>5. Fits(x, txn[x])'
  BY <1>1, <1>3 DEF Fits, HasDocument
<1>6. ASSUME NEW y \in Txns \ {x} PROVE Fits(y, txn[y])'
  BY <1>1, <1>3 DEF Documented, Fits, HasDocument
<1> QED BY <1>2, <1>4, <1>5, <1>6 DEF Documented

LEMMA OneSubject ==
  ASSUME WellFormed, NEW x \in Txns, txn[x].at # "idle"
  PROVE  \E s \in Subjects :
           /\ txn[x].of = {s}
           /\ txn[x].does \in {"book", "cancel"} => s \in Shipments
           /\ txn[x].does = "ticket" => s \in Tickets
BY DEF WellFormed, WellFormedTxn, Subjects

(* COMMIT of a transaction that relied on what still holds. *)
LEMMA CommitDocumented ==
  ASSUME WellFormed, RowsHeld, Documented, NEW x \in Txns, Commit(x)
  PROVE  Documented'
<1>1. PICK s \in Subjects : /\ txn[x].of = {s}
                            /\ txn[x].does \in {"book", "cancel"} => s \in Shipments
                            /\ txn[x].does = "ticket" => s \in Tickets
  BY OneSubject DEF Commit
<1>d. txn[x].does \in {"book", "cancel", "ticket"}
  BY DEF Commit, WellFormed, WellFormedTxn
<1>2. /\ txn' = [txn EXCEPT ![x] = NoTxn] /\ txn \in [Txns -> Transaction]
      /\ marking' = [j \in Shipments |-> marking[j] \ {x}]
      /\ shipment' = [j \in Shipments |->
           IF j # s THEN shipment[j]
           ELSE IF txn[x].does = "book" THEN "booked" ELSE "cancelled"]
      /\ refunded' = refunded \cup (IF txn[x].does = "cancel" THEN {s} ELSE {})
      /\ scanning' = scanning
  BY <1>1 DEF Commit, Settle, End, WellFormed, TypeOK
<1>3. /\ txn'[x] = NoTxn /\ \A y \in Txns \ {x} : txn'[y] = txn[y]
      /\ \A j \in Shipments, y \in Txns \ {x} : y \in marking[j] => y \in marking'[j]
  BY <1>2
<1>4. docs \subseteq docs' /\ \A d \in docs' \ docs :
        d.of = s /\ d.key[2] = SeriesOf(txn[x].does) /\ txn[x].staged # {}
  BY <1>1, CommitIssues DEF Document
<1>5. \A d, e \in docs' \ docs : d = e
  <2>1. PICK new : \A d \in docs' : d \in docs \/ d = new
    BY CommitIssues
  <2>2. \A d \in docs' \ docs : d = new
    BY <2>1
  <2> QED BY <2>2
<1>6. txn[x].staged # {} => \E d \in docs' : d.of = s /\ d.key[2] = SeriesOf(txn[x].does)
  <2> HAVE txn[x].staged # {}
  <2>1. PICK k, j : /\ txn[x].of = {j} /\ k[2] = SeriesOf(txn[x].does)
                    /\ docs' = docs \cup {Document(k, LastNumber(k) + 1, j)}
    BY CommitIssues
  <2>2. Document(k, LastNumber(k) + 1, j) \in docs' /\ j = s
    BY <1>1, <2>1
  <2> QED BY <2>1, <2>2 DEF Document
<1>7. Fits(x, txn[x]) /\ txn[x].at = "finish"
  BY DEF Documented, Commit
<1>8. \A j \in Subjects : \A series : j # s \/ series # SeriesOf(txn[x].does)
        => HasDocument(series, j)' = HasDocument(series, j)
  BY <1>4 DEF HasDocument
<1>9. txn[x].staged # {} => ~ HasDocument(SeriesOf(txn[x].does), s)
  <2>1. CASE txn[x].does = "book"
    BY <1>1, <1>7, <2>1 DEF Fits, SeriesOf, Documented, DocumentsMatchShipments
  <2>2. CASE txn[x].does \in {"cancel", "ticket"}
    BY <1>1, <1>7, <2>2 DEF Fits, SeriesOf
  <2> QED BY <1>d, <2>1, <2>2
<1>10. Alone'
  BY <1>2, <1>3 DEF Documented, Alone, NoTxn
<1>11. \A d, e \in docs' : d.of = e.of /\ d.key[2] = e.key[2] => d = e
  BY <1>4, <1>5, <1>9 DEF Documented, DocumentsMatchShipments, HasDocument
<1>12. ASSUME NEW j \in Shipments
       PROVE  /\ HasDocument("invoice", j)' => shipment'[j] # "none"
              /\ HasDocument("credit_note", j)' => HasDocument("invoice", j)'
              /\ HasDocument("credit_note", j)' <=> j \in refunded' /\ HasDocument("invoice", j)'
  <2>1. j \in Subjects
    BY DEF Subjects
  <2>2. CASE j # s
    <3>1. /\ \A series : HasDocument(series, j)' = HasDocument(series, j)
          /\ shipment'[j] = shipment[j]
          /\ j \in refunded' <=> j \in refunded
      BY <1>2, <1>8, <2>1, <2>2
    <3> QED BY <3>1 DEF Documented, DocumentsMatchShipments, RefundedIsCredited
  <2>3. CASE j = s /\ txn[x].does = "book"
    <3>1. shipment[j] = "none" /\ shipment'[j] = "booked" /\ refunded' = refunded
      BY <1>1, <1>2, <1>7, <2>1, <2>3 DEF Fits
    <3>2. j \notin refunded /\ ~ HasDocument("invoice", j) /\ ~ HasDocument("credit_note", j)
      BY <3>1 DEF Documented, DocumentsMatchShipments, AfterBooking
    <3>3. ~ HasDocument("credit_note", j)'
      BY <1>8, <2>1, <2>3, <3>2 DEF SeriesOf
    <3> QED BY <3>1, <3>2, <3>3
  <2>4. CASE j = s /\ txn[x].does = "cancel"
    <3>1. shipment'[j] = "cancelled" /\ j \in refunded'
      BY <1>2, <2>4
    <3>2. HasDocument("invoice", j)' = HasDocument("invoice", j)
      BY <1>8, <2>1, <2>4 DEF SeriesOf
    <3>3. txn[x].staged # {} => HasDocument("invoice", j) /\ HasDocument("credit_note", j)'
      BY <1>1, <1>6, <1>7, <2>1, <2>4 DEF Fits, SeriesOf, HasDocument
    <3>4. txn[x].staged = {} => docs' = docs
      BY CommitIssues
    <3>5. txn[x].staged = {} => (HasDocument("credit_note", j)' <=> HasDocument("invoice", j))
      <4>1. HasDocument("credit_note", j) => HasDocument("invoice", j)
        BY DEF Documented, DocumentsMatchShipments
      <4> QED BY <1>1, <1>7, <2>1, <2>4, <3>4, <4>1 DEF Fits, HasDocument
    <3> QED BY <3>1, <3>2, <3>3, <3>5
  <2> QED BY <1>1, <1>d, <2>2, <2>3, <2>4, BillingAssumption
<1>13. ASSUME NEW y \in Txns \ {x} PROVE Fits(y, txn[y])'
  <2> SUFFICES ASSUME NEW j \in Subjects, txn[y].of = {j} PROVE Fits(y, txn[y])'
    BY <1>3 DEF Fits
  <2>1. Fits(y, txn[y]) /\ (txn[y].does \in {"book", "cancel"} => j \in Shipments)
    BY DEF Documented, WellFormed, WellFormedTxn, NoTxn
  <2>2. CASE j # s
    <3>1. \A series : HasDocument(series, j)' = HasDocument(series, j)
      BY <1>8, <2>2
    <3>2. j \in Shipments => shipment'[j] = shipment[j]
      BY <1>2, <2>2
    <3> QED BY <1>3, <2>1, <3>1, <3>2 DEF Fits
  <2>3. CASE j = s
    <3>1. txn[x].does = "cancel" /\ txn[y].does = "cancel"
      BY <1>1, <2>3 DEF Documented, Alone
    <3>2. txn[y].at = "mark"
      BY <1>1, <1>7, <2>1, <2>3, <3>1 DEF Fits, Documented, Alone
    <3>3. txn[y].staged = {} /\ shipment'[j] # "none"
      BY <1>1, <1>2, <2>3, <3>1, <3>2 DEF WellFormed, WellFormedTxn
    <3> QED BY <1>3, <2>3, <3>1, <3>2, <3>3 DEF Fits
  <2> QED BY <2>2, <2>3
<1>14. Fits(x, txn[x])'
  BY <1>3 DEF Fits, NoTxn
<1>15. DocumentsMatchShipments' /\ RefundedIsCredited'
  BY <1>11, <1>12 DEF DocumentsMatchShipments, RefundedIsCredited
<1>16. AfterBooking'
  <2>1. txn[x].does = "cancel" => shipment'[s] = "cancelled" /\ s \in Shipments
    BY <1>1, <1>2
  <2>2. \A j \in Shipments : shipment[j] # "none" => shipment'[j] # "none"
    BY <1>2
  <2>3. scanning \cup refunded \subseteq Shipments
    BY DEF WellFormed, TypeOK
  <2> QED BY <1>2, <2>1, <2>2, <2>3 DEF Documented, AfterBooking
<1> QED BY <1>10, <1>13, <1>14, <1>15, <1>16 DEF Documented

(* A scan or a return changes only the status, and nobody works on that of a *)
(* shipment that is not booked yet.                                          *)
LEMMA OthersDocumented ==
  ASSUME WellFormed, Documented, NEW s \in Scanned, OtherWriter(s)
  PROVE  Documented'
<1>1. /\ UNCHANGED <<marking, refunded, docs, txn>> /\ scanning' \subseteq scanning \cup {s}
      /\ s \in Shipments /\ shipment[s] # "none"
      /\ \A j \in Shipments : shipment'[j] = "none" <=> shipment[j] = "none"
  BY OthersWrite DEF Documented, AfterBooking, WellFormed, TypeOK
<1>2. Alone' /\ DocumentsMatchShipments' /\ RefundedIsCredited'
  BY <1>1 DEF Documented, Alone, DocumentsMatchShipments, RefundedIsCredited, HasDocument
<1>3. AfterBooking'
  BY <1>1 DEF Documented, AfterBooking, WellFormed, TypeOK
<1>4. ASSUME NEW x \in Txns PROVE Fits(x, txn[x])'
  <2>1. Fits(x, txn[x])
    BY DEF Documented
  <2>2. \A j : txn[x].of = {j} /\ txn[x].does \in {"book", "cancel"} => j \in Shipments
    BY DEF WellFormed, WellFormedTxn, NoTxn
  <2> QED BY <1>1, <2>1, <2>2 DEF Fits, HasDocument
<1> QED BY <1>2, <1>3, <1>4 DEF Documented

LEMMA StepDocumented == WellFormed /\ RowsHeld /\ Documented /\ [Next]_vars => Documented'
<1> SUFFICES ASSUME WellFormed, RowsHeld, Documented, [Next]_vars PROVE Documented'
  OBVIOUS
<1>t. \A x \in Txns : txn[x] \in Transaction /\ WellFormedTxn(txn[x]) /\ Fits(x, txn[x])
  BY DEF WellFormed, TypeOK, Documented
<1>1. ASSUME NEW x \in Txns, NEW s \in Shipments, BeginBooking(x, s) PROVE Documented'
  <2>1. \A y \in Txns : txn[y].of # {s}
    <3> SUFFICES ASSUME NEW y \in Txns, txn[y].of = {s} PROVE FALSE
      OBVIOUS
    <3>1. txn[y].does \in {"book", "cancel"}
      BY <1>t, BillingAssumption DEF WellFormedTxn, NoTxn
    <3>2. txn[y].does = "cancel" => shipment[s] # "none"
      BY <1>t DEF Fits, Subjects
    <3> QED BY <1>1, <3>1, <3>2 DEF BeginBooking
  <2> QED BY <1>1, <2>1, BeginsDocumented DEF BeginBooking, Subjects
<1>2. ASSUME NEW x \in Txns, NEW s \in Shipments, BeginCancel(x, s) PROVE Documented'
  <2>1. ASSUME NEW y \in Txns, txn[y].of = {s} PROVE txn[y].does = "cancel"
    <3>1. txn[y].does \in {"book", "cancel"}
      BY <1>t, <2>1, BillingAssumption DEF WellFormedTxn, NoTxn
    <3>2. txn[y].does = "book" => shipment[s] = "none"
      BY <1>t, <2>1 DEF Fits, Subjects
    <3> QED BY <1>2, <3>1, <3>2 DEF BeginCancel
  <2> QED BY <1>2, <2>1, BeginsDocumented DEF BeginCancel, Subjects
<1>3. ASSUME NEW x \in Txns, NEW s \in Tickets, BeginTicket(x, s) PROVE Documented'
  BY <1>3, BeginsDocumented DEF BeginTicket, Subjects
<1>4. ASSUME NEW x \in Txns, MarkCancelled(x) PROVE Documented'
  <2>1. PICK s \in Shipments : txn[x].of = {s} /\ txn[x].does = "cancel"
    BY <1>4, <1>t DEF MarkCancelled, WellFormedTxn
  <2>2. marking[s] = {} /\ marking' = [marking EXCEPT ![s] = {x}]
    BY <1>4, <2>1 DEF MarkCancelled, WellFormed, TypeOK
  <2>r. PICK r : r = [txn[x] EXCEPT !.at = "find"]
    OBVIOUS
  <2>3. /\ r.of = txn[x].of /\ r.does = txn[x].does /\ r.at = "find" /\ r.staged = {}
        /\ txn' = [txn EXCEPT ![x] = r] /\ UNCHANGED <<shipment, scanning, refunded, docs>>
    BY <1>4, <1>t, <2>r DEF MarkCancelled, Goto, Transaction, WellFormedTxn
  <2>4. x \in marking'[s]
    BY <2>2 DEF WellFormed, TypeOK
  <2>5. Fits(x, r)'
    BY <1>t, <2>1, <2>3, <2>4 DEF Fits
  <2> QED BY <2>2, <2>3, <2>5, OthersStillFit
<1>5. ASSUME NEW x \in Txns, FindInvoice(x) PROVE Documented'
  <2>1. PICK s \in Shipments : txn[x].of = {s} /\ txn[x].does = "cancel" /\ s \in Subjects
    BY <1>5, <1>t DEF FindInvoice, WellFormedTxn, Subjects
  <2>r. PICK r : r = [txn[x] EXCEPT !.at = IF \A j \in txn[x].of :
                        HasDocument("invoice", j) /\ ~ HasDocument("credit_note", j)
                      THEN "date" ELSE "finish"]
    OBVIOUS
  <2>2. /\ r.of = txn[x].of /\ r.does = txn[x].does /\ r.staged = {}
        /\ r.at = IF HasDocument("invoice", s) /\ ~ HasDocument("credit_note", s)
                  THEN "date" ELSE "finish"
    BY <1>5, <1>t, <2>1, <2>r DEF FindInvoice, Transaction, WellFormedTxn
  <2>3. txn' = [txn EXCEPT ![x] = r] /\ UNCHANGED <<shipment, scanning, refunded, docs, marking>>
    BY <1>5, <2>r DEF FindInvoice, Goto
  <2>4. x \in marking[s] /\ shipment[s] # "none"
    BY <1>5, <1>t, <2>1 DEF FindInvoice, Fits
  <2>5. Fits(x, r)'
    BY <2>1, <2>2, <2>3, <2>4 DEF Fits, HasDocument
  <2> QED BY <2>2, <2>3, <2>5, OthersStillFit
<1>6. ASSUME NEW x \in Txns, NEW r,
             txn' = [txn EXCEPT ![x] = r], UNCHANGED <<shipment, scanning, refunded, docs, marking>>,
             r.of = txn[x].of, r.does = txn[x].does,
             \/ /\ r.at \in {"lock", "create", "number"} /\ r.staged = {}
                /\ txn[x].at \in {"date", "lock", "create"}
             \/ r.at = "finish" /\ r.staged # {} /\ txn[x].at = "number"
             \/ r.at = "finish" /\ r.does = "book"
      PROVE  Documented'
  <2>1. Fits(x, txn[x])
    BY <1>t
  <2>2. Fits(x, r)'
    BY <1>6, <2>1 DEF Fits, HasDocument
  <2> QED BY <1>6, <2>2, OthersStillFit
<1>7. ASSUME NEW x \in Txns, ReadYear(x) PROVE Documented'
  <2>1. PICK r : r = [txn[x] EXCEPT !.at = "lock", !.key = KeyOf(txn[x].does)]
    OBVIOUS
  <2>2. r.of = txn[x].of /\ r.does = txn[x].does /\ r.at = "lock" /\ r.staged = {}
    BY <1>7, <1>t, <2>1 DEF ReadYear, Transaction, WellFormedTxn
  <2>3. txn' = [txn EXCEPT ![x] = r] /\ UNCHANGED <<shipment, scanning, refunded, docs, marking>>
    BY <1>7, <2>1 DEF ReadYear
  <2>4. txn[x].at = "date"
    BY <1>7 DEF ReadYear
  <2> QED BY <1>6, <2>2, <2>3, <2>4
<1>8. ASSUME NEW x \in Txns, SkipInvoice(x) PROVE Documented'
  <2>1. PICK r : r = [txn[x] EXCEPT !.at = "finish"]
    OBVIOUS
  <2>2. r.of = txn[x].of /\ r.does = "book" /\ txn[x].does = "book" /\ r.at = "finish"
    BY <1>8, <1>t, <2>1 DEF SkipInvoice, Transaction
  <2> QED BY <1>6, <1>8, <2>1, <2>2 DEF SkipInvoice, Goto
<1>9. ASSUME NEW x \in Txns, LockSequence(x) \/ CreateSequence(x) PROVE Documented'
  <2>1. PICK r : r = [txn[x] EXCEPT !.at = "number",
                                    !.read = IF LockSequence(x) THEN seq[txn[x].key] ELSE 0]
    OBVIOUS
  <2>2. /\ r.of = txn[x].of /\ r.does = txn[x].does /\ r.at = "number" /\ r.staged = {}
        /\ txn[x].at \in {"lock", "create"}
    BY <1>9, <1>t, <2>1 DEF LockSequence, CreateSequence, Transaction, WellFormedTxn
  <2>3. txn' = [txn EXCEPT ![x] = r] /\ UNCHANGED <<shipment, scanning, refunded, docs, marking>>
    BY <1>9, <2>1 DEF LockSequence, CreateSequence
  <2> QED BY <1>6, <2>2, <2>3
<1>10. ASSUME NEW x \in Txns, MissSequence(x) PROVE Documented'
  <2>1. PICK r : r = [txn[x] EXCEPT !.at = "create"]
    OBVIOUS
  <2>2. r.of = txn[x].of /\ r.does = txn[x].does /\ r.at = "create" /\ r.staged = {}
    BY <1>10, <1>t, <2>1 DEF MissSequence, Transaction, WellFormedTxn
  <2> QED BY <1>6, <1>10, <2>1, <2>2 DEF MissSequence, Goto
<1>11. ASSUME NEW x \in Txns, IssueDocument(x) PROVE Documented'
  <2> DEFINE new == {Document(txn[x].key, txn[x].read + 1, s) : s \in txn[x].of}
  <2>1. PICK r : r = [txn[x] EXCEPT !.at = "finish", !.staged = new]
    OBVIOUS
  <2>2. new # {}
    BY <1>11, OneSubject DEF IssueDocument
  <2>3. txn' = [txn EXCEPT ![x] = r] /\ UNCHANGED <<shipment, scanning, refunded, docs, marking>>
    BY <1>11, <2>1 DEF IssueDocument
  <2> HIDE DEF new
  <2>4. r.of = txn[x].of /\ r.does = txn[x].does /\ r.at = "finish" /\ r.staged = new
    BY <1>t, <2>1 DEF Transaction
  <2> QED BY <1>6, <1>11, <2>2, <2>3, <2>4 DEF IssueDocument
<1>12. ASSUME NEW x \in Txns, LoseRace(x) \/ Rollback(x) PROVE Documented'
  BY <1>12, EndsDocumented DEF LoseRace, Rollback
<1>13. CASE YearEnds \/ UNCHANGED vars
  BY <1>13 DEF YearEnds, vars, Documented, Fits, Alone, DocumentsMatchShipments,
               RefundedIsCredited, AfterBooking, HasDocument
<1> QED
  BY <1>1, <1>2, <1>3, <1>4, <1>5, <1>7, <1>8, <1>9, <1>10, <1>11, <1>12, <1>13, CommitDocumented,
     OthersDocumented
  DEF Next, Step

(* DocumentsMatchShipments: one invoice and one credit note at most, however the  *)
(* shipment is booked, cancelled, revived by a late scan and cancelled again.     *)
THEOREM DocumentsMatch == Spec => []DocumentsMatchShipments
<1>1. Numbered => RowsHeld
  BY DEF Numbered
<1>2. Documented => DocumentsMatchShipments
  BY DEF Documented
<1> QED
  BY <1>1, <1>2, InitWellFormed, StepWellFormed, InitNumbered, StepNumbered,
     InitDocumented, StepDocumented, PTL DEF Spec

(* RefundedIsCredited: the money of an invoiced shipment is paid back with a credit *)
(* note, and a credit note is written for nothing else.                             *)
THEOREM RefundsAreCredited == Spec => []RefundedIsCredited
<1>1. Numbered => RowsHeld
  BY DEF Numbered
<1>2. Documented => RefundedIsCredited
  BY DEF Documented
<1> QED
  BY <1>1, <1>2, InitWellFormed, StepWellFormed, InitNumbered, StepNumbered,
     InitDocumented, StepDocumented, PTL DEF Spec

-----------------------------------------------------------------------------
(* Once the row of a series is committed, no transaction misses it any more: those *)
(* that lost their race for it and those that still may are others than its writer. *)
Creating(k) == {x \in Txns : txn[x].at = "create" /\ txn[x].key = k}
LatecomersBounded(k) ==
  IF seq[k] = Absent THEN lost[k] = 0
                     ELSE lost[k] + Cardinality(Creating(k)) <= Cardinality(Txns) - 1
Latecomers == \A k \in Keys : LatecomersBounded(k)

LEMMA CreatingCount ==
  ASSUME NEW k
  PROVE  /\ IsFiniteSet(Creating(k)) /\ Cardinality(Creating(k)) \in Nat
         /\ Cardinality(Txns) \in Nat /\ Cardinality(Txns) >= 1
<1>1. Creating(k) \subseteq Txns
  BY DEF Creating
<1>2. IsFiniteSet(Txns) /\ Txns # {}
  BY BillingAssumption
<1>3. Cardinality(Txns) \in Nat /\ Cardinality(Txns) # 0
  BY <1>2, FS_CardinalityType, FS_EmptySet
<1> QED BY <1>1, <1>2, <1>3, FS_Subset, FS_CardinalityType

LEMMA NoNewCreator ==
  ASSUME NEW x \in Txns, txn'[x].at # "create", \A y \in Txns : y # x => txn'[y] = txn[y]
  PROVE  \A k \in Keys : Creating(k)' \subseteq Creating(k) \ {x}
BY DEF Creating

(* A series whose counter stays as it is. *)
LEMMA SeriesAlone ==
  ASSUME WellFormed, NEW k \in Keys, LatecomersBounded(k), seq'[k] = seq[k], lost'[k] = lost[k],
         seq[k] = Absent \/ Creating(k)' \subseteq Creating(k)
  PROVE  LatecomersBounded(k)'
<1> DEFINE before == Cardinality(Creating(k))
           after == Cardinality(Creating(k)')
           n == Cardinality(Txns)
<1>1. lost[k] \in Nat /\ before \in Nat /\ n \in Nat
  BY CreatingCount DEF WellFormed, TypeOK
<1>2. Creating(k)' \subseteq Creating(k) => after \in Nat /\ after <= before
  BY CreatingCount, FS_Subset, FS_CardinalityType
<1>3. IF seq[k] = Absent THEN lost[k] = 0 ELSE lost[k] + before <= n - 1
  BY DEF LatecomersBounded
<1>4. LatecomersBounded(k)' <=> IF seq[k] = Absent THEN lost[k] = 0 ELSE lost[k] + after <= n - 1
  BY DEF LatecomersBounded, Absent
<1> HIDE DEF before, after, n
<1> QED BY <1>1, <1>2, <1>3, <1>4

LEMMA NoRaceStep ==
  ASSUME WellFormed, Latecomers, UNCHANGED <<seq, lost>>,
         \A k \in Keys : Creating(k)' \subseteq Creating(k)
  PROVE  Latecomers'
BY SeriesAlone DEF Latecomers

(* The COMMIT that makes the row appear is that of none of the latecomers. *)
LEMMA CommitLatecomers ==
  ASSUME WellFormed, Latecomers, NEW x \in Txns, Commit(x)
  PROVE  Latecomers'
<1>1. /\ txn'[x].at # "create" /\ \A y \in Txns : y # x => txn'[y] = txn[y]
      /\ lost' = lost
  BY DEF Commit, End, NoTxn, WellFormed, TypeOK
<1>2. \A k \in Keys : Creating(k)' \subseteq Creating(k) \ {x}
  BY <1>1, NoNewCreator
<1>3. ASSUME NEW k \in Keys PROVE LatecomersBounded(k)'
  <2>1. CASE seq'[k] = seq[k]
    BY <1>1, <1>2, <2>1, SeriesAlone DEF Latecomers
  <2>2. CASE seq'[k] # seq[k]
    <3>1. seq'[k] = txn[x].read + 1 /\ txn[x].read \in Nat
      BY <2>2 DEF Commit, WellFormed, TypeOK, Transaction
    <3>2. CASE seq[k] = Absent
      <4>1. Creating(k)' \subseteq Txns \ {x}
        BY <1>1 DEF Creating
      <4>2. IsFiniteSet(Txns \ {x}) /\ Cardinality(Txns \ {x}) = Cardinality(Txns) - 1
        BY BillingAssumption, FS_RemoveElement
      <4>3. Cardinality(Creating(k)') <= Cardinality(Txns) - 1
        BY <4>1, <4>2, FS_Subset
      <4>4. lost[k] = 0
        BY <3>2 DEF Latecomers, LatecomersBounded
      <4>5. Cardinality(Creating(k)') \in Nat
        BY <4>1, <4>2, FS_Subset, FS_CardinalityType
      <4>6. seq'[k] # Absent
        BY <3>1 DEF Absent
      <4>7. lost'[k] + Cardinality(Creating(k)') <= Cardinality(Txns) - 1
        BY <1>1, <4>3, <4>4, <4>5, CreatingCount
      <4> QED BY <4>6, <4>7 DEF LatecomersBounded, Absent
    <3>3. CASE seq[k] # Absent
      <4> DEFINE before == Cardinality(Creating(k))
                 after == Cardinality(Creating(k)')
                 n == Cardinality(Txns)
      <4>1. lost[k] \in Nat /\ before \in Nat /\ n \in Nat
        BY CreatingCount DEF WellFormed, TypeOK
      <4>2. after \in Nat /\ after <= before
        BY <1>2, CreatingCount, FS_Subset, FS_CardinalityType
      <4>3. lost[k] + before <= n - 1
        BY <3>3 DEF Latecomers, LatecomersBounded
      <4>4. LatecomersBounded(k)' <=> lost[k] + after <= n - 1
        BY <1>1, <3>1 DEF LatecomersBounded, Absent
      <4> HIDE DEF before, after, n
      <4> QED BY <4>1, <4>2, <4>3, <4>4
    <3> QED BY <3>2, <3>3
  <2> QED BY <2>1, <2>2
<1> QED BY <1>3 DEF Latecomers

LEMMA LoseRaceLatecomers ==
  ASSUME WellFormed, Latecomers, NEW x \in Txns, LoseRace(x)
  PROVE  Latecomers'
<1>1. PICK k \in Keys : k = txn[x].key
  BY DEF LoseRace, WellFormed, WellFormedTxn
<1>2. /\ txn'[x].at # "create" /\ \A y \in Txns : y # x => txn'[y] = txn[y]
      /\ lost' = [lost EXCEPT ![k] = @ + 1] /\ seq' = seq /\ seq[k] # Absent
      /\ txn[x].at = "create"
  BY <1>1 DEF LoseRace, End, NoTxn, WellFormed, TypeOK
<1>3. ASSUME NEW j \in Keys, j # k PROVE LatecomersBounded(j)'
  BY <1>2, <1>3, NoNewCreator, SeriesAlone DEF Latecomers, WellFormed, TypeOK
<1>4. LatecomersBounded(k)'
  <2> DEFINE before == Cardinality(Creating(k))
             n == Cardinality(Txns)
  <2>1. lost[k] \in Nat /\ before \in Nat /\ n \in Nat
    BY CreatingCount DEF WellFormed, TypeOK
  <2>2. Cardinality(Creating(k)') = before - 1
    <3>1. Creating(k)' = Creating(k) \ {x} /\ x \in Creating(k)
      BY <1>1, <1>2 DEF Creating
    <3> QED BY <3>1, CreatingCount, FS_RemoveElement
  <2>3. lost[k] + before <= n - 1
    BY <1>2 DEF Latecomers, LatecomersBounded
  <2>4. lost'[k] = lost[k] + 1 /\ seq'[k] # Absent
    BY <1>2 DEF WellFormed, TypeOK
  <2>5. LatecomersBounded(k)' <=> lost[k] + 1 + (before - 1) <= n - 1
    BY <2>2, <2>4 DEF LatecomersBounded, Absent
  <2> HIDE DEF before, n
  <2> QED BY <2>1, <2>3, <2>5
<1> QED BY <1>3, <1>4 DEF Latecomers

LEMMA StepLatecomers == WellFormed /\ Latecomers /\ [Next]_vars => Latecomers'
<1> SUFFICES ASSUME WellFormed, Latecomers, [Next]_vars PROVE Latecomers'
  OBVIOUS
<1>t. \A x \in Txns : txn[x] \in Transaction
  BY DEF WellFormed, TypeOK
<1>1. ASSUME NEW x \in Txns, txn'[x].at # "create", \A y \in Txns : y # x => txn'[y] = txn[y],
             UNCHANGED <<seq, lost>>
      PROVE  Latecomers'
  BY <1>1, NoNewCreator, NoRaceStep
<1>2. ASSUME NEW x \in Txns, NEW s \in Subjects, NEW at \in {"mark", "date", "lock"}, NEW does,
             Begin(x, at, does, s)
      PROVE  Latecomers'
  <2>1. txn'[x].at = at /\ \A y \in Txns : y # x => txn'[y] = txn[y]
    BY <1>2 DEF Begin, WellFormed, TypeOK
  <2> QED BY <1>1, <1>2, <2>1 DEF Begin
<1>3. ASSUME NEW x \in Txns,
             \/ MarkCancelled(x) \/ FindInvoice(x) \/ ReadYear(x) \/ SkipInvoice(x)
             \/ LockSequence(x) \/ CreateSequence(x) \/ IssueDocument(x)
      PROVE  Latecomers'
  <2>1. UNCHANGED <<seq, lost>>
    BY <1>3 DEF MarkCancelled, FindInvoice, ReadYear, SkipInvoice, LockSequence, CreateSequence,
                IssueDocument
  <2>2. txn'[x].at # "create" /\ \A y \in Txns : y # x => txn'[y] = txn[y]
    <3>1. CASE MarkCancelled(x) \/ FindInvoice(x) \/ SkipInvoice(x)
      BY <1>t, <3>1 DEF MarkCancelled, FindInvoice, SkipInvoice, Goto, Transaction, WellFormed, TypeOK
    <3>2. CASE ReadYear(x)
      BY <1>t, <3>2 DEF ReadYear, Transaction, WellFormed, TypeOK
    <3>3. CASE LockSequence(x) \/ CreateSequence(x)
      BY <1>t, <3>3 DEF LockSequence, CreateSequence, Transaction, WellFormed, TypeOK
    <3>4. CASE IssueDocument(x)
      BY <1>t, <3>4 DEF IssueDocument, Transaction, WellFormed, TypeOK
    <3> QED BY <1>3, <3>1, <3>2, <3>3, <3>4
  <2> QED BY <1>1, <2>1, <2>2
<1>4. ASSUME NEW x \in Txns, MissSequence(x) PROVE Latecomers'
  <2>1. /\ seq[txn[x].key] = Absent /\ UNCHANGED <<seq, lost>>
        /\ txn' = [txn EXCEPT ![x].at = "create"]
    BY <1>4 DEF MissSequence, Goto
  <2>2. \A k \in Keys : k # txn[x].key => Creating(k)' \subseteq Creating(k)
    BY <1>t, <2>1 DEF Creating, WellFormed, TypeOK, Transaction
  <2> QED BY <2>1, <2>2, SeriesAlone DEF Latecomers
<1>5. ASSUME NEW x \in Txns, Rollback(x) PROVE Latecomers'
  BY <1>1, <1>5 DEF Rollback, End, NoTxn, WellFormed, TypeOK
<1>6. CASE YearEnds \/ UNCHANGED vars
  BY <1>6, NoRaceStep DEF YearEnds, vars, Creating
<1>9. ASSUME NEW s \in Scanned, OtherWriter(s) PROVE Latecomers'
  <2>1. UNCHANGED <<seq, lost, txn>>
    BY <1>9, OthersWrite
  <2> QED BY <2>1, NoRaceStep DEF Creating
<1>7. ASSUME NEW x \in Txns, NEW s \in Shipments, BeginBooking(x, s) \/ BeginCancel(x, s)
      PROVE  Latecomers'
  BY <1>2, <1>7 DEF BeginBooking, BeginCancel, Subjects
<1>8. ASSUME NEW x \in Txns, NEW s \in Tickets, BeginTicket(x, s) PROVE Latecomers'
  BY <1>2, <1>8 DEF BeginTicket, Subjects
<1> QED
  BY <1>3, <1>4, <1>5, <1>6, <1>7, <1>8, <1>9, CommitLatecomers, LoseRaceLatecomers DEF Next, Step

(* LostOnlyToFirstNumber: a booking or cancellation is lost to the numbering only *)
(* while the first document of its series is committed, however long the series.  *)
THEOREM LostToFirstNumber == Spec => []LostOnlyToFirstNumber
<1>1. Init => Latecomers
  <2> SUFFICES ASSUME Init, NEW k \in Keys PROVE LatecomersBounded(k)
    BY DEF Latecomers
  <2>1. Creating(k) = {} /\ lost[k] = 0
    BY DEF Init, Creating, NoTxn
  <2>2. Cardinality(Creating(k)) = 0
    BY <2>1, FS_EmptySet
  <2> QED BY <2>1, <2>2, CreatingCount DEF LatecomersBounded
<1>2. WellFormed /\ Latecomers => LostOnlyToFirstNumber
  <2> SUFFICES ASSUME WellFormed, Latecomers, NEW k \in Keys PROVE lost[k] <= Cardinality(Txns) - 1
    BY DEF LostOnlyToFirstNumber
  <2>1. lost[k] \in Nat
    BY DEF WellFormed, TypeOK
  <2> QED BY <2>1, CreatingCount DEF Latecomers, LatecomersBounded
<1>3. QED
  BY <1>1, <1>2, InitWellFormed, StepWellFormed, StepLatecomers, PTL DEF Spec

-----------------------------------------------------------------------------
(* WaitsAreShort: who holds a counter row is past its last wait, and who holds *)
(* a shipment's row waits for a counter row at most.                         *)
PastWaits == {"number", "finish"}
Marked == {"find", "date", "lock", "create"} \cup PastWaits
HoldersGoOn ==
  /\ \A k \in Keys : \A y \in rowOf[k] : txn[y].at \in PastWaits
  /\ \A s \in Shipments : \A y \in marking[s] : txn[y].at \in Marked

(* A transaction that takes no row, or one that it holds past its waits. *)
LEMMA OneHolds ==
  ASSUME WellFormed, HoldersGoOn, NEW x \in Txns,
         \A y \in Txns : y # x => txn'[y] = txn[y],
         \A k \in Keys : x \in rowOf'[k] => txn'[x].at \in PastWaits,
         \A s \in Shipments : x \in marking'[s] => txn'[x].at \in Marked,
         \A k \in Keys : rowOf'[k] \subseteq rowOf[k] \cup {x},
         \A s \in Shipments : marking'[s] \subseteq marking[s] \cup {x}
  PROVE  HoldersGoOn'
<1>1. ASSUME NEW k \in Keys, NEW y \in rowOf'[k] PROVE txn'[y].at \in PastWaits
  <2>1. y \in rowOf[k] \cup {x} /\ y \in Txns
    BY <1>1 DEF WellFormed, TypeOK
  <2> QED BY <1>1, <2>1 DEF HoldersGoOn
<1>2. ASSUME NEW s \in Shipments, NEW y \in marking'[s] PROVE txn'[y].at \in Marked
  <2>1. y \in marking[s] \cup {x} /\ y \in Txns
    BY <1>2 DEF WellFormed, TypeOK
  <2> QED BY <1>2, <2>1 DEF HoldersGoOn
<1> QED BY <1>1, <1>2 DEF HoldersGoOn

LEMMA StepHolders == WellFormed /\ HoldersGoOn /\ [Next]_vars => HoldersGoOn'
<1> SUFFICES ASSUME WellFormed, HoldersGoOn, [Next]_vars PROVE HoldersGoOn'
  OBVIOUS
<1>t. /\ \A x \in Txns : txn[x] \in Transaction /\ WellFormedTxn(txn[x])
      /\ txn \in [Txns -> Transaction]
      /\ rowOf \in [Keys -> SUBSET Txns] /\ marking \in [Shipments -> SUBSET Txns]
  BY DEF WellFormed, TypeOK
<1>0. ASSUME NEW x \in Txns, NEW r, txn' = [txn EXCEPT ![x] = r], UNCHANGED <<rowOf, marking>>,
             \/ txn[x].at = "idle"
             \/ txn[x].at \in Marked \ PastWaits /\ r.at \in Marked
             \/ txn[x].at \in PastWaits /\ r.at \in PastWaits
      PROVE  HoldersGoOn'
  <2>1. txn'[x] = r /\ \A y \in Txns : y # x => txn'[y] = txn[y]
    BY <1>0, <1>t
  <2>2. \A k \in Keys : x \in rowOf'[k] => txn'[x].at \in PastWaits
    BY <1>0, <2>1 DEF HoldersGoOn, PastWaits, Marked
  <2>3. \A s \in Shipments : x \in marking'[s] => txn'[x].at \in Marked
    BY <1>0, <2>1 DEF HoldersGoOn, PastWaits, Marked
  <2> QED BY <1>0, <2>1, <2>2, <2>3, OneHolds
<1>1. ASSUME NEW x \in Txns, NEW s \in Subjects, NEW at, NEW does, Begin(x, at, does, s)
      PROVE  HoldersGoOn'
  BY <1>0, <1>1 DEF Begin
<1>2. ASSUME NEW x \in Txns, FindInvoice(x) \/ MissSequence(x) \/ SkipInvoice(x) PROVE HoldersGoOn'
  <2>1. PICK at \in Marked : Goto(x, at)
    BY <1>2 DEF FindInvoice, MissSequence, SkipInvoice, Marked, PastWaits
  <2>2. PICK r : r = [txn[x] EXCEPT !.at = at]
    OBVIOUS
  <2>3. r.at = at
    BY <1>t, <2>2 DEF Transaction
  <2>4. txn[x].at \in Marked \ PastWaits /\ UNCHANGED <<rowOf, marking>>
    BY <1>2 DEF FindInvoice, MissSequence, SkipInvoice, Marked, PastWaits
  <2>5. txn' = [txn EXCEPT ![x] = r]
    BY <2>1, <2>2 DEF Goto
  <2> QED BY <1>0, <2>3, <2>4, <2>5
<1>3. ASSUME NEW x \in Txns, ReadYear(x) \/ IssueDocument(x) PROVE HoldersGoOn'
  <2>1. UNCHANGED <<rowOf, marking>>
    BY <1>3 DEF ReadYear, IssueDocument
  <2>2. CASE ReadYear(x)
    <3>1. PICK r : r = [txn[x] EXCEPT !.at = "lock", !.key = KeyOf(txn[x].does)]
      OBVIOUS
    <3>2. r.at = "lock"
      BY <1>t, <3>1 DEF Transaction
    <3> QED BY <1>0, <2>1, <2>2, <3>1, <3>2, ZenonT(60) DEF ReadYear, Marked, PastWaits
  <2>3. CASE IssueDocument(x)
    <3>1. PICK r : r = [txn[x] EXCEPT !.at = "finish",
                        !.staged = {Document(txn[x].key, txn[x].read + 1, s) : s \in txn[x].of}]
      OBVIOUS
    <3>2. r.at = "finish"
      BY <1>t, <3>1 DEF Transaction
    <3> QED BY <1>0, <2>1, <2>3, <3>1, <3>2, ZenonT(60) DEF IssueDocument, PastWaits
  <2> QED BY <1>3, <2>2, <2>3
<1>4. ASSUME NEW x \in Txns, MarkCancelled(x) PROVE HoldersGoOn'
  <2>1. txn[x].at = "mark" /\ rowOf' = rowOf
    BY <1>4 DEF MarkCancelled
  <2>2. txn'[x].at = "find" /\ \A y \in Txns : y # x => txn'[y] = txn[y]
    BY <1>4, <1>t DEF MarkCancelled, Goto, Transaction
  <2>3. \A k \in Keys : x \notin rowOf'[k]
    BY <2>1 DEF HoldersGoOn, PastWaits
  <2>4. \A s \in Shipments : marking'[s] \subseteq marking[s] \cup {x}
    BY <1>4 DEF MarkCancelled
  <2> QED BY <2>1, <2>2, <2>3, <2>4, OneHolds DEF Marked
<1>5. ASSUME NEW x \in Txns, LockSequence(x) \/ CreateSequence(x) PROVE HoldersGoOn'
  <2>1. txn[x].key \in Keys /\ marking' = marking /\ rowOf' = [rowOf EXCEPT ![txn[x].key] = {x}]
    BY <1>5, <1>t DEF LockSequence, CreateSequence, WellFormedTxn
  <2>2. txn'[x].at = "number" /\ \A y \in Txns : y # x => txn'[y] = txn[y]
    BY <1>5, <1>t DEF LockSequence, CreateSequence, Transaction
  <2>3. \A k \in Keys : rowOf'[k] \subseteq rowOf[k] \cup {x}
    BY <1>t, <2>1
  <2> QED BY <2>1, <2>2, <2>3, OneHolds DEF Marked, PastWaits
<1>6. ASSUME NEW x \in Txns, End(x) PROVE HoldersGoOn'
  <2>1. \A y \in Txns : y # x => txn'[y] = txn[y]
    BY <1>6, <1>t DEF End
  <2>2. /\ \A k \in Keys : rowOf'[k] = rowOf[k] \ {x}
        /\ \A s \in Shipments : marking'[s] = marking[s] \ {x}
    BY <1>6 DEF End
  <2> QED BY <2>1, <2>2, OneHolds
<1>7. CASE YearEnds \/ UNCHANGED vars
  BY <1>7 DEF YearEnds, vars, HoldersGoOn
<1>8. ASSUME NEW x \in Txns, NEW s \in Shipments, BeginBooking(x, s) \/ BeginCancel(x, s)
      PROVE  HoldersGoOn'
  BY <1>1, <1>8 DEF BeginBooking, BeginCancel, Subjects
<1>9. ASSUME NEW x \in Txns, NEW s \in Tickets, BeginTicket(x, s) PROVE HoldersGoOn'
  BY <1>1, <1>9 DEF BeginTicket, Subjects
<1>10. ASSUME NEW x \in Txns, LoseRace(x) \/ Commit(x) \/ Rollback(x) PROVE HoldersGoOn'
  BY <1>6, <1>10 DEF LoseRace, Commit, Rollback
<1>11. ASSUME NEW s \in Scanned, OtherWriter(s) PROVE HoldersGoOn'
  <2>1. UNCHANGED <<rowOf, marking, txn>>
    BY <1>11, OthersWrite
  <2> QED BY <2>1 DEF HoldersGoOn
<1> QED
  BY <1>2, <1>3, <1>4, <1>5, <1>7, <1>8, <1>9, <1>10, <1>11 DEF Next, Step

(* WaitsAreShort: bookings, cancellations and tickets take shipment and counter  *)
(* rows in an order in which they cannot wait for each other in a circle.        *)
THEOREM WaitsShort == Spec => []WaitsAreShort
<1>1. Init => HoldersGoOn
  BY DEF Init, HoldersGoOn
<1>2. WellFormed /\ HoldersGoOn => WaitsAreShort
  <2> SUFFICES ASSUME WellFormed, HoldersGoOn, NEW x \in Txns, NEW y \in Txns, NEW z \in Txns,
                      y \in WaitsFor(x), z \in WaitsFor(y)
               PROVE  WaitsFor(z) = {}
    BY DEF WaitsAreShort
  <2>1. ASSUME NEW v \in Txns
        PROVE  /\ txn[v].at = "mark" => txn[v].of \subseteq Shipments
               /\ txn[v].at \in {"lock", "create"} => txn[v].key \in Keys
    BY DEF WellFormed, WellFormedTxn
  <2>2. ASSUME NEW v \in Txns, NEW w \in WaitsFor(v)
        PROVE  /\ txn[w].at # "mark"
               /\ txn[v].at # "mark" => WaitsFor(w) = {}
    <3>1. CASE txn[v].at = "mark"
      <4>1. PICK s \in Shipments : w \in marking[s]
        BY <2>1, <2>2, <3>1 DEF WaitsFor
      <4> QED BY <3>1, <4>1 DEF HoldersGoOn, Marked, PastWaits
    <3>2. CASE txn[v].at \in {"lock", "create"} /\ w \in rowOf[txn[v].key]
      <4>1. txn[w].at \in PastWaits
        BY <2>1, <3>2 DEF HoldersGoOn
      <4> QED BY <4>1 DEF PastWaits, WaitsFor
    <3> QED BY <2>2, <3>1, <3>2 DEF WaitsFor
  <2> QED BY <2>2
<1> QED BY <1>1, <1>2, InitWellFormed, StepWellFormed, StepHolders, PTL DEF Spec
=============================================================================
