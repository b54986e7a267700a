------------------------------- MODULE Booking -------------------------------
(***************************************************************************)
(* services/shipment.service.js createShipment and cancelShipment, with    *)
(* what runs beside them on the same rows: the plan limit, status changes   *)
(* made by hand (order.service.js) and the carrier's scans                 *)
(* (tracking.service.js).  The rows are those of one tenant; another tenant *)
(* shares the invoice counter only, which is left out.                     *)
(*                                                                         *)
(* Orders and shipments are read without locks.  What a tenant's bookings   *)
(* have in common is the row lock on its wallet, taken by                  *)
(* checkBalanceForShipment and kept to COMMIT (Wallet.tla); the shipments   *)
(* table has a UNIQUE order_id, so shipment[o] is the only row o can have.  *)
(***************************************************************************)
EXTENDS Integers, FiniteSets

CONSTANTS
  Orders,      \* orders of the tenant
  Requests,    \* requests and workers that can be in progress at the same time
  NoRequest,   \* a row is not locked
  Rate,        \* Rate[o]: the quoted rate of o
  Funds,       \* the wallet's opening balance
  Limit,       \* plan.max_orders_per_month
  MaxOrphans   \* bound: courier bookings of an order that no row refers to

ASSUME BookingAssumption ==
  /\ Orders # {}
  /\ NoRequest \notin Requests
  /\ IsFiniteSet(Requests)
  /\ Rate \in [Orders -> Nat \ {0}]
  /\ Funds \in Nat
  /\ Limit \in Nat
  /\ MaxOrphans \in Nat

VARIABLES
  orderStatus, \* orderStatus[o]: orders.status
  shipment,    \* shipment[o]: shipments.status, "none" before the row exists
  awb,         \* awb[o]: what the courier knows of the row's booking
  orphans,     \* orphans[o]: courier bookings whose transaction rolled back
  balance,     \* the wallet
  usage,       \* plan_usage_tracking.orders_count
  debits,      \* debits[o], refunds[o]: ledger rows that refer to o's shipment
  refunds,
  revived,     \* revived[o]: scans written over "cancelled"
  walletLock,  \* the transaction that holds the wallet row
  shipLock,    \* shipLock[o]: the transaction that holds o's shipments row
  pc,          \* pc[r]: where request r is
  target,      \* target[r]: the order it works on
  kept         \* kept[r]: a status kept from its first read: the order's for
               \* cancelShipment, the one to write for a scan or a change by hand

books  == <<balance, usage, debits, refunds>>
courier == <<awb, orphans>>
locks  == <<walletLock, shipLock>>
vars   == <<orderStatus, shipment, courier, books, revived, locks, pc, target, kept>>

OrderStatus    == {"pending", "processing", "ready_to_ship", "shipped", "cancelled"}
ShipmentStatus == {"none", "created", "awb_generated", "pickup_scheduled", "picked_up", "cancelled"}

(* Mutant: any shipment can be cancelled. *)
AnyShipment    == ShipmentStatus \ {"none"}
Cancellable    == {"created", "awb_generated", "pickup_scheduled"}

(* validTransitions of orderStatus.service *)
OrderTransitions ==
  {<<"pending", "processing">>, <<"pending", "cancelled">>,
   <<"processing", "ready_to_ship">>, <<"processing", "cancelled">>,
   <<"ready_to_ship", "shipped">>, <<"shipped", "ready_to_ship">>}

(* validTransitions of shipmentStatus.service that a scan of a shipment with an *)
(* AWB can take; "picked_up" stands for all that follows it.                *)
ScanTransitions ==
  {<<"awb_generated", "pickup_scheduled">>, <<"pickup_scheduled", "picked_up">>,
   <<"awb_generated", "cancelled">>, <<"pickup_scheduled", "cancelled">>}

(* What the variables of an idle request hold does not matter. *)
AnyOrder == CHOOSE o \in Orders : TRUE

Init ==
  /\ orderStatus = [o \in Orders |-> "pending"]
  /\ shipment    = [o \in Orders |-> "none"]
  /\ awb         = [o \in Orders |-> "none"]
  /\ orphans     = [o \in Orders |-> 0]
  /\ balance     = Funds
  /\ usage       = 0
  /\ debits      = [o \in Orders |-> 0]
  /\ refunds     = [o \in Orders |-> 0]
  /\ revived     = [o \in Orders |-> 0]
  /\ walletLock  = NoRequest
  /\ shipLock    = [o \in Orders |-> NoRequest]
  /\ pc          = [r \in Requests |-> "idle"]
  /\ target      = [r \in Requests |-> AnyOrder]
  /\ kept        = [r \in Requests |-> "none"]

(* Mutants: no FOR UPDATE, an off-by-one on the limit. *)
WalletNotLocked == TRUE
OneOverPlan     == usage <= Limit

WalletFree == walletLock = NoRequest
WithinPlan == usage < Limit

Goto(r, label) == pc' = [pc EXCEPT ![r] = label]

(* Begin a request on o, after its first read. *)
Begin(r, o, label, status) ==
  /\ pc[r] = "idle"
  /\ target' = [target EXCEPT ![r] = o]
  /\ kept' = [kept EXCEPT ![r] = status]
  /\ Goto(r, label)
  /\ UNCHANGED <<orderStatus, shipment, courier, books, revived, locks>>

(* COMMIT or ROLLBACK: the request ends and its row locks are released. *)
End(r) ==
  /\ walletLock' = IF walletLock = r THEN NoRequest ELSE walletLock
  /\ shipLock' = [o \in Orders |-> IF shipLock[o] = r THEN NoRequest ELSE shipLock[o]]
  /\ target' = [target EXCEPT ![r] = AnyOrder]
  /\ kept' = [kept EXCEPT ![r] = "none"]
  /\ Goto(r, "idle")

(* ROLLBACK.  The database forgets the request; the courier does not. *)
Abort(r) ==
  /\ End(r)
  /\ orphans' = IF pc[r] = "insert" THEN [orphans EXCEPT ![target[r]] = @ + 1] ELSE orphans
  /\ UNCHANGED <<orderStatus, shipment, awb, books, revived>>

-----------------------------------------------------------------------------
(* order.service changeStatus and cancelOrder: the transition is validated   *)
(* on a read made before, and outside, the transaction that writes it.      *)
ChangeStatus(r, o, status) ==
  /\ <<orderStatus[o], status>> \in OrderTransitions
  /\ Begin(r, o, "order", status)

WriteStatus(r) ==
  /\ pc[r] = "order"
  /\ orderStatus' = [orderStatus EXCEPT ![target[r]] = kept[r]]
  /\ End(r)
  /\ UNCHANGED <<shipment, courier, books, revived>>

(* The courier drops a booking on its own account (outside the program). *)
CourierDrops(o) ==
  /\ awb[o] = "live"
  /\ shipment[o] # "picked_up"
  /\ awb' = [awb EXCEPT ![o] = "cancelled"]
  /\ UNCHANGED <<orderStatus, shipment, orphans, books, revived, locks, pc, target, kept>>

(* ingestTrackingEvents: the same shape, on the shipment. *)
Scan(r, o, status) ==
  /\ <<shipment[o], status>> \in ScanTransitions
  /\ status = "cancelled" => awb[o] = "cancelled"
  /\ Begin(r, o, "scan", status)

WriteScan(r) ==
  /\ pc[r] = "scan"
  /\ shipLock[target[r]] = NoRequest
  /\ shipment' = [shipment EXCEPT ![target[r]] = kept[r]]
  /\ revived' = IF shipment[target[r]] = "cancelled" /\ kept[r] # "cancelled"
                THEN [revived EXCEPT ![target[r]] = @ + 1] ELSE revived
  /\ End(r)
  /\ UNCHANGED <<orderStatus, courier, books>>

-----------------------------------------------------------------------------
(* createShipment: the order and its quote are read in the transaction.     *)
Book(r, o) ==
  /\ orderStatus[o] = "ready_to_ship"
  /\ orphans[o] < MaxOrphans
  /\ Begin(r, o, "funds", "none")

(* checkBalanceForShipment: SELECT the wallet FOR UPDATE. *)
ReserveFunds(r) ==
  /\ pc[r] = "funds"
  /\ WalletFree
  /\ balance >= Rate[target[r]]
  /\ walletLock' = r
  /\ Goto(r, "limit")
  /\ UNCHANGED <<orderStatus, shipment, courier, books, revived, shipLock, target, kept>>

RefuseFunds(r) ==
  /\ pc[r] = "funds"
  /\ WalletFree
  /\ balance < Rate[target[r]]
  /\ Abort(r)

(* checkLimit: on another connection, outside the transaction. *)
CheckLimit(r) ==
  /\ pc[r] = "limit"
  /\ WithinPlan
  /\ Goto(r, "courier")
  /\ UNCHANGED <<orderStatus, shipment, courier, books, revived, locks, target, kept>>

RefuseLimit(r) ==
  /\ pc[r] = "limit"
  /\ ~WithinPlan
  /\ Abort(r)

(* adapter.createShipment: the courier holds a booking from here on. *)
BookCourier(r) ==
  /\ pc[r] = "courier"
  /\ Goto(r, "insert")
  /\ UNCHANGED <<orderStatus, shipment, courier, books, revived, locks, target, kept>>

(* Shipment.create.  The unique index makes it wait for a transaction that   *)
(* is updating o's row.                                                    *)
NoUniqueIndex(o) == FALSE  \* mutant
DuplicateOrder(o) == shipment[o] # "none"

(* Mutant: the refusal leaves the transaction open. *)
RefuseDuplicateLeaving(r) ==
  /\ pc[r] = "insert"
  /\ shipLock[target[r]] = NoRequest
  /\ DuplicateOrder(target[r])
  /\ Goto(r, "idle")
  /\ UNCHANGED <<orderStatus, shipment, courier, books, revived, locks, target, kept>>

RefuseDuplicate(r) ==
  /\ pc[r] = "insert"
  /\ shipLock[target[r]] = NoRequest
  /\ DuplicateOrder(target[r])
  /\ Abort(r)

(* The row, the debit, the usage counter, order "shipped", COMMIT. *)
CommitBooking(r, status) ==
  LET o == target[r] IN
  /\ pc[r] = "insert"
  /\ shipLock[o] = NoRequest
  /\ ~DuplicateOrder(o)
  /\ shipment' = [shipment EXCEPT ![o] = status]
  /\ awb' = [awb EXCEPT ![o] = "live"]
  /\ balance' = balance - Rate[o]
  /\ debits' = [debits EXCEPT ![o] = @ + 1]
  /\ usage' = usage + 1
  /\ orderStatus' = [orderStatus EXCEPT ![o] = "shipped"]
  /\ End(r)
  /\ UNCHANGED <<orphans, refunds, revived>>

-----------------------------------------------------------------------------
(* Mutant: the courier is not told. *)
CancelSilently(r, o) ==
  /\ shipment[o] \in Cancellable
  /\ Begin(r, o, "mark", orderStatus[o])

(* cancelShipment: the shipment and its order are read, the status checked. *)
CancelShipment(r, o) ==
  /\ shipment[o] \in Cancellable
  /\ Begin(r, o, "carrier", orderStatus[o])

(* adapter.cancelShipment succeeds. *)
CancelAtCourier(r) ==
  /\ pc[r] = "carrier"
  /\ awb' = [awb EXCEPT ![target[r]] = "cancelled"]
  /\ Goto(r, "mark")
  /\ UNCHANGED <<orderStatus, shipment, orphans, books, revived, locks, target, kept>>

(* shipment.update: whatever the row says by now, and it is locked. *)
MarkCancelled(r) ==
  /\ pc[r] = "mark"
  /\ shipLock[target[r]] = NoRequest
  /\ shipLock' = [shipLock EXCEPT ![target[r]] = r]
  /\ Goto(r, "refund")
  /\ UNCHANGED <<orderStatus, shipment, courier, books, revived, walletLock, target, kept>>

(* walletService.credit waits for the wallet; the order is written unless it *)
(* was read as "ready_to_ship"; COMMIT.                                    *)
CommitCancel(r) ==
  LET o == target[r] IN
  /\ pc[r] = "refund"
  /\ WalletFree
  /\ shipment' = [shipment EXCEPT ![o] = "cancelled"]
  /\ balance' = balance + Rate[o]
  /\ refunds' = [refunds EXCEPT ![o] = @ + 1]
  /\ orderStatus' = IF kept[r] = "ready_to_ship" THEN orderStatus
                    ELSE [orderStatus EXCEPT ![o] = "ready_to_ship"]
  /\ End(r)
  /\ UNCHANGED <<courier, usage, debits, revived>>

-----------------------------------------------------------------------------
(* A statement, the courier or the process fails. *)
Fail(r) == pc[r] # "idle" /\ Abort(r)

(* A booking that holds the wallet waits on the unique index for a cancel,   *)
(* which waits for the wallet: PostgreSQL aborts one of the two.            *)
Deadlocked(b, c) ==
  /\ pc[b] = "insert" /\ walletLock = b
  /\ pc[c] = "refund" /\ shipLock[target[b]] = c

BreakDeadlock(r) ==
  /\ \E q \in Requests : Deadlocked(r, q) \/ Deadlocked(q, r)
  /\ Abort(r)

Advance(r) ==
  \/ WriteStatus(r)
  \/ WriteScan(r)
  \/ ReserveFunds(r)
  \/ RefuseFunds(r)
  \/ CheckLimit(r)
  \/ RefuseLimit(r)
  \/ BookCourier(r)
  \/ RefuseDuplicate(r)
  \/ \E status \in {"created", "awb_generated"} : CommitBooking(r, status)
  \/ CancelAtCourier(r)
  \/ MarkCancelled(r)
  \/ CommitCancel(r)
  \/ BreakDeadlock(r)

Next ==
  \/ \E r \in Requests, o \in Orders, status \in OrderStatus : ChangeStatus(r, o, status)
  \/ \E r \in Requests, o \in Orders, status \in ShipmentStatus : Scan(r, o, status)
  \/ \E o \in Orders : CourierDrops(o)
  \/ \E r \in Requests, o \in Orders : Book(r, o)
  \/ \E r \in Requests, o \in Orders : CancelShipment(r, o)
  \/ \E r \in Requests : Advance(r)
  \/ \E r \in Requests : Fail(r)

(* A request in progress goes on: statements return, row locks are granted   *)
(* in turn, deadlocks are detected.  No request has to arrive.              *)
Fairness == \A r \in Requests : SF_vars(Advance(r))

Spec == Init /\ [][Next]_vars
FairSpec == Spec /\ Fairness

-----------------------------------------------------------------------------
(* Types of the variables; the wallet never goes below zero. *)
TypeOK ==
  /\ orderStatus \in [Orders -> OrderStatus]
  /\ shipment \in [Orders -> ShipmentStatus]
  /\ awb \in [Orders -> {"none", "live", "cancelled"}]
  /\ orphans \in [Orders -> Nat]
  /\ balance \in Nat
  /\ usage \in Nat
  /\ debits \in [Orders -> Nat]
  /\ refunds \in [Orders -> Nat]
  /\ revived \in [Orders -> Nat]
  /\ walletLock \in Requests \cup {NoRequest}
  /\ shipLock \in [Orders -> Requests \cup {NoRequest}]
  /\ pc \in [Requests -> {"idle", "order", "scan", "funds", "limit", "courier", "insert",
                          "carrier", "mark", "refund"}]
  /\ target \in [Requests -> Orders]
  /\ kept \in [Requests -> OrderStatus \cup ShipmentStatus]

(* checkLimit reads the counter outside the transaction that increments it,  *)
(* and many bookings run at once; still no tenant ships more than its plan  *)
(* allows, because the bookings of a tenant queue for its wallet first.     *)
UsageWithinLimit == usage <= Limit

(* However many bookings of one order overlap, and whatever is done to its   *)
(* status by hand meanwhile, it is charged once, for the shipment it has.   *)
ChargedOncePerShipment ==
  \A o \in Orders : debits[o] = IF shipment[o] = "none" THEN 0 ELSE 1

(* A refund is given again only by a cancellation that read the shipment     *)
(* before another one committed, or after a scan undid that one.            *)
RefundsBoundedByOverlap ==
  \A o \in Orders : refunds[o] <= Cardinality(Requests) * (1 + revived[o])

(* The tenant gets its money back only for a booking the courier no longer   *)
(* has, and only for one it paid for.                                      *)
RefundedIsCancelledAtCourier ==
  \A o \in Orders : refunds[o] > 0 => awb[o] = "cancelled" /\ debits[o] > 0

(* Shipments as the accounts see them: what the courier holds of their bookings. *)
Accounts == INSTANCE ShipmentAccounts WITH held <- {o \in Orders : awb[o] = "live"}

(* createShipment checks funds, plan and order one after the other, the plan  *)
(* on another connection, and others commit in between; every COMMIT is still *)
(* a booking that all three allow at that moment, and every other change of   *)
(* the money is a refund of a booking that was paid and given up.             *)
ImplementsAccounts == Accounts!Spec

(* Who holds the row that r needs next. *)
WaitsFor(r) ==
  ((IF pc[r] \in {"funds", "refund"} THEN {walletLock} ELSE {})
    \cup (IF pc[r] \in {"insert", "mark", "scan"} THEN {shipLock[target[r]]} ELSE {}))
  \ {NoRequest}

(* Waits for wallet and shipment rows come to an end after two, or run into a  *)
(* booking and a cancellation that wait for each other: no other circle of     *)
(* bookings, cancellations and scans can close, whatever their number.        *)
WaitsEndOrAreBroken ==
  \A p, q, r \in Requests :
    q \in WaitsFor(p) /\ r \in WaitsFor(q) =>
      WaitsFor(r) = {} \/ \E b \in {q, r}, c \in Requests : Deadlocked(b, c)

(* No request waits for ever: the row locks are taken in orders that can     *)
(* deadlock, and every such deadlock is one the database breaks.            *)
RequestsEnd == \A r \in Requests : pc[r] # "idle" ~> pc[r] = "idle"

(* "Revert order status back to ready_to_ship so it can be re-shipped": the  *)
(* next booking of an order whose shipment was cancelled and refunded is    *)
(* not refused.                                                            *)
CancelledIsReshippable ==
  \A o \in Orders : refunds[o] > 0 /\ orderStatus[o] = "ready_to_ship" => ~DuplicateOrder(o)
=============================================================================
