---------------------------- MODULE BookingProofs ----------------------------
(***************************************************************************)
(* Proofs about Booking, for every set of orders and requests, every rate, *)
(* fund and limit.  The argument: from checkBalanceForShipment to COMMIT a *)
(* booking holds the tenant's wallet row, so what it read of the balance    *)
(* and, on the other connection, of the usage counter is still true when    *)
(* it commits (BookingHoldsWallet, BookingWithinLimit); which is why its    *)
(* COMMIT is one step of ShipmentAccounts, and why the locks can close one   *)
(* circle only (LocksHeld).                                                *)
(***************************************************************************)
EXTENDS Booking, FiniteSetTheorems, TLAPS

BookingHoldsWallet ==
  \A r \in Requests : pc[r] \in {"limit", "courier", "insert"} =>
    /\ walletLock = r
    /\ balance >= Rate[target[r]]

BookingWithinLimit ==
  \A r \in Requests : pc[r] \in {"courier", "insert"} => usage < Limit

(* A request past its first read works on a row that exists. *)
RowOfRequest ==
  \A r \in Requests :
    /\ pc[r] \in {"carrier", "mark", "refund", "scan"} => shipment[target[r]] # "none"
    /\ pc[r] \in {"mark", "refund"} => awb[target[r]] = "cancelled"
    /\ pc[r] = "scan" => kept[r] \in {"pickup_scheduled", "picked_up", "cancelled"}
    /\ pc[r] = "order" => kept[r] \in OrderStatus

AwbOfRow == \A o \in Orders : shipment[o] = "none" => awb[o] = "none"

IInv ==
  /\ TypeOK
  /\ BookingHoldsWallet
  /\ BookingWithinLimit
  /\ RowOfRequest
  /\ AwbOfRow
  /\ UsageWithinLimit
  /\ ChargedOncePerShipment
  /\ RefundedIsCancelledAtCourier

-----------------------------------------------------------------------------
LEMMA InitIInv == Init => IInv
BY BookingAssumption
   DEF Init, AnyOrder, IInv, TypeOK, OrderStatus, ShipmentStatus, BookingHoldsWallet,
       BookingWithinLimit, RowOfRequest, AwbOfRow, UsageWithinLimit,
       ChargedOncePerShipment, RefundedIsCancelledAtCourier

(* A request that begins has read one row and holds nothing. *)
LEMMA BeginStep ==
  ASSUME IInv, NEW r \in Requests, NEW o \in Orders, NEW status,
         \/ ChangeStatus(r, o, status)
         \/ Scan(r, o, status)
         \/ Book(r, o)
         \/ CancelShipment(r, o)
  PROVE  IInv'
<1>1. PICK label \in {"order", "scan", "funds", "carrier"}, s \in OrderStatus \cup ShipmentStatus :
        /\ Begin(r, o, label, s)
        /\ label \in {"scan", "carrier"} => shipment[o] # "none"
        /\ label = "scan" => s \in {"pickup_scheduled", "picked_up", "cancelled"}
        /\ label = "order" => s \in OrderStatus
  BY DEF IInv, TypeOK, ChangeStatus, Scan, Book, CancelShipment, OrderTransitions, ScanTransitions,
         Cancellable, OrderStatus, ShipmentStatus
<1>2. /\ pc[r] = "idle"
      /\ pc' = [pc EXCEPT ![r] = label]
      /\ target' = [target EXCEPT ![r] = o]
      /\ kept' = [kept EXCEPT ![r] = s]
      /\ UNCHANGED <<orderStatus, shipment, awb, orphans, balance, usage, debits, refunds,
                     revived, walletLock, shipLock>>
  BY <1>1 DEF Begin, Goto, courier, books, locks
<1>3. TypeOK'
  BY <1>2 DEF IInv, TypeOK
<1>4. BookingHoldsWallet' /\ BookingWithinLimit'
  BY <1>2 DEF IInv, TypeOK, BookingHoldsWallet, BookingWithinLimit
<1>5. RowOfRequest'
  BY <1>1, <1>2 DEF IInv, TypeOK, RowOfRequest
<1>6. (AwbOfRow /\ UsageWithinLimit /\ ChargedOncePerShipment /\ RefundedIsCancelledAtCourier)'
  BY <1>2 DEF IInv, AwbOfRow, UsageWithinLimit, ChargedOncePerShipment,
              RefundedIsCancelledAtCourier
<1>7. QED
  BY <1>3, <1>4, <1>5, <1>6 DEF IInv

(* What End does to the request that ends and to everybody's locks. *)
LEMMA EndEffect ==
  ASSUME IInv, NEW r \in Requests, End(r)
  PROVE  /\ pc' = [pc EXCEPT ![r] = "idle"]
         /\ target' \in [Requests -> Orders]
         /\ \A q \in Requests : q # r => target'[q] = target[q]
         /\ kept' = [kept EXCEPT ![r] = "none"]
         /\ pc' \in [Requests -> {"idle", "order", "scan", "funds", "limit", "courier",
                                  "insert", "carrier", "mark", "refund"}]
         /\ kept' \in [Requests -> OrderStatus \cup ShipmentStatus]
         /\ walletLock' \in Requests \cup {NoRequest}
         /\ shipLock' \in [Orders -> Requests \cup {NoRequest}]
         /\ \A q \in Requests : q # r /\ walletLock = q => walletLock' = q
BY BookingAssumption DEF IInv, TypeOK, End, AnyOrder, Goto, OrderStatus, ShipmentStatus

LEMMA AbortStep ==
  ASSUME IInv, NEW r \in Requests, Abort(r)
  PROVE  IInv'
<1>1. UNCHANGED <<orderStatus, shipment, awb, balance, usage, debits, refunds, revived>>
  BY DEF Abort, books
<1>2. orphans' \in [Orders -> Nat]
  BY DEF IInv, TypeOK, Abort
<1>3. End(r)
  BY DEF Abort
<1>4. TypeOK'
  BY <1>1, <1>2, <1>3, EndEffect DEF IInv, TypeOK
<1>5. BookingHoldsWallet' /\ BookingWithinLimit'
  BY <1>1, <1>3, EndEffect DEF IInv, TypeOK, BookingHoldsWallet, BookingWithinLimit
<1>6. RowOfRequest'
  BY <1>1, <1>3, EndEffect DEF IInv, TypeOK, RowOfRequest
<1>7. (AwbOfRow /\ UsageWithinLimit /\ ChargedOncePerShipment /\ RefundedIsCancelledAtCourier)'
  BY <1>1 DEF IInv, AwbOfRow, UsageWithinLimit, ChargedOncePerShipment,
              RefundedIsCancelledAtCourier
<1>8. QED
  BY <1>4, <1>5, <1>6, <1>7 DEF IInv

(* The two writers that read before they wrote. *)
LEMMA WriteStatusStep ==
  ASSUME IInv, NEW r \in Requests, WriteStatus(r)
  PROVE  IInv'
<1>1. /\ UNCHANGED <<shipment, awb, orphans, balance, usage, debits, refunds, revived>>
      /\ orderStatus' \in [Orders -> OrderStatus]
      /\ End(r)
  BY DEF IInv, TypeOK, RowOfRequest, WriteStatus, courier, books
<1>2. TypeOK'
  BY <1>1, EndEffect DEF IInv, TypeOK
<1>3. BookingHoldsWallet' /\ BookingWithinLimit'
  BY <1>1, EndEffect DEF IInv, TypeOK, BookingHoldsWallet, BookingWithinLimit
<1>4. RowOfRequest'
  BY <1>1, EndEffect DEF IInv, TypeOK, RowOfRequest
<1>5. (AwbOfRow /\ UsageWithinLimit /\ ChargedOncePerShipment /\ RefundedIsCancelledAtCourier)'
  BY <1>1 DEF IInv, AwbOfRow, UsageWithinLimit, ChargedOncePerShipment,
              RefundedIsCancelledAtCourier
<1>6. QED
  BY <1>2, <1>3, <1>4, <1>5 DEF IInv

LEMMA WriteScanStep ==
  ASSUME IInv, NEW r \in Requests, WriteScan(r)
  PROVE  IInv'
<1>1. /\ UNCHANGED <<orderStatus, awb, orphans, balance, usage, debits, refunds>>
      /\ revived' \in [Orders -> Nat]
      /\ shipment' = [shipment EXCEPT ![target[r]] = kept[r]]
      /\ shipment[target[r]] # "none"
      /\ kept[r] \in {"pickup_scheduled", "picked_up", "cancelled"}
      /\ End(r)
  BY DEF IInv, TypeOK, RowOfRequest, WriteScan, courier, books
<1>2. shipment' \in [Orders -> ShipmentStatus]
  BY <1>1 DEF IInv, TypeOK, ShipmentStatus
<1>3. \A o \in Orders : shipment'[o] = "none" <=> shipment[o] = "none"
  BY <1>1 DEF IInv, TypeOK
<1>4. TypeOK'
  BY <1>1, <1>2, EndEffect DEF IInv, TypeOK
<1>5. BookingHoldsWallet' /\ BookingWithinLimit'
  BY <1>1, EndEffect DEF IInv, TypeOK, BookingHoldsWallet, BookingWithinLimit
<1>6. RowOfRequest'
  BY <1>1, <1>3, EndEffect, SMTT(30) DEF IInv, TypeOK, RowOfRequest
<1>7. (AwbOfRow /\ UsageWithinLimit /\ ChargedOncePerShipment /\ RefundedIsCancelledAtCourier)'
  BY <1>1, <1>3 DEF IInv, AwbOfRow, UsageWithinLimit, ChargedOncePerShipment,
              RefundedIsCancelledAtCourier
<1>8. QED
  BY <1>4, <1>5, <1>6, <1>7 DEF IInv

-----------------------------------------------------------------------------
(* The booking takes the wallet, reads the counter, books at the courier.   *)
LEMMA BookingProgressStep ==
  ASSUME IInv, NEW r \in Requests,
         ReserveFunds(r) \/ CheckLimit(r) \/ BookCourier(r)
  PROVE  IInv'
<1>1. UNCHANGED <<orderStatus, shipment, awb, orphans, balance, usage, debits, refunds,
                  revived, shipLock, target, kept>>
  BY DEF ReserveFunds, CheckLimit, BookCourier, courier, books, locks
<1>2. PICK label \in {"limit", "courier", "insert"} :
        /\ pc' = [pc EXCEPT ![r] = label]
        /\ pc[r] \in {"funds", "limit", "courier"}
        /\ label \in {"courier", "insert"} => usage < Limit
        /\ walletLock \in {r, NoRequest}
        /\ walletLock' = r
        /\ balance >= Rate[target[r]]
  BY DEF ReserveFunds, CheckLimit, BookCourier, WalletFree, WithinPlan, Goto, locks, IInv, BookingHoldsWallet,
         BookingWithinLimit
<1>3. TypeOK'
  BY <1>1, <1>2 DEF IInv, TypeOK
<1>4. BookingHoldsWallet' /\ BookingWithinLimit'
  BY <1>1, <1>2, BookingAssumption DEF IInv, TypeOK, BookingHoldsWallet, BookingWithinLimit
<1>5. RowOfRequest'
  BY <1>1, <1>2 DEF IInv, TypeOK, RowOfRequest
<1>6. (AwbOfRow /\ UsageWithinLimit /\ ChargedOncePerShipment /\ RefundedIsCancelledAtCourier)'
  BY <1>1 DEF IInv, AwbOfRow, UsageWithinLimit, ChargedOncePerShipment,
              RefundedIsCancelledAtCourier
<1>7. QED
  BY <1>3, <1>4, <1>5, <1>6 DEF IInv

(* The step that counts: no other booking is past its own check. *)
LEMMA CommitBookingStep ==
  ASSUME IInv, NEW r \in Requests, NEW status \in {"created", "awb_generated"},
         CommitBooking(r, status)
  PROVE  IInv'
<1> DEFINE o == target[r]
<1>1. /\ pc[r] = "insert"
      /\ shipment[o] = "none"
      /\ shipment' = [shipment EXCEPT ![o] = status]
      /\ awb' = [awb EXCEPT ![o] = "live"]
      /\ balance' = balance - Rate[o]
      /\ debits' = [debits EXCEPT ![o] = @ + 1]
      /\ usage' = usage + 1
      /\ orderStatus' = [orderStatus EXCEPT ![o] = "shipped"]
      /\ UNCHANGED <<orphans, refunds, revived>>
      /\ End(r)
  BY DEF CommitBooking, DuplicateOrder
<1>2. o \in Orders /\ Rate[o] \in Nat /\ balance >= Rate[o] /\ usage < Limit /\ walletLock = r
  BY <1>1, BookingAssumption DEF IInv, TypeOK, BookingHoldsWallet, BookingWithinLimit
<1> HIDE DEF o
<1>3. balance' \in Nat /\ usage' \in Nat /\ usage' <= Limit
  BY <1>1, <1>2, BookingAssumption DEF IInv, TypeOK
<1>4. TypeOK'
  BY <1>1, <1>2, <1>3, EndEffect DEF IInv, TypeOK, OrderStatus, ShipmentStatus
<1>5. BookingHoldsWallet' /\ BookingWithinLimit'
  <2>1. \A q \in Requests : pc'[q] \notin {"limit", "courier", "insert"}
    BY <1>1, <1>2, EndEffect DEF IInv, TypeOK, BookingHoldsWallet
  <2>2. QED
    BY <2>1 DEF BookingHoldsWallet, BookingWithinLimit
<1>6. RowOfRequest'
  BY <1>1, <1>2, EndEffect DEF IInv, TypeOK, RowOfRequest
<1>7. AwbOfRow' /\ UsageWithinLimit'
  BY <1>1, <1>2, <1>3 DEF IInv, TypeOK, AwbOfRow, UsageWithinLimit
<1>8. ChargedOncePerShipment'
  BY <1>1, <1>2 DEF IInv, TypeOK, ChargedOncePerShipment
<1>9. RefundedIsCancelledAtCourier'
  BY <1>1, <1>2 DEF IInv, TypeOK, AwbOfRow, RefundedIsCancelledAtCourier
<1>10. QED
  BY <1>4, <1>5, <1>6, <1>7, <1>8, <1>9 DEF IInv

-----------------------------------------------------------------------------
LEMMA CancelProgressStep ==
  ASSUME IInv, NEW r \in Requests, CancelAtCourier(r) \/ MarkCancelled(r)
  PROVE  IInv'
<1>1. /\ UNCHANGED <<orderStatus, shipment, orphans, balance, usage, debits, refunds, revived,
                     walletLock, target, kept>>
      /\ pc[r] \in {"carrier", "mark"}
      /\ shipLock' \in [Orders -> Requests \cup {NoRequest}]
  BY DEF CancelAtCourier, MarkCancelled, courier, books, locks, IInv, TypeOK
<1>2. /\ awb' = [awb EXCEPT ![target[r]] = "cancelled"]
      /\ \E label \in {"mark", "refund"} : pc' = [pc EXCEPT ![r] = label]
      /\ shipment[target[r]] # "none"
  <2>1. CASE CancelAtCourier(r)
    BY <2>1 DEF CancelAtCourier, Goto, IInv, TypeOK, RowOfRequest
  <2>2. CASE MarkCancelled(r)
    <3>1. awb[target[r]] = "cancelled" /\ shipment[target[r]] # "none"
      BY <2>2 DEF MarkCancelled, IInv, RowOfRequest
    <3>2. awb' = [awb EXCEPT ![target[r]] = "cancelled"]
      BY <2>2, <3>1 DEF MarkCancelled, courier, IInv, TypeOK
    <3>3. QED
      BY <2>2, <3>1, <3>2 DEF MarkCancelled, Goto
  <2>3. QED
    BY <2>1, <2>2
<1>3. TypeOK'
  BY <1>1, <1>2 DEF IInv, TypeOK
<1>4. BookingHoldsWallet' /\ BookingWithinLimit'
  BY <1>1, <1>2 DEF IInv, TypeOK, BookingHoldsWallet, BookingWithinLimit
<1>5. RowOfRequest'
  BY <1>1, <1>2 DEF IInv, TypeOK, RowOfRequest
<1>6. AwbOfRow' /\ UsageWithinLimit' /\ ChargedOncePerShipment'
  BY <1>1, <1>2 DEF IInv, TypeOK, AwbOfRow, UsageWithinLimit, ChargedOncePerShipment
<1>7. RefundedIsCancelledAtCourier'
  BY <1>1, <1>2 DEF IInv, TypeOK, RefundedIsCancelledAtCourier
<1>8. QED
  BY <1>3, <1>4, <1>5, <1>6, <1>7 DEF IInv

LEMMA CommitCancelStep ==
  ASSUME IInv, NEW r \in Requests, CommitCancel(r)
  PROVE  IInv'
<1> DEFINE o == target[r]
<1>1. /\ pc[r] = "refund"
      /\ walletLock = NoRequest
      /\ shipment' = [shipment EXCEPT ![o] = "cancelled"]
      /\ balance' = balance + Rate[o]
      /\ refunds' = [refunds EXCEPT ![o] = @ + 1]
      /\ orderStatus' = IF kept[r] = "ready_to_ship" THEN orderStatus
                        ELSE [orderStatus EXCEPT ![o] = "ready_to_ship"]
      /\ UNCHANGED <<awb, orphans, usage, debits, revived>>
      /\ End(r)
  BY DEF CommitCancel, WalletFree, courier
<1>2. /\ o \in Orders
      /\ Rate[o] \in Nat
      /\ shipment[o] # "none"
      /\ awb[o] = "cancelled"
  BY <1>1, BookingAssumption DEF IInv, TypeOK, RowOfRequest
<1> HIDE DEF o
<1>3. orderStatus' \in [Orders -> OrderStatus]
  BY <1>1, <1>2 DEF IInv, TypeOK, OrderStatus
<1>4. TypeOK'
  BY <1>1, <1>2, <1>3, EndEffect DEF IInv, TypeOK, ShipmentStatus
<1>5. BookingHoldsWallet' /\ BookingWithinLimit'
  <2>1. \A q \in Requests : pc'[q] \notin {"limit", "courier", "insert"}
    BY <1>1, EndEffect, BookingAssumption DEF IInv, TypeOK, BookingHoldsWallet
  <2>2. QED
    BY <2>1 DEF BookingHoldsWallet, BookingWithinLimit
<1>6. RowOfRequest'
  BY <1>1, <1>2, EndEffect DEF IInv, TypeOK, RowOfRequest
<1>7. AwbOfRow' /\ UsageWithinLimit' /\ ChargedOncePerShipment'
  BY <1>1, <1>2 DEF IInv, TypeOK, AwbOfRow, UsageWithinLimit, ChargedOncePerShipment
<1>8. RefundedIsCancelledAtCourier'
  BY <1>1, <1>2 DEF IInv, TypeOK, ChargedOncePerShipment, RefundedIsCancelledAtCourier
<1>9. QED
  BY <1>4, <1>5, <1>6, <1>7, <1>8 DEF IInv

LEMMA CourierDropsStep ==
  ASSUME IInv, NEW o \in Orders, CourierDrops(o)
  PROVE  IInv'
<1>1. /\ awb[o] = "live"
      /\ awb' = [awb EXCEPT ![o] = "cancelled"]
      /\ UNCHANGED <<orderStatus, shipment, orphans, balance, usage, debits, refunds, revived,
                     walletLock, shipLock, pc, target, kept>>
  BY DEF CourierDrops, books, locks
<1>2. TypeOK' /\ BookingHoldsWallet' /\ BookingWithinLimit'
  BY <1>1 DEF IInv, TypeOK, BookingHoldsWallet, BookingWithinLimit
<1>3. RowOfRequest' /\ AwbOfRow'
  BY <1>1 DEF IInv, TypeOK, RowOfRequest, AwbOfRow
<1>4. UsageWithinLimit' /\ ChargedOncePerShipment' /\ RefundedIsCancelledAtCourier'
  BY <1>1 DEF IInv, TypeOK, UsageWithinLimit, ChargedOncePerShipment,
              RefundedIsCancelledAtCourier
<1>5. QED
  BY <1>2, <1>3, <1>4 DEF IInv

-----------------------------------------------------------------------------
LEMMA AdvanceStep ==
  ASSUME IInv, NEW r \in Requests, Advance(r)
  PROVE  IInv'
<1>1. CASE WriteStatus(r)
  BY <1>1, WriteStatusStep
<1>2. CASE WriteScan(r)
  BY <1>2, WriteScanStep
<1>3. CASE ReserveFunds(r) \/ CheckLimit(r) \/ BookCourier(r)
  BY <1>3, BookingProgressStep
<1>4. CASE RefuseFunds(r) \/ RefuseLimit(r) \/ RefuseDuplicate(r) \/ BreakDeadlock(r)
  BY <1>4, AbortStep DEF RefuseFunds, RefuseLimit, RefuseDuplicate, BreakDeadlock
<1>5. CASE \E status \in {"created", "awb_generated"} : CommitBooking(r, status)
  BY <1>5, CommitBookingStep
<1>6. CASE CancelAtCourier(r) \/ MarkCancelled(r)
  BY <1>6, CancelProgressStep
<1>7. CASE CommitCancel(r)
  BY <1>7, CommitCancelStep
<1>8. QED
  BY <1>1, <1>2, <1>3, <1>4, <1>5, <1>6, <1>7 DEF Advance

LEMMA StutterStep == IInv /\ UNCHANGED vars => IInv'
BY DEF vars, courier, books, locks, IInv, TypeOK, BookingHoldsWallet, BookingWithinLimit,
       RowOfRequest, AwbOfRow, UsageWithinLimit, ChargedOncePerShipment,
       RefundedIsCancelledAtCourier

LEMMA NextIInv == IInv /\ [Next]_vars => IInv'
<1> SUFFICES ASSUME IInv, [Next]_vars
             PROVE  IInv'
  OBVIOUS
<1>1. ASSUME NEW r \in Requests, NEW o \in Orders, NEW status \in OrderStatus,
             ChangeStatus(r, o, status)
      PROVE  IInv'
  BY <1>1, BeginStep
<1>2. ASSUME NEW r \in Requests, NEW o \in Orders, NEW status \in ShipmentStatus,
             Scan(r, o, status)
      PROVE  IInv'
  BY <1>2, BeginStep
<1>3. ASSUME NEW r \in Requests, NEW o \in Orders, Book(r, o) \/ CancelShipment(r, o)
      PROVE  IInv'
  BY <1>3, BeginStep
<1>4. ASSUME NEW r \in Requests, Fail(r)
      PROVE  IInv'
  BY <1>4, AbortStep DEF Fail
<1>5. ASSUME NEW o \in Orders, CourierDrops(o)
      PROVE  IInv'
  BY <1>5, CourierDropsStep
<1>6. QED
  BY <1>1, <1>2, <1>3, <1>4, <1>5, AdvanceStep, StutterStep DEF Next

(* The inductive invariant holds in every reachable state. *)
THEOREM BookingInductive == Spec => []IInv
BY InitIInv, NextIInv, PTL DEF Spec

(* Types; in particular bookings never take the wallet below zero. *)
THEOREM BookingTypeCorrect == Spec => []TypeOK
BY BookingInductive, PTL DEF IInv

(* A tenant never books more shipments than its plan allows, although the    *)
(* counter is read outside the transaction (planEnforcement.checkLimit).    *)
THEOREM BookingUsageWithinLimit == Spec => []UsageWithinLimit
BY BookingInductive, PTL DEF IInv

(* An order is charged exactly once, for the one shipment it can have.      *)
THEOREM BookingChargedOnce == Spec => []ChargedOncePerShipment
BY BookingInductive, PTL DEF IInv

(* Nobody is refunded for a booking that the courier still holds.           *)
THEOREM BookingRefundsAreCancelled == Spec => []RefundedIsCancelledAtCourier
BY BookingInductive, PTL DEF IInv

-----------------------------------------------------------------------------
(***************************************************************************)
(* The number of refunds.  A shipment that is not "cancelled" has had one   *)
(* share of refunds, one per request, for each time a scan revived it; one  *)
(* that is has another share, of which the cancellations still under way    *)
(* are to be paid.                                                         *)
(***************************************************************************)
Cancelling(o) == {r \in Requests : pc[r] \in {"carrier", "mark", "refund"} /\ target[r] = o}
Share == Cardinality(Requests)
Within(status, given, pending, undone) ==
  IF status = "cancelled" THEN given + pending <= Share * undone + Share
                          ELSE given <= Share * undone
RefundsWithin(o) ==
  Within(shipment[o], refunds[o], Cardinality(Cancelling(o)), revived[o])
RefundBudget == \A o \in Orders : RefundsWithin(o)

LEMMA CancellingCount ==
  ASSUME NEW o
  PROVE  /\ IsFiniteSet(Cancelling(o)) /\ Cardinality(Cancelling(o)) \in Nat
         /\ Cardinality(Cancelling(o)) <= Share
         /\ Share \in Nat
<1>1. Cancelling(o) \subseteq Requests
  BY DEF Cancelling
<1>2. IsFiniteSet(Requests)
  BY BookingAssumption
<1> QED BY <1>1, <1>2, FS_Subset, FS_CardinalityType DEF Share

LEMMA Multiples ==
  ASSUME NEW n \in Nat, NEW k \in Nat
  PROVE  n * k \in Nat /\ n * (k + 1) = n * k + n /\ n * (1 + k) = n * k + n
OBVIOUS

(* A shipment that keeps its status: only a cancelled one minds who is cancelling it. *)
LEMMA StatusKept ==
  ASSUME IInv, NEW o \in Orders, RefundsWithin(o),
         shipment'[o] = shipment[o], refunds'[o] = refunds[o], revived'[o] = revived[o],
         shipment[o] # "cancelled" \/ Cancelling(o)' \subseteq Cancelling(o)
  PROVE  RefundsWithin(o)'
<1> DEFINE pending == Cardinality(Cancelling(o))
           left == Cardinality(Cancelling(o)')
           budget == Share * revived[o]
<1>1. refunds[o] \in Nat /\ revived[o] \in Nat
  BY DEF IInv, TypeOK
<1>2. budget \in Nat /\ pending \in Nat /\ Share \in Nat
  BY <1>1, CancellingCount, Multiples
<1>3. Cancelling(o)' \subseteq Cancelling(o) => left \in Nat /\ left <= pending
  BY CancellingCount, FS_Subset, FS_CardinalityType
<1>4. Within(shipment[o], refunds[o], pending, revived[o])
  BY DEF RefundsWithin
<1>5. RefundsWithin(o)' <=> Within(shipment[o], refunds[o], left, revived[o])
  BY DEF RefundsWithin, Within, Share
<1> HIDE DEF pending, left
<1>6. IF shipment[o] = "cancelled" THEN refunds[o] + pending <= budget + Share ELSE refunds[o] <= budget
  BY <1>4 DEF Within
<1> HIDE DEF budget
<1>7. IF shipment[o] = "cancelled" THEN refunds[o] + left <= budget + Share ELSE refunds[o] <= budget
  BY <1>1, <1>2, <1>3, <1>6
<1> QED BY <1>5, <1>7 DEF Within, budget

(* A step that writes no shipment and starts no cancellation. *)
LEMMA NoRefundStep ==
  ASSUME IInv, RefundBudget, UNCHANGED <<shipment, refunds, revived>>,
         \A o \in Orders : Cancelling(o)' \subseteq Cancelling(o)
  PROVE  RefundBudget'
BY StatusKept DEF RefundBudget

(* Whoever ends is cancelling no more, and nobody else begins. *)
LEMMA EndCancels ==
  ASSUME IInv, NEW r \in Requests, End(r)
  PROVE  \A o \in Orders : Cancelling(o)' = Cancelling(o) \ {r}
<1>1. pc \in [Requests -> {"idle", "order", "scan", "funds", "limit", "courier", "insert",
                           "carrier", "mark", "refund"}]
  BY DEF IInv, TypeOK
<1> QED BY <1>1, EndEffect DEF Cancelling

LEMMA BeginBudget ==
  ASSUME IInv, RefundBudget, NEW r \in Requests, NEW o \in Orders, NEW status,
         \/ ChangeStatus(r, o, status)
         \/ Scan(r, o, status)
         \/ Book(r, o)
         \/ CancelShipment(r, o)
  PROVE  RefundBudget'
<1>1. PICK label \in {"order", "scan", "funds", "carrier"} :
        /\ \E s \in OrderStatus \cup ShipmentStatus \cup {status} : Begin(r, o, label, s)
        /\ label = "carrier" => shipment[o] # "cancelled"
  BY DEF IInv, TypeOK, ChangeStatus, Scan, Book, CancelShipment, Cancellable, ShipmentStatus
<1>2. /\ pc[r] = "idle"
      /\ pc' = [pc EXCEPT ![r] = label]
      /\ target' = [target EXCEPT ![r] = o]
      /\ UNCHANGED <<shipment, refunds, revived>>
  BY <1>1 DEF Begin, Goto, books
<1>3. \A y \in Orders : y # o \/ label # "carrier" => Cancelling(y)' \subseteq Cancelling(y)
  BY <1>2 DEF IInv, TypeOK, Cancelling
<1> QED BY <1>1, <1>2, <1>3, StatusKept DEF RefundBudget

LEMMA AbortBudget ==
  ASSUME IInv, RefundBudget, NEW r \in Requests, Abort(r) \/ WriteStatus(r)
  PROVE  RefundBudget'
<1>1. End(r) /\ UNCHANGED <<shipment, refunds, revived>>
  BY DEF Abort, WriteStatus, books
<1> QED BY <1>1, EndCancels, NoRefundStep

LEMMA ProgressBudget ==
  ASSUME IInv, RefundBudget, NEW r \in Requests,
         \/ ReserveFunds(r) \/ CheckLimit(r) \/ BookCourier(r)
         \/ CancelAtCourier(r) \/ MarkCancelled(r)
  PROVE  RefundBudget'
<1>1. PICK label \in {"limit", "courier", "insert", "mark", "refund"} :
        /\ pc' = [pc EXCEPT ![r] = label]
        /\ label \in {"mark", "refund"} => pc[r] \in {"carrier", "mark"}
        /\ UNCHANGED <<target, shipment, refunds, revived>>
  BY DEF ReserveFunds, CheckLimit, BookCourier, CancelAtCourier, MarkCancelled, Goto, books
<1>2. \A o \in Orders : Cancelling(o)' \subseteq Cancelling(o)
  BY <1>1 DEF IInv, TypeOK, Cancelling
<1> QED BY <1>1, <1>2, NoRefundStep

LEMMA CommitBookingBudget ==
  ASSUME IInv, RefundBudget, NEW r \in Requests, NEW status \in {"created", "awb_generated"},
         CommitBooking(r, status)
  PROVE  RefundBudget'
<1>0. PICK o \in Orders : o = target[r]
  BY DEF IInv, TypeOK
<1>1. /\ shipment[o] = "none" /\ shipment' = [shipment EXCEPT ![o] = status]
      /\ UNCHANGED <<refunds, revived>> /\ End(r)
  BY <1>0 DEF CommitBooking, DuplicateOrder
<1>2. ASSUME NEW y \in Orders, y # o PROVE RefundsWithin(y)'
  <2>1. shipment'[y] = shipment[y] /\ Cancelling(y)' \subseteq Cancelling(y)
    BY <1>1, <1>2, EndCancels DEF IInv, TypeOK
  <2> QED BY <1>1, <2>1, StatusKept DEF RefundBudget
<1>3. RefundsWithin(o)'
  <2>1. refunds[o] <= Share * revived[o]
    BY <1>1 DEF RefundBudget, RefundsWithin, Within
  <2>2. shipment'[o] # "cancelled"
    BY <1>1 DEF IInv, TypeOK
  <2> QED BY <1>1, <2>1, <2>2 DEF RefundsWithin, Within, Share
<1> QED BY <1>2, <1>3 DEF RefundBudget

LEMMA WriteScanBudget ==
  ASSUME IInv, RefundBudget, NEW r \in Requests, WriteScan(r)
  PROVE  RefundBudget'
<1>0. PICK o \in Orders : o = target[r]
  BY DEF IInv, TypeOK
<1>1. /\ shipment' = [shipment EXCEPT ![o] = kept[r]]
      /\ revived' = IF shipment[o] = "cancelled" /\ kept[r] # "cancelled"
                    THEN [revived EXCEPT ![o] = @ + 1] ELSE revived
      /\ UNCHANGED refunds /\ End(r)
  BY <1>0 DEF WriteScan, books
<1>2. ASSUME NEW y \in Orders, y # o PROVE RefundsWithin(y)'
  <2>1. shipment'[y] = shipment[y] /\ revived'[y] = revived[y] /\ Cancelling(y)' \subseteq Cancelling(y)
    BY <1>1, <1>2, EndCancels DEF IInv, TypeOK
  <2> QED BY <1>1, <2>1, StatusKept DEF RefundBudget
<1>3. RefundsWithin(o)'
  <2> DEFINE pending == Cardinality(Cancelling(o))
             left == Cardinality(Cancelling(o)')
             n == refunds[o]
             k == revived[o]
             budget == Share * k
  <2>1. n \in Nat /\ k \in Nat
    BY DEF IInv, TypeOK
  <2>2. budget \in Nat /\ pending \in Nat /\ pending <= Share /\ Share \in Nat
        /\ Share * (k + 1) = budget + Share
    BY <2>1, CancellingCount, Multiples
  <2>3. left \in Nat /\ left <= pending
    <3>1. Cancelling(o)' \subseteq Cancelling(o)
      BY <1>1, EndCancels
    <3> QED BY <3>1, CancellingCount, FS_Subset, FS_CardinalityType
  <2>4. Within(shipment[o], n, pending, k)
    BY DEF RefundBudget, RefundsWithin
  <2>5. shipment'[o] = kept[r]
    BY <1>1 DEF IInv, TypeOK
  <2>6. revived'[o] = IF shipment[o] = "cancelled" /\ kept[r] # "cancelled" THEN k + 1 ELSE k
    BY <1>1 DEF IInv, TypeOK
  <2>7. RefundsWithin(o)' <=> Within(kept[r], n, left, revived'[o])
    BY <1>1, <2>5 DEF RefundsWithin, Within, Share
  <2> HIDE DEF pending, left, n, k
  <2>8. IF shipment[o] = "cancelled" THEN n + pending <= budget + Share ELSE n <= budget
    BY <2>4 DEF Within
  <2> HIDE DEF budget
  <2>9. CASE kept[r] = "cancelled"
    <3>1. n + left <= budget + Share
      BY <2>1, <2>2, <2>3, <2>8
    <3> QED BY <2>6, <2>7, <2>9, <3>1 DEF Within, budget
  <2>10. CASE kept[r] # "cancelled" /\ shipment[o] = "cancelled"
    <3>1. n <= Share * (k + 1)
      BY <2>1, <2>2, <2>8, <2>10
    <3> QED BY <2>6, <2>7, <2>10, <3>1 DEF Within
  <2>11. CASE kept[r] # "cancelled" /\ shipment[o] # "cancelled"
    BY <2>6, <2>7, <2>8, <2>11 DEF Within, budget
  <2> QED BY <2>9, <2>10, <2>11
<1> QED BY <1>2, <1>3 DEF RefundBudget

LEMMA CommitCancelBudget ==
  ASSUME IInv, RefundBudget, NEW r \in Requests, CommitCancel(r)
  PROVE  RefundBudget'
<1>0. PICK o \in Orders : o = target[r]
  BY DEF IInv, TypeOK
<1>1. /\ pc[r] = "refund"
      /\ shipment' = [shipment EXCEPT ![o] = "cancelled"]
      /\ refunds' = [refunds EXCEPT ![o] = @ + 1]
      /\ UNCHANGED revived /\ End(r)
  BY <1>0 DEF CommitCancel
<1>2. ASSUME NEW y \in Orders, y # o PROVE RefundsWithin(y)'
  <2>1. shipment'[y] = shipment[y] /\ refunds'[y] = refunds[y] /\ Cancelling(y)' \subseteq Cancelling(y)
    BY <1>1, <1>2, EndCancels DEF IInv, TypeOK
  <2> QED BY <1>1, <2>1, StatusKept DEF RefundBudget
<1>3. RefundsWithin(o)'
  <2> DEFINE pending == Cardinality(Cancelling(o))
             n == refunds[o]
             budget == Share * revived[o]
  <2>1. n \in Nat /\ revived[o] \in Nat
    BY DEF IInv, TypeOK
  <2>2. budget \in Nat /\ pending \in Nat /\ pending <= Share /\ Share \in Nat
    BY <2>1, CancellingCount, Multiples
  <2>3. Cardinality(Cancelling(o)') = pending - 1
    <3>1. Cancelling(o)' = Cancelling(o) \ {r} /\ r \in Cancelling(o)
      BY <1>0, <1>1, EndCancels DEF Cancelling
    <3> QED BY <3>1, CancellingCount, FS_RemoveElement
  <2>4. Within(shipment[o], n, pending, revived[o])
    BY DEF RefundBudget, RefundsWithin
  <2>5. shipment'[o] = "cancelled" /\ refunds'[o] = n + 1 /\ revived'[o] = revived[o]
    BY <1>1 DEF IInv, TypeOK
  <2>6. RefundsWithin(o)' <=> Within("cancelled", n + 1, pending - 1, revived[o])
    BY <2>3, <2>5 DEF RefundsWithin, Within, Share
  <2> HIDE DEF pending, n
  <2>7. IF shipment[o] = "cancelled" THEN n + pending <= budget + Share ELSE n <= budget
    BY <2>4 DEF Within
  <2> HIDE DEF budget
  <2>8. n + 1 + (pending - 1) <= budget + Share
    BY <2>1, <2>2, <2>7
  <2> QED BY <2>6, <2>8 DEF Within, budget
<1> QED BY <1>2, <1>3 DEF RefundBudget

LEMMA NextBudget == IInv /\ RefundBudget /\ [Next]_vars => RefundBudget'
<1> SUFFICES ASSUME IInv, RefundBudget, [Next]_vars
             PROVE  RefundBudget'
  OBVIOUS
<1>1. ASSUME NEW r \in Requests, NEW o \in Orders, NEW status,
             \/ ChangeStatus(r, o, status) \/ Scan(r, o, status)
             \/ Book(r, o) \/ CancelShipment(r, o)
      PROVE  RefundBudget'
  BY <1>1, BeginBudget
<1>2. ASSUME NEW r \in Requests, Abort(r)
      PROVE  RefundBudget'
  BY <1>2, AbortBudget
<1>3. ASSUME NEW r \in Requests, Advance(r)
      PROVE  RefundBudget'
  <2>1. CASE RefuseFunds(r) \/ RefuseLimit(r) \/ RefuseDuplicate(r) \/ BreakDeadlock(r)
    BY <1>2, <2>1 DEF RefuseFunds, RefuseLimit, RefuseDuplicate, BreakDeadlock
  <2>2. CASE WriteStatus(r)
    BY <2>2, AbortBudget
  <2>3. CASE \/ ReserveFunds(r) \/ CheckLimit(r) \/ BookCourier(r)
             \/ CancelAtCourier(r) \/ MarkCancelled(r)
    BY <2>3, ProgressBudget
  <2>4. CASE \E status \in {"created", "awb_generated"} : CommitBooking(r, status)
    BY <2>4, CommitBookingBudget
  <2> QED BY <1>3, <2>1, <2>2, <2>3, <2>4, WriteScanBudget, CommitCancelBudget DEF Advance
<1>4. ASSUME NEW o \in Orders, CourierDrops(o)
      PROVE  RefundBudget'
  <2>1. UNCHANGED <<shipment, refunds, revived, pc, target>>
    BY <1>4 DEF CourierDrops, books
  <2> QED BY <2>1, NoRefundStep DEF Cancelling
<1>5. CASE UNCHANGED vars
  BY <1>5, NoRefundStep DEF vars, books, Cancelling
<1>6. ASSUME NEW r \in Requests, Fail(r)
      PROVE  RefundBudget'
  BY <1>2, <1>6 DEF Fail
<1>7. QED
  BY <1>1, <1>3, <1>4, <1>5, <1>6 DEF Next

(* One cancellation is refunded once; those that overlap it, and those that  *)
(* follow a scan that undid it, are all that can refund it again.           *)
THEOREM BookingRefundsBounded == Spec => []RefundsBoundedByOverlap
<1>1. Init => RefundBudget
  <2>1. Share * 0 = 0
    BY CancellingCount
  <2> QED BY <2>1 DEF Init, RefundBudget, RefundsWithin, Within
<1>2. IInv /\ RefundBudget => RefundsBoundedByOverlap
  <2> SUFFICES ASSUME IInv, RefundBudget, NEW o \in Orders
               PROVE  refunds[o] <= Cardinality(Requests) * (1 + revived[o])
    BY DEF RefundsBoundedByOverlap
  <2> DEFINE budget == Share * revived[o]
             pending == Cardinality(Cancelling(o))
  <2>1. refunds[o] \in Nat /\ revived[o] \in Nat
    BY DEF IInv, TypeOK
  <2>2. budget \in Nat /\ Share * (1 + revived[o]) = budget + Share
        /\ Share \in Nat /\ pending \in Nat
    BY <2>1, Multiples, CancellingCount
  <2>3. IF shipment[o] = "cancelled" THEN refunds[o] + pending <= budget + Share ELSE refunds[o] <= budget
    BY DEF RefundBudget, RefundsWithin, Within
  <2> HIDE DEF budget, pending
  <2>4. refunds[o] <= Share * (1 + revived[o])
    BY <2>1, <2>2, <2>3
  <2> QED BY <2>4 DEF Share
<1>3. QED
  BY <1>1, <1>2, BookingInductive, NextBudget, PTL DEF Spec

-----------------------------------------------------------------------------
(* ImplementsAccounts: a booking that commits still holds the wallet, so funds and *)
(* plan are as it checked them, and the unique index has the last word about the   *)
(* order; a cancellation commits only after the courier gave the booking up.       *)
Held == {o \in Orders : awb[o] = "live"}
accounts == <<balance, usage, debits, refunds, Held>>

LEMMA BookingIsBook ==
  ASSUME IInv, NEW r \in Requests, NEW status \in {"created", "awb_generated"},
         CommitBooking(r, status)
  PROVE  Accounts!Next
<1>1. PICK o \in Orders : o = target[r]
  BY DEF IInv, TypeOK
<1>2. /\ pc[r] = "insert" /\ shipment[o] = "none"
      /\ balance' = balance - Rate[o] /\ usage' = usage + 1
      /\ debits' = [debits EXCEPT ![o] = @ + 1] /\ refunds' = refunds
      /\ awb' = [awb EXCEPT ![o] = "live"]
  BY <1>1 DEF CommitBooking, DuplicateOrder
<1>3. balance >= Rate[o] /\ usage < Limit
  BY <1>1, <1>2 DEF IInv, BookingHoldsWallet, BookingWithinLimit
<1>4. debits[o] = 0 /\ debits' = [debits EXCEPT ![o] = 1]
  <2>1. debits[o] = 0
    BY <1>2 DEF IInv, ChargedOncePerShipment
  <2> QED BY <1>2, <2>1
<1>5. Held' = Held \cup {o}
  BY <1>2 DEF Held, IInv, TypeOK
<1>6. Accounts!Book(o)
  BY <1>2, <1>3, <1>4, <1>5 DEF Accounts!Book, Held
<1> QED BY <1>6 DEF Accounts!Next

LEMMA CancellationIsRefund ==
  ASSUME IInv, NEW r \in Requests, CommitCancel(r)
  PROVE  Accounts!Next
<1>1. PICK o \in Orders : o = target[r]
  BY DEF IInv, TypeOK
<1>2. /\ pc[r] = "refund" /\ balance' = balance + Rate[o]
      /\ refunds' = [refunds EXCEPT ![o] = @ + 1]
      /\ UNCHANGED <<awb, usage, debits>>
  BY <1>1 DEF CommitCancel, courier
<1>3. shipment[o] # "none" /\ awb[o] = "cancelled"
  BY <1>1, <1>2 DEF IInv, RowOfRequest
<1>4. debits[o] = 1 /\ o \notin Held /\ Held' = Held
  BY <1>2, <1>3 DEF IInv, ChargedOncePerShipment, Held
<1>5. Accounts!Refund(o)
  BY <1>2, <1>4 DEF Accounts!Refund, Held
<1> QED BY <1>5 DEF Accounts!Next

(* The courier drops a booking because it is asked to, or on its own account. *)
LEMMA GivenUpIsDrop ==
  ASSUME IInv, NEW o \in Orders, awb' = [awb EXCEPT ![o] = "cancelled"], UNCHANGED books
  PROVE  UNCHANGED accounts \/ Accounts!Next
<1>1. UNCHANGED <<balance, usage, debits, refunds>> /\ Held' = Held \ {o}
  BY DEF books, Held, IInv, TypeOK
<1>2. CASE o \in Held
  <2>1. Accounts!Drop(o)
    BY <1>1, <1>2 DEF Accounts!Drop, Held
  <2> QED BY <2>1 DEF Accounts!Next
<1>3. CASE o \notin Held
  BY <1>1, <1>3 DEF accounts
<1> QED BY <1>2, <1>3

LEMMA StepOfAccounts == IInv /\ [Next]_vars => [Accounts!Next]_accounts
<1> SUFFICES ASSUME IInv, [Next]_vars PROVE UNCHANGED accounts \/ Accounts!Next
  OBVIOUS
<1>0. ASSUME UNCHANGED <<awb, books>> PROVE UNCHANGED accounts
  BY <1>0 DEF books, accounts, Held
<1>1. ASSUME NEW r \in Requests, NEW o \in Orders, NEW status,
             \/ ChangeStatus(r, o, status) \/ Scan(r, o, status)
             \/ Book(r, o) \/ CancelShipment(r, o)
      PROVE  UNCHANGED accounts
  BY <1>0, <1>1 DEF ChangeStatus, Scan, Book, CancelShipment, Begin, courier
<1>2. ASSUME NEW r \in Requests, Abort(r) PROVE UNCHANGED accounts
  BY <1>0, <1>2 DEF Abort
<1>3. ASSUME NEW r \in Requests, Advance(r) PROVE UNCHANGED accounts \/ Accounts!Next
  <2>1. CASE RefuseFunds(r) \/ RefuseLimit(r) \/ RefuseDuplicate(r) \/ BreakDeadlock(r)
    BY <1>2, <2>1 DEF RefuseFunds, RefuseLimit, RefuseDuplicate, BreakDeadlock
  <2>2. CASE \/ WriteStatus(r) \/ WriteScan(r) \/ ReserveFunds(r) \/ CheckLimit(r)
             \/ BookCourier(r) \/ MarkCancelled(r)
    BY <1>0, <2>2 DEF WriteStatus, WriteScan, ReserveFunds, CheckLimit, BookCourier, MarkCancelled, courier
  <2>3. CASE CancelAtCourier(r)
    <3>1. PICK o \in Orders : o = target[r]
      BY DEF IInv, TypeOK
    <3> QED BY <2>3, <3>1, GivenUpIsDrop DEF CancelAtCourier
  <2> QED BY <1>3, <2>1, <2>2, <2>3, BookingIsBook, CancellationIsRefund DEF Advance
<1>4. ASSUME NEW o \in Orders, CourierDrops(o) PROVE UNCHANGED accounts \/ Accounts!Next
  BY <1>4, GivenUpIsDrop DEF CourierDrops
<1>5. ASSUME NEW r \in Requests, Fail(r) PROVE UNCHANGED accounts
  BY <1>2, <1>5 DEF Fail
<1>6. CASE UNCHANGED vars
  BY <1>0, <1>6 DEF vars, courier
<1> QED BY <1>1, <1>3, <1>4, <1>5, <1>6 DEF Next

(* createShipment and cancelShipment keep the promise of ShipmentAccounts: each   *)
(* COMMIT is one booking or one refund that is allowed at that very moment.       *)
THEOREM BookingImplementsAccounts == Spec => ImplementsAccounts
<1>1. Init => Accounts!Init
  BY DEF Init, Accounts!Init
<1>2. IInv /\ [Next]_vars
        => [Accounts!Next]_<<balance, usage, debits, refunds, {o \in Orders : awb[o] = "live"}>>
  BY StepOfAccounts DEF accounts, Held
<1> QED
  BY <1>1, <1>2, BookingInductive, PTL DEF Spec, ImplementsAccounts, Accounts!Spec

-----------------------------------------------------------------------------
(* WaitsEndOrAreBroken: the wallet row is held by one booking, from its check to  *)
(* COMMIT, and shipment rows by cancellations that now need the wallet.           *)
LocksHeld ==
  /\ \A r \in Requests : walletLock = r => pc[r] \in {"limit", "courier", "insert"}
  /\ \A o \in Orders, r \in Requests : shipLock[o] = r => pc[r] = "refund"

LEMMA InitLocks == Init => LocksHeld
BY BookingAssumption DEF Init, LocksHeld

(* Steps that take no lock: one request moves, or ends and frees what it held. *)
LEMMA NoLockTaken ==
  ASSUME IInv, LocksHeld, NEW r \in Requests,
         \/ End(r)
         \/ /\ UNCHANGED locks
            /\ \E label : /\ pc' = [pc EXCEPT ![r] = label]
                          /\ pc[r] \in {"limit", "courier"} => label \in {"limit", "courier", "insert"}
            /\ pc[r] \notin {"insert", "refund"}
  PROVE  LocksHeld'
<1>1. CASE End(r)
  BY <1>1, BookingAssumption DEF End, Goto, LocksHeld, IInv, TypeOK
<1>2. ASSUME UNCHANGED locks, NEW label, pc' = [pc EXCEPT ![r] = label],
             pc[r] \in {"limit", "courier"} => label \in {"limit", "courier", "insert"},
             pc[r] \notin {"insert", "refund"}
      PROVE  LocksHeld'
  BY <1>2 DEF locks, LocksHeld, IInv, TypeOK
<1> QED BY <1>1, <1>2

LEMMA StepLocks == IInv /\ LocksHeld /\ [Next]_vars => LocksHeld'
<1> SUFFICES ASSUME IInv, LocksHeld, [Next]_vars PROVE LocksHeld'
  OBVIOUS
<1>1. ASSUME NEW r \in Requests, NEW o \in Orders, NEW status,
             \/ ChangeStatus(r, o, status) \/ Scan(r, o, status)
             \/ Book(r, o) \/ CancelShipment(r, o)
      PROVE  LocksHeld'
  <2>1. \E label, s : Begin(r, o, label, s)
    BY <1>1 DEF ChangeStatus, Scan, Book, CancelShipment
  <2> QED BY <2>1, NoLockTaken DEF Begin, Goto
<1>2. ASSUME NEW r \in Requests, Abort(r) PROVE LocksHeld'
  BY <1>2, NoLockTaken DEF Abort
<1>3. ASSUME NEW r \in Requests, Advance(r) PROVE LocksHeld'
  <2>1. CASE RefuseFunds(r) \/ RefuseLimit(r) \/ RefuseDuplicate(r) \/ BreakDeadlock(r)
    BY <1>2, <2>1 DEF RefuseFunds, RefuseLimit, RefuseDuplicate, BreakDeadlock
  <2>2. CASE WriteStatus(r) \/ WriteScan(r) \/ CommitCancel(r)
             \/ \E status \in {"created", "awb_generated"} : CommitBooking(r, status)
    BY <2>2, NoLockTaken DEF WriteStatus, WriteScan, CommitCancel, CommitBooking
  <2>3. CASE CheckLimit(r) \/ BookCourier(r) \/ CancelAtCourier(r)
    BY <2>3, NoLockTaken DEF CheckLimit, BookCourier, CancelAtCourier, Goto
  <2>4. CASE ReserveFunds(r)
    <3>1. pc[r] = "funds" /\ walletLock' = r /\ shipLock' = shipLock /\ pc' = [pc EXCEPT ![r] = "limit"]
      BY <2>4 DEF ReserveFunds, Goto
    <3> QED BY <3>1 DEF LocksHeld, IInv, TypeOK
  <2>5. CASE MarkCancelled(r)
    <3>1. /\ pc[r] = "mark" /\ walletLock' = walletLock /\ pc' = [pc EXCEPT ![r] = "refund"]
          /\ shipLock' = [shipLock EXCEPT ![target[r]] = r]
      BY <2>5 DEF MarkCancelled, Goto
    <3> QED BY <3>1 DEF LocksHeld, IInv, TypeOK
  <2> QED BY <1>3, <2>1, <2>2, <2>3, <2>4, <2>5 DEF Advance
<1>4. ASSUME NEW o \in Orders, CourierDrops(o) PROVE LocksHeld'
  BY <1>4 DEF CourierDrops, locks, LocksHeld
<1>5. ASSUME NEW r \in Requests, Fail(r) PROVE LocksHeld'
  BY <1>2, <1>5 DEF Fail
<1>6. CASE UNCHANGED vars
  BY <1>6 DEF vars, locks, LocksHeld
<1> QED BY <1>1, <1>3, <1>4, <1>5, <1>6 DEF Next

(* The one deadlock of bookings, cancellations and scans is that of a booking which  *)
(* inserts the row of a shipment that is being cancelled.                           *)
THEOREM BookingWaitsEnd == Spec => []WaitsEndOrAreBroken
<1>1. IInv /\ LocksHeld => WaitsEndOrAreBroken
  <2> SUFFICES ASSUME IInv, LocksHeld, NEW p \in Requests, NEW q \in Requests, NEW r \in Requests,
                      q \in WaitsFor(p), r \in WaitsFor(q), WaitsFor(r) # {}
               PROVE  \E b \in {q, r}, c \in Requests : Deadlocked(b, c)
    BY DEF WaitsEndOrAreBroken
  <2>1. ASSUME NEW a \in Requests, NEW b \in WaitsFor(a), b \in Requests
        PROVE  \/ walletLock = b /\ pc[a] \in {"funds", "refund"}
               \/ shipLock[target[a]] = b /\ pc[a] \in {"insert", "mark", "scan"}
    BY <2>1 DEF WaitsFor
  <2>2. ASSUME NEW b \in Requests, walletLock = b, WaitsFor(b) # {}
        PROVE  \E c \in Requests : Deadlocked(b, c)
    <3>1. PICK c : c \in WaitsFor(b)
      BY <2>2
    <3>2. pc[b] \in {"limit", "courier", "insert"}
      BY <2>2 DEF LocksHeld
    <3>3. pc[b] = "insert" /\ shipLock[target[b]] = c /\ c # NoRequest
      BY <3>1, <3>2 DEF WaitsFor
    <3>4. c \in Requests
      BY <3>3 DEF IInv, TypeOK
    <3>5. pc[c] = "refund"
      BY <3>3, <3>4 DEF LocksHeld, IInv, TypeOK
    <3> QED BY <2>2, <3>3, <3>4, <3>5 DEF Deadlocked
  <2>3. CASE walletLock = q
    BY <2>2, <2>3
  <2>4. CASE walletLock # q
    <3>1. shipLock[target[p]] = q
      BY <2>1, <2>4
    <3>2. pc[q] = "refund"
      BY <3>1 DEF LocksHeld, IInv, TypeOK
    <3>3. walletLock = r
      BY <2>1, <3>2
    <3> QED BY <2>2, <3>3
  <2> QED BY <2>3, <2>4
<1> QED BY <1>1, InitLocks, StepLocks, BookingInductive, PTL DEF Spec
=============================================================================
