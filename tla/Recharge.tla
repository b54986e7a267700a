------------------------------ MODULE Recharge ------------------------------
(***************************************************************************)
(* services/recharge.service.js: a RechargeOrder from its creation to the  *)
(* credit of the wallet.  The browser's verify call, the gateway's webhook *)
(* deliveries (payment.captured and order.paid, each repeated until it is  *)
(* acknowledged) and new initiations run concurrently; a handler is split  *)
(* where it awaits the database or the gateway.                            *)
(*                                                                         *)
(* walletService.credit runs in the handler's transaction and is, by       *)
(* Wallet.tla, one atomic posting at COMMIT: credits[o] counts the ledger  *)
(* rows whose reference is order o.                                        *)
(***************************************************************************)
EXTENDS Integers

CONSTANTS
  Orders,      \* recharge orders
  Handlers,    \* requests that can be in progress at the same time
  NoHandler,   \* the order row is not locked
  MaxRejected, \* bound: verify calls with a signature that does not match, per order
  MaxFaults    \* bound: gateway errors, crashes and lost transactions

ASSUME RechargeAssumption ==
  /\ NoHandler \notin Handlers
  /\ MaxRejected \in Nat
  /\ MaxFaults \in Nat

VARIABLES
  status,      \* status[o]: recharge_orders.status, "none" before the row exists
  orderLock,   \* orderLock[o]: the transaction that holds the order's row
  paid,        \* paid[o]: the customer paid the gateway order
  credits,     \* credits[o]: committed wallet credits that refer to o
  rejected,    \* rejected[o]: verify calls that marked o failed
  faults,      \* faults so far
  stranded,    \* history: orders whose own initiation failed before line 45
  pc,          \* pc[h]: where handler h is
  target,      \* target[h]: the order it works on
  saw          \* saw[h]: the status it read without a lock

vars == <<status, orderLock, paid, credits, rejected, faults, stranded, pc, target, saw>>

Status == {"none", "created", "pending", "success", "failed"}

Init ==
  /\ status    = [o \in Orders |-> "none"]
  /\ orderLock = [o \in Orders |-> NoHandler]
  /\ paid      = [o \in Orders |-> FALSE]
  /\ credits   = [o \in Orders |-> 0]
  /\ rejected  = [o \in Orders |-> 0]
  /\ faults    = 0
  /\ stranded  = {}
  /\ pc        = [h \in Handlers |-> "idle"]
  /\ target    \in [Handlers -> Orders]
  /\ saw       = [h \in Handlers |-> "none"]

Goto(h, label) == pc' = [pc EXCEPT ![h] = label]

(* Mutants: no FOR UPDATE, a lock not released. *)
ReadUnlocked(o) == TRUE
LocksNotFreed(h) == UNCHANGED orderLock

Unlocked(o) == orderLock[o] = NoHandler
FreeLocks(h) ==
  orderLock' = [o \in Orders |-> IF orderLock[o] = h THEN NoHandler ELSE orderLock[o]]

(* Begin a request on o after its first, unlocked read of the row. *)
Begin(h, o, label) ==
  /\ pc[h] = "idle"
  /\ target' = [target EXCEPT ![h] = o]
  /\ saw' = [saw EXCEPT ![h] = status[o]]
  /\ Goto(h, label)

-----------------------------------------------------------------------------
(* initiateRecharge.  gateway_order_id is UNIQUE and every new row carries  *)
(* the same placeholder, so the insert fails while another row has it.      *)
CreateOrder(h, o) ==
  /\ status[o] = "none"
  /\ \A p \in Orders : status[p] # "created"
  /\ Begin(h, o, "gateway")
  /\ status' = [status EXCEPT ![o] = "created"]
  /\ UNCHANGED <<orderLock, paid, credits, rejected, faults, stranded>>

(* Mutant: the gateway's order id is not stored. *)
GatewayOrderNotStored(h) ==
  /\ pc[h] = "gateway"
  /\ Goto(h, "idle")
  /\ UNCHANGED <<status, orderLock, paid, credits, rejected, faults, stranded, target, saw>>

(* The gateway's order id replaces the placeholder and goes to the browser. *)
RecordGatewayOrder(h) ==
  /\ pc[h] = "gateway"
  /\ Unlocked(target[h])
  /\ status' = [status EXCEPT ![target[h]] = "pending"]
  /\ Goto(h, "idle")
  /\ UNCHANGED <<orderLock, paid, credits, rejected, faults, stranded, target, saw>>

(* The customer pays in the checkout (outside the program). *)
Pay(o) ==
  /\ status[o] \in {"pending", "failed"}
  /\ ~paid[o]
  /\ paid' = [paid EXCEPT ![o] = TRUE]
  /\ UNCHANGED <<status, orderLock, credits, rejected, faults, stranded, pc, target, saw>>

(* Mutant: the outcome of the signature check is not used. *)
VerifyUnsigned(h, o, valid) ==
  /\ status[o] \in {"pending", "failed"}
  /\ Begin(h, o, "lock")
  /\ UNCHANGED <<status, orderLock, paid, credits, rejected, faults, stranded>>

(* verifyRechargePayment, its unlocked read and the signature check; an     *)
(* order seen as "success" is answered at once.                            *)
Verify(h, o, valid) ==
  /\ status[o] \in {"pending", "failed"}
  /\ valid => paid[o]
  /\ ~valid => rejected[o] < MaxRejected
  /\ Begin(h, o, IF valid THEN "lock" ELSE "reject")
  /\ UNCHANGED <<status, orderLock, paid, credits, rejected, faults, stranded>>

(* order.update on the instance read before: Sequelize issues an UPDATE only *)
(* if the value differs from the one read.                                 *)
MarkFailed(h) ==
  /\ pc[h] = "reject"
  /\ Unlocked(target[h])
  /\ status' = IF saw[h] = "failed" THEN status ELSE [status EXCEPT ![target[h]] = "failed"]
  /\ rejected' = [rejected EXCEPT ![target[h]] = @ + 1]
  /\ Goto(h, "idle")
  /\ UNCHANGED <<orderLock, paid, credits, faults, stranded, target, saw>>

(* Mutant: only a pending order is looked up. *)
WebhookIfPending(h, o) ==
  /\ paid[o]
  /\ status[o] = "pending"
  /\ Begin(h, o, "lock")
  /\ UNCHANGED <<status, orderLock, paid, credits, rejected, faults, stranded>>

(* handleGatewayWebhook for payment.captured or order.paid, its unlocked     *)
(* read; a delivery for an order seen as "success" is acknowledged.         *)
Webhook(h, o) ==
  /\ paid[o]
  /\ status[o] # "success"
  /\ Begin(h, o, "lock")
  /\ UNCHANGED <<status, orderLock, paid, credits, rejected, faults, stranded>>

(* Both: RechargeOrder.findByPk FOR UPDATE, then the status again. *)
LockOrder(h) ==
  /\ pc[h] = "lock"
  /\ Unlocked(target[h])
  /\ IF status[target[h]] = "success"
     THEN Goto(h, "idle") /\ UNCHANGED orderLock
     ELSE Goto(h, "credit") /\ orderLock' = [orderLock EXCEPT ![target[h]] = h]
  /\ UNCHANGED <<status, paid, credits, rejected, faults, stranded, target, saw>>

(* walletService.credit in the same transaction, status "success", COMMIT. *)
Confirm(h) ==
  /\ pc[h] = "credit"
  /\ credits' = [credits EXCEPT ![target[h]] = @ + 1]
  /\ status' = [status EXCEPT ![target[h]] = "success"]
  /\ FreeLocks(h)
  /\ Goto(h, "idle")
  /\ UNCHANGED <<paid, rejected, faults, stranded, target, saw>>

(* The gateway rejects the order, the credit throws, the connection or the  *)
(* process is lost: the open transaction is rolled back, the rest is left.  *)
(* An initiation that ends here leaves its row with the placeholder.        *)
Fail(h) ==
  /\ pc[h] # "idle"
  /\ faults < MaxFaults
  /\ faults' = faults + 1
  /\ stranded' = stranded \cup (IF pc[h] = "gateway" THEN {target[h]} ELSE {})
  /\ FreeLocks(h)
  /\ Goto(h, "idle")
  /\ UNCHANGED <<status, paid, credits, rejected, target, saw>>

-----------------------------------------------------------------------------
Step(h) ==
  \/ RecordGatewayOrder(h)
  \/ MarkFailed(h)
  \/ LockOrder(h)
  \/ Confirm(h)

Next ==
  \/ \E h \in Handlers, o \in Orders : CreateOrder(h, o)
  \/ \E h \in Handlers, o \in Orders, valid \in BOOLEAN : Verify(h, o, valid)
  \/ \E h \in Handlers, o \in Orders : Webhook(h, o)
  \/ \E o \in Orders : Pay(o)
  \/ \E h \in Handlers : Step(h) \/ Fail(h)

(***************************************************************************)
(* A handler in progress goes on (row locks are granted in turn), and the  *)
(* gateway redelivers the webhook of a paid order until it is acknowledged. *)
(* Nobody is assumed to pay, to verify or to initiate.                      *)
(***************************************************************************)
Fairness ==
  /\ \A h \in Handlers : SF_vars(Step(h))
  /\ \A o \in Orders : SF_vars(\E h \in Handlers : Webhook(h, o))

Spec == Init /\ [][Next]_vars
FairSpec == Spec /\ Fairness

-----------------------------------------------------------------------------
(* Types of the variables; the row of an order is locked only by a handler   *)
(* that is about to credit it.                                             *)
TypeOK ==
  /\ status \in [Orders -> Status]
  /\ orderLock \in [Orders -> Handlers \cup {NoHandler}]
  /\ paid \in [Orders -> BOOLEAN]
  /\ credits \in [Orders -> Nat]
  /\ rejected \in [Orders -> Nat]
  /\ faults \in 0..MaxFaults
  /\ stranded \subseteq Orders
  /\ pc \in [Handlers -> {"idle", "gateway", "reject", "lock", "credit"}]
  /\ target \in [Handlers -> Orders]
  /\ saw \in [Handlers -> Status]
  /\ \A o \in Orders : orderLock[o] # NoHandler =>
       pc[orderLock[o]] = "credit" /\ target[orderLock[o]] = o

(* A payment is credited once, plus at most once per verify call that was    *)
(* rejected: verify, webhook deliveries and their retries, in any order and  *)
(* with any faults, never credit twice by themselves.                      *)
CreditsBoundedByRejections ==
  \A o \in Orders : credits[o] <= 1 + rejected[o]

(* What the code's comments say of verify and webhook: no double credit.    *)
CreditedAtMostOnce == \A o \in Orders : credits[o] <= 1

(* The status and the ledger agree: an order reported as "success" has been   *)
(* credited, and only a paid order is.                                     *)
SuccessIsCredited ==
  \A o \in Orders :
    /\ status[o] = "success" => credits[o] >= 1
    /\ credits[o] >= 1 => paid[o]

(* A payment the gateway took reaches the wallet, through faults and after   *)
(* rejected verify calls.                                                  *)
PaidIsCredited == \A o \in Orders : paid[o] ~> credits[o] >= 1

(* The placeholder that blocks every other initiation is given back whatever  *)
(* faults hit the other requests; only an initiation that itself fails        *)
(* between the insert and line 45 leaves it taken, and for ever.              *)
PlaceholderReleased ==
  \A o \in Orders : status[o] = "created" ~> (status[o] = "pending" \/ o \in stranded)
=============================================================================
