--------------------------- MODULE RechargeProofs ---------------------------
(***************************************************************************)
(* Proofs about Recharge, for every set of orders and handlers and every   *)
(* bound.  The argument: a handler credits only while it holds the order's *)
(* row and after it saw there, under the lock, that the order is not       *)
(* "success" (CreditorHoldsRow); so every credit beyond the first needs a  *)
(* verify call to have marked the order failed in between (CreditBudget).  *)
(***************************************************************************)
EXTENDS Recharge, TLAPS

Started(o) == status[o] \in {"pending", "success", "failed"}

(* Past its unlocked read, a handler works on an order in the right stage. *)
StageOfTarget ==
  \A h \in Handlers :
    /\ pc[h] = "gateway" => status[target[h]] = "created"
    /\ pc[h] = "reject" => Started(target[h])
    /\ pc[h] \in {"lock", "credit"} => paid[target[h]]

(* At most one request initiates an order. *)
OneInitiator ==
  \A g, h \in Handlers :
    pc[g] = "gateway" /\ pc[h] = "gateway" /\ target[g] = target[h] => g = h

PaidIsStarted == \A o \in Orders : paid[o] => Started(o)

CreditorHoldsRow ==
  \A h \in Handlers : pc[h] = "credit" =>
    /\ orderLock[target[h]] = h
    /\ status[target[h]] # "success"

CreditBudget ==
  \A o \in Orders :
    credits[o] <= rejected[o] + (IF status[o] = "success" THEN 1 ELSE 0)

IInv ==
  /\ TypeOK
  /\ StageOfTarget
  /\ OneInitiator
  /\ PaidIsStarted
  /\ CreditorHoldsRow
  /\ CreditBudget
  /\ SuccessIsCredited

-----------------------------------------------------------------------------
LEMMA InitIInv == Init => IInv
BY RechargeAssumption
   DEF Init, IInv, TypeOK, Status, StageOfTarget, OneInitiator, PaidIsStarted,
       CreditorHoldsRow, CreditBudget, SuccessIsCredited

(* Steps that begin a request, wait or give up change no order. *)
LEMMA CreateOrderStep ==
  ASSUME IInv, NEW h \in Handlers, NEW o \in Orders, CreateOrder(h, o)
  PROVE  IInv'
<1> USE DEF IInv, TypeOK, Status, CreateOrder, Begin, Goto, Started
<1>1. TypeOK'
  OBVIOUS
<1>2. StageOfTarget' /\ OneInitiator' /\ PaidIsStarted'
  BY DEF StageOfTarget, OneInitiator, PaidIsStarted
<1>3. CreditorHoldsRow'
  BY DEF CreditorHoldsRow
<1>4. CreditBudget' /\ SuccessIsCredited'
  BY DEF CreditBudget, SuccessIsCredited
<1>5. QED
  BY <1>1, <1>2, <1>3, <1>4

LEMMA VerifyOrWebhookStep ==
  ASSUME IInv, NEW h \in Handlers, NEW o \in Orders, NEW valid \in BOOLEAN,
         Verify(h, o, valid) \/ Webhook(h, o)
  PROVE  IInv'
<1>1. /\ pc[h] = "idle"
      /\ \E label \in {"lock", "reject"} :
           /\ pc' = [pc EXCEPT ![h] = label]
           /\ label = "lock" => paid[o]
           /\ label = "reject" => Started(o)
      /\ target' = [target EXCEPT ![h] = o]
      /\ saw' = [saw EXCEPT ![h] = status[o]]
      /\ UNCHANGED <<status, orderLock, paid, credits, rejected, faults, stranded>>
  BY DEF Verify, Webhook, Begin, Goto, Started
<1> USE <1>1 DEF IInv, TypeOK, Status, Started
<1>2. TypeOK'
  OBVIOUS
<1>3. StageOfTarget' /\ OneInitiator' /\ PaidIsStarted'
  BY DEF StageOfTarget, OneInitiator, PaidIsStarted
<1>4. CreditorHoldsRow'
  BY DEF CreditorHoldsRow
<1>5. CreditBudget' /\ SuccessIsCredited'
  BY DEF CreditBudget, SuccessIsCredited
<1>6. QED
  BY <1>2, <1>3, <1>4, <1>5

LEMMA RecordGatewayOrderStep ==
  ASSUME IInv, NEW h \in Handlers, RecordGatewayOrder(h)
  PROVE  IInv'
<1> USE DEF IInv, TypeOK, Status, RecordGatewayOrder, Goto, Started
<1>1. TypeOK'
  OBVIOUS
<1>2. StageOfTarget' /\ OneInitiator' /\ PaidIsStarted'
  BY DEF StageOfTarget, OneInitiator, PaidIsStarted
<1>3. CreditorHoldsRow'
  BY DEF CreditorHoldsRow
<1>4. CreditBudget' /\ SuccessIsCredited'
  BY DEF StageOfTarget, CreditBudget, SuccessIsCredited
<1>5. QED
  BY <1>1, <1>2, <1>3, <1>4

LEMMA PayStep ==
  ASSUME IInv, NEW o \in Orders, Pay(o)
  PROVE  IInv'
BY DEF IInv, TypeOK, Status, Pay, Started, StageOfTarget, OneInitiator, PaidIsStarted,
       CreditorHoldsRow, CreditBudget, SuccessIsCredited

(* A rejected verify call may take "success" back: that is what the budget   *)
(* pays for.                                                               *)
LEMMA MarkFailedStep ==
  ASSUME IInv, NEW h \in Handlers, MarkFailed(h)
  PROVE  IInv'
<1> USE RechargeAssumption DEF IInv, TypeOK, Status, MarkFailed, Goto, Unlocked, Started
<1>1. TypeOK'
  OBVIOUS
<1>2. StageOfTarget' /\ OneInitiator' /\ PaidIsStarted'
  BY DEF StageOfTarget, OneInitiator, PaidIsStarted
<1>3. CreditorHoldsRow'
  BY DEF CreditorHoldsRow
<1>4. CreditBudget' /\ SuccessIsCredited'
  BY DEF CreditBudget, SuccessIsCredited
<1>5. QED
  BY <1>1, <1>2, <1>3, <1>4

LEMMA LockOrderStep ==
  ASSUME IInv, NEW h \in Handlers, LockOrder(h)
  PROVE  IInv'
<1> USE RechargeAssumption DEF IInv, TypeOK, Status, LockOrder, Goto, Unlocked, Started
<1>1. TypeOK'
  OBVIOUS
<1>2. StageOfTarget' /\ OneInitiator' /\ PaidIsStarted'
  BY DEF StageOfTarget, OneInitiator, PaidIsStarted
<1>3. CreditorHoldsRow'
  BY DEF CreditorHoldsRow
<1>4. CreditBudget' /\ SuccessIsCredited'
  BY DEF CreditBudget, SuccessIsCredited
<1>5. QED
  BY <1>1, <1>2, <1>3, <1>4

LEMMA ConfirmStep ==
  ASSUME IInv, NEW h \in Handlers, Confirm(h)
  PROVE  IInv'
<1> USE RechargeAssumption DEF IInv, TypeOK, Status, Confirm, Goto, FreeLocks, Started
<1>1. TypeOK'
  OBVIOUS
<1>2. StageOfTarget' /\ OneInitiator' /\ PaidIsStarted'
  BY DEF StageOfTarget, OneInitiator, PaidIsStarted
<1>3. CreditorHoldsRow'
  BY DEF CreditorHoldsRow
<1>4. CreditBudget'
  BY DEF CreditorHoldsRow, CreditBudget
<1>5. SuccessIsCredited'
  BY DEF StageOfTarget, SuccessIsCredited
<1>6. QED
  BY <1>1, <1>2, <1>3, <1>4, <1>5

LEMMA FailStep ==
  ASSUME IInv, NEW h \in Handlers, Fail(h)
  PROVE  IInv'
<1> USE RechargeAssumption DEF IInv, TypeOK, Status, Fail, Goto, FreeLocks, Started
<1>1. TypeOK'
  OBVIOUS
<1>2. StageOfTarget' /\ OneInitiator' /\ PaidIsStarted'
  BY DEF StageOfTarget, OneInitiator, PaidIsStarted
<1>3. CreditorHoldsRow'
  BY DEF CreditorHoldsRow
<1>4. CreditBudget' /\ SuccessIsCredited'
  BY DEF CreditBudget, SuccessIsCredited
<1>5. QED
  BY <1>1, <1>2, <1>3, <1>4

LEMMA NextIInv == IInv /\ [Next]_vars => IInv'
<1> SUFFICES ASSUME IInv, [Next]_vars PROVE IInv'
  OBVIOUS
<1>1. CASE UNCHANGED vars
  BY <1>1 DEF vars, IInv, TypeOK, Started, StageOfTarget, OneInitiator, PaidIsStarted,
              CreditorHoldsRow, CreditBudget, SuccessIsCredited
<1>2. ASSUME NEW h \in Handlers, NEW o \in Orders, CreateOrder(h, o)
      PROVE  IInv'
  BY <1>2, CreateOrderStep
<1>3. ASSUME NEW h \in Handlers, NEW o \in Orders, NEW valid \in BOOLEAN,
             Verify(h, o, valid)
      PROVE  IInv'
  BY <1>3, VerifyOrWebhookStep
<1>4. ASSUME NEW h \in Handlers, NEW o \in Orders, Webhook(h, o)
      PROVE  IInv'
  BY <1>4, VerifyOrWebhookStep
<1>5. ASSUME NEW o \in Orders, Pay(o)
      PROVE  IInv'
  BY <1>5, PayStep
<1>6. ASSUME NEW h \in Handlers, Step(h) \/ Fail(h)
      PROVE  IInv'
  BY <1>6, RecordGatewayOrderStep, MarkFailedStep, LockOrderStep, ConfirmStep, FailStep DEF Step
<1>7. QED
  BY <1>1, <1>2, <1>3, <1>4, <1>5, <1>6 DEF Next

-----------------------------------------------------------------------------
(* The inductive invariant holds in every reachable state. *)
THEOREM RechargeInductive == Spec => []IInv
<1>1. Init => IInv
  BY InitIInv
<1>2. IInv /\ [Next]_vars => IInv'
  BY NextIInv
<1>3. QED
  BY <1>1, <1>2, PTL DEF Spec

(* Types; in particular only a handler that credits holds an order's row. *)
THEOREM RechargeTypeCorrect == Spec => []TypeOK
BY RechargeInductive, PTL DEF IInv

(* verify, webhooks and retries credit an order once, plus at most once per  *)
(* rejected verify call, whatever their number and order.                  *)
THEOREM RechargeCreditsBounded == Spec => []CreditsBoundedByRejections
<1>1. IInv => CreditsBoundedByRejections
  <2> SUFFICES ASSUME IInv, NEW o \in Orders PROVE credits[o] <= 1 + rejected[o]
    BY DEF CreditsBoundedByRejections
  <2>1. credits[o] \in Nat /\ rejected[o] \in Nat
    BY DEF IInv, TypeOK
  <2>2. credits[o] <= rejected[o] + (IF status[o] = "success" THEN 1 ELSE 0)
    BY DEF IInv, CreditBudget
  <2>3. QED
    BY <2>1, <2>2
<1>2. QED
  BY <1>1, RechargeInductive, PTL

(* An order shown as "success" has been credited, and only paid orders are. *)
THEOREM RechargeSuccessCredited == Spec => []SuccessIsCredited
<1>1. IInv => SuccessIsCredited
  BY DEF IInv
<1>2. QED
  BY <1>1, RechargeInductive, PTL
=============================================================================
