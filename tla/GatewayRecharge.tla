-------------------------- MODULE GatewayRecharge --------------------------
(***************************************************************************)
(* The second recharge path: WalletRechargeTransaction rows, confirmed by   *)
(* the browser (tenantWalletRecharge.controller verifyPayment), the payment *)
(* webhook (paymentWebhook.controller processSuccessfulRecharge) or an      *)
(* administrator (platformPaymentGateway.controller reconcileTransaction).  *)
(* The three run the same statements.  They write the wallets row that      *)
(* wallet.service.js also writes, but read it, and the recharge row, with   *)
(* plain SELECTs: the module puts them beside the sessions of Wallet.       *)
(***************************************************************************)
EXTENDS Wallet, FiniteSets

CONSTANTS
  Recharges,      \* wallet_recharge_transactions rows
  Confirmers,     \* confirmations that can be in progress at the same time
  RechargeTenant, \* RechargeTenant[x], RechargeAmount[x]: the columns of row x
  RechargeAmount,
  MaxFailed       \* bound: rejected verifications per row

ASSUME GatewayAssumption ==
  /\ Recharges # {}
  /\ IsFiniteSet(Confirmers)
  /\ Confirmers \cap (Sessions \cup {NoSession}) = {}
  /\ RechargeTenant \in [Recharges -> WalletRows]
  /\ RechargeAmount \in [Recharges -> Nat \ {0}]
  /\ MaxFailed \in Nat

VARIABLES
  txStatus,    \* txStatus[x]: status of row x, "none" before it exists
  txCredits,   \* txCredits[x]: committed ledger rows that refer to x
  failed,      \* failed[x]: rejected verifications of x
  cpc,         \* cpc[c]: where confirmer c is
  tx,          \* tx[c]: the row it confirms
  read,        \* read[c]: the status it read there
  prevBalance  \* prevBalance[c]: the balance it read

walletVars  == vars
gatewayVars == <<txStatus, txCredits, failed, cpc, tx, read, prevBalance>>
allVars     == <<walletVars, gatewayVars>>

CGoto(c, label) == cpc' = [cpc EXCEPT ![c] = label]
TenantOf(c) == RechargeTenant[tx[c]]

(* Mutants: the amount subtracted, no idempotency check. *)
Deducted(c) == prevBalance[c] - RechargeAmount[tx[c]]
AnyRow(x) == txStatus[x] # "none"

Confirmable(x) == txStatus[x] \in {"initiated", "failed"}
Credited(c) == prevBalance[c] + RechargeAmount[tx[c]]

GInit ==
  /\ Init
  /\ txStatus    = [x \in Recharges |-> "none"]
  /\ txCredits   = [x \in Recharges |-> 0]
  /\ failed      = [x \in Recharges |-> 0]
  /\ cpc         = [c \in Confirmers |-> "idle"]
  /\ tx          = [c \in Confirmers |-> CHOOSE x \in Recharges : TRUE]
  /\ read        = [c \in Confirmers |-> "none"]
  /\ prevBalance = [c \in Confirmers |-> 0]

(* initiateRecharge: the row is written once the gateway order exists (or its mock). *)
InitiateRecharge(x) ==
  /\ txStatus[x] = "none"
  /\ txStatus' = [txStatus EXCEPT ![x] = "initiated"]
  /\ UNCHANGED <<walletVars, txCredits, failed, cpc, tx, read, prevBalance>>

(* The idempotency check, on an unlocked read of the row. *)
BeginConfirm(c, x) ==
  /\ cpc[c] = "idle"
  /\ Confirmable(x)
  /\ Len(ledger[RechargeTenant[x]]) < MaxEntries
  /\ tx' = [tx EXCEPT ![c] = x]
  /\ read' = [read EXCEPT ![c] = txStatus[x]]
  /\ CGoto(c, "read")
  /\ UNCHANGED <<walletVars, txStatus, txCredits, failed, prevBalance>>

(* verifyPayment, the gateway does not confirm the payment: "failed" is     *)
(* written whatever became of the row since it was read (Sequelize skips    *)
(* the column only if "failed" is what it read).                           *)
RejectPayment(c) ==
  /\ cpc[c] = "read"
  /\ failed[tx[c]] < MaxFailed
  /\ failed' = [failed EXCEPT ![tx[c]] = @ + 1]
  /\ txStatus' = IF read[c] = "failed" THEN txStatus ELSE [txStatus EXCEPT ![tx[c]] = "failed"]
  /\ CGoto(c, "idle")
  /\ UNCHANGED <<walletVars, txCredits, tx, read, prevBalance>>

(* Wallet.findOne without a lock: the committed balance of this moment. *)
ReadWallet(c) ==
  /\ cpc[c] = "read"
  /\ prevBalance' = [prevBalance EXCEPT ![c] = balance[TenantOf(c)]]
  /\ CGoto(c, "update")
  /\ UNCHANGED <<walletVars, txStatus, txCredits, failed, tx, read>>

(* wallet.update: the UPDATE waits for the row and then holds it. *)
UpdateWallet(c) ==
  /\ cpc[c] = "update"
  /\ rowLock[TenantOf(c)] = NoSession
  /\ Credited(c) <= MaxBalance
  /\ rowLock' = [rowLock EXCEPT ![TenantOf(c)] = c]
  /\ CGoto(c, "commit")
  /\ UNCHANGED <<balance, ledger, pc, locals, seen, staged,
                 txStatus, txCredits, failed, tx, read, prevBalance>>

(* The ledger row, status "success", COMMIT. *)
CommitConfirm(c) ==
  /\ cpc[c] = "commit"
  /\ ledger' = [ledger EXCEPT ![TenantOf(c)] = Append(@,
       [type |-> "credit", amount |-> RechargeAmount[tx[c]], balance_after |-> Credited(c)])]
  /\ balance' = [balance EXCEPT ![TenantOf(c)] = Credited(c)]
  /\ txStatus' = [txStatus EXCEPT ![tx[c]] = "success"]
  /\ txCredits' = [txCredits EXCEPT ![tx[c]] = @ + 1]
  /\ FreeLocks(c)
  /\ CGoto(c, "idle")
  /\ UNCHANGED <<pc, locals, seen, staged, failed, tx, read, prevBalance>>

(* The transaction is lost; the webhook still answers 200. *)
LoseConfirm(c) ==
  /\ cpc[c] # "idle"
  /\ FreeLocks(c)
  /\ CGoto(c, "idle")
  /\ UNCHANGED <<balance, ledger, pc, locals, seen, staged,
                 txStatus, txCredits, failed, tx, read, prevBalance>>

GNext ==
  \/ Next /\ UNCHANGED gatewayVars
  \/ \E x \in Recharges : InitiateRecharge(x)
  \/ \E c \in Confirmers, x \in Recharges : BeginConfirm(c, x)
  \/ \E c \in Confirmers :
       \/ RejectPayment(c)
       \/ ReadWallet(c)
       \/ UpdateWallet(c)
       \/ CommitConfirm(c)
       \/ LoseConfirm(c)

GSpec == GInit /\ [][GNext]_allVars

-----------------------------------------------------------------------------
(* Types of the variables.  Even beside the unlocked writers no balance     *)
(* leaves its column: a debit still sees the row it locked.                *)
GTypeOK ==
  /\ balance \in [Tenants -> 0..MaxBalance]
  /\ ledger \in [Tenants -> Seq(WL!Entry)]
  /\ rowLock \in [Tenants -> Sessions \cup Confirmers \cup {NoSession}]
  /\ txStatus \in [Recharges -> {"none", "initiated", "success", "failed"}]
  /\ txCredits \in [Recharges -> Nat]
  /\ failed \in [Recharges -> 0..MaxFailed]
  /\ cpc \in [Confirmers -> {"idle", "read", "update", "commit"}]
  /\ tx \in [Confirmers -> Recharges]
  /\ read \in [Confirmers -> {"none", "initiated", "failed"}]
  /\ prevBalance \in [Confirmers -> 0..MaxBalance]

(* The idempotency check stops confirmations that come one after another: a *)
(* row is credited at most once by each of the confirmations that overlap,  *)
(* anew only after a rejected verification.                                *)
CreditsBoundedByOverlap ==
  \A x \in Recharges : txCredits[x] <= Cardinality(Confirmers) * (1 + failed[x])

(* What the helper's comment promises ("Idempotent Atomic Wallet Credit     *)
(* Helper"): without a rejected verification, one credit per row.           *)
RechargeCreditedOnce ==
  \A x \in Recharges : failed[x] = 0 => txCredits[x] <= 1

(* What wallet.service.js says of its lock ("to prevent concurrent          *)
(* updates"): no two updates of a wallet overlap, so the ledger explains    *)
(* the balance here as it does in Wallet.                                  *)
LockPreventsConcurrentUpdates == LedgerExplainsBalance
=============================================================================
