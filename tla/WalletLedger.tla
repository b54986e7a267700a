---------------------------- MODULE WalletLedger ----------------------------
(***************************************************************************)
(* What the wallet promises its callers (shipping, billing, recharges):    *)
(* every posting to a tenant's wallet takes effect in one step, appends    *)
(* one immutable row to the ledger carrying the balance it left behind,    *)
(* and never takes the balance below zero or above what the column holds.  *)
(* services/wallet.service.js is shown to keep this promise in Wallet.tla. *)
(***************************************************************************)
EXTENDS Integers, Sequences

CONSTANTS
  Tenants,     \* tenants; each has at most one wallet (wallets.tenant_id UNIQUE)
  Amounts,     \* amounts callers pass, the non-positive ones included
  MaxBalance   \* largest value of wallets.balance, DECIMAL(12, 2)

VARIABLES
  balance,     \* balance[t]: committed wallets.balance of tenant t
  ledger       \* ledger[t]: committed wallet_transactions rows of t, oldest first

Entry == [type : {"credit", "debit"}, amount : Int, balance_after : Int]

(* The signed effect of a ledger row on the balance. *)
Effect(e) == IF e.type = "credit" THEN e.amount ELSE -e.amount

Init ==
  /\ balance = [t \in Tenants |-> 0]
  /\ ledger  = [t \in Tenants |-> << >>]

(* One committed posting: the row and the cached balance change together. *)
Post(t, e) ==
  /\ e.amount > 0
  /\ e.balance_after = balance[t] + Effect(e)
  /\ e.balance_after \in 0..MaxBalance
  /\ ledger'  = [ledger EXCEPT ![t] = Append(@, e)]
  /\ balance' = [balance EXCEPT ![t] = e.balance_after]

Next ==
  \E t \in Tenants, type \in {"credit", "debit"}, a \in Amounts, b \in 0..MaxBalance :
    Post(t, [type |-> type, amount |-> a, balance_after |-> b])

Spec == Init /\ [][Next]_<<balance, ledger>>
=============================================================================
