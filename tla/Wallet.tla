------------------------------- MODULE Wallet -------------------------------
(***************************************************************************)
(* services/wallet.service.js: credit, debit and checkBalanceForShipment.  *)
(*                                                                         *)
(* A session is one database transaction that posts to a wallet, either    *)
(* the service's own (ownTxn) or one passed in by a caller.  Sessions run  *)
(* interleaved at their awaits, on PostgreSQL at READ COMMITTED:           *)
(*   - SELECT ... FOR UPDATE waits while another transaction holds the     *)
(*     row, then reads the latest committed row, and holds it to the end   *)
(*     of the transaction;                                                 *)
(*   - rows inserted and updated are seen by others only after COMMIT;     *)
(*   - a transaction can be lost at any await (SQL error, an exception of  *)
(*     the caller, a dropped connection, a crash of the process): its      *)
(*     writes vanish and its locks are released.                           *)
(***************************************************************************)
EXTENDS Integers, Sequences

CONSTANTS
  Tenants,     \* tenants that requests name
  WalletRows,  \* those of them that have a row in wallets
  Sessions,    \* transactions that can be open at the same time
  NoSession,   \* the row is not locked
  Amounts,     \* amounts callers pass, the non-positive ones included
  MaxBalance,  \* largest value of wallets.balance, DECIMAL(12, 2)
  MaxEntries   \* bound: no new posting starts at this ledger length

ASSUME WalletAssumption ==
  /\ Tenants # {}
  /\ WalletRows \subseteq Tenants
  /\ NoSession \notin Sessions
  /\ Amounts \subseteq Int
  /\ MaxBalance \in Nat
  /\ MaxEntries \in Nat

VARIABLES
  balance,     \* balance[t]: committed wallets.balance of tenant t
  ledger,      \* ledger[t]: committed wallet_transactions rows of t, oldest first
  rowLock,     \* rowLock[t]: the session that holds t's wallets row
  pc,          \* pc[s]: where session s is
  op,          \* op[s]: "credit", "debit", or "book" (the check, then a debit)
  tenant,      \* tenant[s], amt[s]: the arguments of the call
  amt,
  seen,        \* seen[s]: currentBalance, as read under the lock
  staged       \* staged[s]: the rows s inserted and did not commit

vars == <<balance, ledger, rowLock, pc, op, tenant, amt, seen, staged>>

locals == <<op, tenant, amt>>

WL == INSTANCE WalletLedger
        WITH Tenants <- Tenants, Amounts <- Amounts, MaxBalance <- MaxBalance,
             balance <- balance, ledger <- ledger

Ops == {"credit", "debit", "book"}

(* Mutant: a booking's debit recorded as a credit. *)
EntryTypeOfBookingWrong(o) == IF o = "debit" THEN "debit" ELSE "credit"

EntryType(o) == IF o = "credit" THEN "credit" ELSE "debit"

Init ==
  /\ balance = [t \in Tenants |-> 0]
  /\ ledger  = [t \in Tenants |-> << >>]
  /\ rowLock = [t \in Tenants |-> NoSession]
  /\ pc      = [s \in Sessions |-> "idle"]
  /\ op      = [s \in Sessions |-> "credit"]
  /\ tenant  = [s \in Sessions |-> CHOOSE t \in Tenants : TRUE]
  /\ amt     = [s \in Sessions |-> 0]
  /\ seen    = [s \in Sessions |-> 0]
  /\ staged  = [s \in Sessions |-> << >>]

Goto(s, label) == pc' = [pc EXCEPT ![s] = label]

(* Mutants: no FOR UPDATE, a lock not kept, a lock not released, a sign lost. *)
ReadUnlocked(s) == TRUE
LockNotKept(s) == UNCHANGED rowLock
LocksNotFreed(s) == UNCHANGED rowLock
AlwaysSubtracted(s) == seen[s] - amt[s]

(* SELECT ... FOR UPDATE on the wallets row can return to s. *)
CanLock(s) == rowLock[tenant[s]] \in {NoSession, s}
TakeLock(s) == rowLock' = [rowLock EXCEPT ![tenant[s]] = s]
FreeLocks(s) == rowLock' = [t \in Tenants |-> IF rowLock[t] = s THEN NoSession ELSE rowLock[t]]

NewBalance(s) == IF op[s] = "credit" THEN seen[s] + amt[s] ELSE seen[s] - amt[s]

(* A call arrives; an amount that is not positive is refused at once. *)
Start(s, o, t, a) ==
  /\ pc[s] = "idle"
  /\ a > 0
  /\ Len(ledger[t]) < MaxEntries
  /\ op' = [op EXCEPT ![s] = o]
  /\ tenant' = [tenant EXCEPT ![s] = t]
  /\ amt' = [amt EXCEPT ![s] = a]
  /\ Goto(s, IF o = "book" THEN "check" ELSE "lock")
  /\ UNCHANGED <<balance, ledger, rowLock, seen, staged>>

(* checkBalanceForShipment: the row stays locked while the courier is called. *)
CheckBalance(s) ==
  /\ pc[s] = "check"
  /\ tenant[s] \in WalletRows
  /\ CanLock(s)
  /\ balance[tenant[s]] >= amt[s]
  /\ TakeLock(s)
  /\ Goto(s, "lock")
  /\ UNCHANGED <<balance, ledger, locals, seen, staged>>

(* credit and debit: lock the row and read the balance it now has. *)
LockWallet(s) ==
  /\ pc[s] = "lock"
  /\ tenant[s] \in WalletRows
  /\ CanLock(s)
  /\ op[s] # "credit" => balance[tenant[s]] >= amt[s]
  /\ TakeLock(s)
  /\ seen' = [seen EXCEPT ![s] = balance[tenant[s]]]
  /\ Goto(s, "insert")
  /\ UNCHANGED <<balance, ledger, locals, staged>>

(* NotFoundError or InsufficientBalanceError: the transaction is rolled back. *)
Refuse(s) ==
  /\ pc[s] \in {"check", "lock"}
  /\ \/ tenant[s] \notin WalletRows
     \/ CanLock(s) /\ op[s] # "credit" /\ balance[tenant[s]] < amt[s]
  /\ FreeLocks(s)
  /\ Goto(s, "idle")
  /\ UNCHANGED <<balance, ledger, locals, seen, staged>>

(* WalletTransaction.create; a balance_after the column cannot hold is an SQL error (Rollback). *)
InsertEntry(s) ==
  /\ pc[s] = "insert"
  /\ NewBalance(s) <= MaxBalance
  /\ staged' = [staged EXCEPT ![s] = Append(@,
       [type |-> EntryType(op[s]), amount |-> amt[s], balance_after |-> NewBalance(s)])]
  /\ Goto(s, "commit")
  /\ UNCHANGED <<balance, ledger, rowLock, locals, seen>>

(* wallet.update and COMMIT: the row of the ledger and the balance appear together. *)
Commit(s) ==
  /\ pc[s] = "commit"
  /\ ledger' = [ledger EXCEPT ![tenant[s]] = @ \o staged[s]]
  /\ balance' = [balance EXCEPT ![tenant[s]] = NewBalance(s)]
  /\ staged' = [staged EXCEPT ![s] = << >>]
  /\ FreeLocks(s)
  /\ Goto(s, "idle")
  /\ UNCHANGED <<locals, seen>>

(* The transaction is lost before COMMIT, whatever it did so far. *)
Rollback(s) ==
  /\ pc[s] # "idle"
  /\ staged' = [staged EXCEPT ![s] = << >>]
  /\ FreeLocks(s)
  /\ Goto(s, "idle")
  /\ UNCHANGED <<balance, ledger, locals, seen>>

Advance(s) ==
  \/ CheckBalance(s)
  \/ LockWallet(s)
  \/ Refuse(s)
  \/ InsertEntry(s)
  \/ Commit(s)

Next ==
  \/ \E s \in Sessions, o \in Ops, t \in Tenants, a \in Amounts : Start(s, o, t, a)
  \/ \E s \in Sessions : Advance(s)
  \/ \E s \in Sessions : Rollback(s)

(***************************************************************************)
(* An open transaction keeps executing statements.  Row locks are granted  *)
(* from PostgreSQL's wait queue, so a waiter that is passed over infinitely *)
(* often is served: strong fairness.  Failures are not assumed to happen,  *)
(* except for the one a full column forces.                                *)
(***************************************************************************)
ColumnOverflow(s) == pc[s] = "insert" /\ NewBalance(s) > MaxBalance /\ Rollback(s)

Fairness ==
  \A s \in Sessions :
    /\ SF_vars(CheckBalance(s) \/ LockWallet(s) \/ Refuse(s))
    /\ WF_vars(InsertEntry(s) \/ Commit(s))
    /\ WF_vars(ColumnOverflow(s))

Spec == Init /\ [][Next]_vars
FairSpec == Spec /\ Fairness

-----------------------------------------------------------------------------
(* Types of the variables.  The range of the balance is part of it: a debit *)
(* never overdraws a wallet and a credit never exceeds the column, which   *)
(* rests on the balance check being made on the row the session locked.    *)
TypeOK ==
  /\ balance \in [Tenants -> 0..MaxBalance]
  /\ ledger  \in [Tenants -> Seq(WL!Entry)]
  /\ rowLock \in [Tenants -> Sessions \cup {NoSession}]
  /\ pc      \in [Sessions -> {"idle", "check", "lock", "insert", "commit"}]
  /\ op      \in [Sessions -> Ops]
  /\ tenant  \in [Sessions -> Tenants]
  /\ amt     \in [Sessions -> Int]
  /\ seen    \in [Sessions -> 0..MaxBalance]
  /\ staged  \in [Sessions -> Seq(WL!Entry)]

(* The balance before row i of the ledger rows. *)
BalanceBefore(rows, i) == IF i = 1 THEN 0 ELSE rows[i - 1].balance_after

(* Each row of the ledger continues the balance the row before it left, and *)
(* the cached wallets.balance is the one the last row left: no posting is  *)
(* lost or applied twice, whatever the sessions' interleaving and failures. *)
LedgerExplainsBalance ==
  \A t \in Tenants :
    /\ \A i \in 1..Len(ledger[t]) :
         ledger[t][i].balance_after = BalanceBefore(ledger[t], i) + WL!Effect(ledger[t][i])
    /\ balance[t] = BalanceBefore(ledger[t], Len(ledger[t]) + 1)

(* A booking that passed checkBalanceForShipment cannot be refused for lack *)
(* of funds by the debit that follows the call to the courier.             *)
CheckedBookingIsCovered ==
  \A s \in Sessions :
    pc[s] = "lock" /\ op[s] = "book" => balance[tenant[s]] >= amt[s]

(* wallet.service.js keeps the promise of WalletLedger. *)
ImplementsLedger == WL!Spec

(* No posting waits for ever: every transaction ends. *)
SessionsEnd == \A s \in Sessions : pc[s] # "idle" ~> pc[s] = "idle"
=============================================================================
