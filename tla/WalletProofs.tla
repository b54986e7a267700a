---------------------------- MODULE WalletProofs ----------------------------
(***************************************************************************)
(* Proofs about Wallet, for every set of tenants and sessions, every set   *)
(* of amounts and every size of the balance column.                        *)
(*                                                                         *)
(* The argument: the FOR UPDATE lock makes the balance a session read the  *)
(* current one until it commits (LocksHeld, ReadIsCurrent); so the row it  *)
(* inserted continues the ledger and the balance it writes is in range     *)
(* (StagedRow), and COMMIT is one posting of WalletLedger.                 *)
(***************************************************************************)
EXTENDS Wallet, TLAPS

Posting(s) == pc[s] \in {"insert", "commit"}
Checked(s) == pc[s] = "lock" /\ op[s] = "book"

(* A session that read the balance, or checked it for a booking, holds the row. *)
LocksHeld == \A s \in Sessions : Posting(s) \/ Checked(s) => rowLock[tenant[s]] = s

(* What it read is still the committed balance, and covers a debit. *)
ReadIsCurrent ==
  \A s \in Sessions : Posting(s) =>
    /\ seen[s] = balance[tenant[s]]
    /\ op[s] # "credit" => seen[s] >= amt[s]

(* Amounts under way are positive; what is inserted is the posting's one row. *)
StagedRow ==
  \A s \in Sessions :
    /\ pc[s] # "idle" => amt[s] \in Amounts /\ amt[s] > 0
    /\ pc[s] # "commit" => staged[s] = << >>
    /\ pc[s] = "commit" =>
         /\ NewBalance(s) <= MaxBalance
         /\ staged[s] = << [type |-> EntryType(op[s]), amount |-> amt[s],
                            balance_after |-> NewBalance(s)] >>

IInv ==
  /\ TypeOK
  /\ LocksHeld
  /\ ReadIsCurrent
  /\ StagedRow
  /\ CheckedBookingIsCovered
  /\ LedgerExplainsBalance

-----------------------------------------------------------------------------
LEMMA NewBalanceInRange ==
  ASSUME IInv, NEW s \in Sessions, Posting(s), NewBalance(s) <= MaxBalance
  PROVE  /\ NewBalance(s) \in 0..MaxBalance
         /\ [type |-> EntryType(op[s]), amount |-> amt[s],
             balance_after |-> NewBalance(s)] \in WL!Entry
         /\ NewBalance(s) = balance[tenant[s]]
              + WL!Effect([type |-> EntryType(op[s]), amount |-> amt[s],
                           balance_after |-> NewBalance(s)])
<1>1. amt[s] \in Int /\ seen[s] \in 0..MaxBalance /\ op[s] \in Ops /\ MaxBalance \in Nat
  BY WalletAssumption DEF IInv, TypeOK
<1>2. seen[s] = balance[tenant[s]] /\ amt[s] > 0 /\ (op[s] # "credit" => seen[s] >= amt[s])
  BY DEF IInv, ReadIsCurrent, StagedRow, Posting
<1>3. CASE op[s] = "credit"
  BY <1>1, <1>2, <1>3 DEF NewBalance, EntryType, WL!Entry, WL!Effect
<1>4. CASE op[s] # "credit"
  BY <1>1, <1>2, <1>4 DEF NewBalance, EntryType, WL!Entry, WL!Effect
<1>5. QED
  BY <1>3, <1>4

LEMMA InitIInv == Init => IInv
<1> SUFFICES ASSUME Init PROVE IInv
  OBVIOUS
<1> USE WalletAssumption DEF Init
<1> DEFINE empty == << >>
<1>e. empty \in Seq(WL!Entry) /\ Len(empty) = 0
  OBVIOUS
<1> HIDE DEF empty
<1>c. (CHOOSE t \in Tenants : TRUE) \in Tenants
  OBVIOUS
<1>1. TypeOK
  <2>1. ledger = [t \in Tenants |-> empty] /\ staged = [s \in Sessions |-> empty]
    BY DEF empty
  <2>2. /\ ledger \in [Tenants -> Seq(WL!Entry)]
        /\ staged \in [Sessions -> Seq(WL!Entry)]
    BY <1>e, <2>1
  <2>3. /\ balance \in [Tenants -> 0..MaxBalance]
        /\ rowLock \in [Tenants -> Sessions \cup {NoSession}]
        /\ pc \in [Sessions -> {"idle", "check", "lock", "insert", "commit"}]
        /\ op \in [Sessions -> Ops]
        /\ amt \in [Sessions -> Int]
        /\ seen \in [Sessions -> 0..MaxBalance]
    BY DEF Ops
  <2>4. tenant \in [Sessions -> Tenants]
    BY <1>c
  <2> HIDE DEF Init
  <2>5. QED
    BY <2>2, <2>3, <2>4 DEF TypeOK
<1>2. LocksHeld /\ ReadIsCurrent /\ CheckedBookingIsCovered
  BY DEF LocksHeld, ReadIsCurrent, CheckedBookingIsCovered, Posting, Checked
<1>3. StagedRow
  BY DEF StagedRow
<1>4. LedgerExplainsBalance
  <2>1. \A t \in Tenants : ledger[t] = empty /\ balance[t] = 0
    BY DEF empty
  <2>2. Len(empty) + 1 = 1 /\ 1..Len(empty) = {}
    BY <1>e
  <2>3. QED
    BY <2>1, <2>2 DEF LedgerExplainsBalance, BalanceBefore
<1>5. QED
  BY <1>1, <1>2, <1>3, <1>4 DEF IInv

(* Steps that commit nothing leave ledger and balance, hence what relates them. *)
LEMMA QuietSteps ==
  ASSUME IInv, UNCHANGED <<balance, ledger>>
  PROVE  LedgerExplainsBalance'
BY DEF IInv, LedgerExplainsBalance, BalanceBefore

LEMMA StartStep ==
  ASSUME IInv, NEW s \in Sessions, NEW o \in Ops, NEW t \in Tenants, NEW a \in Amounts,
         Start(s, o, t, a)
  PROVE  IInv'
<1> USE WalletAssumption DEF IInv, Start, Goto, TypeOK
<1>1. TypeOK'
  OBVIOUS
<1>2. LocksHeld' /\ ReadIsCurrent' /\ CheckedBookingIsCovered'
  BY DEF LocksHeld, ReadIsCurrent, CheckedBookingIsCovered, Posting, Checked
<1>3. StagedRow'
  BY DEF StagedRow, NewBalance
<1>4. QED
  BY <1>1, <1>2, <1>3, QuietSteps

LEMMA CheckBalanceStep ==
  ASSUME IInv, NEW s \in Sessions, CheckBalance(s)
  PROVE  IInv'
<1> USE WalletAssumption DEF IInv, CheckBalance, Goto, CanLock, TakeLock, locals, TypeOK
<1>1. TypeOK'
  OBVIOUS
<1>2. LocksHeld' /\ ReadIsCurrent' /\ CheckedBookingIsCovered'
  BY DEF LocksHeld, ReadIsCurrent, CheckedBookingIsCovered, Posting, Checked
<1>3. StagedRow'
  BY DEF StagedRow, NewBalance
<1>4. QED
  BY <1>1, <1>2, <1>3, QuietSteps

LEMMA LockWalletStep ==
  ASSUME IInv, NEW s \in Sessions, LockWallet(s)
  PROVE  IInv'
<1> USE WalletAssumption DEF IInv, LockWallet, Goto, CanLock, TakeLock, locals, TypeOK
<1>1. TypeOK'
  OBVIOUS
<1>2. LocksHeld' /\ ReadIsCurrent' /\ CheckedBookingIsCovered'
  BY DEF LocksHeld, ReadIsCurrent, CheckedBookingIsCovered, Posting, Checked
<1>3. StagedRow'
  BY DEF StagedRow, NewBalance
<1>4. QED
  BY <1>1, <1>2, <1>3, QuietSteps

(* Refuse and Rollback only end the session and free its locks. *)
LEMMA EndStep ==
  ASSUME IInv, NEW s \in Sessions, Refuse(s) \/ Rollback(s)
  PROVE  IInv'
<1>1. /\ pc' = [pc EXCEPT ![s] = "idle"]
      /\ FreeLocks(s)
      /\ staged' = [staged EXCEPT ![s] = << >>]
      /\ UNCHANGED <<balance, ledger, op, tenant, amt, seen>>
  <2>1. CASE Refuse(s)
    BY <2>1 DEF Refuse, Goto, locals, IInv, StagedRow, TypeOK
  <2>2. CASE Rollback(s)
    BY <2>2 DEF Rollback, Goto, locals
  <2>3. QED
    BY <2>1, <2>2
<1> USE WalletAssumption DEF IInv, FreeLocks, TypeOK
<1>2. TypeOK'
  BY <1>1
<1>3. LocksHeld' /\ ReadIsCurrent' /\ CheckedBookingIsCovered'
  BY <1>1 DEF LocksHeld, ReadIsCurrent, CheckedBookingIsCovered, Posting, Checked
<1>4. StagedRow'
  BY <1>1 DEF StagedRow, NewBalance
<1>5. QED
  BY <1>1, <1>2, <1>3, <1>4, QuietSteps

LEMMA InsertEntryStep ==
  ASSUME IInv, NEW s \in Sessions, InsertEntry(s)
  PROVE  IInv'
<1> DEFINE e == [type |-> EntryType(op[s]), amount |-> amt[s], balance_after |-> NewBalance(s)]
           row == << e >>
<1>1. e \in WL!Entry
  BY NewBalanceInRange DEF InsertEntry, Posting
<1>2. row \in Seq(WL!Entry)
  BY <1>1
<1>3. staged' = [staged EXCEPT ![s] = row]
  <2>1. staged' = [staged EXCEPT ![s] = Append(@, e)]
    BY DEF InsertEntry
  <2>2. staged[s] = << >>
    BY DEF InsertEntry, IInv, StagedRow
  <2> HIDE DEF e
  <2>3. Append(<< >>, e) = row
    BY <1>1
  <2> HIDE DEF row
  <2>4. QED
    BY <2>1, <2>2, <2>3
<1>4. /\ pc[s] = "insert" /\ NewBalance(s) <= MaxBalance
      /\ pc' = [pc EXCEPT ![s] = "commit"]
      /\ UNCHANGED <<balance, ledger, rowLock, op, tenant, amt, seen>>
  BY DEF InsertEntry, Goto, locals
<1> HIDE DEF e, row
<1>5. TypeOK'
  BY <1>2, <1>3, <1>4 DEF IInv, TypeOK
<1>6. LocksHeld' /\ ReadIsCurrent' /\ CheckedBookingIsCovered'
  BY <1>4 DEF IInv, TypeOK, LocksHeld, ReadIsCurrent, CheckedBookingIsCovered, Posting, Checked
<1>7. StagedRow'
  <2>1. \A r \in Sessions : NewBalance(r)' = NewBalance(r)
    BY <1>4 DEF NewBalance
  <2>2. ASSUME NEW r \in Sessions, r # s
        PROVE  /\ pc'[r] # "commit" => staged'[r] = << >>
               /\ pc'[r] = "commit" => staged'[r] = staged[r] /\ pc[r] = "commit"
    BY <1>3, <1>4, <2>2 DEF IInv, TypeOK, StagedRow
  <2>3. pc'[s] = "commit" /\ staged'[s] = row
    BY <1>3, <1>4 DEF IInv, TypeOK
  <2>4. \A r \in Sessions : pc'[r] # "idle" => amt'[r] \in Amounts /\ amt'[r] > 0
    BY <1>4 DEF IInv, TypeOK, StagedRow
  <2>5. QED
    BY <1>4, <2>1, <2>2, <2>3, <2>4 DEF IInv, StagedRow, row, e
<1>8. QED
  BY <1>4, <1>5, <1>6, <1>7, QuietSteps DEF IInv

(* COMMIT is one posting of the abstract ledger. *)
LEMMA CommitPosts ==
  ASSUME IInv, NEW s \in Sessions, Commit(s)
  PROVE  WL!Post(tenant[s], [type |-> EntryType(op[s]), amount |-> amt[s],
                             balance_after |-> NewBalance(s)])
<1> DEFINE e == [type |-> EntryType(op[s]), amount |-> amt[s], balance_after |-> NewBalance(s)]
<1>1. /\ NewBalance(s) <= MaxBalance /\ staged[s] = << e >> /\ amt[s] > 0 /\ Posting(s)
  BY DEF Commit, IInv, StagedRow, Posting
<1>2. /\ NewBalance(s) \in 0..MaxBalance /\ e \in WL!Entry
      /\ NewBalance(s) = balance[tenant[s]] + WL!Effect(e)
  BY <1>1, NewBalanceInRange
<1>3. tenant[s] \in Tenants /\ ledger[tenant[s]] \in Seq(WL!Entry)
  BY DEF IInv, TypeOK
<1>4. e.amount = amt[s] /\ e.balance_after = NewBalance(s)
  OBVIOUS
<1> HIDE DEF e
<1>5. ledger[tenant[s]] \o << e >> = Append(ledger[tenant[s]], e)
  BY <1>2, <1>3
<1>6. ledger' = [ledger EXCEPT ![tenant[s]] = Append(@, e)]
  BY <1>1, <1>5 DEF Commit
<1>7. balance' = [balance EXCEPT ![tenant[s]] = e.balance_after]
  BY <1>4 DEF Commit
<1>8. WL!Post(tenant[s], e)
  BY <1>1, <1>2, <1>4, <1>6, <1>7 DEF WL!Post
<1>9. QED
  BY <1>8 DEF e

(* A posting of the abstract ledger keeps balance and ledger in agreement. *)
LEMMA PostExplains ==
  ASSUME balance \in [Tenants -> 0..MaxBalance], ledger \in [Tenants -> Seq(WL!Entry)],
         LedgerExplainsBalance, NEW t \in Tenants, NEW e \in WL!Entry, WL!Post(t, e)
  PROVE  /\ LedgerExplainsBalance'
         /\ balance' \in [Tenants -> 0..MaxBalance]
         /\ ledger' \in [Tenants -> Seq(WL!Entry)]
<1>1. /\ ledger' = [ledger EXCEPT ![t] = Append(@, e)]
      /\ balance' = [balance EXCEPT ![t] = e.balance_after]
      /\ e.balance_after = balance[t] + WL!Effect(e)
      /\ e.balance_after \in 0..MaxBalance
  BY DEF WL!Post
<1>2. /\ balance' \in [Tenants -> 0..MaxBalance]
      /\ ledger' \in [Tenants -> Seq(WL!Entry)]
  BY <1>1
<1> DEFINE Continues(rows) ==
      \A i \in 1..Len(rows) :
        rows[i].balance_after = BalanceBefore(rows, i) + WL!Effect(rows[i])
<1>3. ASSUME NEW u \in Tenants, u # t
      PROVE  /\ Continues(ledger'[u])
             /\ balance'[u] = BalanceBefore(ledger'[u], Len(ledger'[u]) + 1)
  <2>1. ledger'[u] = ledger[u] /\ balance'[u] = balance[u]
    BY <1>1, <1>3
  <2>2. QED
    BY <2>1 DEF LedgerExplainsBalance
<1>4. /\ Continues(ledger'[t])
      /\ balance'[t] = BalanceBefore(ledger'[t], Len(ledger'[t]) + 1)
  <2> DEFINE old == ledger[t]
             new == ledger'[t]
             n   == Len(ledger[t])
  <2>1. /\ n \in Nat
        /\ Len(new) = n + 1
        /\ \A i \in 1..n : new[i] = old[i]
        /\ new[n + 1] = e
    BY <1>1
  <2>2. balance'[t] = e.balance_after /\ balance[t] = BalanceBefore(old, n + 1)
    BY <1>1 DEF LedgerExplainsBalance
  <2>3. \A i \in 1..n : old[i].balance_after = BalanceBefore(old, i) + WL!Effect(old[i])
    BY DEF LedgerExplainsBalance
  <2> HIDE DEF old, new, n
  <2>4. \A i \in 1..(n + 1) : BalanceBefore(new, i) = BalanceBefore(old, i)
    BY <2>1 DEF BalanceBefore
  <2>5. ASSUME NEW i \in 1..(n + 1)
        PROVE  new[i].balance_after = BalanceBefore(new, i) + WL!Effect(new[i])
    <3>1. CASE i \in 1..n
      BY <2>1, <2>3, <2>4, <3>1
    <3>2. CASE i = n + 1
      BY <1>1, <2>1, <2>2, <2>4, <3>2
    <3>3. QED
      BY <2>1, <3>1, <3>2
  <2>6. balance'[t] = BalanceBefore(new, n + 2)
    BY <2>1, <2>2 DEF BalanceBefore
  <2>7. QED
    BY <2>1, <2>5, <2>6 DEF new
<1>5. LedgerExplainsBalance'
  BY <1>3, <1>4 DEF LedgerExplainsBalance
<1>6. QED
  BY <1>2, <1>5

LEMMA CommitStep ==
  ASSUME IInv, NEW s \in Sessions, Commit(s)
  PROVE  IInv'
<1> DEFINE e == [type |-> EntryType(op[s]), amount |-> amt[s], balance_after |-> NewBalance(s)]
<1>1. WL!Post(tenant[s], e)
  BY CommitPosts
<1>2. e \in WL!Entry /\ tenant[s] \in Tenants
  BY NewBalanceInRange DEF Commit, IInv, StagedRow, Posting, TypeOK
<1>3. /\ LedgerExplainsBalance'
      /\ balance' \in [Tenants -> 0..MaxBalance]
      /\ ledger' \in [Tenants -> Seq(WL!Entry)]
  BY <1>1, <1>2, PostExplains DEF IInv, TypeOK
<1> HIDE DEF e
<1> USE WalletAssumption DEF Goto, locals
<1>4. TypeOK'
  BY <1>3 DEF Commit, FreeLocks, IInv, TypeOK
<1>5. ASSUME NEW r \in Sessions, r # s, Posting(r) \/ Checked(r)
      PROVE  tenant[r] # tenant[s]
  BY <1>5 DEF Commit, IInv, LocksHeld, Posting
<1>6. LocksHeld'
  BY <1>5 DEF Commit, FreeLocks, IInv, TypeOK, LocksHeld, Posting, Checked
<1>7. ReadIsCurrent'
  BY <1>5 DEF Commit, IInv, TypeOK, ReadIsCurrent, Posting
<1>8. CheckedBookingIsCovered'
  BY <1>5 DEF Commit, IInv, TypeOK, CheckedBookingIsCovered, Checked
<1>9. StagedRow'
  BY DEF Commit, IInv, TypeOK, StagedRow, NewBalance
<1>10. QED
  BY <1>3, <1>4, <1>6, <1>7, <1>8, <1>9 DEF IInv

LEMMA NextIInv == IInv /\ [Next]_vars => IInv'
<1> SUFFICES ASSUME IInv, [Next]_vars PROVE IInv'
  OBVIOUS
<1>1. ASSUME NEW s \in Sessions, NEW o \in Ops, NEW t \in Tenants, NEW a \in Amounts,
             Start(s, o, t, a)
      PROVE  IInv'
  BY <1>1, StartStep
<1>2. ASSUME NEW s \in Sessions, Advance(s)
      PROVE  IInv'
  BY <1>2, CheckBalanceStep, LockWalletStep, EndStep, InsertEntryStep, CommitStep DEF Advance
<1>3. ASSUME NEW s \in Sessions, Rollback(s)
      PROVE  IInv'
  BY <1>3, EndStep
<1>4. CASE UNCHANGED vars
  BY <1>4 DEF vars, IInv, TypeOK, LocksHeld, ReadIsCurrent, StagedRow, NewBalance, Posting,
              Checked, CheckedBookingIsCovered, LedgerExplainsBalance, BalanceBefore
<1>5. QED
  BY <1>1, <1>2, <1>3, <1>4 DEF Next

-----------------------------------------------------------------------------
THEOREM WalletInductive == Spec => []IInv
<1>1. Init => IInv
  BY InitIInv
<1>2. IInv /\ [Next]_vars => IInv'
  BY NextIInv
<1>3. QED
  BY <1>1, <1>2, PTL DEF Spec

(* services/wallet.service.js never overdraws a wallet nor overflows the    *)
(* balance column, and its variables keep their types.                     *)
THEOREM WalletTypeCorrect == Spec => []TypeOK
<1>1. IInv => TypeOK
  BY DEF IInv
<1>2. QED
  BY <1>1, WalletInductive, PTL

(* The ledger explains the cached balance, row by row, in every state that *)
(* concurrent credits, debits and bookings and their failures can reach.   *)
THEOREM WalletLedgerAgrees == Spec => []LedgerExplainsBalance
<1>1. IInv => LedgerExplainsBalance
  BY DEF IInv
<1>2. QED
  BY <1>1, WalletInductive, PTL

(* A booking whose balance check passed is still covered when its debit    *)
(* is made, after the call to the courier.                                 *)
THEOREM WalletBookingCovered == Spec => []CheckedBookingIsCovered
<1>1. IInv => CheckedBookingIsCovered
  BY DEF IInv
<1>2. QED
  BY <1>1, WalletInductive, PTL

(* wallet.service.js implements WalletLedger: each COMMIT is one atomic    *)
(* posting and every other step is invisible.                              *)
THEOREM WalletImplementsLedger == Spec => ImplementsLedger
<1>1. Init => WL!Init
  BY DEF Init, WL!Init
<1>2. IInv /\ [Next]_vars => [WL!Next]_<<balance, ledger>>
  <2> SUFFICES ASSUME IInv, [Next]_vars PROVE [WL!Next]_<<balance, ledger>>
    OBVIOUS
  <2>1. ASSUME NEW s \in Sessions, Commit(s)
        PROVE  WL!Next
    <3>1. tenant[s] \in Tenants /\ amt[s] \in Amounts /\ EntryType(op[s]) \in {"credit", "debit"}
      BY <2>1 DEF Commit, IInv, StagedRow, TypeOK, EntryType
    <3>2. NewBalance(s) \in 0..MaxBalance
      BY <2>1, NewBalanceInRange DEF Commit, IInv, StagedRow, Posting
    <3>3. QED
      BY <2>1, <3>1, <3>2, CommitPosts DEF WL!Next
  <2>2. ASSUME ~ \E s \in Sessions : Commit(s)
        PROVE  UNCHANGED <<balance, ledger>>
    BY <2>2 DEF Next, Advance, Start, CheckBalance, LockWallet, Refuse, InsertEntry, Rollback, vars
  <2>3. QED
    BY <2>1, <2>2
<1>3. QED
  BY <1>1, <1>2, WalletInductive, PTL DEF Spec, ImplementsLedger, WL!Spec
=============================================================================
