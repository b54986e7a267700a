------------------------ MODULE GatewayRechargeProofs ------------------------
(***************************************************************************)
(* Proofs about GatewayRecharge, for any recharges, any finite number of    *)
(* confirmations at a time and any sessions of the wallet service.          *)
(*                                                                         *)
(* The argument for the number of credits: every rejected verification      *)
(* gives a recharge another budget of one credit per confirmer; a recharge  *)
(* in "success" has spent one that those still under way share (Budget).    *)
(***************************************************************************)
EXTENDS GatewayRecharge, WalletProofs, FiniteSetTheorems

SessionTypes ==
  /\ pc     \in [Sessions -> {"idle", "check", "lock", "insert", "commit"}]
  /\ op     \in [Sessions -> Ops]
  /\ tenant \in [Sessions -> Tenants]
  /\ amt    \in [Sessions -> Int]
  /\ seen   \in [Sessions -> 0..MaxBalance]
  /\ staged \in [Sessions -> Seq(WL!Entry)]

(* What holds of the wallet's sessions also beside writers that read unlocked. *)
Posts == LocksHeld /\ ReadIsCurrent /\ StagedRow

(* A confirmer that has written the balance holds the row, and it fits. *)
ConfirmerHoldsRow ==
  \A c \in Confirmers : cpc[c] = "commit" =>
    rowLock[TenantOf(c)] = c /\ Credited(c) <= MaxBalance

Pending(x) == {c \in Confirmers : cpc[c] # "idle" /\ tx[c] = x}
Share == Cardinality(Confirmers)
Within(st, credits, pending, rejections) ==
  IF st = "success" THEN credits + pending <= Share * rejections + Share
                    ELSE credits <= Share * rejections
Budget ==
  \A x \in Recharges : Within(txStatus[x], txCredits[x], Cardinality(Pending(x)), failed[x])

Types == GTypeOK /\ SessionTypes
GInv == Types /\ Posts /\ ConfirmerHoldsRow /\ Budget

-----------------------------------------------------------------------------
(* Confirmers are not sessions, and recharges are of tenants with a wallet. *)
LEMMA Apart ==
  /\ \A c \in Confirmers, s \in Sessions : c # s
  /\ \A c \in Confirmers : c # NoSession
  /\ \A s \in Sessions : s # NoSession
  /\ \A x \in Recharges : RechargeTenant[x] \in Tenants /\ RechargeAmount[x] \in Nat /\ RechargeAmount[x] > 0
BY WalletAssumption, GatewayAssumption

LEMMA ShareIsNat == Share \in Nat /\ IsFiniteSet(Confirmers)
BY GatewayAssumption, FS_CardinalityType DEF Share

(* The confirmations of a recharge that are under way can be counted. *)
LEMMA PendingCount ==
  ASSUME NEW x
  PROVE  /\ IsFiniteSet(Pending(x)) /\ Cardinality(Pending(x)) \in Nat
         /\ Cardinality(Pending(x)) <= Share
<1>1. Pending(x) \subseteq Confirmers
  BY DEF Pending
<1> QED BY <1>1, ShareIsNat, FS_Subset, FS_CardinalityType DEF Share

(* One that ends is one less, for its own recharge. *)
LEMMA OneLessPending ==
  ASSUME Types, NEW c \in Confirmers, cpc[c] # "idle",
         cpc' = [cpc EXCEPT ![c] = "idle"], UNCHANGED tx, NEW x, x = tx[c]
  PROVE  /\ Cardinality(Pending(x)') = Cardinality(Pending(x)) - 1
         /\ \A y : y # x => Pending(y)' = Pending(y)
<1>1. cpc \in [Confirmers -> {"idle", "read", "update", "commit"}]
  BY DEF Types, GTypeOK
<1>2. Pending(x)' = Pending(x) \ {c} /\ c \in Pending(x)
  BY <1>1 DEF Pending
<1>3. ASSUME NEW y, y # x PROVE Pending(y)' = Pending(y)
  BY <1>1, <1>3 DEF Pending
<1>4. Cardinality(Pending(x) \ {c}) = Cardinality(Pending(x)) - 1
  BY <1>2, PendingCount, FS_RemoveElement
<1> QED BY <1>2, <1>3, <1>4

LEMMA Multiples ==
  ASSUME NEW n \in Nat, NEW k \in Nat
  PROVE  /\ n * k \in Nat
         /\ n * (k + 1) = n * k + n
         /\ n * (1 + k) = n * k + n
OBVIOUS

(* A rejection pays for whatever was credited, a confirmation that ends for itself. *)
LEMMA Rejected ==
  ASSUME NEW st, NEW new, new \in {st, "failed"}, NEW credits \in Nat, NEW pending \in Nat,
         NEW k \in Nat, Within(st, credits, pending, k)
  PROVE  Within(new, credits, pending - 1, k + 1)
<1> DEFINE budget == Share * k
<1>1. budget \in Nat /\ Share * (k + 1) = budget + Share /\ Share \in Nat
  BY Multiples, ShareIsNat
<1> HIDE DEF budget
<1>2. IF st = "success" THEN credits + pending <= budget + Share ELSE credits <= budget
  BY DEF Within, budget
<1> QED BY <1>1, <1>2 DEF Within

LEMMA Confirmed ==
  ASSUME NEW st, NEW credits \in Nat, NEW pending \in 1..Share,
         NEW k \in Nat, Within(st, credits, pending, k)
  PROVE  Within("success", credits + 1, pending - 1, k)
<1> DEFINE budget == Share * k
<1>1. budget \in Nat /\ Share \in Nat
  BY Multiples, ShareIsNat
<1> HIDE DEF budget
<1>2. IF st = "success" THEN credits + pending <= budget + Share ELSE credits <= budget
  BY DEF Within, budget
<1> QED BY <1>1, <1>2 DEF Within, budget

LEMMA Lost ==
  ASSUME NEW st, NEW credits \in Nat, NEW pending \in Nat,
         NEW k \in Nat, Within(st, credits, pending, k)
  PROVE  Within(st, credits, pending - 1, k)
<1> DEFINE budget == Share * k
<1>1. budget \in Nat /\ Share \in Nat
  BY Multiples, ShareIsNat
<1> HIDE DEF budget
<1>2. IF st = "success" THEN credits + pending <= budget + Share ELSE credits <= budget
  BY DEF Within, budget
<1> QED BY <1>1, <1>2 DEF Within, budget

(* A step within one recharge's budget leaves the others' alone. *)
LEMMA BudgetKept ==
  ASSUME Budget, NEW x \in Recharges,
         Within(txStatus'[x], txCredits'[x], Cardinality(Pending(x)'), failed'[x]),
         \A y \in Recharges : y # x =>
           /\ txStatus'[y] = txStatus[y] /\ failed'[y] = failed[y] /\ txCredits'[y] = txCredits[y]
           /\ Pending(y)' = Pending(y)
  PROVE  Budget'
<1>1. \A y \in Recharges : Within(txStatus'[y], txCredits'[y], Cardinality(Pending(y)'), failed'[y])
  BY DEF Budget
<1>2. Share' = Share
  BY DEF Share
<1> QED BY <1>1, <1>2 DEF Budget, Within

-----------------------------------------------------------------------------
LEMMA InitGInv == GInit => GInv
<1> SUFFICES ASSUME GInit PROVE GInv
  OBVIOUS
<1>1. IInv
  BY InitIInv DEF GInit
<1>2. (CHOOSE x \in Recharges : TRUE) \in Recharges
  BY GatewayAssumption
<1>3. Types
  <2>1. MaxFailed \in Nat /\ MaxBalance \in Nat
    BY WalletAssumption, GatewayAssumption
  <2>2. GTypeOK
    BY <1>1, <1>2, <2>1 DEF GInit, GTypeOK, IInv, TypeOK
  <2>3. SessionTypes
    BY <1>1 DEF IInv, TypeOK, SessionTypes
  <2> QED BY <2>2, <2>3 DEF Types
<1>4. Posts
  BY <1>1 DEF IInv, Posts
<1>5. ConfirmerHoldsRow
  BY DEF GInit, ConfirmerHoldsRow
<1>6. Budget
  BY ShareIsNat DEF GInit, Budget, Within
<1> QED BY <1>3, <1>4, <1>5, <1>6 DEF GInv

-----------------------------------------------------------------------------
(* Steps of the wallet's sessions. *)
LEMMA SessionsKeepRecharges ==
  ASSUME GInv, UNCHANGED gatewayVars,
         \A c \in Confirmers : cpc[c] = "commit" => rowLock'[TenantOf(c)] = rowLock[TenantOf(c)],
         Types', Posts'
  PROVE  GInv'
<1> USE DEF gatewayVars
<1>1. ConfirmerHoldsRow'
  BY DEF GInv, ConfirmerHoldsRow, TenantOf, Credited
<1>2. Budget'
  BY DEF GInv, Budget, Pending, Share, Within
<1> QED BY <1>1, <1>2 DEF GInv

LEMMA SessionStartStep ==
  ASSUME GInv, UNCHANGED gatewayVars,
         NEW s \in Sessions, NEW o \in Ops, NEW t \in Tenants, NEW a \in Amounts, Start(s, o, t, a)
  PROVE  GInv'
<1> USE WalletAssumption DEF Start, Goto
<1>1. Types'
  BY DEF GInv, Types, GTypeOK, SessionTypes, gatewayVars
<1>2. LocksHeld' /\ ReadIsCurrent'
  BY DEF GInv, Types, SessionTypes, Posts, LocksHeld, ReadIsCurrent, Posting, Checked
<1>3. StagedRow'
  BY DEF GInv, Types, SessionTypes, Posts, StagedRow, NewBalance
<1> QED BY <1>1, <1>2, <1>3, SessionsKeepRecharges DEF Posts

LEMMA SessionLockStep ==
  ASSUME GInv, UNCHANGED gatewayVars, NEW s \in Sessions, CheckBalance(s) \/ LockWallet(s)
  PROVE  GInv'
<1>l. /\ rowLock' = [rowLock EXCEPT ![tenant[s]] = s] /\ rowLock[tenant[s]] \in {NoSession, s}
      /\ UNCHANGED <<balance, ledger, op, tenant, amt, staged>>
      /\ \/ pc[s] = "check" /\ pc' = [pc EXCEPT ![s] = "lock"] /\ UNCHANGED seen
         \/ /\ pc[s] = "lock" /\ pc' = [pc EXCEPT ![s] = "insert"]
            /\ seen' = [seen EXCEPT ![s] = balance[tenant[s]]]
            /\ op[s] # "credit" => balance[tenant[s]] >= amt[s]
  BY DEF CheckBalance, LockWallet, Goto, CanLock, TakeLock, locals
<1>t. tenant[s] \in Tenants /\ balance[tenant[s]] \in 0..MaxBalance
  BY DEF GInv, Types, GTypeOK, SessionTypes
<1>1. Types'
  BY <1>l, <1>t DEF GInv, Types, GTypeOK, SessionTypes, gatewayVars
<1>2. LocksHeld'
  BY <1>l, <1>t, Apart DEF GInv, Types, GTypeOK, SessionTypes, Posts, LocksHeld, Posting, Checked
<1>r. ReadIsCurrent'
  BY <1>l, <1>t DEF GInv, Types, SessionTypes, Posts, ReadIsCurrent, Posting
<1>3. StagedRow'
  BY <1>l DEF GInv, Types, SessionTypes, Posts, StagedRow, NewBalance
<1>4. \A c \in Confirmers : cpc[c] = "commit" => rowLock'[TenantOf(c)] = rowLock[TenantOf(c)]
  BY <1>l, Apart DEF GInv, Types, GTypeOK, ConfirmerHoldsRow, TenantOf
<1> QED BY <1>1, <1>2, <1>r, <1>3, <1>4, SessionsKeepRecharges DEF Posts

LEMMA SessionEndStep ==
  ASSUME GInv, UNCHANGED gatewayVars, NEW s \in Sessions, Refuse(s) \/ Rollback(s)
  PROVE  GInv'
<1>1. /\ pc' = [pc EXCEPT ![s] = "idle"]
      /\ FreeLocks(s)
      /\ staged' = [staged EXCEPT ![s] = << >>]
      /\ UNCHANGED <<balance, ledger, op, tenant, amt, seen>>
  <2>1. CASE Refuse(s)
    BY <2>1 DEF Refuse, Goto, locals, GInv, Posts, StagedRow, Types, SessionTypes
  <2>2. CASE Rollback(s)
    BY <2>2 DEF Rollback, Goto, locals
  <2> QED BY <2>1, <2>2
<1> USE WalletAssumption, Apart DEF FreeLocks
<1>2. Types'
  BY <1>1 DEF GInv, Types, GTypeOK, SessionTypes, gatewayVars
<1>3. LocksHeld' /\ ReadIsCurrent'
  BY <1>1 DEF GInv, Types, GTypeOK, SessionTypes, Posts, LocksHeld, ReadIsCurrent, Posting, Checked
<1>4. StagedRow'
  BY <1>1 DEF GInv, Types, SessionTypes, Posts, StagedRow, NewBalance
<1>5. \A c \in Confirmers : cpc[c] = "commit" => rowLock'[TenantOf(c)] = rowLock[TenantOf(c)]
  BY <1>1 DEF GInv, Types, GTypeOK, ConfirmerHoldsRow, TenantOf
<1> QED BY <1>2, <1>3, <1>4, <1>5, SessionsKeepRecharges DEF Posts

(* The row that a session stages is well formed and fits the column. *)
LEMMA StagedEntry ==
  ASSUME GInv, NEW s \in Sessions, Posting(s), NewBalance(s) <= MaxBalance
  PROVE  /\ NewBalance(s) \in 0..MaxBalance
         /\ [type |-> EntryType(op[s]), amount |-> amt[s],
             balance_after |-> NewBalance(s)] \in WL!Entry
<1>1. amt[s] \in Int /\ seen[s] \in 0..MaxBalance /\ op[s] \in Ops /\ MaxBalance \in Nat
  BY WalletAssumption DEF GInv, Types, SessionTypes
<1>2. amt[s] > 0 /\ (op[s] # "credit" => seen[s] >= amt[s])
  BY DEF GInv, Posts, ReadIsCurrent, StagedRow, Posting
<1>3. CASE op[s] = "credit"
  BY <1>1, <1>2, <1>3 DEF NewBalance, EntryType, WL!Entry
<1>4. CASE op[s] # "credit"
  BY <1>1, <1>2, <1>4 DEF NewBalance, EntryType, WL!Entry
<1> QED BY <1>3, <1>4

LEMMA SessionInsertStep ==
  ASSUME GInv, UNCHANGED gatewayVars, NEW s \in Sessions, InsertEntry(s)
  PROVE  GInv'
<1> DEFINE e == [type |-> EntryType(op[s]), amount |-> amt[s], balance_after |-> NewBalance(s)]
           row == << e >>
<1>1. e \in WL!Entry
  BY StagedEntry DEF InsertEntry, Posting
<1>2. staged' = [staged EXCEPT ![s] = row]
  <2>1. staged' = [staged EXCEPT ![s] = Append(@, e)]
    BY DEF InsertEntry
  <2>2. staged[s] = << >>
    BY DEF InsertEntry, GInv, Posts, StagedRow
  <2> HIDE DEF e
  <2>3. Append(<< >>, e) = row
    BY <1>1
  <2> HIDE DEF row
  <2> QED BY <2>1, <2>2, <2>3
<1>3. /\ pc[s] = "insert" /\ NewBalance(s) <= MaxBalance
      /\ pc' = [pc EXCEPT ![s] = "commit"]
      /\ UNCHANGED <<balance, ledger, rowLock, op, tenant, amt, seen>>
  BY DEF InsertEntry, Goto, locals
<1> HIDE DEF e
<1>4. row \in Seq(WL!Entry)
  BY <1>1
<1> HIDE DEF row
<1>5. Types'
  BY <1>2, <1>3, <1>4 DEF GInv, Types, GTypeOK, SessionTypes, gatewayVars
<1>6. LocksHeld' /\ ReadIsCurrent'
  BY <1>3 DEF GInv, Types, SessionTypes, Posts, LocksHeld, ReadIsCurrent, Posting, Checked
<1>7. StagedRow'
  <2>1. \A r \in Sessions : NewBalance(r)' = NewBalance(r)
    BY <1>3 DEF NewBalance
  <2>2. ASSUME NEW r \in Sessions, r # s
        PROVE  pc'[r] = pc[r] /\ staged'[r] = staged[r]
    BY <1>2, <1>3, <2>2 DEF GInv, Types, SessionTypes
  <2>3. pc'[s] = "commit" /\ staged'[s] = row
    BY <1>2, <1>3 DEF GInv, Types, SessionTypes
  <2>4. amt[s] \in Amounts /\ amt[s] > 0
    BY <1>3 DEF GInv, Posts, StagedRow
  <2> QED BY <1>3, <2>1, <2>2, <2>3, <2>4 DEF GInv, Posts, StagedRow, row, e
<1> QED BY <1>3, <1>5, <1>6, <1>7, SessionsKeepRecharges DEF Posts

LEMMA SessionCommitStep ==
  ASSUME GInv, UNCHANGED gatewayVars, NEW s \in Sessions, Commit(s)
  PROVE  GInv'
<1>1. /\ pc[s] = "commit" /\ pc' = [pc EXCEPT ![s] = "idle"]
      /\ ledger' = [ledger EXCEPT ![tenant[s]] = @ \o staged[s]]
      /\ balance' = [balance EXCEPT ![tenant[s]] = NewBalance(s)]
      /\ staged' = [staged EXCEPT ![s] = << >>]
      /\ FreeLocks(s)
      /\ UNCHANGED <<op, tenant, amt, seen>>
  BY DEF Commit, Goto, locals
<1>2. NewBalance(s) \in 0..MaxBalance /\ tenant[s] \in Tenants
  BY <1>1, StagedEntry DEF GInv, Posts, StagedRow, Posting, Types, SessionTypes
<1>3. ledger[tenant[s]] \o staged[s] \in Seq(WL!Entry)
  BY <1>2 DEF GInv, Types, GTypeOK, SessionTypes
<1>4. Types'
  BY <1>1, <1>2, <1>3, Apart DEF FreeLocks, GInv, Types, GTypeOK, SessionTypes, gatewayVars
<1>5. ASSUME NEW r \in Sessions, r # s, Posting(r) \/ Checked(r)
      PROVE  tenant[r] # tenant[s]
  BY <1>1, <1>5 DEF GInv, Posts, LocksHeld, Posting
<1>6. LocksHeld' /\ ReadIsCurrent'
  BY <1>1, <1>2, <1>5 DEF FreeLocks, GInv, Types, GTypeOK, SessionTypes, Posts, LocksHeld, ReadIsCurrent,
                          Posting, Checked
<1>7. StagedRow'
  BY <1>1 DEF GInv, Types, SessionTypes, Posts, StagedRow, NewBalance
<1>8. \A c \in Confirmers : cpc[c] = "commit" => rowLock'[TenantOf(c)] = rowLock[TenantOf(c)]
  BY <1>1, Apart DEF FreeLocks, GInv, Types, GTypeOK, ConfirmerHoldsRow, TenantOf
<1> QED BY <1>4, <1>6, <1>7, <1>8, SessionsKeepRecharges DEF Posts

-----------------------------------------------------------------------------
(* Steps of recharges and confirmers that leave the wallet alone. *)
LEMMA WalletAlone ==
  ASSUME GInv, UNCHANGED <<balance, ledger, rowLock, pc, op, tenant, amt, seen, staged>>, GTypeOK'
  PROVE  Types' /\ Posts'
<1>1. Types'
  BY DEF GInv, Types, SessionTypes
<1>2. Posts'
  BY DEF GInv, Posts, LocksHeld, ReadIsCurrent, StagedRow, NewBalance, Posting, Checked
<1> QED BY <1>1, <1>2

LEMMA InitiateStep ==
  ASSUME GInv, NEW x \in Recharges, InitiateRecharge(x)
  PROVE  GInv'
<1> USE DEF InitiateRecharge, walletVars, vars
<1>1. GTypeOK'
  BY DEF GInv, Types, GTypeOK
<1>2. Types' /\ Posts'
  BY <1>1, WalletAlone
<1>3. ConfirmerHoldsRow'
  BY DEF GInv, ConfirmerHoldsRow, TenantOf, Credited
<1>4. Budget'
  BY DEF GInv, Types, GTypeOK, Budget, Within, Share, Pending
<1> QED BY <1>2, <1>3, <1>4 DEF GInv

LEMMA BeginConfirmStep ==
  ASSUME GInv, NEW c \in Confirmers, NEW x \in Recharges, BeginConfirm(c, x)
  PROVE  GInv'
<1> USE DEF BeginConfirm, CGoto, walletVars, vars
<1>1. GTypeOK'
  BY DEF GInv, Types, GTypeOK, Confirmable
<1>2. Types' /\ Posts'
  BY <1>1, WalletAlone
<1>3. ConfirmerHoldsRow'
  BY DEF GInv, Types, GTypeOK, ConfirmerHoldsRow, TenantOf, Credited
<1>4. \A y \in Recharges : y # x => Pending(y)' = Pending(y)
  BY DEF GInv, Types, GTypeOK, Pending
<1>5. Budget'
  BY <1>4 DEF GInv, Types, GTypeOK, Budget, Within, Share, Confirmable
<1> QED BY <1>2, <1>3, <1>5 DEF GInv

LEMMA ReadWalletStep ==
  ASSUME GInv, NEW c \in Confirmers, ReadWallet(c)
  PROVE  GInv'
<1> USE DEF ReadWallet, CGoto, walletVars, vars
<1>1. GTypeOK'
  <2>1. TenantOf(c) \in Tenants
    BY Apart DEF GInv, Types, GTypeOK, TenantOf
  <2> QED BY <2>1 DEF GInv, Types, GTypeOK
<1>2. Types' /\ Posts'
  BY <1>1, WalletAlone
<1>3. ConfirmerHoldsRow'
  BY DEF GInv, Types, GTypeOK, ConfirmerHoldsRow, TenantOf, Credited
<1>4. \A y \in Recharges : Pending(y)' = Pending(y)
  BY DEF GInv, Types, GTypeOK, Pending
<1>5. Budget'
  BY <1>4 DEF GInv, Budget, Within, Share
<1> QED BY <1>2, <1>3, <1>5 DEF GInv

LEMMA RejectStep ==
  ASSUME GInv, NEW c \in Confirmers, RejectPayment(c)
  PROVE  GInv'
<1>0. PICK x \in Recharges : x = tx[c]
  BY DEF GInv, Types, GTypeOK
<1>1. /\ cpc[c] = "read" /\ failed[x] < MaxFailed
      /\ failed' = [failed EXCEPT ![x] = @ + 1]
      /\ txStatus' \in {txStatus, [txStatus EXCEPT ![x] = "failed"]}
      /\ cpc' = [cpc EXCEPT ![c] = "idle"]
      /\ UNCHANGED <<walletVars, txCredits, tx, read, prevBalance>>
  BY <1>0 DEF RejectPayment, CGoto
<1>2. x \in Recharges /\ failed[x] \in Nat /\ MaxFailed \in Nat /\ txCredits[x] \in Nat
  BY <1>0, GatewayAssumption DEF GInv, Types, GTypeOK
<1>3. GTypeOK'
  <2>1. failed' \in [Recharges -> 0..MaxFailed]
    BY <1>1, <1>2 DEF GInv, Types, GTypeOK
  <2>2. txStatus' \in [Recharges -> {"none", "initiated", "success", "failed"}]
    BY <1>1, <1>2 DEF GInv, Types, GTypeOK
  <2>3. cpc' \in [Confirmers -> {"idle", "read", "update", "commit"}]
    BY <1>1 DEF GInv, Types, GTypeOK
  <2> QED BY <1>1, <2>1, <2>2, <2>3 DEF GInv, Types, GTypeOK, walletVars, vars
<1>4. Types' /\ Posts'
  BY <1>1, <1>3, WalletAlone DEF walletVars, vars
<1>5. ConfirmerHoldsRow'
  BY <1>1 DEF GInv, Types, GTypeOK, ConfirmerHoldsRow, TenantOf, Credited, walletVars, vars
<1>6. Budget'
  <2>1. ASSUME NEW y \in Recharges, y # x
        PROVE  /\ txStatus'[y] = txStatus[y] /\ failed'[y] = failed[y] /\ txCredits'[y] = txCredits[y]
               /\ Pending(y)' = Pending(y)
    <3>1. txStatus'[y] = txStatus[y] /\ failed'[y] = failed[y] /\ txCredits'[y] = txCredits[y]
      BY <1>1, <2>1 DEF GInv, Types, GTypeOK
    <3>2. Pending(y)' = Pending(y)
      BY <1>0, <1>1, <2>1, OneLessPending DEF GInv
    <3> QED BY <3>1, <3>2
  <2>2. /\ Cardinality(Pending(x)') = Cardinality(Pending(x)) - 1
        /\ Cardinality(Pending(x)) \in Nat
    BY <1>0, <1>1, OneLessPending, PendingCount DEF GInv
  <2>3. /\ failed'[x] = failed[x] + 1 /\ txCredits'[x] = txCredits[x]
        /\ txStatus'[x] \in {txStatus[x], "failed"}
    BY <1>1, <1>2 DEF GInv, Types, GTypeOK
  <2>4. Within(txStatus[x], txCredits[x], Cardinality(Pending(x)), failed[x])
    BY <1>2 DEF GInv, Budget
  <2>5. Within(txStatus'[x], txCredits'[x], Cardinality(Pending(x)'), failed'[x])
    BY <1>2, <2>2, <2>3, <2>4, Rejected
  <2>6. x \in Recharges /\ Budget
    BY <1>2 DEF GInv
  <2> QED BY <2>1, <2>5, <2>6, BudgetKept
<1> QED BY <1>4, <1>5, <1>6 DEF GInv

LEMMA UpdateWalletStep ==
  ASSUME GInv, NEW c \in Confirmers, UpdateWallet(c)
  PROVE  GInv'
<1>1. /\ cpc[c] = "update" /\ rowLock[TenantOf(c)] = NoSession /\ Credited(c) <= MaxBalance
      /\ rowLock' = [rowLock EXCEPT ![TenantOf(c)] = c]
      /\ cpc' = [cpc EXCEPT ![c] = "commit"]
      /\ UNCHANGED <<balance, ledger, pc, op, tenant, amt, seen, staged,
                     txStatus, txCredits, failed, tx, read, prevBalance>>
  BY DEF UpdateWallet, CGoto, locals
<1>2. TenantOf(c) \in Tenants
  BY Apart DEF GInv, Types, GTypeOK, TenantOf
<1>3. Types'
  BY <1>1, <1>2 DEF GInv, Types, GTypeOK, SessionTypes
<1>4. LocksHeld'
  BY <1>1, <1>2, Apart DEF GInv, Types, GTypeOK, SessionTypes, Posts, LocksHeld, Posting, Checked
<1>5. ReadIsCurrent' /\ StagedRow'
  BY <1>1 DEF GInv, Posts, ReadIsCurrent, StagedRow, Posting, NewBalance
<1>6. ConfirmerHoldsRow'
  BY <1>1, <1>2, Apart DEF GInv, Types, GTypeOK, ConfirmerHoldsRow, TenantOf, Credited
<1>7. \A y \in Recharges : Pending(y)' = Pending(y)
  BY <1>1 DEF GInv, Types, GTypeOK, Pending
<1>8. Budget'
  BY <1>1, <1>7 DEF GInv, Budget, Within, Share
<1> QED BY <1>3, <1>4, <1>5, <1>6, <1>8 DEF GInv, Posts

(* Both ends of a confirmation release its row. *)
LEMMA RowFreed ==
  ASSUME GInv, NEW c \in Confirmers, FreeLocks(c), cpc' = [cpc EXCEPT ![c] = "idle"],
         UNCHANGED <<pc, op, tenant, amt, seen, staged, tx, prevBalance>>
  PROVE  /\ rowLock' \in [Tenants -> Sessions \cup Confirmers \cup {NoSession}]
         /\ LocksHeld' /\ StagedRow' /\ ConfirmerHoldsRow'
<1> USE Apart DEF FreeLocks, GInv, Types, GTypeOK, SessionTypes
<1>1. rowLock' \in [Tenants -> Sessions \cup Confirmers \cup {NoSession}]
  OBVIOUS
<1>2. LocksHeld'
  BY DEF Posts, LocksHeld, Posting, Checked
<1>3. StagedRow'
  BY DEF Posts, StagedRow, NewBalance
<1>4. ConfirmerHoldsRow'
  BY DEF ConfirmerHoldsRow, TenantOf, Credited
<1> QED BY <1>1, <1>2, <1>3, <1>4

LEMMA LoseStep ==
  ASSUME GInv, NEW c \in Confirmers, LoseConfirm(c)
  PROVE  GInv'
<1>1. /\ cpc[c] # "idle" /\ FreeLocks(c) /\ cpc' = [cpc EXCEPT ![c] = "idle"]
      /\ UNCHANGED <<balance, ledger, pc, op, tenant, amt, seen, staged,
                     txStatus, txCredits, failed, tx, read, prevBalance>>
  BY DEF LoseConfirm, CGoto, locals
<1>2. Types'
  BY <1>1, RowFreed DEF GInv, Types, GTypeOK, SessionTypes
<1>3. Posts' /\ ConfirmerHoldsRow'
  <2>1. ReadIsCurrent'
    BY <1>1 DEF GInv, Posts, ReadIsCurrent, Posting
  <2> QED BY <1>1, <2>1, RowFreed DEF Posts
<1>4. Budget'
  <2>0. PICK x \in Recharges : x = tx[c]
    BY DEF GInv, Types, GTypeOK
  <2>1. x \in Recharges /\ failed[x] \in Nat /\ txCredits[x] \in Nat
    BY <2>0, GatewayAssumption DEF GInv, Types, GTypeOK
  <2>2. /\ Cardinality(Pending(x)') = Cardinality(Pending(x)) - 1
        /\ Cardinality(Pending(x)) \in Nat
        /\ \A y : y # x => Pending(y)' = Pending(y)
    BY <1>1, <2>0, OneLessPending, PendingCount DEF GInv
  <2>3. Within(txStatus[x], txCredits[x], Cardinality(Pending(x)), failed[x])
    BY <2>1 DEF GInv, Budget
  <2>4. Within(txStatus'[x], txCredits'[x], Cardinality(Pending(x)'), failed'[x])
    BY <1>1, <2>1, <2>2, <2>3, Lost
  <2>5. \A y \in Recharges : y # x =>
          /\ txStatus'[y] = txStatus[y] /\ failed'[y] = failed[y] /\ txCredits'[y] = txCredits[y]
          /\ Pending(y)' = Pending(y)
    BY <1>1, <2>2
  <2>6. Budget
    BY DEF GInv
  <2> QED BY <2>1, <2>4, <2>5, <2>6, BudgetKept
<1> QED BY <1>2, <1>3, <1>4 DEF GInv

LEMMA CommitConfirmStep ==
  ASSUME GInv, NEW c \in Confirmers, CommitConfirm(c)
  PROVE  GInv'
<1>0. PICK x \in Recharges : x = tx[c]
  BY DEF GInv, Types, GTypeOK
<1> DEFINE t == TenantOf(c)
           new == Credited(c)
           e == [type |-> "credit", amount |-> RechargeAmount[x], balance_after |-> new]
<1>1. /\ cpc[c] = "commit" /\ FreeLocks(c) /\ cpc' = [cpc EXCEPT ![c] = "idle"]
      /\ ledger' = [ledger EXCEPT ![t] = Append(@, e)]
      /\ balance' = [balance EXCEPT ![t] = new]
      /\ txStatus' = [txStatus EXCEPT ![x] = "success"]
      /\ txCredits' = [txCredits EXCEPT ![x] = @ + 1]
      /\ UNCHANGED <<pc, op, tenant, amt, seen, staged, failed, tx, read, prevBalance>>
  BY <1>0 DEF CommitConfirm, CGoto, locals
<1>2. /\ x \in Recharges /\ t \in Tenants /\ failed[x] \in Nat /\ txCredits[x] \in Nat
      /\ RechargeAmount[x] \in Nat /\ RechargeAmount[x] > 0
  BY <1>0, Apart, GatewayAssumption DEF GInv, Types, GTypeOK, TenantOf
<1>3. rowLock[t] = c /\ new \in 0..MaxBalance
  <2>1. prevBalance[c] \in 0..MaxBalance /\ MaxBalance \in Nat
    BY WalletAssumption DEF GInv, Types, GTypeOK
  <2>2. rowLock[t] = c /\ new <= MaxBalance
    BY <1>1 DEF GInv, ConfirmerHoldsRow
  <2> QED BY <1>0, <1>2, <2>1, <2>2 DEF Credited
<1>4. e \in WL!Entry
  BY <1>2, <1>3 DEF WL!Entry
<1>5. \A s \in Sessions : Posting(s) => tenant[s] # t
  BY <1>3, Apart DEF GInv, Posts, LocksHeld
<1> HIDE DEF t, new, e
<1>6. Types'
  <2>1. /\ balance' \in [Tenants -> 0..MaxBalance]
        /\ ledger' \in [Tenants -> Seq(WL!Entry)]
    BY <1>1, <1>2, <1>3, <1>4 DEF GInv, Types, GTypeOK
  <2>2. /\ txStatus' \in [Recharges -> {"none", "initiated", "success", "failed"}]
        /\ txCredits' \in [Recharges -> Nat]
        /\ cpc' \in [Confirmers -> {"idle", "read", "update", "commit"}]
    BY <1>1, <1>2 DEF GInv, Types, GTypeOK
  <2>3. rowLock' \in [Tenants -> Sessions \cup Confirmers \cup {NoSession}]
    BY <1>1, RowFreed
  <2> QED BY <1>1, <2>1, <2>2, <2>3 DEF GInv, Types, GTypeOK, SessionTypes
<1>7. Posts' /\ ConfirmerHoldsRow'
  <2>1. \A s \in Sessions : Posting(s) => balance'[tenant[s]] = balance[tenant[s]]
    BY <1>1, <1>5 DEF GInv, Types, GTypeOK, SessionTypes
  <2>2. ReadIsCurrent'
    BY <1>1, <2>1 DEF GInv, Posts, ReadIsCurrent, Posting
  <2> QED BY <1>1, <2>2, RowFreed DEF Posts
<1>8. Budget'
  <2>1. \A y \in Recharges : y # x =>
          /\ txStatus'[y] = txStatus[y] /\ failed'[y] = failed[y] /\ txCredits'[y] = txCredits[y]
          /\ Pending(y)' = Pending(y)
    <3>1. \A y : y # x => Pending(y)' = Pending(y)
      BY <1>0, <1>1, OneLessPending DEF GInv
    <3> QED BY <1>1, <3>1 DEF GInv, Types, GTypeOK
  <2>2. /\ Cardinality(Pending(x)') = Cardinality(Pending(x)) - 1
        /\ Cardinality(Pending(x)) \in 1..Share
    <3>1. Cardinality(Pending(x)') = Cardinality(Pending(x)) - 1
      BY <1>0, <1>1, OneLessPending DEF GInv
    <3>2. Cardinality(Pending(x)) \in 0..Share /\ Share \in Nat
      BY PendingCount, ShareIsNat
    <3>3. Pending(x) # {} /\ IsFiniteSet(Pending(x))
      BY <1>0, <1>1, PendingCount DEF Pending
    <3>4. Cardinality(Pending(x)) # 0
      BY <3>3, FS_EmptySet
    <3> QED BY <3>1, <3>2, <3>4
  <2>3. failed'[x] = failed[x] /\ txCredits'[x] = txCredits[x] + 1 /\ txStatus'[x] = "success"
    BY <1>1, <1>2 DEF GInv, Types, GTypeOK
  <2>4. Budget /\ Within(txStatus[x], txCredits[x], Cardinality(Pending(x)), failed[x])
    BY <1>2 DEF GInv, Budget
  <2>5. Within(txStatus'[x], txCredits'[x], Cardinality(Pending(x)'), failed'[x])
    BY <1>2, <2>2, <2>3, <2>4, Confirmed
  <2> QED BY <1>2, <2>1, <2>4, <2>5, BudgetKept
<1> QED BY <1>6, <1>7, <1>8 DEF GInv

LEMMA GatewayStutter ==
  ASSUME GInv, UNCHANGED allVars
  PROVE  GInv'
<1> USE DEF allVars, walletVars, vars, gatewayVars
<1>1. GTypeOK'
  BY DEF GInv, Types, GTypeOK
<1>2. Types' /\ Posts'
  BY <1>1, WalletAlone
<1>3. ConfirmerHoldsRow'
  BY DEF GInv, ConfirmerHoldsRow, TenantOf, Credited
<1>4. Budget'
  BY DEF GInv, Budget, Within, Share, Pending
<1> QED BY <1>2, <1>3, <1>4 DEF GInv

LEMMA NextGInv == GInv /\ [GNext]_allVars => GInv'
<1> SUFFICES ASSUME GInv, [GNext]_allVars PROVE GInv'
  OBVIOUS
<1>1. ASSUME Next, UNCHANGED gatewayVars
      PROVE  GInv'
  <2>1. ASSUME NEW s \in Sessions, NEW o \in Ops, NEW t \in Tenants, NEW a \in Amounts, Start(s, o, t, a)
        PROVE  GInv'
    BY <1>1, <2>1, SessionStartStep
  <2>2. ASSUME NEW s \in Sessions, Advance(s)
        PROVE  GInv'
    BY <1>1, <2>2, SessionLockStep, SessionEndStep, SessionInsertStep, SessionCommitStep DEF Advance
  <2>3. ASSUME NEW s \in Sessions, Rollback(s)
        PROVE  GInv'
    BY <1>1, <2>3, SessionEndStep
  <2> QED BY <1>1, <2>1, <2>2, <2>3 DEF Next
<1>2. ASSUME NEW x \in Recharges, InitiateRecharge(x)
      PROVE  GInv'
  BY <1>2, InitiateStep
<1>3. ASSUME NEW c \in Confirmers, NEW x \in Recharges, BeginConfirm(c, x)
      PROVE  GInv'
  BY <1>3, BeginConfirmStep
<1>4. ASSUME NEW c \in Confirmers,
             \/ RejectPayment(c) \/ ReadWallet(c) \/ UpdateWallet(c)
             \/ CommitConfirm(c) \/ LoseConfirm(c)
      PROVE  GInv'
  BY <1>4, RejectStep, ReadWalletStep, UpdateWalletStep, CommitConfirmStep, LoseStep
<1>5. CASE UNCHANGED allVars
  BY <1>5, GatewayStutter
<1> QED BY <1>1, <1>2, <1>3, <1>4, <1>5 DEF GNext

-----------------------------------------------------------------------------
(* The inductive invariant of the wallet's two groups of writers: sessions  *)
(* that lock the row they read and confirmations that do not.              *)
THEOREM GatewayInductive == GSpec => []GInv
<1>1. GInit => GInv
  BY InitGInv
<1>2. GInv /\ [GNext]_allVars => GInv'
  BY NextGInv
<1>3. QED
  BY <1>1, <1>2, PTL DEF GSpec

(* Beside the confirmations, which read the wallet unlocked, no balance     *)
(* leaves its column and no debit overdraws: credits can be lost, but what *)
(* a session of wallet.service.js posts rests on the row it locked.        *)
THEOREM GatewayTypeCorrect == GSpec => []GTypeOK
<1>1. GInv => GTypeOK
  BY DEF GInv, Types
<1>2. QED
  BY <1>1, GatewayInductive, PTL

(* The unlocked idempotency check bounds the credits of a recharge by the   *)
(* confirmations that can overlap, once and once more for every rejection. *)
THEOREM GatewayCreditsBounded == GSpec => []CreditsBoundedByOverlap
<1>1. GInv => CreditsBoundedByOverlap
  <2> SUFFICES ASSUME GInv, NEW x \in Recharges
               PROVE  txCredits[x] <= Cardinality(Confirmers) * (1 + failed[x])
    BY DEF CreditsBoundedByOverlap
  <2> DEFINE budget == Share * failed[x]
             pending == Cardinality(Pending(x))
  <2>1. txCredits[x] \in Nat /\ failed[x] \in Nat
    BY GatewayAssumption DEF GInv, Types, GTypeOK
  <2>2. budget \in Nat /\ Share * (1 + failed[x]) = budget + Share /\ Share \in Nat
    BY <2>1, Multiples, ShareIsNat
  <2>3. pending \in Nat
    BY PendingCount
  <2>4. IF txStatus[x] = "success" THEN txCredits[x] + pending <= budget + Share
                                   ELSE txCredits[x] <= budget
    BY DEF GInv, Budget, Within
  <2> HIDE DEF budget, pending
  <2>5. txCredits[x] <= Share * (1 + failed[x])
    BY <2>1, <2>2, <2>3, <2>4
  <2> QED BY <2>5 DEF Share
<1>2. QED
  BY <1>1, GatewayInductive, PTL
=============================================================================
