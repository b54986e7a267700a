# Verification of the shipping platform's backend

TLA+ modules, TLC configurations and TLAPS proofs about the backend under
`src/backend` (Node.js, Express, Sequelize 6 on PostgreSQL, Redis and BullMQ).
Paths below are relative to `src/backend/src`; the one part outside it is the
browsers' token handling (`src/frontend/lib`).

The program is a multi-tenant shipping aggregator.  A tenant keeps a prepaid
wallet, recharges it through a payment gateway, books shipments with couriers
against it, gets refunds for cancellations, and receives tracking updates.
All of it runs in one Node process with several workers: nothing runs in
parallel inside a process, but every `await` is a point where another request
runs, and several processes may share the database.  The hard part is
therefore what happens *between* two awaits of a handler.

## 1. Inventory

`PROJECT.json` lists every component with its sources and status, and every
hazard at its line.  The components that decide about money and shipments:

| Component | State | Operations | Interacts with |
|---|---|---|---|
| Wallet (`services/wallet.service.js`) | `wallets.balance`, ledger `wallet_transactions` | `credit`, `debit`, `checkBalanceForShipment` | called by all below, in their transaction or its own |
| Recharge orders (`services/recharge.service.js`) | `recharge_orders.status`, `gateway_order_id` | initiate, verify, webhook | gateway, wallet |
| Gateway recharges (`controllers/tenantWalletRecharge`, `paymentWebhook`, `platformPaymentGateway`) | `wallet_recharge_transactions.status` | initiate, verify, webhook, reconcile | gateway; writes the wallet *without* the service |
| Booking (`services/shipment.service.js`) | `orders.status`, `shipments`, usage counter | create and cancel shipment | wallet, plan limit, courier, invoice |
| Order status (`services/order.service.js`) | `orders.status` | `changeStatus`, `cancelOrder` | races with booking |
| Tracking (`controllers/webhook`, `workers/webhookProcess`, `services/tracking.service.js`) | `shipments.status`, `tracking_events`, queue `webhook-process` | receive, ingest, enqueue | NDR queue after COMMIT; races with cancellation and returns |
| NDR and RTO (`workers/ndrDetection`, `services/ndrDetection`, `ndr`, `rto`) | `ndr_events` (cases, attempts), `rto_records`, queue `ndr-detection` | detect, act on a case, update a return | fed by tracking; writes `shipments.status` |
| Tokens (`services/token`, `auth`, `platformAuth`; `frontend/lib/apiClient.ts`, `authStore.tsx`) | `refresh_tokens`, `platform_refresh_tokens`, the browser's cookie | login, rotate, revoke family, logout, clean up | browsers that share a cookie among pages |
| Invoices and credit notes (`services/invoice`, `creditNote`, `invoiceNumbering`; `utils/sequentialNumber`) | counter rows, `invoices`, tickets | number, issue | inside the transactions of booking, cancellation and tickets |
| Plan renewal (`planRenewal`, `subscriptionPlan`) | subscription, period, grace | renew, upgrade, downgrade | wallet, usage counter |
| Circuit breaker (`providers/shared`) | breaker state in Redis and database | call, open, half-open | fed only by the administrators' health check |
| Payouts (`codRemittance`, `weightDispute`), poll worker, legacy recharge | | | not reachable, see section 6 |

What makes each correct:

- *Wallet*: the ledger explains the balance; no overdraft; a checked booking is
  covered; every transaction ends.
- *Recharges*: a payment is credited, and credited once; what is reported as
  success is in the ledger.
- *Booking*: one charge and one shipment per order; the plan limit holds;
  refunds only for what the courier gave up; no request hangs.
- *Tracking*: a call that is reported as processed is stored, and what is stored
  is examined although the job that examines it is enqueued only after COMMIT,
  with the exceptions that the code's error handling makes and no more;
  a shipment's status moves along `validTransitions`.
- *NDR, RTO*: attempts are counted for what happened and no parcel is sent back
  before the threshold; a resolved case stays resolved.
- *Tokens*: the owner is not taken for a thief; a refresh replaces a session
  and neither ends nor multiplies it.
- *Invoices*: numbers of a series are consecutive and unique; a shipment has one
  invoice and one credit note at most, also when it is cancelled twice at once or
  again after a late scan; no refund without its credit note.
- *Renewal*: one charge per period, and a charge always extends the period.

## 2. Plan

| Step | Module | Composes | Status |
|---|---|---|---|
| 1 | `WalletLedger` (abstract), `Wallet` | `Wallet` implements `WalletLedger` | modelled, checked, proved |
| 2 | `Recharge` | the credit is `Wallet`'s atomic posting | modelled, checked, proved |
| 3 | `GatewayRecharge` | EXTENDS `Wallet`, beside its sessions | modelled, checked, proved |
| 4 | `ShipmentAccounts` (abstract), `Booking` | wallet, limit, orders, shipments, courier, scans; `Booking` implements `ShipmentAccounts` | modelled, checked, proved |
| 5 | `Tracking`, `NdrRto` | `NdrRto` EXTENDS `Tracking`: two queues and two kinds of requests on one shipment | modelled, checked, proved |
| 6 | `RefreshTokens` | service and browsers | modelled, checked, proved |
| 7 | `DocumentNumbering` (abstract), `Billing` | `Billing` implements `DocumentNumbering` | modelled, checked, proved |

Two candidates were dropped after reading their callers.  *Payouts* cannot run
(section 6).  *Plan renewal*: `planRenewal.service.js:23` and
`subscriptionPlan.service.js:76` lock a subscription together with the plan rows
they outer-join, which PostgreSQL refuses, and the sources alone do not settle
whether these operations ever get further.

The abstract specifications are `WalletLedger`, `ShipmentAccounts` and
`DocumentNumbering`.  That the detailed modules implement them is checked by TLC
and proved.

## 3. Modules and code

A definition names the code it stands for in the `map` of `PROJECT.json`.

**How code becomes actions.**  A handler is cut where another handler can
observe or change what it relies on: at an unlocked read whose value is used
later, at a row lock, at a call to the outside, at COMMIT.  Statements of one
transaction between two such points are one action, because PostgreSQL shows
none of them to anybody before COMMIT (READ COMMITTED, the default the code
does not change).  `SELECT ... FOR UPDATE` is an action that is enabled when
the row is free.  An `UPDATE` waits for the row and overwrites its columns.
`instance.update` of Sequelize writes a column only if the value differs from
the one this instance read; where that matters the value read is kept in a
variable (`saw`, `read`, `kept`).

**`WalletLedger`**: what callers are promised.  `Post` appends a row and sets
the balance in one step.

**`Wallet`**: sessions are open transactions.  `Start`, `CheckBalance`,
`LockWallet`, `Refuse`, `InsertEntry`, `Commit`, and `Rollback` at any await
(own failure, failure of the caller whose transaction it is, lost connection or
process).  `op = "book"` is the check of `checkBalanceForShipment`, a gap in
which the courier is called, and then `debit`, all in one transaction.
Decimals are integers; the column's limit is `MaxBalance`.  The wallet row's
existence is a constant (`WalletRows`).

**`Recharge`**: one action per await of `recharge.service.js`.  `status =
"created"` holds the placeholder `pending_initiation` of the UNIQUE
`gateway_order_id`.  `Verify` carries the outcome of the signature check
(`valid`), which only a paid order can pass.  `Webhook` stands for
`payment.captured` and `order.paid`, delivered any number of times.  `Confirm`
is the credit, the status and COMMIT.  `Fail` is any fault; `stranded`, a ghost,
keeps the orders whose own initiation was lost while it held the placeholder.

**`GatewayRecharge`**: the browser's `verifyPayment`, the webhook and the
administrator's `reconcileTransaction` run the same statements on the same
rows, so one set of actions models the three; `RejectPayment` exists in
`verifyPayment` only and the module lets any confirmer take it.  They share
`balance`, `ledger` and `rowLock` with the sessions of `Wallet`.

**`Booking`**: one tenant.  `createShipment` is `Book`, `ReserveFunds` (the
wallet row is locked from here to COMMIT), `CheckLimit` (on another
connection), `BookCourier`, and `CommitBooking` or `RefuseDuplicate` by the
unique index on `order_id`.  `cancelShipment` is `CancelShipment`,
`CancelAtCourier`, `MarkCancelled` (locks the shipments row), `CommitCancel`
(waits for the wallet).  `ChangeStatus`/`WriteStatus` and `Scan`/`WriteScan`
are the writers that validate a transition on an earlier read.  `CourierDrops`
is a courier that cancels on its own account.  `orphans` counts courier
bookings whose transaction was rolled back, `revived` scans written over
`cancelled`; both are ghost counters.

**`ShipmentAccounts`**: what booking promises the tenant.  `Book` charges, counts
and books in one step, if funds, plan and order allow; `Drop` is a courier that
gives a booking up, asked or not; `Refund` is only for a paid booking given up.
In `Booking` the three checks of a `Book` are three steps, one of them on another
connection.

**`Tracking`**: the path of a courier's scan for one shipment.
`ReceiveWebhook` logs the call and enqueues a job; up to five jobs run at a time,
so in any order.  The ingest is one transaction, `StoreScan` (INSERT with
`ignoreDuplicates`, then the read of the shipment) to `CommitScan` (the status,
validated on that read, written over whatever is there).  `InsertWaits` is
PostgreSQL's wait on the unique index of `tracking_events` for another open
transaction with the same scan.  `RefuseDuplicate` is the other outcome an
ignored INSERT may have in Sequelize, which reads back a row that was not
returned: the job throws and runs again.  `MarkProcessed` enqueues the detection
job, after COMMIT and only for a row that is new, and closes the log row; the
failure of the queue is swallowed there.  `SwallowError` is the other swallowed
error: the catch at `tracking.service.js:98`, meant for refused transitions, also
takes SQL errors of the status update and of its history row.  Only COMMIT
follows, which PostgreSQL turns into a ROLLBACK without an error, so the job goes
on to enqueue detection and to mark the call processed although nothing is
stored; the detection job finds no row and ends.  `InterruptScan` is the death of
a worker, before COMMIT (`InterruptIngest`, also any SQL error that is not
swallowed) or after it (`InterruptCommitted`); a job runs `MaxAttempts` times.
`lostBy`, a ghost, says of a call that this job inserted the scan and lost it to
the swallowed error, or lost the detection job of a scan it stored.  `carries` is chosen at the start from
`Stories`: which call carries which scan, two calls possibly the same one.

**`NdrRto`** EXTENDS `Tracking` by what follows.  A detection job is `ReadEvent`
(before its transaction), `LookUp` (the open case and the return record, without
a lock) and one COMMIT by what the scan's text says (`KindOf`): `OpenCase`,
`NextAttempt`, `AutoReturn`, `CourierReturn`, `ResolveDelivered`, or
`RefuseReturn` when the unique `shipment_id` of `rto_records` is met.  `RetryJob`
and `InterruptJob` are its retries, also after its COMMIT.  Sellers' requests are
`BeginAction` to `TakeAction` or `MarkRto`, and `BeginRtoUpdate` to `UpdateRto`;
the courier's answer to a reattempt is part of `AbandonRequest`.
`counted` and `overlaps` are ghosts: COMMITs of jobs that recorded an attempt, and
attempts committed by others between such a job's read and its COMMIT.

**`RefreshTokens`**: one account, a tenant's user or an administrator
(`platform`), its browsers and the requests under way (`Callers`).  A refresh is
`SendRefresh`, `ReadToken`, then `RevokeToken`, `CreateToken`, `CheckAccount`,
`Answer`, each an autocommitted statement; or `RevokeFamily` for a token that was
revoked already; or, for an administrator in the 15 seconds after the
revocation, `FindReplacement`.  A login ends in `CreateToken` and `Answer`,
a logout in `LogOut` and `Answer`; an administrator's logout only clears the
cookie, as in the code.  A browser's pages share its cookie, and a request carries
the cookie as it was when it left.  `Lose` is a handler that dies or an answer
that does not arrive.  `Expire`, `GraceEnds` and `DeleteExpired` are time and the
clean-up job.  `raced`, `dropped`, `alarmed`, `logins`, `shared` and the field
`company` are ghosts that the properties speak of.

**`DocumentNumbering`**: what accounting is promised.  `Issue` gives a document
the next number of its series and creates it, in one step.

**`Billing`**: transactions that number a document: a booking with its invoice,
a cancellation with its credit note, a support ticket.  `LockSequence` is the
`FOR UPDATE` of the counter row; without a committed row, `MissSequence` and
`CreateSequence`, which waits on the unique index for another transaction that
inserted the same key, or `LoseRace` when it committed.  The code catches the
error of an invoice or credit note and means to go on, but PostgreSQL refuses
every later statement of a transaction in which one failed, so `LoseRace` ends
the whole booking or cancellation: an UPDATE always follows, of the order or of
the usage counter, and fails, and the managed transaction rolls back with an
error.  (In `Tracking` nothing follows but COMMIT, hence the silent loss there.)  Only what fails on another connection
(`SkipInvoice`) leaves a booking without an invoice.  `MarkCancelled` holds the
shipment's row to the end, and `Settle` is what a COMMIT makes of the status and
of the money (`refunded`).  The other writers of the status are there without
what they do besides (`Tracking` and `NdrRto` have that): a scan reads the status
(`ReadScan`) and later writes over whatever the row holds, `cancelled` or a status
that revives the shipment (`WriteScan`); a return to origin cancels it
(`ReturnShipment`).  Neither makes a document.  `YearEnds` starts new series.

`MCWallet`, `MCRecharge`, `MCGatewayRecharge`, `MCBooking`, `MCNdrRto`,
`MCRefreshTokens` and `MCBilling` give the constants their values.  The theorems
are in the module of the same name that ends in `Proofs`.

## 4. Runs

All runs say `CHECK_DEADLOCK FALSE`: no request has to arrive, and the bounds
on postings, faults, tokens and orphans close the last ones.  That no *started* request
hangs is checked as liveness instead.

| Run | Shows | Bounds |
|---|---|---|
| `MCWallet.cfg` | `LedgerExplainsBalance`, `CheckedBookingIsCovered`, `ImplementsLedger`, `SessionsEnd` | 2 sessions, 2 tenants of which one has no wallet, amounts 0..2, column limit 3, no posting starts on a ledger of 3 rows |
| `MCRecharge.cfg` | `CreditsBoundedByRejections`, `SuccessIsCredited`, `PaidIsCredited`, `PlaceholderReleased` | 2 orders, 2 handlers, 1 rejected verify call per order, 1 fault |
| `MCRechargeTwice.cfg` | violation of `CreditedAtMostOnce` | the same |
| `MCGatewayRecharge.cfg` | `CreditsBoundedByOverlap` and the range of the wallet | 1 recharge, 2 confirmers, 1 wallet session |
| `MCGatewayTwice.cfg` | violation of `RechargeCreditedOnce` | the same |
| `MCGatewayLost.cfg` | violation of `LockPreventsConcurrentUpdates` | the same |
| `MCBooking.cfg` | `UsageWithinLimit`, `ImplementsAccounts` and the range of the wallet, across orders | 2 orders at rates 1 and 2, funds 2, limit 1, 2 requests (symmetric), 1 orphan per order |
| `MCBookingOrder.cfg` | `ChargedOncePerShipment`, `RefundsBoundedByOverlap`, `RefundedIsCancelledAtCourier`, `WaitsEndOrAreBroken`, `RequestsEnd` | 1 order, funds and limit for 2 bookings, 2 requests, 2 orphans |
| `MCBookingReship.cfg` | violation of `CancelledIsReshippable` | 1 order, 2 requests |
| `MCNdrRto.cfg` | `ProcessedIsStored`, `AttemptsLostOnlyToOverlap`, `AutoReturnIsEarned`, `ResolvedStaysResolved`, `StatusChangesExplained`, `AcceptedScanIsExamined` | 2 calls that carry a failed attempt twice, or one and a second attempt, a delivery or a completed return; threshold 2, 2 runs per job, 1 failure, 1 seller's request at a time |
| `MCRefreshTokens.cfg` | `RevocationHasCause`, `SessionSurvives`, `LiveSessionsBounded`, for both kinds of account | 2 browsers and 2 requests (symmetric), 3 tokens, 1 failure |
| `MCBilling.cfg` | `NumbersUnbroken`, `ImplementsNumbering`, `DocumentsMatchShipments`, `RefundedIsCredited`, `LostOnlyToFirstNumber`, `WaitsAreShort`, `TransactionsEnd` | 2 transactions, 2 shipments of which 1 is scanned and returned, 1 ticket, 1 invoice numbered before, 2 financial years, 1 failure |

Why the bounds are enough.  Every hazard listed is a race of two requests on
one row, so two actors and one contended row show it; the second order, tenant
or row is there so that a request can contend for the shared thing (wallet,
placeholder, limit) without contending for the row.  The column limit is
smaller than what the amounts add up to, so a credit overflows; in
`MCBooking.cfg` the funds cover either order but not both, so bookings are
refused on funds and on the limit, and in `MCBookingOrder.cfg` funds and limit
leave room for a second booking, so it reaches the unique index and can deadlock
with a cancellation.  One fault is enough to separate "before"
from "after" any write of a handler; rejected calls are bounded because the
properties count them.

In `MCNdrRto.cfg` one scan delivered twice and two different ones are the two ways
in which calls can interfere; a job that is run again after its COMMIT counts its
attempt again, so threshold 2 is passed, by honest attempts and by repeated
ones, and there are enough of them for an automatic return to meet a case that a
seller acted on, a delivery or a return on record.  In `MCRefreshTokens.cfg` three
tokens let a token be issued, exchanged and presented again while another session
exists; two requests are enough to meet in one browser, and more are only more of
the same since each reads and writes one row at a time.  In `MCBilling.cfg` the
series of invoices exists in the first year and not in the second, and the series of
credit notes and tickets do not exist at all, so numbers are taken from a row
that is there, from one that is created, and from one that two create; with a failure
either of the two transactions is rolled back in any place, with two shipments one
is cancelled while the other is booked, and a scan of one of them is enough to
revive it between two cancellations.  Two transactions or requests can only show that
no two of them wait for each other; `WaitsAreShort` and `WaitsEndOrAreBroken` speak
of circles of any length, which is what their theorems are for.  The theorems remove the bounds for the safety
properties they cover.

### What the violations show

1. **A rejected verify call reopens a credited recharge** (`CreditedAtMostOnce`).
   `verifyRechargePayment` reads the order without a lock, although its comment
   says "Lock the recharge order record", and writes `failed` on that instance.
   If a webhook credited the order in between, `success` is overwritten and the
   next confirmation credits again.  What does hold is
   `CreditsBoundedByRejections`: one extra credit per rejected call at most.
2. **The "idempotent" helper is not** (`RechargeCreditedOnce`).  Two
   confirmations that overlap both pass the unlocked status check.
3. **The wallet's lock is bypassed** (`LockPreventsConcurrentUpdates`).  The
   three gateway confirmations read the balance without a lock, so they undo a
   debit or credit that commits in between.
4. **A cancelled order cannot be shipped again** (`CancelledIsReshippable`).
   The order goes back to `ready_to_ship` "so it can be re-shipped", but the old
   row keeps its unique `order_id`; each new attempt books a parcel at the
   courier and then fails.

Two more disagreements have no run of their own, because the properties that hold
say where they end:

5. **Returned shipments get no credit note.**  `creditNote.service.js:12` announces
   one "when a shipment is cancelled or returned to origin (RTO)", but
   `createCancellationCreditNote` is called by `cancelShipment` only: a courier's
   scan (`tracking.service.js:78`) and a return (`ndrDetection.service.js:124`)
   cancel an invoiced shipment without one, as `Billing` lets them, and a credited
   shipment can be revived by a late scan.  So no property ties documents to the
   status.  What holds is `RefundedIsCredited`: money paid back and credit note go
   together.
6. **A processed call whose scan is gone.**  The comment at `tracking.service.js:99`
   says "Invalid transition (e.g. out-of-order event from courier) — log and skip
   status update", but the catch takes every error (`SwallowError`).
   `ProcessedIsStored` names that error as the only way in which a processed
   call is not stored.

### What the properties excuse

A property that holds up to a failure names that failure, never failures as such.
`PlaceholderReleased` excuses only the loss of the handler that took the
placeholder (`stranded`): a UNIQUE value it leaves is taken for ever, in the code
too.  `ProcessedIsStored` excuses the swallowed error of the very job that inserted
the scan (`lostBy[d] = "error"`).  `AcceptedScanIsExamined` excuses a call whose own
scan went that way, a scan whose detection was lost by the very job that inserted
it, to a failing queue or a death after COMMIT (`lostBy[o] = "enqueue"`), and a
detection job that failed because each of its runs met the return of another one.  It supposes fewer failures than a job has
runs, since a job that fails in each of them is given up, by design.

### Fairness

*Wallet, Booking, Billing*: strong fairness of a started request's own steps.  The code
has no waits of its own; a step is an SQL statement, which returns, or a call to
a courier with a timeout.  Strong, not weak, because a step that waits for a row
is disabled whenever another transaction holds it, and PostgreSQL grants row
locks from a queue.  Deadlocks are broken by PostgreSQL's detector
(`BreakDeadlock`), not by assumption that they do not happen.  Failures are never
assumed to occur, except the SQL error that a full column forces
(`ColumnOverflow`).  *NdrRto*: weak fairness of each job's own steps, because
BullMQ hands every queued job to a worker and a worker that runs goes on.  Weak
is enough although an INSERT may wait for another one: each job runs a bounded
number of times, so the others finish.  No call, no seller's request and no
failure has to happen.  `RefreshTokens` states no fairness: its properties are
all about safety, since browsers may stop at any time.  *Recharge* adds that the gateway redelivers the webhook of a
paid order until it is acknowledged, as payment gateways document.
Nobody is assumed to start, pay for or verify anything.  `GatewayRecharge` has no
liveness properties: its webhook acknowledges even what it lost, so nothing
guarantees progress.

## 5. Proofs

TLAPS checks these for every set of sessions, handlers, requests, tenants and
orders and every value of the numeric constants, from the named assumptions
`WalletAssumption`, `RechargeAssumption`, `GatewayAssumption`,
`BookingAssumption`, `TrackingAssumption`, `NdrAssumption`, `TokensAssumption` and
`BillingAssumption` only.

- `WalletProofs`.  The invariant that TLC checks is not inductive: it says
  nothing of a session between its read and its COMMIT.  `IInv` adds that a
  session past `LockWallet` holds the row, that `seen` is then still the balance,
  that what it staged is the one row it is about to commit, and that a checked
  booking's funds are still there.  From it: `WalletTypeCorrect`,
  `WalletLedgerAgrees`, `WalletBookingCovered`; and, since a COMMIT under that
  invariant is exactly one `Post` and every other step leaves balance and ledger
  alone, `WalletImplementsLedger`.
- `RechargeProofs`.  `CreditBudget` is the argument: an order that is not
  `success` has at most as many credits as rejected calls, one that is has at
  most one more; `CreditorHoldsRow` makes the handler that credits the only one
  and `status # "success"` under it stable.  `OneInitiator` keeps the update of
  `initiateRecharge` from overwriting a later status.
- `GatewayRechargeProofs`.  `Wallet`'s invariant does not survive the unlocked
  writers, but `Posts`, the part about sessions, does: a confirmation that has
  written the balance holds the row until it ends, so a session that read the
  balance under the lock still posts on what is there, and no balance leaves its
  column (`GatewayTypeCorrect`).  `Budget` is the argument for the credits: a
  recharge that is not `success` has at most as many credits as its rejections
  times the confirmers; one that is has at most one such share more, of which the
  confirmations still under way are to be paid.  With a finite set of
  confirmers it gives `GatewayCreditsBounded`.
- `BookingProofs`.  `BookingHoldsWallet`: from `checkBalanceForShipment` to
  COMMIT a booking holds the wallet row, so no other booking or refund of the
  tenant commits and what it read of the balance stays true.
  `BookingWithinLimit`: the same for the usage counter, which is read outside the
  transaction and is safe only for that reason.  `RowOfRequest` and `AwbOfRow`
  tie a cancellation to a shipment that exists and that the courier gave up.
  `RefundBudget`, for `BookingRefundsBounded`, is the argument of the gateway
  recharges again: a shipment that is not `cancelled` has had at most one share of
  refunds (one per request) for each scan that revived it; one that is has at most
  one share more, of which the cancellations still under way are to be paid.
  `BookingImplementsAccounts` is what the checks amount to: by
  `BookingHoldsWallet` and `BookingWithinLimit` funds and plan still allow a booking
  at its COMMIT, by the unique index the order does too, and by `RowOfRequest` a
  cancellation that commits has been accepted by the courier; no other step
  touches the accounts.  `BookingWaitsEnd` rests on who can hold a row (`LocksHeld`):
  the wallet's holder is a booking past its balance check, a shipment's holder a
  cancellation that needs the wallet next; so every chain of waits reaches the
  wallet's holder after two, which waits for nothing or for a cancellation that
  waits for it.
- `NdrRtoProofs`.  Its `IInv` adds to the types: what is past COMMIT or has a
  detection job is stored, unless its own job lost it to the swallowed error
  (`StoredFirst`); no case, and no job that read one, has
  more attempts than were `counted` (`AttemptsCounted`), so that a job which commits
  one more than it read is itself counted; and a seller's action is on a case
  (`ActionHasCase`).  From it `TypeCorrect`, `ProcessedScansAreStored` and
  `AutoReturnsAreEarned`, for any threshold and any number of scans and runs; and
  the two action properties `ResolvedCasesStay` and `StatusChanges`, by cases on
  who writes.  `AttemptsLost`, for `AttemptsLostOnlyToOverlap`, needs more: a job
  writes the number it read plus one, so a COMMIT may set a case back and a later one
  raise it again by more than one, and the sum on record follows no simple rule.
  `Bracketed` says that each case has a number from below (`Low`) that neither its
  row, nor what a job has read plus the COMMITs since (`behind`), goes under, and one from
  above (`High`) that neither goes over; that the first add up to `counted - overlaps`
  at least and the second to `counted` at most.  The sums are cardinalities of
  sets of pairs (`Pairs`), as in `AttemptsOnRecord`, and the lemmas `PairsGrow`,
  `PairsLowered`, `PairsAppend` and `PairsMonotone` say what one step does to them.
- `RefreshTokensProofs`.  `RevocationHasCause` alone is not inductive: it says
  nothing of the tokens under way.  `QuietUntilMet` holds until two requests of
  a browser met or an answer was lost: a browser has one request at most (`Apart`),
  which carries what is still its cookie (`Carried`); a token is in one cookie or in
  one answer under way (`OnePlace`); and a cookie is not revoked until the
  request that replaces it has got that far (`Fresh`).  So no request ever finds
  its token revoked, and `RevocationsAreCaused`, for any number of browsers, requests and
  tokens, on both kinds of account.  The two other results hold when requests do meet.
  `Ownership`: only requests of one browser carry a token or the answer with its
  successor, and two of them that carry the same token are counted as company.
  `SessionsSurvive`: until a family is revoked or an answer dropped, every cookie is
  good or spent by a request of the same browser that has its successor to come
  (`CookieIsGood`), so a browser that waits for nothing has a good one.
  `SessionsAreBounded`: a refresh without company is the only one to revoke its token,
  and that token counts until the successor is there (`PaidFor`), so no more tokens
  are live or on their way than logins and refreshes in company have paid for.
- `BillingProofs`.  Whoever holds a counter row read what is committed there
  (`RowsHeld`), so what it staged is the next number (`Numbered`); and whoever has
  marked the shipment's row, or is the only one to work on a new shipment,
  decided about its documents on what still holds (`Documented`): scans and returns
  move a shipment between `booked` and `cancelled`, but never one that is not booked
  yet (`AfterBooking`), and no transaction relies on more.  From it `TypeCorrect`,
  `NumbersAreUnbroken`, `DocumentsMatch`, `RefundsAreCredited`, and
  `NumberingImplemented`: a COMMIT with a staged
  document is one `Issue`, every other step a stutter.  `Latecomers`, for
  `LostToFirstNumber`: once the row of a series is committed nobody misses it any
  more, so those that lost the race and those that still may are others than the
  one that wrote it.  `WaitsShort`: who holds a counter row has nothing left to wait for,
  and who holds a shipment's row waits at most for a counter (`HoldersGoOn`), so no
  number of transactions can deadlock over these rows.

Every invariant, action property and refinement that a passing run checks is
stated by a theorem.  Only model-checked are the liveness
properties `SessionsEnd`, `PaidIsCredited`, `PlaceholderReleased`, `RequestsEnd`,
`AcceptedScanIsExamined` and `TransactionsEnd`, which need fairness and `ENABLED` and
are out of the prover's reach.  Of the two about deadlock the theorems
`BookingWaitsEnd` and `WaitsShort` prove the safety half for any number of requests:
which circles of waits can form.

## 6. Simplifications and what is not modelled

- `GatewayRecharge` assumes the tenant's wallet row exists; the race of two
  confirmations that both create it is left out.
- `Booking` has one tenant.  Tenants share only the invoice number sequence,
  which `Billing` models.  The quote, label copy, invoice, credit note, histories
  and audit rows are left out; an error in any of them is `Fail`.
- `picked_up` stands for every later shipment status.
- Connections are always granted; waiting for the pool (`config/env.js`) is a
  listed hazard without a property.
- Period changes of a plan are left out: `usage` is the counter of one period.
- Money is counted in whole units; rounding of decimals and the conversions
  through `parseFloat` are not modelled.
- `Tracking` has one shipment; a webhook carries one scan, the courier's raw
  status is mapped by a constant, and calls whose signature is refused are left out.
- `NdrRto`: what a scan's text says is a constant (`KindOf`); notifications and
  audit rows are left out.
- `RefreshTokens`: all tokens live equally long and the clock is a counter of
  expired ones; passwords, TOTP and access tokens are not modelled.
- `Billing` has one shipment per tenant, because shipments of one tenant wait for
  its wallet in `Booking`; taxes and the PDF are data.  Its scans and returns are
  freer than the code's: they need no valid transition.

Not modelled because the code cannot reach it:

- *COD remittance* and the administrator's wallet adjustment: the controllers
  (`codRemittance.controller.js:56`, `wallet.controller.js:94`) read
  `req.user.id`, and their platform routes set only `req.platformAdmin`.
- *Weight disputes*: `weightDispute.service.js` creates a dispute with a status
  that the ENUM of `models/weightDiscrepancyDispute.model.js:45` does not have.
- *Polling of couriers*: `workers/trackingPoll.worker.js:58` tests `result.ok`,
  which the adapters' answers do not have, so nothing polled is ingested and
  webhooks are the only source of scans.
- *Legacy wallet recharge*: it uses a model that `models/index` does not export.
- The *circuit breaker* is reached, but only by the administrators' health
  check, so no booking depends on it.

Not modelled for what it is: the other components with status `not_modelled` in
`PROJECT.json` are lookups, CRUD, file generation or output, whose failures
change no state that others decide on; most of the repository is of this kind,
and its two frontends are user interface.
