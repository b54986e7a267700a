------------------------------ MODULE Tracking ------------------------------
(***************************************************************************)
(* Courier scans of one shipment, from the webhook to the database:        *)
(* webhook.controller receiveWebhook, the webhook-process queue and its    *)
(* worker (five jobs at a time, so in any order), and tracking.service     *)
(* ingestTrackingEvents, which stores the scan, moves the shipment's       *)
(* status, and only after its COMMIT enqueues the detection job that       *)
(* NdrRto models.  A job that throws or whose worker dies runs again.      *)
(***************************************************************************)
EXTENDS Integers, FiniteSets

CONSTANTS
  Events,       \* scans, as told apart by (shipment_id, raw_status, event_timestamp)
  StatusOf,     \* StatusOf[e]: the status the courier's raw status is mapped to
  Deliveries,   \* webhook calls
  Stories,      \* what they may carry: functions from calls to scans, not always
                \* one-to-one, since a courier may deliver a scan twice
  StartStatus,  \* the status the shipment's earlier scans left
  MaxAttempts,  \* runs of a queued job before BullMQ gives it up
  MaxFaults     \* bound: failures of workers, database and queue

ShipmentStatus ==
  {"created", "awb_generated", "pickup_scheduled", "picked_up", "in_transit",
   "out_for_delivery", "delivered", "cancelled", "failed"}

ASSUME TrackingAssumption ==
  /\ StatusOf \in [Events -> ShipmentStatus]
  /\ Stories \subseteq [Deliveries -> Events]
  /\ StartStatus \in ShipmentStatus
  /\ MaxAttempts \in Nat \ {0}
  /\ MaxFaults \in Nat

VARIABLES
  carries,      \* carries[d]: the scan that call d carries
  status,       \* shipments.status
  stored,       \* tracking_events rows
  hook,         \* hook[d]: where call d and its job are
  tries,        \* tries[d]: failed runs of the job of d while it is queued or running
  scan,         \* scan[d]: locals of the job's ingest, see NoScan
  lostBy,       \* history, lostBy[d]: how d came to lose its scan or the detection
                \* of it: "nothing", by an "error" that was swallowed, at the "enqueue"
  detect,       \* detect[e]: the detection job of scan e, "none" before there is one
  faults        \* failures so far

hookVars == <<carries, stored, hook, tries, scan, lostBy>>
trackVars == <<status, hookVars, detect, faults>>

(* shipmentStatus.service validTransitions. *)
NextStatuses(s) ==
  CASE s = "created"          -> {"awb_generated", "cancelled", "failed"}
    [] s = "awb_generated"    -> {"pickup_scheduled", "cancelled"}
    [] s = "pickup_scheduled" -> {"picked_up", "cancelled"}
    [] s = "picked_up"        -> {"in_transit"}
    [] s = "in_transit"       -> {"out_for_delivery"}
    [] s = "out_for_delivery" -> {"delivered", "failed"}
    [] OTHER                  -> {}

HookTo(d, stage) == hook' = [hook EXCEPT ![d] = stage]

(* saw: shipments.status as the transaction read it; inserted: its INSERT made a row. *)
NoScan == [saw |-> StartStatus, inserted |-> FALSE]

TInit ==
  /\ carries \in Stories
  /\ status = StartStatus
  /\ stored = {}
  /\ hook = [d \in Deliveries |-> "unsent"]
  /\ tries = [d \in Deliveries |-> 0]
  /\ scan = [d \in Deliveries |-> NoScan]
  /\ lostBy = [d \in Deliveries |-> "nothing"]
  /\ detect = [e \in Events |-> "none"]
  /\ faults = 0

Fault == faults < MaxFaults /\ faults' = faults + 1

(* Mutants: the detection job is forgotten; no transition check; the call is *)
(* closed, and its detection job enqueued, while the transaction is open.    *)
NotEnqueued(e) == detect
CommitAnyStatus(d) ==
  /\ hook[d] = "ingesting"
  /\ stored' = stored \cup {carries[d]}
  /\ status' = StatusOf[carries[d]]
  /\ HookTo(d, "committed")
  /\ UNCHANGED <<carries, tries, scan, lostBy, detect, faults>>
MarkBeforeCommit(d) ==
  /\ hook[d] = "ingesting"
  /\ detect' = [detect EXCEPT ![carries[d]] = "queued"]
  /\ HookTo(d, "processed")
  /\ UNCHANGED <<carries, status, stored, tries, scan, lostBy, faults>>

Enqueued(e) == [detect EXCEPT ![e] = "queued"]

(* receiveWebhook logs the call and enqueues its job.  It answers 200 even  *)
(* if that fails: the call then is as if it had never been made.           *)
ReceiveWebhook(d) ==
  /\ hook[d] = "unsent"
  /\ HookTo(d, "queued")
  /\ UNCHANGED <<carries, status, stored, tries, scan, lostBy, detect, faults>>

(* The INSERT of the same scan by another open transaction is waited for. *)
InsertWaits(d) ==
  \E o \in Deliveries \ {d} :
    hook[o] = "ingesting" /\ scan[o].inserted /\ carries[o] = carries[d]

(* The transaction inserts the scan, unless it is there, and reads the shipment. *)
StoreScan(d) ==
  /\ hook[d] = "queued"
  /\ ~ InsertWaits(d)
  /\ scan' = [scan EXCEPT ![d] = [saw |-> status, inserted |-> carries[d] \notin stored]]
  /\ HookTo(d, "ingesting")
  /\ UNCHANGED <<carries, status, stored, tries, lostBy, detect, faults>>

LastAttempt(d) == tries[d] + 1 = MaxAttempts

(* The job is run again, until its attempts are used up. *)
Retry(d) ==
  /\ tries' = [tries EXCEPT ![d] = IF LastAttempt(d) THEN 0 ELSE @ + 1]
  /\ HookTo(d, IF LastAttempt(d) THEN "failed" ELSE "queued")
  /\ scan' = [scan EXCEPT ![d] = NoScan]

(* An ignored duplicate returns no row, which Sequelize may report as an error. *)
RefuseDuplicate(d) ==
  /\ hook[d] = "queued"
  /\ carries[d] \in stored
  /\ Retry(d)
  /\ UNCHANGED <<carries, status, stored, lostBy, detect, faults>>

(* UPDATE shipments, if the status read allows the transition, and COMMIT:  *)
(* the new status is written over whatever the row holds by then.          *)
CommitScan(d) ==
  LET new == StatusOf[carries[d]] IN
  /\ hook[d] = "ingesting"
  /\ stored' = stored \cup {carries[d]}
  /\ status' = IF new \in NextStatuses(scan[d].saw) THEN new ELSE status
  /\ HookTo(d, "committed")
  /\ UNCHANGED <<carries, tries, scan, lostBy, detect, faults>>

(* An SQL error of the status update or of its history row, which the catch  *)
(* meant for refused transitions swallows: PostgreSQL ends the transaction   *)
(* by a ROLLBACK at COMMIT, and the job goes on as if it had committed.  The  *)
(* detection job it enqueues is for a row that is not there and ends at once. *)
SwallowError(d) ==
  /\ hook[d] = "ingesting"
  /\ StatusOf[carries[d]] \in NextStatuses(scan[d].saw)
  /\ Fault
  /\ HookTo(d, "committed")
  /\ scan' = [scan EXCEPT ![d].inserted = FALSE]
  /\ lostBy' = IF scan[d].inserted THEN [lostBy EXCEPT ![d] = "error"] ELSE lostBy
  /\ UNCHANGED <<carries, status, stored, tries, detect>>

LoseEnqueue(d) == lostBy' = IF scan[d].inserted THEN [lostBy EXCEPT ![d] = "enqueue"] ELSE lostBy

(* After COMMIT: the detection job of a new scan is enqueued, unless the     *)
(* queue fails, which is swallowed; then the log row is marked processed.   *)
MarkProcessed(d) ==
  /\ hook[d] = "committed"
  /\ \/ /\ detect' = IF scan[d].inserted THEN Enqueued(carries[d]) ELSE detect
        /\ UNCHANGED <<lostBy, faults>>
     \/ Fault /\ LoseEnqueue(d) /\ UNCHANGED detect
  /\ HookTo(d, "processed")
  /\ scan' = [scan EXCEPT ![d] = NoScan]
  /\ tries' = [tries EXCEPT ![d] = 0]
  /\ UNCHANGED <<carries, status, stored>>

(* The connection is lost, the INSERT or a read fails, or the worker dies: an *)
(* open transaction is gone and the job throws.                             *)
InterruptIngest(d) ==
  /\ hook[d] = "ingesting"
  /\ Fault
  /\ Retry(d)
  /\ UNCHANGED <<carries, status, stored, lostBy, detect>>

(* The same between COMMIT and the end of the job: the detection job may have *)
(* been enqueued or not; a scan that an error lost is ingested once more.    *)
InterruptCommitted(d) ==
  /\ hook[d] = "committed"
  /\ Fault
  /\ Retry(d)
  /\ \/ scan[d].inserted /\ detect' = Enqueued(carries[d]) /\ UNCHANGED lostBy
     \/ /\ IF lostBy[d] = "error" THEN lostBy' = [lostBy EXCEPT ![d] = "nothing"]
                                 ELSE LoseEnqueue(d)
        /\ UNCHANGED detect
  /\ UNCHANGED <<carries, status, stored>>

InterruptScan(d) == InterruptIngest(d) \/ InterruptCommitted(d)

ScanStep(d) ==
  \/ StoreScan(d)
  \/ RefuseDuplicate(d)
  \/ CommitScan(d)
  \/ MarkProcessed(d)

TNext == \E d \in Deliveries :
  \/ ReceiveWebhook(d) \/ ScanStep(d) \/ SwallowError(d) \/ InterruptScan(d)
=============================================================================
