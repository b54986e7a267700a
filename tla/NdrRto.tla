------------------------------- MODULE NdrRto -------------------------------
(***************************************************************************)
(* What follows a stored scan: the ndr-detection queue and worker (five    *)
(* jobs at a time) with ndrDetection.service, the seller's actions on a    *)
(* non-delivery case (ndr.service takeNdrAction) and the status updates of *)
(* a return to origin (rto.service updateRtoStatus).  All of them look up  *)
(* a case, the return record or the shipment without a lock, and write on  *)
(* what they read; they share shipments.status with Tracking.              *)
(***************************************************************************)
EXTENDS Tracking, Sequences

CONSTANTS
  KindOf,      \* KindOf[e]: what the text of scan e says, see Kinds
  Threshold,   \* setting ndr_auto_rto_threshold
  Updates,     \* statuses of a return that sellers set
  Users        \* sellers' requests that can be in progress at the same time

RtoStatus == {"rto_initiated", "rto_in_transit", "rto_delivered", "rto_lost"}

(* detectRtoStatus and detectNdrReason: what the text of a scan says. *)
Kinds == {"plain", "ndr", "delivered"} \cup RtoStatus

ASSUME NdrAssumption ==
  /\ KindOf \in [Events -> Kinds]
  /\ Threshold \in Nat \ {0}
  /\ Updates \subseteq RtoStatus

VARIABLES
  cases,       \* ndr_events rows of the shipment, oldest first
  rto,         \* status of its rto_records row, "none" before it exists
  rtoBy,       \* rto_records.initiated_by
  jobTries,    \* jobTries[e]: runs of the detection job of e that failed
  job,         \* job[e]: locals of that job, see NoJob
  user,        \* user[u]: what request u is about to commit, and on which reads
  counted,     \* COMMITs of detection jobs that recorded a failed attempt
  overlaps     \* attempts that others committed between the read and the
               \* COMMIT of these jobs

caseVars == <<cases, rto, rtoBy>>
countVars == <<counted, overlaps>>
vars == <<trackVars, caseVars, jobTries, job, user, countVars>>

Resolved == {"resolved_delivered", "resolved_rto"}
OpenCases == {i \in DOMAIN cases : cases[i].status = "open"}

(* saw: shipments.status; case, attempt: the open case found and its attempt_number, *)
(* 0 for none; rto: a return record was found; behind: attempts committed since.     *)
NoJob == [saw |-> StartStatus, case |-> 0, attempt |-> 0, rto |-> FALSE, behind |-> 0]

(* does: the action; case, seen: the case and the status read; saw: shipments.status. *)
NoRequest == [does |-> "nothing", case |-> 0, seen |-> "open", saw |-> StartStatus]

Init ==
  /\ TInit
  /\ cases = << >> /\ rto = "none" /\ rtoBy = "none"
  /\ jobTries = [e \in Events |-> 0]
  /\ job = [e \in Events |-> NoJob]
  /\ user = [u \in Users |-> NoRequest]
  /\ counted = 0 /\ overlaps = 0

JobTo(e, stage) == detect' = [detect EXCEPT ![e] = stage]
SetCase(i, st) == [cases EXCEPT ![i].status = st]

(* shipment.update({status: 'cancelled'}), skipped if that is what was read. *)
CancelShipment(seen) == status' = IF seen = "cancelled" THEN status ELSE "cancelled"

Looking == {e \in Events : detect[e] = "found" /\ KindOf[e] = "ndr"}

(* COMMIT of a job; of one that counted an attempt, others that looked up are behind. *)
CommitJob(e) ==
  /\ JobTo(e, "done")
  /\ job' = [o \in Events |->
       IF o = e THEN NoJob
       ELSE IF e \in Looking /\ o \in Looking THEN [job[o] EXCEPT !.behind = @ + 1] ELSE job[o]]
  /\ IF e \in Looking THEN counted' = counted + 1 /\ overlaps' = overlaps + job[e].behind
                       ELSE UNCHANGED countVars
  /\ UNCHANGED <<hookVars, faults, jobTries, user>>

-----------------------------------------------------------------------------
(* detectAndProcessNdrOrRto reads the scan with its shipment, before the transaction. *)
ReadEvent(e) ==
  /\ detect[e] = "queued"
  /\ job' = [job EXCEPT ![e].saw = status]
  /\ JobTo(e, "read")
  /\ UNCHANGED <<status, hookVars, faults, caseVars, jobTries, user, countVars>>

(* NdrEvent.findOne and RtoRecord.findOne; of several open cases, either is returned. *)
LookUp(e) ==
  /\ detect[e] = "read"
  /\ \E i \in (IF OpenCases = {} THEN {0} ELSE OpenCases) :
       job' = [job EXCEPT ![e].case = i,
                          ![e].attempt = IF i = 0 THEN 0 ELSE cases[i].attempt,
                          ![e].rto = rto # "none"]
  /\ JobTo(e, "found")
  /\ UNCHANGED <<status, hookVars, faults, caseVars, jobTries, user, countVars>>

(* Mutants: counting from zero; one attempt too early; the whole row saved. *)
OpenCaseUncounted(e) ==
  /\ e \in Looking /\ job[e].case = 0
  /\ cases' = Append(cases, [attempt |-> 0, status |-> "open"])
  /\ CommitJob(e)
  /\ UNCHANGED <<status, rto, rtoBy>>
AtThreshold(e) == job[e].case # 0 /\ job[e].attempt + 1 >= Threshold
NextAttemptWholeRow(e) ==
  /\ e \in Looking /\ job[e].case # 0 /\ job[e].attempt + 1 <= Threshold
  /\ cases' = [cases EXCEPT ![job[e].case] = [attempt |-> job[e].attempt + 1, status |-> "open"]]
  /\ CommitJob(e)
  /\ UNCHANGED <<status, rto, rtoBy>>

(* handleNdrEvent without an open case: a new one, at its first attempt. *)
OpenCase(e) ==
  /\ e \in Looking /\ job[e].case = 0
  /\ cases' = Append(cases, [attempt |-> 1, status |-> "open"])
  /\ CommitJob(e)
  /\ UNCHANGED <<status, rto, rtoBy>>

PastThreshold(e) == job[e].case # 0 /\ job[e].attempt + 1 > Threshold

(* One more attempt on the case found, written as the number read plus one. *)
NextAttempt(e) ==
  /\ e \in Looking /\ job[e].case # 0 /\ ~ PastThreshold(e)
  /\ cases' = [cases EXCEPT ![job[e].case].attempt = job[e].attempt + 1]
  /\ CommitJob(e)
  /\ UNCHANGED <<status, rto, rtoBy>>

(* Beyond the threshold: the case is resolved, the return recorded, the shipment cancelled. *)
AutoReturn(e) ==
  /\ e \in Looking /\ PastThreshold(e)
  /\ rto = "none"
  /\ cases' = [cases EXCEPT ![job[e].case] =
                 [attempt |-> job[e].attempt + 1, status |-> "resolved_rto"]]
  /\ rto' = "rto_initiated" /\ rtoBy' = "auto_ndr_threshold"
  /\ CancelShipment(job[e].saw)
  /\ CommitJob(e)

(* handleRtoEvent: the record found is updated, or one is created; a return  *)
(* that is complete resolves the open case and cancels the shipment.        *)
CourierReturn(e) ==
  /\ detect[e] = "found" /\ KindOf[e] \in RtoStatus
  /\ job[e].rto \/ rto = "none"
  /\ rto' = KindOf[e]
  /\ rtoBy' = IF job[e].rto THEN rtoBy ELSE "courier_initiated"
  /\ IF KindOf[e] = "rto_delivered"
     THEN /\ cases' = IF job[e].case = 0 THEN cases ELSE SetCase(job[e].case, "resolved_rto")
          /\ CancelShipment(job[e].saw)
     ELSE UNCHANGED <<cases, status>>
  /\ CommitJob(e)

(* A delivered scan resolves the open case; any other text changes nothing. *)
ResolveDelivered(e) ==
  /\ detect[e] = "found" /\ KindOf[e] \in {"delivered", "plain"}
  /\ cases' = IF KindOf[e] = "delivered" /\ job[e].case # 0
              THEN SetCase(job[e].case, "resolved_delivered") ELSE cases
  /\ CommitJob(e)
  /\ UNCHANGED <<status, rto, rtoBy>>

LastRun(e) == jobTries[e] + 1 = MaxAttempts

RetryJob(e) ==
  /\ jobTries' = [jobTries EXCEPT ![e] = IF LastRun(e) THEN 0 ELSE @ + 1]
  /\ JobTo(e, IF LastRun(e) THEN "failed" ELSE "queued")
  /\ job' = [job EXCEPT ![e] = NoJob]
  /\ UNCHANGED <<status, hookVars, caseVars, user, countVars>>

(* rto_records.shipment_id is UNIQUE: the INSERT fails and everything is rolled back. *)
RefuseReturn(e) ==
  /\ detect[e] = "found"
  /\ rto # "none"
  /\ \/ e \in Looking /\ PastThreshold(e)
     \/ KindOf[e] \in RtoStatus /\ ~ job[e].rto
  /\ RetryJob(e)
  /\ UNCHANGED faults

(* An SQL error, or the worker dies: before COMMIT, or between COMMIT and the acknowledgement. *)
InterruptJob(e) ==
  /\ detect[e] \in {"read", "found", "done"}
  /\ Fault
  /\ RetryJob(e)

JobStep(e) ==
  \/ ReadEvent(e)
  \/ LookUp(e)
  \/ OpenCase(e)
  \/ NextAttempt(e)
  \/ AutoReturn(e)
  \/ CourierReturn(e)
  \/ ResolveDelivered(e)
  \/ RefuseReturn(e)

-----------------------------------------------------------------------------
Idle(u) == user[u].does = "nothing"
EndRequest(u) == user' = [user EXCEPT ![u] = NoRequest]

(* Mutant: an action on a resolved case is not refused. *)
BeginActionOnAny(u, i, action) ==
  /\ Idle(u)
  /\ user' = [user EXCEPT ![u] =
       [does |-> action, case |-> i, seen |-> cases[i].status, saw |-> status]]
  /\ UNCHANGED <<trackVars, caseVars, jobTries, job, countVars>>

(* takeNdrAction: refused for a resolved case, on an unlocked read; the     *)
(* courier is asked for a new attempt in between.                          *)
BeginAction(u, i, action) ==
  /\ Idle(u)
  /\ cases[i].status \notin Resolved
  /\ user' = [user EXCEPT ![u] =
       [does |-> action, case |-> i, seen |-> cases[i].status, saw |-> status]]
  /\ UNCHANGED <<trackVars, caseVars, jobTries, job, countVars>>

(* ndr.update writes the status unless it is the one that was read. *)
TakeAction(u) ==
  /\ user[u].does = "reattempt"
  /\ cases' = IF user[u].seen = "action_taken" THEN cases ELSE SetCase(user[u].case, "action_taken")
  /\ EndRequest(u)
  /\ UNCHANGED <<trackVars, rto, rtoBy, jobTries, job, countVars>>

MarkRto(u) ==
  /\ user[u].does = "mark_rto"
  /\ rto = "none"
  /\ rto' = "rto_initiated" /\ rtoBy' = "manual"
  /\ CancelShipment(user[u].saw)
  /\ cases' = SetCase(user[u].case, "resolved_rto")
  /\ EndRequest(u)
  /\ UNCHANGED <<hookVars, detect, faults, jobTries, job, countVars>>

(* updateRtoStatus reads the record and its shipment, then sets any status. *)
BeginRtoUpdate(u, next) ==
  /\ Idle(u)
  /\ rto # "none"
  /\ user' = [user EXCEPT ![u].does = next, ![u].saw = status]
  /\ UNCHANGED <<trackVars, caseVars, jobTries, job, countVars>>

UpdateRto(u) ==
  /\ user[u].does \in RtoStatus
  /\ rto' = user[u].does
  /\ IF user[u].does = "rto_delivered"
     THEN /\ cases' = [i \in DOMAIN cases |-> IF i \in OpenCases
                         THEN [cases[i] EXCEPT !.status = "resolved_rto"] ELSE cases[i]]
          /\ CancelShipment(user[u].saw)
     ELSE UNCHANGED <<cases, status>>
  /\ EndRequest(u)
  /\ UNCHANGED <<hookVars, detect, faults, rtoBy, jobTries, job, countVars>>

(* The request fails: a second return record is refused, or any other error. *)
AbandonRequest(u) ==
  /\ ~ Idle(u)
  /\ EndRequest(u)
  /\ UNCHANGED <<trackVars, caseVars, jobTries, job, countVars>>

UserStep(u) ==
  \/ \E i \in DOMAIN cases, action \in {"reattempt", "mark_rto"} : BeginAction(u, i, action)
  \/ TakeAction(u)
  \/ MarkRto(u)
  \/ \E next \in Updates : BeginRtoUpdate(u, next)
  \/ UpdateRto(u)
  \/ AbandonRequest(u)

OnlyTracking == UNCHANGED <<caseVars, jobTries, job, user, countVars>>

Next ==
  \/ TNext /\ OnlyTracking
  \/ \E e \in Events : JobStep(e) \/ InterruptJob(e)
  \/ \E u \in Users : UserStep(u)

(***************************************************************************)
(* BullMQ keeps handing a queued job to a worker, and a worker keeps going. *)
(* Weak fairness is enough for an INSERT that waits for another one: each   *)
(* job runs a bounded number of times.  Calls, requests and failures need   *)
(* not happen.                                                              *)
(***************************************************************************)
Fairness ==
  /\ \A d \in Deliveries : WF_vars(ScanStep(d) /\ OnlyTracking)
  /\ \A e \in Events : WF_vars(JobStep(e))

Spec == Init /\ [][Next]_vars
FairSpec == Spec /\ Fairness

-----------------------------------------------------------------------------
(* Types of the variables; the case a job or a request holds is a row that  *)
(* exists, which rests on rows never being deleted or renumbered.          *)
TypeOK ==
  /\ carries \in Stories
  /\ status \in ShipmentStatus
  /\ stored \subseteq Events
  /\ hook \in [Deliveries -> {"unsent", "queued", "ingesting", "committed", "processed", "failed"}]
  /\ tries \in [Deliveries -> Nat]
  /\ scan \in [Deliveries -> [saw : ShipmentStatus, inserted : BOOLEAN]]
  /\ lostBy \in [Deliveries -> {"nothing", "error", "enqueue"}]
  /\ detect \in [Events -> {"none", "queued", "read", "found", "done", "failed"}]
  /\ faults \in 0..MaxFaults
  /\ cases \in Seq([attempt : Nat, status : {"open", "action_taken"} \cup Resolved])
  /\ rto \in RtoStatus \cup {"none"}
  /\ rtoBy \in {"none", "manual", "auto_ndr_threshold", "courier_initiated"}
  /\ jobTries \in [Events -> Nat]
  /\ job \in [Events -> [saw : ShipmentStatus, case : 0..Len(cases), attempt : Nat,
                        rto : BOOLEAN, behind : Nat]]
  /\ user \in [Users -> [does : {"nothing", "reattempt", "mark_rto"} \cup RtoStatus,
                        case : 0..Len(cases), seen : {"open", "action_taken"},
                        saw : ShipmentStatus]]
  /\ counted \in Nat
  /\ overlaps \in Nat

(* A call reported as processed has its scan in tracking_events, unless an   *)
(* SQL error of its own last run was swallowed; and a scan is examined only   *)
(* when it is there, whatever runs, fails and runs again.                    *)
ProcessedIsStored ==
  /\ \A d \in Deliveries : hook[d] = "processed" => carries[d] \in stored \/ lostBy[d] = "error"
  /\ \A e \in Events : detect[e] # "none" => e \in stored

(* Failed attempts on record: those of all cases together. *)
AttemptsOnRecord == Cardinality(UNION {{<<i, k>> : k \in 1..cases[i].attempt} : i \in DOMAIN cases})

(* Each COMMIT of a detection job counts for one failed attempt: none for   *)
(* more, and the ones missing are overwritten by jobs that looked up the    *)
(* case before another job's COMMIT.                                        *)
AttemptsLostOnlyToOverlap ==
  /\ AttemptsOnRecord <= counted
  /\ AttemptsOnRecord >= counted - overlaps

(* The system sends a parcel back on its own account only after detection    *)
(* committed more attempts than the threshold: an action of the seller starts *)
(* a new count, and jobs that overlap count less, never more.  (A job that is *)
(* run again after its COMMIT has committed its attempt twice.)              *)
AutoReturnIsEarned == rtoBy = "auto_ndr_threshold" => counted > Threshold

(* ndr.service refuses to act on a resolved case: a case leaves a resolved  *)
(* state only by a request that looked it up before it was resolved.        *)
ResolvedStaysResolved ==
  [][\A i \in DOMAIN cases :
       cases[i].status \in Resolved /\ cases'[i].status \notin Resolved =>
         \E u \in Users : user[u].does = "reattempt" /\ user[u].case = i /\ user'[u] = NoRequest]_vars

(* The status of the shipment follows validTransitions; what else changes   *)
(* it is a return to origin that is on record, or a scan whose transaction  *)
(* read the status before another one changed it.                           *)
StatusChangesExplained ==
  [][status' # status =>
       \/ status' \in NextStatuses(status)
       \/ status' = "cancelled" /\ rto' # "none"
       \/ \E d \in Deliveries : hook[d] = "ingesting" /\ hook'[d] = "committed" /\ scan[d].saw # status]_vars

(* The call's own scan was lost by an error that was swallowed, or the one    *)
(* call that stored the scan did not get its detection job into the queue.    *)
ScanLost(d) ==
  \/ lostBy[d] = "error"
  \/ \E o \in Deliveries : carries[o] = carries[d] /\ lostBy[o] = "enqueue"

(* Detection gave the scan up because the return it calls for is on record.  *)
ReturnRefused(e) == detect[e] = "failed" /\ rto # "none"

(* A call that was enqueued has its scan stored and examined by NDR detection *)
(* if there are fewer failures than attempts of a job: neither the order of   *)
(* the jobs, nor duplicates, nor failures of other calls, nor a failure of    *)
(* its own job keep the scan from it.  Excused are the two places where this  *)
(* scan itself is lost (ScanLost) and a return that is refused.              *)
AcceptedScanIsExamined ==
  MaxFaults < MaxAttempts =>
    \A d \in Deliveries : hook[d] = "queued" ~>
      detect[carries[d]] = "done" \/ ScanLost(d) \/ ReturnRefused(carries[d])
=============================================================================
