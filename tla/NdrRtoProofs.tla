---------------------------- MODULE NdrRtoProofs ----------------------------
(***************************************************************************)
(* Proofs about NdrRto with the webhook pipeline of Tracking, for any scans, *)
(* deliveries, users, thresholds and numbers of failures.                   *)
(*                                                                          *)
(* The argument for the automatic return: a case never records more attempts *)
(* than detection jobs committed (AttemptsCounted), and a job that commits   *)
(* one attempt more than it read is itself counted.                          *)
(*                                                                          *)
(* For the attempts that are lost, AttemptsOnRecord is a set of pairs, and    *)
(* what a COMMIT adds to it or takes away is a segment of one column.  Jobs   *)
(* write what they read plus one, so a case can be set back and go up again;  *)
(* Bracketed bounds each case by a number from below (Low) and one from above *)
(* (High) which the COMMITs move by one step and overlaps by as many as they   *)
(* count.                                                                     *)
(***************************************************************************)
EXTENDS NdrRto, FiniteSetTheorems, TLAPS

Stage == {"unsent", "queued", "ingesting", "committed", "processed", "failed"}
Loss == {"nothing", "error", "enqueue"}
JobStage == {"none", "queued", "read", "found", "done", "failed"}
Case == [attempt : Nat, status : {"open", "action_taken"} \cup Resolved]
CaseAction == {"nothing", "reattempt", "mark_rto"} \cup RtoStatus

Job(n) == [saw : ShipmentStatus, case : 0..n, attempt : Nat, rto : BOOLEAN, behind : Nat]
Request(n) == [does : CaseAction, case : 0..n, seen : {"open", "action_taken"}, saw : ShipmentStatus]

(* TypeOK in two parts: the pipeline's variables, and those of detection, cases and users. *)
PipelineTypes ==
  /\ carries \in Stories
  /\ status \in ShipmentStatus
  /\ stored \subseteq Events
  /\ hook \in [Deliveries -> Stage]
  /\ tries \in [Deliveries -> Nat]
  /\ scan \in [Deliveries -> [saw : ShipmentStatus, inserted : BOOLEAN]]
  /\ lostBy \in [Deliveries -> Loss]
  /\ faults \in 0..MaxFaults

CaseTypes ==
  /\ detect \in [Events -> JobStage]
  /\ cases \in Seq(Case)
  /\ rto \in RtoStatus \cup {"none"}
  /\ rtoBy \in {"none", "manual", "auto_ndr_threshold", "courier_initiated"}
  /\ jobTries \in [Events -> Nat]
  /\ job \in [Events -> Job(Len(cases))]
  /\ user \in [Users -> Request(Len(cases))]
  /\ counted \in Nat
  /\ overlaps \in Nat

LEMMA TypesInParts == TypeOK <=> PipelineTypes /\ CaseTypes
BY DEF TypeOK, PipelineTypes, CaseTypes, Stage, Loss, JobStage, Case, CaseAction, Job, Request

(* What is reported processed was stored before, or lost by a swallowed error *)
(* that the call remembers; what has a detection job was stored.  A job knows *)
(* its row to be new only while it holds it or after it committed it.        *)
StoredFirst ==
  /\ \A d \in Deliveries :
       /\ hook[d] = "ingesting" => scan[d].inserted \/ carries[d] \in stored
       /\ hook[d] \in {"committed", "processed"} => carries[d] \in stored \/ lostBy[d] = "error"
       /\ hook[d] = "committed" /\ scan[d].inserted => carries[d] \in stored
  /\ \A e \in Events : detect[e] # "none" => e \in stored

(* No case, and no job that read one, has more attempts than were committed. *)
AttemptsCounted ==
  /\ \A i \in DOMAIN cases : cases[i].attempt <= counted
  /\ \A e \in Events : job[e].attempt <= counted

(* A seller's action is on a case. *)
ActionHasCase ==
  \A u \in Users : user[u].does \in {"reattempt", "mark_rto"} => user[u].case # 0

IInv ==
  /\ PipelineTypes
  /\ CaseTypes
  /\ StoredFirst
  /\ AttemptsCounted
  /\ AutoReturnIsEarned
  /\ ActionHasCase

-----------------------------------------------------------------------------
LEMMA InitIInv == Init => IInv
<1> SUFFICES ASSUME Init PROVE IInv
  OBVIOUS
<1> USE TrackingAssumption
<1>1. PipelineTypes
  BY DEF Init, TInit, PipelineTypes, Stage, Loss, NoScan
<1>2. cases \in Seq(Case) /\ Len(cases) = 0 /\ DOMAIN cases = {}
  BY DEF Init
<1>3. NoJob \in Job(0) /\ NoRequest \in Request(0) /\ NoJob.attempt = 0
  BY DEF NoJob, NoRequest, Job, Request, CaseAction
<1>4. CaseTypes
  BY <1>2, <1>3 DEF Init, TInit, CaseTypes, JobStage
<1>5. StoredFirst /\ AttemptsCounted /\ AutoReturnIsEarned /\ ActionHasCase
  BY <1>2, <1>3 DEF Init, TInit, StoredFirst, AttemptsCounted, AutoReturnIsEarned,
                    ActionHasCase, NoRequest
<1> QED BY <1>1, <1>4, <1>5 DEF IInv

(* The pipeline's steps. *)
LEMMA PipelineStep == IInv /\ TNext /\ OnlyTracking => IInv'
<1> SUFFICES ASSUME IInv, TNext, OnlyTracking PROVE IInv'
  OBVIOUS
<1> USE TrackingAssumption
<1>t. PipelineTypes /\ CaseTypes /\ StoredFirst
  BY DEF IInv
<1>u. UNCHANGED <<cases, rto, rtoBy, jobTries, job, user, counted, overlaps>>
  BY DEF OnlyTracking, caseVars, countVars
<1>a. AttemptsCounted' /\ AutoReturnIsEarned' /\ ActionHasCase'
  BY <1>u DEF IInv, AttemptsCounted, AutoReturnIsEarned, ActionHasCase
<1>b. ASSUME detect' \in [Events -> JobStage] PROVE CaseTypes'
  BY <1>b, <1>t, <1>u DEF CaseTypes
<1>c. carries \in [Deliveries -> Events]
  BY <1>t DEF PipelineTypes
<1>1. ASSUME NEW d \in Deliveries, ReceiveWebhook(d) PROVE IInv'
  <2>1. PipelineTypes' /\ StoredFirst'
    BY <1>1, <1>t DEF ReceiveWebhook, HookTo, PipelineTypes, StoredFirst, Stage
  <2> QED BY <1>1, <1>a, <1>b, <1>t, <2>1 DEF ReceiveWebhook, IInv, CaseTypes
<1>2. ASSUME NEW d \in Deliveries, StoreScan(d) PROVE IInv'
  <2>1. PipelineTypes'
    BY <1>2, <1>t DEF StoreScan, HookTo, PipelineTypes, Stage
  <2>2. StoredFirst'
    BY <1>2, <1>t DEF StoreScan, HookTo, PipelineTypes, StoredFirst
  <2> QED BY <1>2, <1>a, <1>b, <1>t, <2>1, <2>2 DEF StoreScan, IInv, CaseTypes
<1>3. ASSUME NEW d \in Deliveries, Retry(d), UNCHANGED <<carries, status, stored>>, faults' \in 0..MaxFaults,
             \/ UNCHANGED lostBy
             \/ \E l \in Loss : lostBy' = [lostBy EXCEPT ![d] = l],
             \/ UNCHANGED detect
             \/ hook[d] = "committed" /\ scan[d].inserted /\ detect' = Enqueued(carries[d])
      PROVE  IInv'
  <2>1. NoScan \in [saw : ShipmentStatus, inserted : BOOLEAN]
    BY DEF NoScan
  <2>2. PipelineTypes'
    BY <1>3, <1>t, <2>1 DEF Retry, LastAttempt, HookTo, PipelineTypes, Stage
  <2>3. detect' \in [Events -> JobStage]
    BY <1>3, <1>t DEF Enqueued, CaseTypes, JobStage
  <2>4. \A o \in Deliveries : o # d => hook'[o] = hook[o] /\ scan'[o] = scan[o] /\ lostBy'[o] = lostBy[o]
    BY <1>3, <1>t DEF Retry, HookTo, PipelineTypes
  <2>5. hook'[d] \in {"failed", "queued"}
    BY <1>3, <1>t DEF Retry, HookTo, PipelineTypes
  <2>6. \A e \in Events : detect'[e] # "none" => e \in stored
    BY <1>3, <1>t, <1>c DEF CaseTypes, StoredFirst, Enqueued
  <2>7. StoredFirst'
    BY <1>3, <1>t, <2>4, <2>5, <2>6 DEF StoredFirst
  <2> QED BY <1>a, <1>b, <2>2, <2>3, <2>7 DEF IInv
<1>4. ASSUME NEW d \in Deliveries, RefuseDuplicate(d) PROVE IInv'
  BY <1>3, <1>4, <1>t DEF RefuseDuplicate, PipelineTypes
<1>5. ASSUME NEW d \in Deliveries, CommitScan(d) PROVE IInv'
  <2>1. StatusOf[carries[d]] \in ShipmentStatus
    BY <1>c
  <2>2. PipelineTypes'
    BY <1>5, <1>c, <1>t, <2>1 DEF CommitScan, HookTo, PipelineTypes, Stage
  <2>3. StoredFirst'
    BY <1>5, <1>t DEF CommitScan, HookTo, PipelineTypes, StoredFirst
  <2> QED BY <1>5, <1>a, <1>b, <1>t, <2>2, <2>3 DEF CommitScan, IInv, CaseTypes
<1>6. ASSUME NEW d \in Deliveries, MarkProcessed(d) PROVE IInv'
  <2>1. NoScan \in [saw : ShipmentStatus, inserted : BOOLEAN]
    BY DEF NoScan
  <2>2. PipelineTypes'
    BY <1>6, <1>t, <2>1 DEF MarkProcessed, LoseEnqueue, Fault, HookTo, PipelineTypes, Stage, Loss
  <2>3. detect' \in [Events -> JobStage]
    BY <1>6, <1>t DEF MarkProcessed, Enqueued, CaseTypes, JobStage
  <2>4. \A e \in Events : detect'[e] # "none" => e \in stored'
    BY <1>6, <1>t, <1>c DEF MarkProcessed, CaseTypes, StoredFirst, Enqueued
  <2>5. \A o \in Deliveries : o # d => hook'[o] = hook[o] /\ scan'[o] = scan[o] /\ lostBy'[o] = lostBy[o]
    BY <1>6, <1>t DEF MarkProcessed, LoseEnqueue, HookTo, PipelineTypes
  <2>6. hook'[d] = "processed" /\ (carries[d] \in stored \/ lostBy'[d] = "error")
    BY <1>6, <1>t DEF MarkProcessed, LoseEnqueue, HookTo, PipelineTypes, StoredFirst
  <2>7. StoredFirst'
    BY <1>6, <1>t, <2>4, <2>5, <2>6 DEF MarkProcessed, StoredFirst
  <2> QED BY <1>a, <1>b, <2>2, <2>3, <2>7 DEF IInv
<1>7. ASSUME NEW d \in Deliveries, InterruptScan(d) PROVE IInv'
  <2>1. faults' \in 0..MaxFaults
    BY <1>7, <1>t DEF InterruptScan, InterruptIngest, InterruptCommitted, Fault, PipelineTypes
  <2>2. \/ UNCHANGED lostBy
        \/ \E l \in Loss : lostBy' = [lostBy EXCEPT ![d] = l]
    BY <1>7 DEF InterruptScan, InterruptIngest, InterruptCommitted, LoseEnqueue, Loss
  <2> QED BY <1>3, <1>7, <2>1, <2>2 DEF InterruptScan, InterruptIngest, InterruptCommitted
<1>8. ASSUME NEW d \in Deliveries, SwallowError(d) PROVE IInv'
  <2>1. PipelineTypes'
    <3>1. scan' \in [Deliveries -> [saw : ShipmentStatus, inserted : BOOLEAN]]
      BY <1>8, <1>t DEF SwallowError, PipelineTypes
    <3>2. lostBy' \in [Deliveries -> Loss] /\ hook' \in [Deliveries -> Stage]
      BY <1>8, <1>t DEF SwallowError, HookTo, PipelineTypes, Stage, Loss
    <3>3. faults' \in 0..MaxFaults
      BY <1>8, <1>t DEF SwallowError, Fault, PipelineTypes
    <3> QED BY <1>8, <1>t, <3>1, <3>2, <3>3 DEF SwallowError, PipelineTypes
  <2>2. StoredFirst'
    BY <1>8, <1>t DEF SwallowError, HookTo, PipelineTypes, StoredFirst
  <2> QED BY <1>8, <1>a, <1>b, <1>t, <2>1, <2>2 DEF SwallowError, IInv, CaseTypes
<1> QED
  BY <1>1, <1>2, <1>4, <1>5, <1>6, <1>7, <1>8 DEF TNext, ScanStep

-----------------------------------------------------------------------------
(* Rows are never deleted, so what points to a case keeps pointing to one. *)
LEMMA MoreCases ==
  ASSUME NEW n \in Nat, NEW m \in Nat, n <= m
  PROVE  Job(n) \subseteq Job(m) /\ Request(n) \subseteq Request(m)
BY DEF Job, Request

LEMMA Rows ==
  ASSUME cases \in Seq(Case)
  PROVE  /\ Len(cases) \in Nat /\ DOMAIN cases = 1..Len(cases)
         /\ \A i \in DOMAIN cases : cases[i] \in Case
OBVIOUS

LEMMA Changed ==
  ASSUME cases \in Seq(Case), NEW i \in DOMAIN cases, NEW c \in Case
  PROVE  /\ [cases EXCEPT ![i] = c] \in Seq(Case)
         /\ Len([cases EXCEPT ![i] = c]) = Len(cases)
         /\ DOMAIN [cases EXCEPT ![i] = c] = DOMAIN cases
         /\ \A j \in DOMAIN cases : [cases EXCEPT ![i] = c][j] = IF j = i THEN c ELSE cases[j]
OBVIOUS

(* A status that a job or a request sets on a case. *)
LEMMA StatusSet ==
  ASSUME cases \in Seq(Case), NEW i \in DOMAIN cases, NEW st \in {"open", "action_taken"} \cup Resolved
  PROVE  /\ SetCase(i, st) \in Seq(Case)
         /\ Len(SetCase(i, st)) = Len(cases) /\ DOMAIN SetCase(i, st) = DOMAIN cases
         /\ \A j \in DOMAIN cases :
              /\ SetCase(i, st)[j].attempt = cases[j].attempt
              /\ SetCase(i, st)[j].status = IF j = i THEN st ELSE cases[j].status
<1> DEFINE c == [cases[i] EXCEPT !.status = st]
<1>1. c \in Case /\ c.attempt = cases[i].attempt /\ c.status = st
  BY Rows DEF Case
<1>2. SetCase(i, st) = [cases EXCEPT ![i] = c]
  BY DEF SetCase
<1> HIDE DEF c
<1> QED BY <1>1, <1>2, Changed

(* A job commits a change of the cases that records no more than is counted. *)
LEMMA JobCommits ==
  ASSUME IInv, NEW e \in Events, detect[e] = "found", CommitJob(e),
         cases' \in Seq(Case), Len(cases') \in Nat, Len(cases) <= Len(cases'),
         status' \in ShipmentStatus, rto' \in RtoStatus \cup {"none"},
         rtoBy' \in {"none", "manual", "auto_ndr_threshold", "courier_initiated"},
         \A i \in DOMAIN cases' : cases'[i].attempt <= counted',
         rtoBy' = "auto_ndr_threshold" => rtoBy = "auto_ndr_threshold" \/ counted' > Threshold
  PROVE  IInv'
<1>t. PipelineTypes /\ CaseTypes /\ StoredFirst /\ AttemptsCounted /\ AutoReturnIsEarned
  BY DEF IInv
<1>1. PipelineTypes'
  BY <1>t DEF CommitJob, hookVars, PipelineTypes
<1>2. StoredFirst'
  BY <1>t DEF CommitJob, JobTo, hookVars, StoredFirst, CaseTypes
<1>3. counted' \in Nat /\ counted <= counted' /\ overlaps' \in Nat
  BY <1>t DEF CommitJob, countVars, CaseTypes, Job
<1>4. NoJob \in Job(Len(cases)) /\ NoJob.attempt = 0
  BY <1>t, TrackingAssumption DEF NoJob, Job, CaseTypes
<1>5. ASSUME NEW o \in Events PROVE job'[o] \in Job(Len(cases)) /\ job'[o].attempt <= counted
  <2>1. job[o] \in Job(Len(cases)) /\ job[o].attempt <= counted
    BY <1>t DEF CaseTypes, AttemptsCounted
  <2>2. [job[o] EXCEPT !.behind = @ + 1] \in Job(Len(cases))
    BY <2>1, SMTT(30) DEF Job
  <2>3. [job[o] EXCEPT !.behind = @ + 1].attempt = job[o].attempt
    BY <2>1 DEF Job
  <2> QED BY <1>t, <1>4, <2>1, <2>2, <2>3 DEF CommitJob, CaseTypes
<1>6. job' \in [Events -> Job(Len(cases'))] /\ user' \in [Users -> Request(Len(cases'))]
  <2>1. Len(cases) \in Nat /\ Job(Len(cases)) \subseteq Job(Len(cases'))
        /\ Request(Len(cases)) \subseteq Request(Len(cases'))
    BY <1>t, Rows, MoreCases DEF CaseTypes
  <2>2. job' \in [Events -> Job(Len(cases))] /\ user' \in [Users -> Request(Len(cases))]
    BY <1>t, <1>5 DEF CommitJob, CaseTypes
  <2> QED BY <2>1, <2>2
<1>7. detect' \in [Events -> JobStage] /\ jobTries' \in [Events -> Nat]
  BY <1>t DEF CommitJob, JobTo, CaseTypes, JobStage
<1>8. CaseTypes'
  BY <1>3, <1>6, <1>7 DEF CaseTypes, Job, Request
<1>9. AttemptsCounted'
  BY <1>3, <1>5, <1>t, SMTT(30) DEF AttemptsCounted, CaseTypes, Job
<1>10. AutoReturnIsEarned'
  BY <1>3, <1>t, NdrAssumption DEF AutoReturnIsEarned, CaseTypes
<1>11. ActionHasCase'
  BY DEF CommitJob, IInv, ActionHasCase
<1> QED BY <1>1, <1>2, <1>8, <1>9, <1>10, <1>11 DEF IInv

LEMMA JobSteps == \A e \in Events : IInv /\ (JobStep(e) \/ InterruptJob(e)) => IInv'
<1> SUFFICES ASSUME NEW e \in Events, IInv, JobStep(e) \/ InterruptJob(e) PROVE IInv'
  OBVIOUS
<1>t. PipelineTypes /\ CaseTypes /\ StoredFirst /\ AttemptsCounted /\ AutoReturnIsEarned
  BY DEF IInv
<1>c. /\ cases \in Seq(Case) /\ Len(cases) \in Nat /\ DOMAIN cases = 1..Len(cases)
      /\ counted \in Nat /\ status \in ShipmentStatus /\ "cancelled" \in ShipmentStatus
      /\ \A i \in DOMAIN cases : cases[i] \in Case /\ cases[i].attempt \in Nat /\ cases[i].attempt <= counted
      /\ job[e] \in Job(Len(cases)) /\ job[e].attempt \in Nat /\ job[e].attempt <= counted
      /\ (job[e].case # 0 => job[e].case \in DOMAIN cases)
      /\ rto \in RtoStatus \cup {"none"}
      /\ rtoBy \in {"none", "manual", "auto_ndr_threshold", "courier_initiated"}
  <2>1. cases \in Seq(Case) /\ job[e] \in Job(Len(cases))
    BY <1>t DEF CaseTypes
  <2>2. \A i \in DOMAIN cases : cases[i] \in Case /\ cases[i].attempt \in Nat
    BY <2>1, Rows DEF Case
  <2>3. job[e].attempt \in Nat /\ job[e].case \in 0..Len(cases)
    BY <2>1 DEF Job
  <2> QED BY <1>t, <2>1, <2>2, <2>3, Rows
          DEF CaseTypes, PipelineTypes, AttemptsCounted, ShipmentStatus
<1>1. ASSUME NEW r \in Job(Len(cases)), r.attempt <= counted, job' = [job EXCEPT ![e] = r],
             NEW stage \in JobStage, JobTo(e, stage), detect[e] # "none",
             jobTries' \in [Events -> Nat], faults' \in 0..MaxFaults,
             UNCHANGED <<status, hookVars, caseVars, user, countVars>>
      PROVE  IInv'
  <2>1. PipelineTypes' /\ StoredFirst'
    BY <1>1, <1>t DEF JobTo, hookVars, PipelineTypes, StoredFirst, CaseTypes
  <2>2. CaseTypes'
    BY <1>1, <1>t DEF JobTo, caseVars, countVars, CaseTypes, Job, Request
  <2>3. AttemptsCounted' /\ AutoReturnIsEarned' /\ ActionHasCase'
    BY <1>1, <1>t DEF caseVars, countVars, AttemptsCounted, AutoReturnIsEarned, CaseTypes,
                      IInv, ActionHasCase
  <2> QED BY <2>1, <2>2, <2>3 DEF IInv
<1>2. CASE ReadEvent(e)
  <2>1. PICK r : r = [job[e] EXCEPT !.saw = status]
    OBVIOUS
  <2>2. r \in Job(Len(cases)) /\ r.attempt <= counted
    BY <1>c, <2>1 DEF Job
  <2> QED BY <1>1, <1>2, <1>t, <2>1, <2>2 DEF ReadEvent, JobStage, PipelineTypes, CaseTypes
<1>3. CASE LookUp(e)
  <2>1. PICK i \in (IF OpenCases = {} THEN {0} ELSE OpenCases) :
          job' = [job EXCEPT ![e].case = i,
                             ![e].attempt = IF i = 0 THEN 0 ELSE cases[i].attempt,
                             ![e].rto = rto # "none"]
    BY <1>3 DEF LookUp
  <2>2. PICK r : r = [job[e] EXCEPT !.case = i,
                             !.attempt = IF i = 0 THEN 0 ELSE cases[i].attempt,
                             !.rto = rto # "none"]
    OBVIOUS
  <2>3. i \in 0..Len(cases) /\ (i # 0 => i \in DOMAIN cases)
    BY <1>c, <2>1 DEF OpenCases
  <2>4. (IF i = 0 THEN 0 ELSE cases[i].attempt) \in Nat
        /\ (IF i = 0 THEN 0 ELSE cases[i].attempt) <= counted
    BY <1>c, <2>3
  <2>5. r \in Job(Len(cases)) /\ r.attempt <= counted
    BY <1>c, <2>2, <2>3, <2>4 DEF Job
  <2>6. job' = [job EXCEPT ![e] = r]
    BY <2>1, <2>2
  <2> QED BY <1>1, <1>3, <1>t, <2>5, <2>6 DEF LookUp, JobStage, PipelineTypes, CaseTypes
<1>4. CASE OpenCase(e)
  <2>1. counted' = counted + 1 /\ detect[e] = "found"
    BY <1>4 DEF OpenCase, CommitJob, Looking
  <2>2. [attempt |-> 1, status |-> "open"] \in Case
    BY DEF Case
  <2>3. /\ cases' \in Seq(Case) /\ Len(cases') = Len(cases) + 1
        /\ \A i \in DOMAIN cases' : cases'[i].attempt <= counted + 1
    BY <1>4, <1>c, <2>2 DEF OpenCase
  <2> QED BY <1>4, <1>c, <2>1, <2>3, JobCommits DEF OpenCase
<1>5. CASE NextAttempt(e)
  <2> DEFINE i == job[e].case
             c == [cases[i] EXCEPT !.attempt = job[e].attempt + 1]
  <2>1. counted' = counted + 1 /\ detect[e] = "found" /\ i \in DOMAIN cases
    BY <1>5, <1>c DEF NextAttempt, CommitJob, Looking
  <2>2. c \in Case /\ c.attempt = job[e].attempt + 1
    BY <1>c, <2>1, SMTT(30) DEF Case
  <2>3. cases' = [cases EXCEPT ![i] = c]
    BY <1>5 DEF NextAttempt
  <2> HIDE DEF i, c
  <2>4. /\ cases' \in Seq(Case) /\ Len(cases') = Len(cases)
        /\ \A j \in DOMAIN cases' : cases'[j].attempt <= counted + 1
    BY <1>c, <2>1, <2>2, <2>3, Changed
  <2>5. CommitJob(e) /\ UNCHANGED <<status, rto, rtoBy>>
    BY <1>5 DEF NextAttempt
  <2> QED BY <1>c, <2>1, <2>4, <2>5, JobCommits
<1>6. CASE AutoReturn(e)
  <2> DEFINE i == job[e].case
             c == [attempt |-> job[e].attempt + 1, status |-> "resolved_rto"]
  <2>1. counted' = counted + 1 /\ detect[e] = "found" /\ i \in DOMAIN cases
    BY <1>6, <1>c DEF AutoReturn, PastThreshold, CommitJob, Looking
  <2>2. c \in Case /\ c.attempt = job[e].attempt + 1
    BY <1>c DEF Case, Resolved
  <2>3. cases' = [cases EXCEPT ![i] = c]
    BY <1>6 DEF AutoReturn
  <2>4. counted' > Threshold
    BY <1>6, <1>c, <2>1, NdrAssumption DEF AutoReturn, PastThreshold
  <2> HIDE DEF i, c
  <2>5. /\ cases' \in Seq(Case) /\ Len(cases') = Len(cases)
        /\ \A j \in DOMAIN cases' : cases'[j].attempt <= counted + 1
    BY <1>c, <2>1, <2>2, <2>3, Changed
  <2>6. status' \in ShipmentStatus /\ rto' \in RtoStatus \cup {"none"}
        /\ rtoBy' \in {"none", "manual", "auto_ndr_threshold", "courier_initiated"} /\ CommitJob(e)
    BY <1>6, <1>c DEF AutoReturn, CancelShipment, RtoStatus
  <2> QED BY <1>c, <2>1, <2>4, <2>5, <2>6, JobCommits
<1>7. ASSUME detect[e] = "found", CommitJob(e), rto' \in RtoStatus \cup {"none"},
             rtoBy' = rtoBy \/ rtoBy' = "courier_initiated",
             UNCHANGED status \/ CancelShipment(job[e].saw),
             \/ UNCHANGED cases
             \/ job[e].case # 0 /\ \E st \in Resolved : cases' = SetCase(job[e].case, st)
      PROVE  IInv'
  <2>1. counted' \in Nat /\ counted <= counted'
    BY <1>7, <1>c DEF CommitJob, countVars
  <2>2. /\ cases' \in Seq(Case) /\ Len(cases') = Len(cases)
        /\ \A j \in DOMAIN cases' : cases'[j].attempt <= counted
    <3>1. CASE UNCHANGED cases
      BY <1>c, <3>1
    <3>2. ASSUME NEW st \in Resolved, job[e].case # 0, cases' = SetCase(job[e].case, st)
          PROVE  /\ cases' \in Seq(Case) /\ Len(cases') = Len(cases)
                 /\ \A j \in DOMAIN cases' : cases'[j].attempt <= counted
      <4>1. job[e].case \in DOMAIN cases /\ st \in {"open", "action_taken"} \cup Resolved
        BY <1>c, <3>2
      <4>2. /\ cases' \in Seq(Case) /\ Len(cases') = Len(cases) /\ DOMAIN cases' = DOMAIN cases
            /\ \A j \in DOMAIN cases : cases'[j].attempt = cases[j].attempt
        BY <1>c, <3>2, <4>1, StatusSet
      <4> QED BY <1>c, <4>2
    <3> QED BY <1>7, <3>1, <3>2
  <2>3. \A j \in DOMAIN cases' : cases'[j].attempt <= counted'
    <3> SUFFICES ASSUME NEW j \in DOMAIN cases' PROVE cases'[j].attempt <= counted'
      OBVIOUS
    <3>1. cases'[j].attempt \in Nat
      <4>1. cases'[j] \in Case
        BY <2>2
      <4> QED BY <4>1 DEF Case
    <3> QED BY <1>c, <2>1, <2>2, <3>1
  <2>4. status' \in ShipmentStatus
    BY <1>7, <1>c DEF CancelShipment
  <2>5. rtoBy' \in {"none", "manual", "auto_ndr_threshold", "courier_initiated"}
        /\ (rtoBy' = "auto_ndr_threshold" => rtoBy = "auto_ndr_threshold")
    BY <1>7, <1>c
  <2> QED BY <1>7, <1>c, <2>2, <2>3, <2>4, <2>5, JobCommits
<1>8. CASE CourierReturn(e)
  BY <1>7, <1>8 DEF CourierReturn, Resolved
<1>9. CASE ResolveDelivered(e)
  BY <1>7, <1>9, <1>c DEF ResolveDelivered, Resolved
<1>10. ASSUME RetryJob(e), detect[e] # "none", faults' \in 0..MaxFaults PROVE IInv'
  <2>1. NoJob \in Job(Len(cases)) /\ NoJob.attempt <= counted
    BY <1>c, TrackingAssumption DEF NoJob, Job
  <2>2. jobTries' \in [Events -> Nat]
    BY <1>10, <1>t DEF RetryJob, CaseTypes
  <2> QED BY <1>1, <1>10, <2>1, <2>2 DEF RetryJob, JobStage
<1>11. CASE RefuseReturn(e)
  BY <1>10, <1>11, <1>t DEF RefuseReturn, PipelineTypes
<1>12. CASE InterruptJob(e)
  BY <1>10, <1>12, <1>t, TrackingAssumption DEF InterruptJob, Fault, PipelineTypes
<1> QED
  BY <1>2, <1>3, <1>4, <1>5, <1>6, <1>8, <1>9, <1>11, <1>12 DEF JobStep

(* The sellers' steps count nothing, and make no automatic return. *)
LEMMA UserSteps == \A u \in Users : IInv /\ UserStep(u) => IInv'
<1> SUFFICES ASSUME NEW u \in Users, IInv, UserStep(u) PROVE IInv'
  OBVIOUS
<1>t. PipelineTypes /\ CaseTypes /\ StoredFirst /\ AttemptsCounted /\ AutoReturnIsEarned
  BY DEF IInv
<1>c. /\ cases \in Seq(Case) /\ Len(cases) \in Nat /\ DOMAIN cases = 1..Len(cases)
      /\ status \in ShipmentStatus /\ "cancelled" \in ShipmentStatus
      /\ \A i \in DOMAIN cases : cases[i] \in Case /\ cases[i].attempt <= counted
      /\ user[u] \in Request(Len(cases)) /\ NoRequest \in Request(Len(cases))
      /\ (user[u].does \in {"reattempt", "mark_rto"} => user[u].case \in DOMAIN cases)
  <2>1. cases \in Seq(Case) /\ user[u] \in Request(Len(cases))
    BY <1>t DEF CaseTypes
  <2>2. NoRequest \in Request(Len(cases))
    BY <2>1, Rows, TrackingAssumption DEF NoRequest, Request, CaseAction
  <2>3. user[u].case \in 0..Len(cases)
    BY <2>1 DEF Request
  <2>4. user[u].does \in {"reattempt", "mark_rto"} => user[u].case # 0
    BY DEF IInv, ActionHasCase
  <2> QED BY <1>t, <2>1, <2>2, <2>3, <2>4, Rows DEF PipelineTypes, AttemptsCounted, ShipmentStatus
<1>1. ASSUME NEW r \in Request(Len(cases)), user' = [user EXCEPT ![u] = r],
             r.does \in {"reattempt", "mark_rto"} => r.case # 0,
             UNCHANGED <<hookVars, detect, faults, jobTries, job, countVars>>,
             status' \in ShipmentStatus, rto' \in RtoStatus \cup {"none"},
             rtoBy' \in {rtoBy, "manual"},
             cases' \in Seq(Case), Len(cases') = Len(cases),
             \A i \in DOMAIN cases' : cases'[i].attempt <= counted
      PROVE  IInv'
  <2>1. PipelineTypes' /\ StoredFirst'
    BY <1>1, <1>t DEF hookVars, PipelineTypes, StoredFirst
  <2>2. CaseTypes'
    BY <1>1, <1>t DEF countVars, CaseTypes, Job, Request
  <2>3. AttemptsCounted' /\ AutoReturnIsEarned' /\ ActionHasCase'
    BY <1>1, <1>t DEF countVars, AttemptsCounted, AutoReturnIsEarned, CaseTypes, IInv, ActionHasCase
  <2> QED BY <2>1, <2>2, <2>3 DEF IInv
<1>2. ASSUME NEW r \in Request(Len(cases)), user' = [user EXCEPT ![u] = r],
             r.does \in {"reattempt", "mark_rto"} => r.case # 0,
             UNCHANGED <<trackVars, caseVars, jobTries, job, countVars>>
      PROVE  IInv'
  BY <1>1, <1>2, <1>c, <1>t DEF trackVars, hookVars, caseVars, CaseTypes
<1>3. ASSUME NEW i \in DOMAIN cases, NEW action \in {"reattempt", "mark_rto"}, BeginAction(u, i, action)
      PROVE  IInv'
  <2>1. PICK r : r = [does |-> action, case |-> i, seen |-> cases[i].status, saw |-> status]
    OBVIOUS
  <2>2. cases[i].status \in {"open", "action_taken"}
    BY <1>3, <1>c DEF BeginAction, Case
  <2>3. r \in Request(Len(cases)) /\ r.case # 0
    BY <1>c, <2>1, <2>2 DEF Request, CaseAction
  <2> QED BY <1>2, <1>3, <2>1, <2>3 DEF BeginAction
<1>4. ASSUME NEW i \in DOMAIN cases, NEW st \in {"open", "action_taken"} \cup Resolved
      PROVE  /\ SetCase(i, st) \in Seq(Case) /\ Len(SetCase(i, st)) = Len(cases)
             /\ \A j \in DOMAIN SetCase(i, st) : SetCase(i, st)[j].attempt <= counted
  BY <1>4, <1>c, StatusSet, SMTT(30)
<1>5. NoRequest.does = "nothing" /\ NoRequest \in Request(Len(cases))
  BY <1>c DEF NoRequest
<1>6. CASE TakeAction(u)
  <2>1. \/ cases' = cases
        \/ user[u].case \in DOMAIN cases /\ cases' = SetCase(user[u].case, "action_taken")
    BY <1>6, <1>c DEF TakeAction
  <2>2. /\ cases' \in Seq(Case) /\ Len(cases') = Len(cases)
        /\ \A j \in DOMAIN cases' : cases'[j].attempt <= counted
    BY <1>4, <1>c, <2>1
  <2> QED BY <1>1, <1>5, <1>6, <1>c, <1>t, <2>2
          DEF TakeAction, EndRequest, trackVars, hookVars, CaseTypes
<1>7. CASE MarkRto(u)
  <2>1. user[u].case \in DOMAIN cases /\ cases' = SetCase(user[u].case, "resolved_rto")
    BY <1>7, <1>c DEF MarkRto
  <2>2. /\ cases' \in Seq(Case) /\ Len(cases') = Len(cases)
        /\ \A j \in DOMAIN cases' : cases'[j].attempt <= counted
    BY <1>4, <2>1 DEF Resolved
  <2>3. status' \in ShipmentStatus /\ rto' \in RtoStatus \cup {"none"} /\ rtoBy' \in {rtoBy, "manual"}
    BY <1>7, <1>c DEF MarkRto, CancelShipment, RtoStatus
  <2> QED BY <1>1, <1>5, <1>7, <2>2, <2>3 DEF MarkRto, EndRequest
<1>8. ASSUME NEW next \in Updates, BeginRtoUpdate(u, next) PROVE IInv'
  <2>1. PICK r : r = [user[u] EXCEPT !.does = next, !.saw = status]
    OBVIOUS
  <2>2. r \in Request(Len(cases)) /\ r.does = next
    BY <1>c, <2>1, NdrAssumption DEF Request, CaseAction
  <2>3. r.does \notin {"reattempt", "mark_rto"}
    BY <2>2, NdrAssumption DEF RtoStatus
  <2> QED BY <1>2, <1>8, <2>1, <2>2, <2>3 DEF BeginRtoUpdate
<1>9. CASE UpdateRto(u)
  <2>1. cases' \in Seq(Case) /\ Len(cases') = Len(cases)
        /\ \A j \in DOMAIN cases' : cases'[j].attempt <= counted
    <3>1. CASE user[u].does = "rto_delivered"
      <4>1. cases' = [i \in DOMAIN cases |-> IF i \in OpenCases
                        THEN [cases[i] EXCEPT !.status = "resolved_rto"] ELSE cases[i]]
        BY <1>9, <3>1 DEF UpdateRto
      <4>2. ASSUME NEW i \in DOMAIN cases
            PROVE  /\ [cases[i] EXCEPT !.status = "resolved_rto"] \in Case
                   /\ [cases[i] EXCEPT !.status = "resolved_rto"].attempt = cases[i].attempt
        BY <1>c, <4>2 DEF Case, Resolved
      <4>3. \A i \in 1..Len(cases) : cases'[i] \in Case /\ cases'[i].attempt <= counted
        BY <1>c, <4>1, <4>2
      <4>4. cases' \in Seq(Case) /\ Len(cases') = Len(cases)
        BY <1>c, <4>1, <4>3
      <4> QED BY <1>c, <4>3, <4>4
    <3>2. CASE user[u].does # "rto_delivered"
      BY <1>9, <1>c, <3>2 DEF UpdateRto
    <3> QED BY <3>1, <3>2
  <2>2. status' \in ShipmentStatus /\ rto' \in RtoStatus \cup {"none"} /\ rtoBy' \in {rtoBy, "manual"}
    BY <1>9, <1>c DEF UpdateRto, CancelShipment
  <2> QED BY <1>1, <1>5, <1>9, <2>1, <2>2 DEF UpdateRto, EndRequest
<1>10. CASE AbandonRequest(u)
  BY <1>2, <1>5, <1>10 DEF AbandonRequest, EndRequest
<1> QED
  BY <1>3, <1>6, <1>7, <1>8, <1>9, <1>10 DEF UserStep

LEMMA Stutter == IInv /\ UNCHANGED vars => IInv'
BY DEF vars, trackVars, hookVars, caseVars, countVars, IInv, PipelineTypes, CaseTypes, StoredFirst,
       AttemptsCounted, AutoReturnIsEarned, ActionHasCase, Job, Request

THEOREM Inductive == Spec => []IInv
<1>1. IInv /\ [Next]_vars => IInv'
  BY PipelineStep, JobSteps, UserSteps, Stutter DEF Next
<1> QED BY <1>1, InitIInv, PTL DEF Spec

(* TypeOK: a case that a job or a request holds is a row that exists. *)
THEOREM TypeCorrect == Spec => []TypeOK
<1>1. IInv => TypeOK
  BY TypesInParts DEF IInv
<1> QED BY <1>1, Inductive, PTL

(* ProcessedIsStored: what is reported processed was stored, but for an SQL  *)
(* error of the call's own last run that was swallowed; what is examined is  *)
(* there.                                                                   *)
THEOREM ProcessedScansAreStored == Spec => []ProcessedIsStored
<1>1. IInv => ProcessedIsStored
  BY DEF IInv, StoredFirst, ProcessedIsStored
<1> QED BY <1>1, Inductive, PTL

(* AutoReturnIsEarned: more failed attempts than the threshold come first. *)
THEOREM AutoReturnsAreEarned == Spec => []AutoReturnIsEarned
<1>1. IInv => AutoReturnIsEarned
  BY DEF IInv
<1> QED BY <1>1, Inductive, PTL

-----------------------------------------------------------------------------
(* ResolvedStaysResolved: only a seller's new attempt, decided before the case *)
(* was resolved, takes it out of its resolved state.                          *)
Reopened(i) == cases[i].status \in Resolved /\ cases'[i].status \notin Resolved

LEMMA JobsKeepResolved ==
  ASSUME IInv, NEW e \in Events, JobStep(e) \/ InterruptJob(e), NEW i \in DOMAIN cases
  PROVE  ~ Reopened(i)
<1>t. cases \in Seq(Case) /\ job[e] \in Job(Len(cases)) /\ (job[e].case # 0 => job[e].case \in DOMAIN cases)
  <2>1. cases \in Seq(Case) /\ job[e] \in Job(Len(cases))
    BY DEF IInv, CaseTypes
  <2>2. job[e].case \in 0..Len(cases)
    BY <2>1 DEF Job
  <2> QED BY <2>1, <2>2, Rows
<1>1. CASE UNCHANGED cases
  BY <1>1 DEF Reopened
<1>2. ASSUME job[e].case # 0, NEW st \in Resolved, cases' = SetCase(job[e].case, st)
      PROVE  ~ Reopened(i)
  <2>1. job[e].case \in DOMAIN cases /\ st \in {"open", "action_taken"} \cup Resolved
    BY <1>2, <1>t
  <2>2. cases'[i].status = IF i = job[e].case THEN st ELSE cases[i].status
    BY <1>2, <1>t, <2>1, StatusSet
  <2> QED BY <1>2, <2>2 DEF Reopened
<1>3. CASE OpenCase(e)
  <2>1. cases'[i] = cases[i]
    BY <1>3, <1>t, Rows DEF OpenCase
  <2> QED BY <2>1 DEF Reopened
<1>4. CASE NextAttempt(e)
  <2> DEFINE c == [cases[job[e].case] EXCEPT !.attempt = job[e].attempt + 1]
  <2>1. job[e].case \in DOMAIN cases /\ cases' = [cases EXCEPT ![job[e].case] = c]
    BY <1>4, <1>t DEF NextAttempt
  <2>2. c.status = cases[job[e].case].status
    BY <1>t, <2>1, Rows DEF Case
  <2>3. cases'[i] = IF i = job[e].case THEN c ELSE cases[i]
    BY <2>1
  <2> HIDE DEF c
  <2> QED BY <2>2, <2>3 DEF Reopened
<1>5. CASE AutoReturn(e)
  <2>1. job[e].case \in DOMAIN cases
    BY <1>5, <1>t DEF AutoReturn, PastThreshold
  <2>2. cases'[i] = IF i = job[e].case
                    THEN [attempt |-> job[e].attempt + 1, status |-> "resolved_rto"] ELSE cases[i]
    BY <1>5, <2>1 DEF AutoReturn
  <2> QED BY <2>2 DEF Reopened, Resolved
<1>6. CASE CourierReturn(e) \/ ResolveDelivered(e)
  BY <1>1, <1>2, <1>6, SMTT(30) DEF CourierReturn, ResolveDelivered, Resolved
<1>7. CASE ReadEvent(e) \/ LookUp(e) \/ RefuseReturn(e) \/ InterruptJob(e)
  BY <1>1, <1>7 DEF ReadEvent, LookUp, RefuseReturn, InterruptJob, RetryJob, caseVars
<1> QED BY <1>3, <1>4, <1>5, <1>6, <1>7 DEF JobStep

LEMMA SellersKeepResolved ==
  ASSUME IInv, NEW u \in Users, UserStep(u), NEW i \in DOMAIN cases, Reopened(i)
  PROVE  user[u].does = "reattempt" /\ user[u].case = i /\ user'[u] = NoRequest
<1>t. /\ cases \in Seq(Case) /\ user \in [Users -> Request(Len(cases))]
      /\ (user[u].does \in {"reattempt", "mark_rto"} => user[u].case \in DOMAIN cases)
  <2>1. cases \in Seq(Case) /\ user \in [Users -> Request(Len(cases))]
    BY DEF IInv, CaseTypes
  <2>2. user[u].case \in 0..Len(cases)
    BY <2>1 DEF Request
  <2> QED BY <2>1, <2>2, Rows DEF IInv, ActionHasCase
<1>1. ~ UNCHANGED cases
  BY DEF Reopened
<1>2. CASE TakeAction(u)
  <2>1. user[u].case \in DOMAIN cases /\ cases' = SetCase(user[u].case, "action_taken")
    BY <1>1, <1>2, <1>t DEF TakeAction
  <2>2. user[u].case = i
    BY <1>t, <2>1, StatusSet DEF Reopened
  <2>3. user'[u] = NoRequest
    BY <1>2, <1>t DEF TakeAction, EndRequest
  <2> QED BY <1>2, <2>2, <2>3 DEF TakeAction
<1>3. CASE MarkRto(u)
  <2>1. user[u].case \in DOMAIN cases /\ cases' = SetCase(user[u].case, "resolved_rto")
    BY <1>3, <1>t DEF MarkRto
  <2> QED BY <1>t, <2>1, StatusSet DEF Reopened, Resolved
<1>4. CASE UpdateRto(u)
  <2>1. cases' = [j \in DOMAIN cases |-> IF j \in OpenCases
                    THEN [cases[j] EXCEPT !.status = "resolved_rto"] ELSE cases[j]]
    BY <1>1, <1>4 DEF UpdateRto
  <2>2. i \notin OpenCases
    BY DEF Reopened, OpenCases, Resolved
  <2> QED BY <2>1, <2>2 DEF Reopened
<1>5. CASE AbandonRequest(u) \/ (\E j \in DOMAIN cases, action \in {"reattempt", "mark_rto"} : BeginAction(u, j, action))
           \/ (\E next \in Updates : BeginRtoUpdate(u, next))
  BY <1>1, <1>5 DEF AbandonRequest, BeginAction, BeginRtoUpdate, caseVars
<1> QED BY <1>2, <1>3, <1>4, <1>5 DEF UserStep

THEOREM ResolvedCasesStay == Spec => ResolvedStaysResolved
<1>1. IInv /\ [Next]_vars =>
        [\A i \in DOMAIN cases :
           cases[i].status \in Resolved /\ cases'[i].status \notin Resolved =>
             \E u \in Users : user[u].does = "reattempt" /\ user[u].case = i /\ user'[u] = NoRequest]_vars
  <2> SUFFICES ASSUME IInv, Next, NEW i \in DOMAIN cases, Reopened(i)
               PROVE  \E u \in Users : user[u].does = "reattempt" /\ user[u].case = i /\ user'[u] = NoRequest
    BY DEF Reopened
  <2>1. CASE OnlyTracking
    BY <2>1 DEF OnlyTracking, caseVars, Reopened
  <2> QED BY <2>1, JobsKeepResolved, SellersKeepResolved DEF Next
<1> QED BY <1>1, Inductive, PTL DEF Spec, ResolvedStaysResolved

(* StatusChangesExplained: a legal transition, a return on record, or a scan *)
(* that read the status before it was changed.                               *)
THEOREM StatusChanges == Spec => StatusChangesExplained
<1>1. IInv /\ [Next]_vars =>
        [status' # status =>
           \/ status' \in NextStatuses(status)
           \/ status' = "cancelled" /\ rto' # "none"
           \/ \E d \in Deliveries :
                hook[d] = "ingesting" /\ hook'[d] = "committed" /\ scan[d].saw # status]_vars
  <2> SUFFICES ASSUME IInv, Next, status' # status
               PROVE  \/ status' \in NextStatuses(status)
                      \/ status' = "cancelled" /\ rto' # "none"
                      \/ \E d \in Deliveries :
                           hook[d] = "ingesting" /\ hook'[d] = "committed" /\ scan[d].saw # status
    OBVIOUS
  <2>1. ASSUME NEW d \in Deliveries, ReceiveWebhook(d) \/ ScanStep(d) \/ SwallowError(d) \/ InterruptScan(d)
        PROVE  \/ status' \in NextStatuses(status)
               \/ hook[d] = "ingesting" /\ hook'[d] = "committed" /\ scan[d].saw # status
    <3>1. CommitScan(d)
      BY <2>1 DEF ReceiveWebhook, ScanStep, StoreScan, RefuseDuplicate, MarkProcessed, SwallowError,
                  InterruptScan, InterruptIngest, InterruptCommitted
    <3>2. status' \in NextStatuses(scan[d].saw)
      BY <3>1 DEF CommitScan
    <3>3. hook[d] = "ingesting" /\ hook'[d] = "committed"
      BY <3>1 DEF CommitScan, HookTo, IInv, PipelineTypes
    <3> QED BY <3>2, <3>3
  <2>2. ASSUME NEW e \in Events, JobStep(e) \/ InterruptJob(e)
        PROVE  status' = "cancelled" /\ rto' # "none"
    <3>1. AutoReturn(e) \/ CourierReturn(e)
      BY <2>2 DEF JobStep, ReadEvent, LookUp, OpenCase, NextAttempt, ResolveDelivered, RefuseReturn,
                  InterruptJob, RetryJob
    <3> QED BY <3>1, SMTT(30) DEF AutoReturn, CourierReturn, CancelShipment, RtoStatus
  <2>3. ASSUME NEW u \in Users, UserStep(u)
        PROVE  status' = "cancelled" /\ rto' # "none"
    <3>1. MarkRto(u) \/ UpdateRto(u)
      BY <2>3 DEF UserStep, BeginAction, TakeAction, BeginRtoUpdate, AbandonRequest, trackVars
    <3> QED BY <3>1 DEF MarkRto, UpdateRto, CancelShipment, RtoStatus
  <2> QED BY <2>1, <2>2, <2>3 DEF Next, TNext
<1> QED BY <1>1, Inductive, PTL DEF Spec, StatusChangesExplained

-----------------------------------------------------------------------------
(* Numbers added up as a set of pairs, which is how AttemptsOnRecord counts. *)
Column(i, low, high) == {<<i, k>> : k \in low..high}
Pairs(s) == UNION {Column(i, 1, s[i]) : i \in DOMAIN s}

LEMMA Segment ==
  ASSUME NEW i, NEW a \in Nat, NEW d \in Nat
  PROVE  /\ IsFiniteSet(Column(i, a + 1, a + d))
         /\ Cardinality(Column(i, a + 1, a + d)) = d
<1> DEFINE S == Column(i, a + 1, a + d)
           g == [k \in (a + 1)..(a + d) |-> <<i, k>>]
<1>1. g \in Bijection((a + 1)..(a + d), S)
  BY DEF Bijection, Injection, Surjection, IsInjective, Column
<1>2. IsFiniteSet((a + 1)..(a + d)) /\ Cardinality((a + 1)..(a + d)) = d
  BY FS_Interval
<1>3. ExistsBijection((a + 1)..(a + d), S)
  BY <1>1 DEF ExistsBijection
<1> QED BY <1>2, <1>3, FS_Bijection

LEMMA PairsFinite ==
  ASSUME NEW n \in Nat, NEW s \in [1..n -> Nat]
  PROVE  IsFiniteSet(Pairs(s)) /\ Cardinality(Pairs(s)) \in Nat
<1> DEFINE P == {Column(i, 1, s[i]) : i \in 1..n}
           g == [i \in 1..n |-> Column(i, 1, s[i])]
<1>1. g \in Surjection(1..n, P)
  <2>1. \A i \in 1..n : g[i] \in P
    OBVIOUS
  <2>2. \A T \in P : \E i \in 1..n : g[i] = T
    OBVIOUS
  <2>3. g \in [1..n -> P]
    BY <2>1
  <2> QED BY <2>2, <2>3 DEF Surjection
<1>2. IsFiniteSet(1..n)
  BY FS_Interval
<1>3. IsFiniteSet(P)
  BY <1>1, <1>2, FS_Surjection
<1>4. ASSUME NEW i \in 1..n PROVE IsFiniteSet(Column(i, 1, s[i]))
  <2>1. s[i] \in Nat /\ 0 + 1 = 1 /\ 0 + s[i] = s[i]
    OBVIOUS
  <2> QED BY <2>1, Segment, ZenonT(60)
<1>5. \A T \in P : IsFiniteSet(T)
  BY <1>4
<1>6. Pairs(s) = UNION P
  BY DEF Pairs
<1> HIDE DEF P
<1> QED BY <1>3, <1>5, <1>6, FS_UNION, FS_CardinalityType

LEMMA PairsMember ==
  ASSUME NEW n \in Nat, NEW s \in [1..n -> Nat]
  PROVE  \A p : p \in Pairs(s) <=> \E i \in 1..n : \E k \in Nat \ {0} : k <= s[i] /\ p = <<i, k>>
BY DEF Pairs, Column

(* One of n numbers grows by d. *)
Grows(n, s, t, i, d) == t[i] = s[i] + d /\ \A j \in 1..n : j # i => t[j] = s[j]

LEMMA PairsGrow ==
  ASSUME NEW n \in Nat, NEW s \in [1..n -> Nat], NEW t \in [1..n -> Nat], NEW i \in 1..n, NEW d \in Nat,
         Grows(n, s, t, i, d)
  PROVE  Cardinality(Pairs(t)) = Cardinality(Pairs(s)) + d
<1> USE DEF Grows
<1>0. PICK a \in Nat : a = s[i]
  OBVIOUS
<1> DEFINE X == Column(i, a + 1, a + d)
<1>1. IsFiniteSet(X) /\ Cardinality(X) = d
  BY Segment
<1>2. Pairs(t) = Pairs(s) \cup X
  <2>1. ASSUME NEW p \in Pairs(t) PROVE p \in Pairs(s) \cup X
    <3>1. PICK j \in 1..n, k \in Nat \ {0} : k <= t[j] /\ p = <<j, k>>
      BY PairsMember, SMTT(30)
    <3>2. CASE j = i /\ k > s[i]
      <4>1. k \in (a + 1)..(a + d)
        BY <1>0, <3>1, <3>2
      <4> QED BY <3>1, <3>2, <4>1 DEF Column
    <3>3. CASE j # i \/ k <= s[i]
      <4>1. k <= s[j]
        BY <3>1, <3>3
      <4> QED BY <3>1, <4>1, PairsMember
    <3> QED BY <3>2, <3>3
  <2>2. ASSUME NEW p \in Pairs(s) PROVE p \in Pairs(t)
    <3>1. PICK j \in 1..n, k \in Nat \ {0} : k <= s[j] /\ p = <<j, k>>
      BY PairsMember, SMTT(30)
    <3>2. k <= t[j]
      BY <3>1, SMTT(30)
    <3> QED BY <3>1, <3>2, PairsMember
  <2>3. ASSUME NEW p \in X PROVE p \in Pairs(t)
    <3>1. PICK k \in (a + 1)..(a + d) : p = <<i, k>>
      BY <2>3 DEF Column
    <3>2. k \in Nat \ {0} /\ k <= t[i]
      BY <1>0, <3>1
    <3> QED BY <3>1, <3>2, PairsMember
  <2> QED BY <2>1, <2>2, <2>3
<1>3. Pairs(s) \cap X = {}
  <2>1. ASSUME NEW p \in Pairs(s) PROVE p \notin X
    <3>1. PICK j \in 1..n, k \in Nat \ {0} : k <= s[j] /\ p = <<j, k>>
      BY PairsMember, SMTT(30)
    <3>2. ASSUME NEW m \in (a + 1)..(a + d) PROVE p # <<i, m>>
      BY <1>0, <3>1
    <3> QED BY <3>2 DEF Column
  <2> QED BY <2>1
<1>4. IsFiniteSet(Pairs(s)) /\ Cardinality(Pairs(s)) \in Nat
  BY PairsFinite
<1> HIDE DEF X
<1>5. Cardinality(Pairs(s) \cup X) = Cardinality(Pairs(s)) + Cardinality(X) - Cardinality({})
  BY <1>1, <1>3, <1>4, FS_Union
<1> QED BY <1>1, <1>2, <1>4, <1>5, FS_EmptySet

(* A number is added. *)
LEMMA PairsAppend ==
  ASSUME NEW n \in Nat, NEW s \in [1..n -> Nat], NEW t \in [1..(n + 1) -> Nat],
         t[n + 1] = 1, \A j \in 1..n : t[j] = s[j]
  PROVE  Cardinality(Pairs(t)) = Cardinality(Pairs(s)) + 1
<1>1. <<n + 1, 1>> \notin Pairs(s)
  BY PairsMember
<1>2. n + 1 \in Nat /\ n + 1 \in 1..(n + 1) /\ 1..(n + 1) = 1..n \cup {n + 1}
  OBVIOUS
<1>3. Pairs(t) = Pairs(s) \cup {<<n + 1, 1>>}
  <2>1. ASSUME NEW p \in Pairs(t) PROVE p \in Pairs(s) \cup {<<n + 1, 1>>}
    <3>1. PICK j \in 1..(n + 1), k \in Nat \ {0} : k <= t[j] /\ p = <<j, k>>
      BY <1>2, PairsMember
    <3>2. CASE j = n + 1
      BY <3>1, <3>2
    <3>3. CASE j \in 1..n
      BY <3>1, <3>3, PairsMember
    <3> QED BY <1>2, <3>2, <3>3
  <2>2. ASSUME NEW p \in Pairs(s) PROVE p \in Pairs(t)
    <3>1. PICK j \in 1..n, k \in Nat \ {0} : k <= s[j] /\ p = <<j, k>>
      BY PairsMember
    <3>2. j \in 1..(n + 1) /\ k <= t[j]
      BY <3>1
    <3> QED BY <1>2, <3>1, <3>2, PairsMember
  <2>3. <<n + 1, 1>> \in Pairs(t)
    BY <1>2, PairsMember
  <2> QED BY <2>1, <2>2, <2>3
<1>4. IsFiniteSet(Pairs(s))
  BY PairsFinite
<1> QED BY <1>1, <1>3, <1>4, FS_AddElement

LEMMA PairsMonotone ==
  ASSUME NEW n \in Nat, NEW s \in [1..n -> Nat], NEW t \in [1..n -> Nat],
         \A i \in 1..n : s[i] <= t[i]
  PROVE  Cardinality(Pairs(s)) <= Cardinality(Pairs(t))
<1>1. Pairs(s) \in SUBSET Pairs(t)
  <2> SUFFICES ASSUME NEW p \in Pairs(s) PROVE p \in Pairs(t)
    OBVIOUS
  <2>1. PICK i \in 1..n, k \in Nat \ {0} : k <= s[i] /\ p = <<i, k>>
    BY PairsMember
  <2>2. s[i] \in Nat /\ t[i] \in Nat /\ s[i] <= t[i] /\ k <= t[i]
    BY <2>1
  <2> QED BY <2>1, <2>2, PairsMember
<1> QED BY <1>1, PairsFinite, FS_Subset

-----------------------------------------------------------------------------
(* AttemptsLostOnlyToOverlap, case by case.  What an open job read may be more or  *)
(* less than its case shows now, for others may have set the case back; so each    *)
(* case has a number (Low) that neither the row nor what a job of it will write    *)
(* goes below, and one (High) that neither goes beyond.                            *)
Low(f) ==
  /\ f \in [1..Len(cases) -> Nat]
  /\ \A i \in 1..Len(cases) : f[i] <= cases[i].attempt
  /\ \A e \in Looking : job[e].case # 0 => f[job[e].case] <= job[e].attempt + job[e].behind
  /\ counted <= Cardinality(Pairs(f)) + overlaps

High(f) ==
  /\ f \in [1..Len(cases) -> Nat]
  /\ \A i \in 1..Len(cases) : cases[i].attempt <= f[i]
  /\ \A e \in Looking : job[e].case # 0 => job[e].attempt <= f[job[e].case]
  /\ Cardinality(Pairs(f)) <= counted

Bracketed == (\E f : Low(f)) /\ (\E f : High(f))

LEMMA InitBracketed == Init => Bracketed
<1> SUFFICES ASSUME Init PROVE Bracketed
  OBVIOUS
<1>1. Len(cases) = 0 /\ counted = 0 /\ overlaps = 0 /\ Looking = {}
  BY DEF Init, TInit, Looking
<1>2. PICK f : f = [i \in 1..0 |-> 0]
  OBVIOUS
<1>3. f \in [1..0 -> Nat] /\ 1..0 = {}
  BY <1>2
<1>4. Pairs(f) = {}
  BY <1>3 DEF Pairs
<1>5. Cardinality(Pairs(f)) = 0
  BY <1>4, FS_EmptySet
<1>6. Low(f)
  BY <1>1, <1>3, <1>5 DEF Low
<1>7. High(f)
  BY <1>1, <1>3, <1>5 DEF High
<1> QED BY <1>6, <1>7 DEF Bracketed

(* Attempts stay as they are: a job that looks up a case now reads its attempts. *)
LEMMA BracketsStay ==
  ASSUME Bracketed, Len(cases) \in Nat, Len(cases') = Len(cases), UNCHANGED countVars,
         \A i \in 1..Len(cases) : cases[i].attempt \in Nat /\ cases'[i].attempt = cases[i].attempt,
         \A e \in Events : job[e].behind \in Nat /\ job[e].attempt \in Nat,
         \A e \in Looking : job[e].case \in 0..Len(cases),
         \A e \in Looking' :
           \/ /\ e \in Looking
              /\ job'[e].case = job[e].case /\ job'[e].attempt = job[e].attempt
              /\ job'[e].behind = job[e].behind
           \/ job'[e].case = 0
           \/ /\ job'[e].case \in 1..Len(cases) /\ job'[e].behind \in Nat
              /\ job'[e].attempt = cases[job'[e].case].attempt
  PROVE  Bracketed'
<1>1. ASSUME NEW f, Low(f) PROVE Low(f)'
  <2>1. ASSUME NEW e \in Looking', job'[e].case # 0
        PROVE  f[job'[e].case] <= job'[e].attempt + job'[e].behind
    <3>1. CASE /\ e \in Looking /\ job'[e].case = job[e].case /\ job'[e].attempt = job[e].attempt
               /\ job'[e].behind = job[e].behind
      BY <1>1, <2>1, <3>1 DEF Low
    <3>2. CASE /\ job'[e].case \in 1..Len(cases) /\ job'[e].behind \in Nat
               /\ job'[e].attempt = cases[job'[e].case].attempt
      BY <1>1, <3>2 DEF Low
    <3> QED BY <2>1, <3>1, <3>2
  <2> QED BY <1>1, <2>1 DEF Low, countVars
<1>2. ASSUME NEW f, High(f) PROVE High(f)'
  <2>1. ASSUME NEW e \in Looking', job'[e].case # 0
        PROVE  job'[e].attempt <= f[job'[e].case]
    BY <1>2, <2>1 DEF High
  <2> QED BY <1>2, <2>1 DEF High, countVars
<1> QED BY <1>1, <1>2 DEF Bracketed

(* What a job leaves when it commits: the others are behind by one more. *)
LEMMA OthersBehind ==
  ASSUME IInv, NEW e \in Looking, CommitJob(e)
  PROVE  /\ counted' = counted + 1 /\ overlaps' = overlaps + job[e].behind
         /\ \A o \in Looking' :
              /\ o \in Looking /\ o # e
              /\ job'[o].case = job[o].case /\ job'[o].attempt = job[o].attempt
              /\ job'[o].behind = job[o].behind + 1
         /\ \A o \in Looking : /\ job[o].case \in 0..Len(cases) /\ job[o].attempt \in Nat
                               /\ job[o].behind \in Nat
<1>t. detect \in [Events -> JobStage] /\ job \in [Events -> Job(Len(cases))]
  BY DEF IInv, CaseTypes
<1>1. counted' = counted + 1 /\ overlaps' = overlaps + job[e].behind
  BY DEF CommitJob
<1>2. \A o \in Looking : job[o] \in Job(Len(cases)) /\ job[o].case \in 0..Len(cases)
                         /\ job[o].attempt \in Nat /\ job[o].behind \in Nat
  BY <1>t DEF Looking, Job
<1>3. ASSUME NEW o \in Looking'
      PROVE  /\ o \in Looking /\ o # e
             /\ job'[o].case = job[o].case /\ job'[o].attempt = job[o].attempt
             /\ job'[o].behind = job[o].behind + 1
  <2>1. o \in Looking /\ o # e
    BY <1>t DEF CommitJob, JobTo, Looking
  <2>2. PICK x \in Job(Len(cases)) : x = job[o]
    BY <1>2, <2>1
  <2>3. job'[o] = [x EXCEPT !.behind = @ + 1]
    BY <2>1, <2>2 DEF CommitJob, Looking
  <2> QED BY <2>1, <2>2, <2>3 DEF Job
<1> QED BY <1>1, <1>2, <1>3

(* Where the lower bound x of a case goes when r + 1 is written, b behind. *)
LowersTo(x, r, b, m) ==
  /\ m <= r + 1 /\ m <= x + 1
  /\ b = 0 => m = x + 1
  /\ b # 0 => \E d \in Nat : x = m + d /\ d + 1 <= b

LEMMA Lowered ==
  ASSUME NEW x \in Nat, NEW r \in Nat, NEW b \in Nat, x <= r + b
  PROVE  \E m \in Nat : LowersTo(x, r, b, m)
<1> USE DEF LowersTo
<1>1. CASE x + 1 >= b /\ b # 0
  <2>1. x + 1 - b \in Nat /\ b - 1 \in Nat
    BY <1>1
  <2>2. x = (x + 1 - b) + (b - 1) /\ (b - 1) + 1 <= b
    OBVIOUS
  <2>3. x + 1 - b <= r + 1 /\ x + 1 - b <= x + 1
    OBVIOUS
  <2> QED BY <1>1, <2>1, <2>2, <2>3
<1>2. CASE b = 0
  <2>1. x + 1 \in Nat /\ x + 1 <= r + 1 /\ x + 1 <= x + 1
    BY <1>2
  <2> QED BY <1>2, <2>1
<1>3. CASE x + 1 < b
  <2>1. 0 \in Nat /\ 0 <= r + 1 /\ 0 <= x + 1 /\ b # 0 /\ x = 0 + x /\ x + 1 <= b
    BY <1>3
  <2> QED BY <2>1
<1> QED BY <1>1, <1>2, <1>3

LEMMA PairsLowered ==
  ASSUME NEW n \in Nat, NEW f \in [1..n -> Nat], NEW g \in [1..n -> Nat], NEW i \in 1..n,
         NEW r \in Nat, NEW b \in Nat, LowersTo(f[i], r, b, g[i]),
         \A j \in 1..n : j # i => g[j] = f[j]
  PROVE  Cardinality(Pairs(f)) + 1 <= Cardinality(Pairs(g)) + b
<1>1. Cardinality(Pairs(f)) \in Nat /\ Cardinality(Pairs(g)) \in Nat
  BY PairsFinite
<1>2. CASE b = 0
  <2>1. Grows(n, f, g, i, 1)
    BY <1>2 DEF LowersTo, Grows
  <2>2. Cardinality(Pairs(g)) = Cardinality(Pairs(f)) + 1
    <3>1. 1 \in Nat
      OBVIOUS
    <3> QED BY <2>1, <3>1, PairsGrow, ZenonT(60)
  <2> QED BY <1>1, <1>2, <2>2
<1>3. CASE b # 0
  <2>1. PICK d \in Nat : f[i] = g[i] + d /\ d + 1 <= b
    BY <1>3 DEF LowersTo
  <2>2. Grows(n, g, f, i, d)
    BY <2>1 DEF Grows
  <2>3. Cardinality(Pairs(f)) = Cardinality(Pairs(g)) + d
    BY <2>1, <2>2, PairsGrow, ZenonT(60)
  <2> QED BY <1>1, <2>1, <2>3
<1> QED BY <1>2, <1>3

(* A job writes what it read plus one: its case is lower by what was committed  *)
(* since, which overlaps counts, and higher by one at most.                    *)
LEMMA BracketsMove ==
  ASSUME IInv, Bracketed, NEW e \in Looking, CommitJob(e), job[e].case # 0,
         Len(cases') = Len(cases),
         \A i \in 1..Len(cases) : cases'[i].attempt =
           IF i = job[e].case THEN job[e].attempt + 1 ELSE cases[i].attempt
  PROVE  Bracketed'
<1>1. PICK n \in Nat : n = Len(cases)
  BY Rows DEF IInv, CaseTypes
<1>2. \A i \in 1..n : cases[i].attempt \in Nat
  BY <1>1, Rows DEF IInv, CaseTypes, Case
<1>3. /\ counted' = counted + 1 /\ overlaps' = overlaps + job[e].behind
      /\ counted \in Nat /\ overlaps \in Nat /\ job[e].behind \in Nat
      /\ job[e].attempt \in Nat /\ job[e].case \in 0..n
  BY <1>1, OthersBehind DEF IInv, CaseTypes
<1>o. ASSUME NEW o \in Looking', job'[o].case # 0
      PROVE  /\ o \in Looking /\ job[o].case \in 1..n
             /\ job[o].attempt \in Nat /\ job[o].behind \in Nat
             /\ job'[o].case = job[o].case /\ job'[o].attempt = job[o].attempt
             /\ job'[o].behind = job[o].behind + 1
  BY <1>1, <1>o, OthersBehind
<1>4. PICK i \in 1..n, r \in Nat, b \in Nat : i = job[e].case /\ r = job[e].attempt /\ b = job[e].behind
  <2>1. job[e].case \in 1..n
    BY <1>3
  <2> QED BY <1>3, <2>1
<1>5. \E g : Low(g)'
  <2>1. PICK f \in [1..n -> Nat] : Low(f)
    BY <1>1 DEF Bracketed, Low
  <2>2. PICK y \in Nat : y = f[i] /\ y <= r + b
    <3>1. f[i] \in Nat /\ f[i] <= r + b
      BY <1>4, <2>1 DEF Low
    <3> QED BY <3>1
  <2>3. PICK m \in Nat : LowersTo(y, r, b, m)
    BY <2>2, Lowered
  <2>4. PICK g \in [1..n -> Nat] : g[i] = m /\ \A j \in 1..n : j # i => g[j] = f[j]
    <3>1. [f EXCEPT ![i] = m] \in [1..n -> Nat]
      OBVIOUS
    <3> QED BY <3>1
  <2>5. g[i] \in Nat /\ g[i] <= r + 1 /\ \A j \in 1..n : g[j] \in Nat /\ f[j] \in Nat /\ g[j] <= f[j] + 1
    <3>1. g[i] <= r + 1 /\ g[i] <= f[i] + 1
      BY <2>2, <2>3, <2>4 DEF LowersTo
    <3>2. ASSUME NEW j \in 1..n PROVE g[j] \in Nat /\ f[j] \in Nat /\ g[j] <= f[j] + 1
      <4>1. g[j] \in Nat /\ f[j] \in Nat
        OBVIOUS
      <4>2. CASE j = i
        BY <3>1, <4>1, <4>2
      <4>3. CASE j # i
        <5>1. g[j] = f[j]
          BY <2>4, <4>3
        <5> QED BY <4>1, <5>1
      <4> QED BY <4>2, <4>3
    <3> QED BY <3>1, <3>2
  <2>6. Cardinality(Pairs(f)) \in Nat /\ Cardinality(Pairs(g)) \in Nat
    BY PairsFinite
  <2>7. Cardinality(Pairs(f)) + 1 <= Cardinality(Pairs(g)) + b
    <3>1. LowersTo(f[i], r, b, g[i])
      BY <2>2, <2>3, <2>4
    <3> QED BY <2>4, <3>1, PairsLowered, ZenonT(60)
  <2>8. counted' <= Cardinality(Pairs(g)) + overlaps'
    <3>1. counted <= Cardinality(Pairs(f)) + overlaps
      BY <2>1 DEF Low
    <3>2. counted' = counted + 1 /\ overlaps' = overlaps + b /\ counted \in Nat /\ overlaps \in Nat
      BY <1>3, <1>4
    <3> QED BY <3>1, <3>2, <2>6, <2>7
  <2>9. \A j \in 1..n : g[j] <= cases'[j].attempt
    BY <1>1, <1>2, <1>4, <2>1, <2>4, <2>5 DEF Low
  <2>10. ASSUME NEW o \in Looking', job'[o].case # 0
         PROVE  g[job'[o].case] <= job'[o].attempt + job'[o].behind
    <3>0. /\ o \in Looking /\ job[o].case \in 1..n
          /\ job[o].attempt \in Nat /\ job[o].behind \in Nat
          /\ job'[o].case = job[o].case /\ job'[o].attempt = job[o].attempt
          /\ job'[o].behind = job[o].behind + 1
      BY <1>o, <2>10, Zenon
    <3>1. PICK j \in 1..n, a \in Nat, x \in Nat :
            /\ o \in Looking /\ job[o].case = j /\ job[o].attempt = a /\ job[o].behind = x
            /\ job'[o].case = j /\ job'[o].attempt = a /\ job'[o].behind = x + 1
      BY <3>0
    <3>2. j # 0 /\ f[j] \in Nat
      BY <1>1, <2>1, <3>1
    <3>3. f[job[o].case] <= job[o].attempt + job[o].behind
      BY <2>1, <3>1, <3>2 DEF Low
    <3>4. f[j] <= a + x
      BY <3>1, <3>3
    <3>5. g[j] <= f[j] + 1 /\ g[j] \in Nat
      BY <2>5
    <3> QED BY <3>1, <3>2, <3>4, <3>5
  <2>11. g \in [1..Len(cases') -> Nat] /\ Len(cases') = n
    BY <1>1
  <2> QED BY <2>8, <2>9, <2>10, <2>11 DEF Low
<1>6. \E g : High(g)'
  <2>1. PICK f \in [1..n -> Nat] : High(f)
    BY <1>1 DEF Bracketed, High
  <2>2. f[i] \in Nat /\ f[i] + 1 \in Nat /\ r <= f[i]
    BY <1>4, <2>1 DEF High
  <2>3. PICK g \in [1..n -> Nat] : g = [f EXCEPT ![i] = f[i] + 1]
    BY <2>2
  <2>4. g[i] = f[i] + 1 /\ \A j \in 1..n : j # i => g[j] = f[j]
    BY <2>3
  <2>5. Cardinality(Pairs(g)) = Cardinality(Pairs(f)) + 1
    <3>1. Grows(n, f, g, i, 1)
      BY <2>4 DEF Grows
    <3>2. 1 \in Nat
      OBVIOUS
    <3> QED BY <3>1, <3>2, PairsGrow, ZenonT(60)
  <2>6. Cardinality(Pairs(g)) <= counted'
    <3>1. Cardinality(Pairs(f)) <= counted /\ Cardinality(Pairs(f)) \in Nat
      BY <2>1, PairsFinite DEF High
    <3> QED BY <3>1, <2>5, <1>3
  <2>7. \A j \in 1..n : cases'[j].attempt <= g[j]
    BY <1>1, <1>2, <1>4, <2>1, <2>2, <2>4, SMTT(30) DEF High
  <2>8. ASSUME NEW o \in Looking', job'[o].case # 0
        PROVE  job'[o].attempt <= g[job'[o].case]
    <3>0. /\ o \in Looking /\ job[o].case \in 1..n
          /\ job[o].attempt \in Nat /\ job[o].behind \in Nat
          /\ job'[o].case = job[o].case /\ job'[o].attempt = job[o].attempt
          /\ job'[o].behind = job[o].behind + 1
      BY <1>o, <2>8, Zenon
    <3>1. PICK j \in 1..n, a \in Nat :
            /\ o \in Looking /\ job[o].case = j /\ job[o].attempt = a
            /\ job'[o].case = j /\ job'[o].attempt = a
      BY <3>0
    <3>2. a <= f[j] /\ f[j] \in Nat
      BY <2>1, <3>1, SMTT(30) DEF High
    <3>3. f[j] <= g[j] /\ g[j] \in Nat
      BY <3>2, <2>2, <2>4, SMTT(30)
    <3> QED BY <3>1, <3>2, <3>3
  <2>9. g \in [1..Len(cases') -> Nat] /\ Len(cases') = n
    BY <1>1
  <2> QED BY <2>6, <2>7, <2>8, <2>9 DEF High
<1> QED BY <1>5, <1>6 DEF Bracketed

(* A new case starts at the one attempt that is counted for it. *)
OneCaseMore ==
  /\ Len(cases') = Len(cases) + 1
  /\ \A i \in 1..Len(cases) : cases'[i].attempt = cases[i].attempt
  /\ cases'[Len(cases) + 1].attempt = 1

LEMMA BracketsAppend ==
  ASSUME IInv, Bracketed, NEW e \in Looking, CommitJob(e), OneCaseMore
  PROVE  Bracketed'
<1>1. PICK n \in Nat : n = Len(cases)
  BY Rows DEF IInv, CaseTypes
<1>2. n + 1 \in Nat /\ 1..(n + 1) = 1..n \cup {n + 1} /\ n + 1 \notin 1..n
  OBVIOUS
<1>3. /\ counted' = counted + 1 /\ overlaps' = overlaps + job[e].behind
      /\ counted \in Nat /\ overlaps \in Nat /\ job[e].behind \in Nat
  BY OthersBehind DEF IInv, CaseTypes
<1>o. ASSUME NEW o \in Looking', job'[o].case # 0
      PROVE  /\ o \in Looking /\ job[o].case \in 1..n
             /\ job[o].attempt \in Nat /\ job[o].behind \in Nat
             /\ job'[o].case = job[o].case /\ job'[o].attempt = job[o].attempt
             /\ job'[o].behind = job[o].behind + 1
  BY <1>1, <1>o, OthersBehind
<1>4. ASSUME NEW f \in [1..n -> Nat]
      PROVE  \E g \in [1..(n + 1) -> Nat] :
               /\ g[n + 1] = 1 /\ \A j \in 1..n : g[j] = f[j]
               /\ Cardinality(Pairs(g)) = Cardinality(Pairs(f)) + 1
               /\ Cardinality(Pairs(f)) \in Nat
  <2>1. PICK g : g = [j \in 1..(n + 1) |-> IF j = n + 1 THEN 1 ELSE f[j]]
    OBVIOUS
  <2>2. g \in [1..(n + 1) -> Nat] /\ g[n + 1] = 1 /\ \A j \in 1..n : g[j] = f[j]
    BY <1>2, <2>1
  <2>3. Cardinality(Pairs(g)) = Cardinality(Pairs(f)) + 1
    BY <2>2, PairsAppend
  <2> QED BY <2>2, <2>3, PairsFinite
<1>5. \E g : Low(g)'
  <2>1. PICK f \in [1..n -> Nat] : Low(f)
    BY <1>1 DEF Bracketed, Low
  <2>2. PICK g \in [1..(n + 1) -> Nat] :
          /\ g[n + 1] = 1 /\ \A j \in 1..n : g[j] = f[j]
          /\ Cardinality(Pairs(g)) = Cardinality(Pairs(f)) + 1
          /\ Cardinality(Pairs(f)) \in Nat
    BY <1>4
  <2>3. counted' <= Cardinality(Pairs(g)) + overlaps'
    <3>1. counted <= Cardinality(Pairs(f)) + overlaps
      BY <2>1 DEF Low
    <3> QED BY <3>1, <2>2, <1>3, SMTT(30)
  <2>4. \A j \in 1..(n + 1) : g[j] <= cases'[j].attempt
    BY <1>1, <1>2, <2>1, <2>2 DEF Low, OneCaseMore
  <2>5. ASSUME NEW o \in Looking', job'[o].case # 0
        PROVE  g[job'[o].case] <= job'[o].attempt + job'[o].behind
    <3>1. PICK j \in 1..n, a \in Nat, x \in Nat :
            /\ o \in Looking /\ job[o].case = j /\ job[o].attempt = a /\ job[o].behind = x
            /\ job'[o].case = j /\ job'[o].attempt = a /\ job'[o].behind = x + 1
      BY <1>o, <2>5
    <3>2. j # 0 /\ f[j] \in Nat
      BY <1>1, <2>1, <3>1
    <3>3. f[job[o].case] <= job[o].attempt + job[o].behind
      BY <2>1, <3>1, <3>2 DEF Low
    <3>4. f[j] <= a + x
      BY <3>1, <3>3
    <3> QED BY <2>2, <3>1, <3>2, <3>4
  <2>6. g \in [1..Len(cases') -> Nat] /\ Len(cases') = n + 1
    BY <1>1 DEF OneCaseMore
  <2> QED BY <2>3, <2>4, <2>5, <2>6 DEF Low
<1>6. \E g : High(g)'
  <2>1. PICK f \in [1..n -> Nat] : High(f)
    BY <1>1 DEF Bracketed, High
  <2>2. PICK g \in [1..(n + 1) -> Nat] :
          /\ g[n + 1] = 1 /\ \A j \in 1..n : g[j] = f[j]
          /\ Cardinality(Pairs(g)) = Cardinality(Pairs(f)) + 1
          /\ Cardinality(Pairs(f)) \in Nat
    BY <1>4
  <2>3. Cardinality(Pairs(g)) <= counted'
    <3>1. Cardinality(Pairs(f)) <= counted
      BY <2>1 DEF High
    <3> QED BY <3>1, <2>2, <1>3, SMTT(30)
  <2>4. \A j \in 1..(n + 1) : cases'[j].attempt <= g[j]
    BY <1>1, <1>2, <2>1, <2>2 DEF High, OneCaseMore
  <2>5. ASSUME NEW o \in Looking', job'[o].case # 0
        PROVE  job'[o].attempt <= g[job'[o].case]
    <3>1. PICK j \in 1..n, a \in Nat :
            /\ o \in Looking /\ job[o].case = j /\ job[o].attempt = a
            /\ job'[o].case = j /\ job'[o].attempt = a
      BY <1>o, <2>5
    <3>2. j # 0 /\ (job[o].case # 0 => job[o].attempt <= f[job[o].case])
      BY <1>1, <2>1, <3>1 DEF High
    <3>3. a <= f[j]
      BY <3>1, <3>2
    <3> QED BY <2>2, <3>1, <3>3
  <2>6. g \in [1..Len(cases') -> Nat] /\ Len(cases') = n + 1
    BY <1>1 DEF OneCaseMore
  <2> QED BY <2>3, <2>4, <2>5, <2>6 DEF High
<1> QED BY <1>5, <1>6, SMTT(30) DEF Bracketed

(* A case whose status is set keeps its attempts. *)
KeepAttempts(s, t) == Len(t) = Len(s) /\ \A j \in 1..Len(s) : t[j].attempt = s[j].attempt

LEMMA StatusKeepsAttempts ==
  ASSUME cases \in Seq(Case), NEW i \in DOMAIN cases, NEW st \in {"open", "action_taken"} \cup Resolved
  PROVE  KeepAttempts(cases, SetCase(i, st))
<1>1. DOMAIN cases = 1..Len(cases)
  BY Rows
<1>2. /\ Len(SetCase(i, st)) = Len(cases)
      /\ \A j \in DOMAIN cases : SetCase(i, st)[j].attempt = cases[j].attempt
  BY StatusSet
<1> QED BY <1>1, <1>2, Zenon DEF KeepAttempts

(* Only the COMMITs of jobs that counted an attempt change what is on record. *)
LEMMA StepBracketed == IInv /\ IInv' /\ Bracketed /\ [Next]_vars => Bracketed'
<1> SUFFICES ASSUME IInv, IInv', Bracketed, [Next]_vars PROVE Bracketed'
  OBVIOUS
<1>t. /\ cases \in Seq(Case) /\ cases' \in Seq(Case)
      /\ detect \in [Events -> JobStage]
      /\ job \in [Events -> Job(Len(cases))] /\ job' \in [Events -> Job(Len(cases'))]
      /\ user \in [Users -> Request(Len(cases))]
  BY DEF IInv, CaseTypes, Job
<1>c. /\ Len(cases) \in Nat /\ DOMAIN cases = 1..Len(cases)
      /\ \A i \in 1..Len(cases) : cases[i] \in Case /\ cases[i].attempt \in Nat
      /\ \A e \in Events : /\ job[e].case \in 0..Len(cases) /\ job[e].attempt \in Nat
                           /\ job[e].behind \in Nat /\ job'[e].behind \in Nat
  <2>1. /\ Len(cases) \in Nat /\ DOMAIN cases = 1..Len(cases)
        /\ \A i \in 1..Len(cases) : cases[i] \in Case
    BY <1>t, Rows
  <2>2. \A e \in Events : job[e] \in Job(Len(cases)) /\ job'[e] \in Job(Len(cases'))
    BY <1>t
  <2> QED BY <2>1, <2>2 DEF Case, Job
<1>l. Looking \subseteq Events
  BY DEF Looking
<1>1. ASSUME Len(cases') = Len(cases), UNCHANGED countVars,
             \A i \in 1..Len(cases) : cases'[i].attempt = cases[i].attempt,
             \A o \in Looking' : o \in Looking /\ job'[o] = job[o]
      PROVE  Bracketed'
  BY <1>1, <1>c, <1>l, BracketsStay
<1>2. ASSUME UNCHANGED <<cases, countVars, detect, job>> PROVE Bracketed'
  BY <1>1, <1>2 DEF Looking
<1>3. CASE OnlyTracking /\ TNext
  <2>1. UNCHANGED <<cases, countVars, job>>
    BY <1>3 DEF OnlyTracking, caseVars
  <2>2. Looking' \subseteq Looking
    <3>1. \/ detect' = detect
          \/ \E d \in Deliveries : detect' = Enqueued(carries[d])
      BY <1>3, Zenon DEF TNext, ReceiveWebhook, ScanStep, StoreScan, RefuseDuplicate, CommitScan,
                         MarkProcessed, SwallowError, InterruptScan, InterruptIngest, InterruptCommitted
    <3> QED BY <3>1, <1>t DEF Looking, Enqueued
  <2> QED BY <1>1, <2>1, <2>2
<1>4. ASSUME NEW u \in Users, UserStep(u) PROVE Bracketed'
  <2>1. detect' = detect /\ job' = job /\ countVars' = countVars
    BY <1>4 DEF UserStep, BeginAction, TakeAction, MarkRto, BeginRtoUpdate, UpdateRto, AbandonRequest, trackVars
  <2>2. Len(cases') = Len(cases) /\ \A i \in 1..Len(cases) : cases'[i].attempt = cases[i].attempt
    <3>1. ASSUME NEW st \in {"open", "action_taken"} \cup Resolved, user[u].case \in DOMAIN cases,
                 cases' = SetCase(user[u].case, st)
          PROVE  Len(cases') = Len(cases) /\ \A i \in 1..Len(cases) : cases'[i].attempt = cases[i].attempt
      <4>1. PICK i \in DOMAIN cases : i = user[u].case
        BY <3>1
      <4>2. KeepAttempts(cases, SetCase(i, st))
        BY <1>t, StatusKeepsAttempts
      <4> QED BY <3>1, <4>1, <4>2 DEF KeepAttempts
    <3>2. user[u].does \in {"reattempt", "mark_rto"} => user[u].case \in DOMAIN cases
      <4>1. user[u].case \in 0..Len(cases)
        BY <1>t DEF Request
      <4> QED BY <4>1, <1>c DEF IInv, ActionHasCase
    <3>3. CASE TakeAction(u)
      BY <3>1, <3>2, <3>3 DEF TakeAction
    <3>4. CASE MarkRto(u)
      BY <3>1, <3>2, <3>4 DEF MarkRto, Resolved
    <3>5. CASE UpdateRto(u) /\ cases' # cases
      <4>1. cases' = [i \in DOMAIN cases |-> IF i \in OpenCases
                        THEN [cases[i] EXCEPT !.status = "resolved_rto"] ELSE cases[i]]
        BY <3>5 DEF UpdateRto
      <4>2. \A i \in 1..Len(cases) : [cases[i] EXCEPT !.status = "resolved_rto"].attempt = cases[i].attempt
        BY <1>c DEF Case
      <4>3. \A i \in 1..Len(cases) : cases'[i].attempt = cases[i].attempt
        BY <4>1, <4>2, <1>c
      <4>4. Len(cases') = Len(cases)
        BY <4>1, <1>c, <1>t
      <4> QED BY <4>3, <4>4
    <3>6. CASE cases' = cases
      BY <3>6
    <3> QED BY <1>4, <3>3, <3>4, <3>5, <3>6
            DEF UserStep, BeginAction, BeginRtoUpdate, AbandonRequest, caseVars
  <2> QED BY <1>1, <2>1, <2>2 DEF Looking
<1>5. ASSUME NEW e \in Events, JobStep(e) \/ InterruptJob(e) PROVE Bracketed'
  <2>1. ASSUME NEW stage \in JobStage \ {"found"}, JobTo(e, stage), UNCHANGED <<cases, countVars>>,
               \A o \in Events \ {e} : job'[o] = job[o]
        PROVE  Bracketed'
    <3>1. \A o \in Looking' : o \in Looking /\ o # e
      BY <2>1, <1>t DEF Looking, JobTo
    <3> QED BY <1>1, <1>l, <2>1, <3>1
  <2>2. CASE ReadEvent(e)
    BY <2>1, <2>2, <1>t DEF ReadEvent, caseVars, JobStage
  <2>3. CASE RefuseReturn(e) \/ InterruptJob(e)
    BY <2>1, <2>3, <1>t DEF RefuseReturn, InterruptJob, RetryJob, caseVars, JobStage
  <2>4. CASE LookUp(e)
    <3>1. PICK i \in (IF OpenCases = {} THEN {0} ELSE OpenCases) :
            job' = [job EXCEPT ![e].case = i,
                               ![e].attempt = IF i = 0 THEN 0 ELSE cases[i].attempt,
                               ![e].rto = rto # "none"]
      BY <2>4 DEF LookUp
    <3>2. i \in 0..Len(cases)
      BY <1>c DEF OpenCases
    <3>3. job'[e].case = i /\ (i # 0 => job'[e].attempt = cases[i].attempt)
      BY <1>t, <3>1 DEF Job
    <3>4. ASSUME NEW o \in Looking'
          PROVE  \/ /\ o \in Looking /\ job'[o].case = job[o].case /\ job'[o].attempt = job[o].attempt
                    /\ job'[o].behind = job[o].behind
                 \/ job'[o].case = 0
                 \/ /\ job'[o].case \in 1..Len(cases) /\ job'[o].behind \in Nat
                    /\ job'[o].attempt = cases[job'[o].case].attempt
      <4>0. o \in Events
        BY DEF Looking
      <4>1. CASE o = e
        BY <1>c, <3>2, <3>3, <4>1
      <4>2. CASE o # e
        <5>1. job'[o] = job[o]
          BY <3>1, <4>0, <4>2, <1>t
        <5>2. o \in Looking
          BY <2>4, <4>0, <4>2, <1>t DEF LookUp, JobTo, Looking
        <5> QED BY <5>1, <5>2
      <4> QED BY <4>1, <4>2
    <3>5. UNCHANGED <<cases, countVars>>
      BY <2>4 DEF LookUp, caseVars
    <3> QED BY <1>c, <1>l, <3>4, <3>5, BracketsStay
  <2>5. CASE OpenCase(e)
    <3>1. e \in Looking /\ CommitJob(e) /\ cases' = Append(cases, [attempt |-> 1, status |-> "open"])
      BY <2>5 DEF OpenCase
    <3>2. [attempt |-> 1, status |-> "open"] \in Case
      BY DEF Case
    <3>3. /\ Len(cases') = Len(cases) + 1
          /\ \A i \in 1..Len(cases) : cases'[i] = cases[i]
          /\ cases'[Len(cases) + 1] = [attempt |-> 1, status |-> "open"]
      BY <1>t, <3>1, <3>2
    <3> QED BY <3>1, <3>3, BracketsAppend DEF OneCaseMore
  <2>6. ASSUME NEW c \in Case, e \in Looking, CommitJob(e), job[e].case # 0,
               cases' = [cases EXCEPT ![job[e].case] = c], c.attempt = job[e].attempt + 1
        PROVE  Bracketed'
    <3>1. job[e].case \in DOMAIN cases
      BY <1>c, <2>6
    <3>2. /\ Len(cases') = Len(cases)
          /\ \A i \in 1..Len(cases) : cases'[i] = IF i = job[e].case THEN c ELSE cases[i]
      BY <1>t, <1>c, <2>6, <3>1, Changed
    <3>3. \A i \in 1..Len(cases) : cases'[i].attempt =
            IF i = job[e].case THEN job[e].attempt + 1 ELSE cases[i].attempt
      BY <2>6, <3>2
    <3> QED BY <2>6, <3>2, <3>3, BracketsMove
  <2>7. CASE NextAttempt(e)
    <3>1. PICK x \in Case : x = cases[job[e].case]
      BY <1>c, <2>7 DEF NextAttempt
    <3>2. PICK c : c = [x EXCEPT !.attempt = job[e].attempt + 1]
      OBVIOUS
    <3>3. c \in Case /\ c.attempt = job[e].attempt + 1
      BY <1>c, <3>2 DEF Case
    <3>4. cases' = [cases EXCEPT ![job[e].case] = c]
      BY <2>7, <3>1, <3>2 DEF NextAttempt
    <3> QED BY <2>6, <2>7, <3>3, <3>4 DEF NextAttempt
  <2>8. CASE AutoReturn(e)
    <3>1. PICK c : c = [attempt |-> job[e].attempt + 1, status |-> "resolved_rto"]
      OBVIOUS
    <3>2. c \in Case /\ c.attempt = job[e].attempt + 1
      BY <1>c, <3>1 DEF Case, Resolved
    <3>3. cases' = [cases EXCEPT ![job[e].case] = c]
      BY <2>8, <3>1 DEF AutoReturn
    <3> QED BY <2>6, <2>8, <3>2, <3>3 DEF AutoReturn, PastThreshold
  <2>9. CASE CourierReturn(e) \/ ResolveDelivered(e)
    <3>1. e \notin Looking /\ CommitJob(e)
      BY <2>9 DEF CourierReturn, ResolveDelivered, Looking, RtoStatus
    <3>2. UNCHANGED countVars
      BY <3>1 DEF CommitJob, countVars
    <3>3. \A o \in Looking' : o \in Looking /\ job'[o] = job[o]
      BY <1>t, <3>1 DEF CommitJob, JobTo, Looking
    <3>4. \/ cases' = cases
          \/ job[e].case # 0 /\ \E st \in Resolved : cases' = SetCase(job[e].case, st)
      BY <2>9 DEF CourierReturn, ResolveDelivered, Resolved
    <3>5. Len(cases') = Len(cases) /\ \A i \in 1..Len(cases) : cases'[i].attempt = cases[i].attempt
      <4>1. CASE cases' = cases
        BY <4>1
      <4>2. ASSUME job[e].case # 0, NEW st \in Resolved, cases' = SetCase(job[e].case, st)
            PROVE  Len(cases') = Len(cases) /\ \A i \in 1..Len(cases) : cases'[i].attempt = cases[i].attempt
        <5>1. job[e].case \in DOMAIN cases /\ st \in {"open", "action_taken"} \cup Resolved
          BY <4>2, <1>c
        <5>2. PICK i \in DOMAIN cases : i = job[e].case
          BY <5>1
        <5>3. KeepAttempts(cases, SetCase(i, st))
          BY <1>t, <5>1, StatusKeepsAttempts
        <5> QED BY <4>2, <5>2, <5>3 DEF KeepAttempts
      <4> QED BY <3>4, <4>1, <4>2
    <3> QED BY <1>1, <3>2, <3>3, <3>5
  <2> QED BY <1>5, <2>2, <2>3, <2>4, <2>5, <2>7, <2>8, <2>9 DEF JobStep
<1>6. CASE UNCHANGED vars
  BY <1>2, <1>6 DEF vars, trackVars, hookVars, caseVars
<1> QED BY <1>3, <1>4, <1>5, <1>6 DEF Next

(* AttemptsLostOnlyToOverlap: a COMMIT counts for one failed attempt, and only what *)
(* others committed since a job looked the case up can be lost.                    *)
THEOREM AttemptsLost == Spec => []AttemptsLostOnlyToOverlap
<1>1. IInv /\ Bracketed => AttemptsLostOnlyToOverlap
  <2> SUFFICES ASSUME IInv, Bracketed PROVE AttemptsLostOnlyToOverlap
    OBVIOUS
  <2>1. PICK n \in Nat : n = Len(cases) /\ DOMAIN cases = 1..n
    BY Rows DEF IInv, CaseTypes
  <2>2. PICK f \in [1..n -> Nat] : Low(f)
    BY <2>1 DEF Bracketed, Low
  <2>3. PICK g \in [1..n -> Nat] : High(g)
    BY <2>1 DEF Bracketed, High
  <2>4. PICK a : a = [i \in 1..n |-> cases[i].attempt]
    OBVIOUS
  <2>5. a \in [1..n -> Nat] /\ \A i \in 1..n : a[i] = cases[i].attempt
    BY <2>1, <2>4, Rows DEF IInv, CaseTypes, Case
  <2>6. AttemptsOnRecord = Cardinality(Pairs(a))
    <3> DEFINE Rec == UNION {{<<i, k>> : k \in 1..cases[i].attempt} : i \in DOMAIN cases}
    <3>1. ASSUME NEW p
          PROVE  p \in Rec <=> \E i \in DOMAIN cases : \E k \in 1..cases[i].attempt : p = <<i, k>>
      OBVIOUS
    <3>2. ASSUME NEW p
          PROVE  p \in Pairs(a) <=> \E i \in DOMAIN a : \E k \in 1..a[i] : p = <<i, k>>
      BY DEF Pairs, Column
    <3>3. DOMAIN a = DOMAIN cases /\ \A i \in DOMAIN cases : a[i] = cases[i].attempt
      BY <2>1, <2>5
    <3>4. AttemptsOnRecord = Cardinality(Rec)
      BY DEF AttemptsOnRecord
    <3> HIDE DEF Rec
    <3>5. \A p : p \in Rec <=> p \in Pairs(a)
      BY <3>1, <3>2, <3>3, Zenon
    <3>6. Rec = Pairs(a)
      BY <3>5
    <3> QED BY <3>4, <3>6
  <2>7. \A i \in 1..n : f[i] <= a[i] /\ a[i] <= g[i]
    BY <2>1, <2>2, <2>3, <2>5 DEF Low, High
  <2>8. Cardinality(Pairs(f)) <= Cardinality(Pairs(a)) /\ Cardinality(Pairs(a)) <= Cardinality(Pairs(g))
    BY <2>5, <2>7, PairsMonotone
  <2>9. /\ Cardinality(Pairs(f)) \in Nat /\ Cardinality(Pairs(a)) \in Nat /\ Cardinality(Pairs(g)) \in Nat
        /\ counted \in Nat /\ overlaps \in Nat
    BY <2>5, PairsFinite DEF IInv, CaseTypes
  <2>10. counted <= Cardinality(Pairs(f)) + overlaps /\ Cardinality(Pairs(g)) <= counted
    BY <2>2, <2>3 DEF Low, High
  <2> QED BY <2>6, <2>8, <2>9, <2>10, SMTT(30) DEF AttemptsLostOnlyToOverlap
<1> QED BY <1>1, Inductive, InitBracketed, StepBracketed, PTL DEF Spec
=============================================================================
