------------------------- MODULE AnalysisWorkerProofs -------------------------
(***************************************************************************)
(* Proofs, for any incidents, limits and numbers of requests and failures,  *)
(* that the invariants of AnalysisWorker hold.                             *)
(***************************************************************************)
EXTENDS AnalysisWorker, TLAPS

Running(i) == job.phase = "running" /\ job.incident = i

(* While a webhook's own request is open, its row is as it was loaded, and   *)
(* its analysis has not begun.                                              *)
OwnRequestIsFresh ==
    txn # NoTransaction /\ txn.own =>
        /\ txn.seen = row[txn.incident]
        /\ ~Running(txn.incident)

(* An analysis that runs answers every request of its incident there was.   *)
OwnRequestWaits == \A i \in Incidents : owed[i] = "own" => ~Running(i)

JobInv ==
    /\ TypeOK
    /\ OneJobPerIncident
    /\ PendingHasRunner
    /\ OwnRequestSurvives
    /\ OwnRequestIsFresh
    /\ OwnRequestWaits

(* A row that can be requeued has a kind, also when the requester or the     *)
(* worker, comparing with what it loaded, does not write the column.        *)
KindRecorded ==
    /\ \A i \in Incidents : row[i].status # "absent" => row[i].kind # None
    /\ txn # NoTransaction /\ txn.seen.kind # None => row[txn.incident].kind # None
    /\ route # NoRoute => row[route.incident].kind # None
    /\ job.phase \in {"loaded", "running"} => row[job.incident].kind # None

IInv == JobInv /\ KindRecorded

-----------------------------------------------------------------------------
(* Appending a job adds one position behind the others.                     *)
LEMMA AppendedJob ==
    ASSUME NEW q \in Seq(Request), NEW r \in Request
    PROVE  /\ Append(q, r) \in Seq(Request)
           /\ DOMAIN q = 1..Len(q) /\ Len(q) \in Nat
           /\ DOMAIN Append(q, r) = 1..(Len(q) + 1)
           /\ \A n \in 1..Len(q) : Append(q, r)[n] = q[n] /\ q[n] \in Request
           /\ Append(q, r)[Len(q) + 1] = r
OBVIOUS

(* Taking the first job moves the others one position up.                   *)
LEMMA TakenJob ==
    ASSUME NEW q \in Seq(Request), q # <<>>
    PROVE  /\ Tail(q) \in Seq(Request)
           /\ DOMAIN q = 1..Len(q) /\ Len(q) \in Nat \ {0}
           /\ Head(q) = q[1] /\ Head(q) \in Request
           /\ DOMAIN Tail(q) = 1..(Len(q) - 1)
           /\ \A n \in 1..(Len(q) - 1) : Tail(q)[n] = q[n + 1]
OBVIOUS

(* What the phase of the job says about its other fields.                   *)
LEMMA JobFields ==
    ASSUME job \in Job, job.phase # "idle"
    PROVE  /\ job.incident \in Incidents /\ job.kind \in Kinds
           /\ job.phase \in {"loaded", "running"} => job.seen \in Row
BY DEF Job

(* What an open transaction knows of its request.                           *)
LEMMA TransactionFields ==
    ASSUME txn \in Transaction, txn # NoTransaction
    PROVE  /\ txn.phase = "flushed" /\ txn.incident \in Incidents /\ txn.kind \in Kinds
           /\ txn.seen \in Row /\ txn.own \in BOOLEAN
BY DEF Transaction, NoTransaction

(* A request adds at most one job, for an incident that had none, or leaves  *)
(* its kind behind the job there is.                                        *)
LEMMA RequestPreserves ==
    ASSUME TypeOK, OneJobPerIncident, PendingHasRunner,
           NEW i \in Incidents, NEW k \in Kinds, RequestAnalysis(i, k)
    PROVE  /\ inflight' \in [Incidents -> Kinds \cup {None}]
           /\ pending' \in [Incidents -> Kinds \cup {None}]
           /\ queue' \in Seq(Request)
           /\ \A m, n \in DOMAIN queue' : queue'[m].incident = queue'[n].incident => m = n
           /\ Queued' \cap Holding = {}
           /\ \A j \in Incidents : inflight'[j] # None <=> j \in Queued' \cup Holding
           /\ PendingHasRunner'
<1> DEFINE r == [incident |-> i, kind |-> k]
<1>1. r \in Request /\ r.incident = i
  BY DEF Request
<1>2. k # None
  BY NoneAssumption
<1>3. CASE inflight[i] # None /\ pending' = [pending EXCEPT ![i] = k] /\ UNCHANGED <<inflight, queue>>
  <2>1. Queued' = Queued
    BY <1>3 DEF Queued
  <2>. QED
    BY <1>3, <2>1 DEF TypeOK, OneJobPerIncident, PendingHasRunner
<1>4. CASE /\ inflight[i] = None
           /\ inflight' = [inflight EXCEPT ![i] = k]
           /\ queue' = Append(queue, r)
           /\ UNCHANGED pending
  <2>1. /\ queue' \in Seq(Request)
        /\ DOMAIN queue = 1..Len(queue) /\ Len(queue) \in Nat
        /\ DOMAIN queue' = 1..(Len(queue) + 1)
        /\ \A n \in 1..Len(queue) : queue'[n] = queue[n]
        /\ queue'[Len(queue) + 1] = r
    BY <1>1, <1>4, AppendedJob DEF TypeOK
  <2>2. Queued' = Queued \cup {i}
    BY <1>1, <2>1 DEF Queued
  <2>3. i \notin Queued /\ i \notin Holding
    BY <1>4 DEF OneJobPerIncident
  <2>4. \A n \in 1..Len(queue) : queue[n].incident # i
    BY <2>1, <2>3 DEF Queued
  <2>5. \A m, n \in DOMAIN queue' : queue'[m].incident = queue'[n].incident => m = n
    BY <1>1, <2>1, <2>4 DEF OneJobPerIncident
  <2>6. \A j \in Incidents : inflight'[j] # None <=> j \in Queued' \cup Holding
    BY <1>2, <1>4, <2>2 DEF OneJobPerIncident, TypeOK
  <2>7. PendingHasRunner'
    BY <1>2, <1>4 DEF PendingHasRunner, TypeOK
  <2>8. inflight' \in [Incidents -> Kinds \cup {None}]
    BY <1>4 DEF TypeOK
  <2>9. pending' \in [Incidents -> Kinds \cup {None}]
    BY <1>4 DEF TypeOK
  <2>10. Queued' \cap Holding = {}
    BY <2>2, <2>3 DEF OneJobPerIncident
  <2>. QED
    BY <2>1, <2>5, <2>6, <2>7, <2>8, <2>9, <2>10
<1>. QED
  BY <1>3, <1>4 DEF RequestAnalysis

(* A job that goes on for the same incident, or a step that leaves memory    *)
(* alone, keeps the jobs apart.                                             *)
LEMMA SameJobsPreserve ==
    ASSUME OneJobPerIncident, PendingHasRunner, UNCHANGED <<inflight, pending, queue>>,
           Holding' = Holding
    PROVE  OneJobPerIncident' /\ PendingHasRunner'
<1>1. Queued' = Queued
  BY DEF Queued
<1>. QED
  BY <1>1 DEF OneJobPerIncident, PendingHasRunner

-----------------------------------------------------------------------------
(* A request, from a webhook or from the route, keeps the invariant.         *)
LEMMA SchedulePreserves ==
    ASSUME JobInv, NEW i \in Incidents, NEW k \in Kinds, NEW seen \in Row, NEW own \in BOOLEAN,
           Schedule(i, k, seen, own), route' \in Route,
           own => seen = row[i] /\ inflight[i] = None
    PROVE  JobInv'
<1>1. RequestAnalysis(i, k)
  BY DEF Schedule
<1>2. TypeOK'
  <2>1. txn' \in Transaction
    BY DEF Schedule, Transaction
  <2>2. requests' \in 0..MaxRequests
    BY BoundsAssumption DEF Schedule, JobInv, TypeOK
  <2>. QED
    BY <1>1, <2>1, <2>2, RequestPreserves DEF Schedule, JobInv, TypeOK
<1>3. OneJobPerIncident' /\ PendingHasRunner'
  <2>1. Holding' = Holding
    BY DEF Schedule, Holding
  <2>2. \A m, n \in DOMAIN queue' : queue'[m].incident = queue'[n].incident => m = n
    BY <1>1, RequestPreserves DEF JobInv
  <2>3. Queued' \cap Holding = {}
    BY <1>1, RequestPreserves DEF JobInv
  <2>4. \A j \in Incidents : inflight'[j] # None <=> j \in Queued' \cup Holding
    BY <1>1, RequestPreserves DEF JobInv
  <2>5. PendingHasRunner'
    BY <1>1, RequestPreserves DEF JobInv
  <2>. QED
    BY <2>1, <2>2, <2>3, <2>4, <2>5 DEF OneJobPerIncident
<1>4. OwnRequestSurvives' /\ OwnRequestWaits'
  BY DEF Schedule, JobInv, OwnRequestSurvives, OwnRequestWaits, Running
<1>5. OwnRequestIsFresh'
  <2>1. own => ~Running(i)
    BY DEF JobInv, OneJobPerIncident, Holding, Running
  <2>. QED
    BY <2>1 DEF Schedule, OwnRequestIsFresh, Running
<1>. QED
  BY <1>2, <1>3, <1>4, <1>5 DEF JobInv

(* So do loading for a request, its commit and its rollback.                *)
LEMMA RequesterPreserves ==
    ASSUME JobInv,
           \/ \E i \in Incidents : (\E k \in Kinds : WebhookSchedules(i, k)) \/ RouteLoads(i)
           \/ RouteSchedules
           \/ RequesterCommits
           \/ RequesterRollsBack
    PROVE  JobInv'
<1>1. ASSUME NEW i \in Incidents, NEW k \in Kinds, WebhookSchedules(i, k)
      PROVE  JobInv'
  <2>1. row[i] \in Row /\ route' \in Route
    BY <1>1 DEF WebhookSchedules, JobInv, TypeOK
  <2>. QED
    BY <1>1, <2>1, SchedulePreserves DEF WebhookSchedules
<1>2. ASSUME NEW i \in Incidents, RouteLoads(i)
      PROVE  JobInv'
  <2>1. TypeOK'
    BY <1>2 DEF RouteLoads, JobInv, TypeOK, Route
  <2>2. OneJobPerIncident' /\ PendingHasRunner'
    BY <1>2, SameJobsPreserve DEF RouteLoads, JobInv, Holding
  <2>3. OwnRequestSurvives' /\ OwnRequestWaits' /\ OwnRequestIsFresh'
    BY <1>2 DEF RouteLoads, JobInv, OwnRequestSurvives, OwnRequestWaits, OwnRequestIsFresh, Running
  <2>. QED
    BY <2>1, <2>2, <2>3 DEF JobInv
<1>3. CASE RouteSchedules
  <2>1. route.incident \in Incidents /\ route.seen \in Row
    BY <1>3 DEF RouteSchedules, JobInv, TypeOK, Route, NoRoute
  <2>2. route' \in Route
    BY <1>3 DEF RouteSchedules, Route, NoRoute
  <2>3. "manual_reanalyze" \in Kinds
    BY DEF Kinds
  <2>. QED
    BY <1>3, <2>1, <2>2, <2>3, SchedulePreserves DEF RouteSchedules
<1>4. CASE RequesterCommits
  <2>1. /\ txn.incident \in Incidents /\ txn.kind \in Kinds
        /\ txn.seen \in Row /\ txn.own \in BOOLEAN
    BY <1>4, TransactionFields DEF RequesterCommits, JobInv, TypeOK
  <2> DEFINE i == txn.incident
             new == Scheduled(row[i], txn.seen, txn.kind)
  <2>2. row' = [row EXCEPT ![i] = new] /\ row[i] \in Row
    BY <1>4, <2>1 DEF RequesterCommits, JobInv, TypeOK
  <2>3. new \in Row
    BY <2>1, <2>2 DEF Scheduled, Row
  <2>4. row[i].status \in Resumable => new.status \in Resumable
    BY DEF Scheduled, Resumable
  <2>5. txn.own => new.status \in Resumable /\ ~Running(i)
    BY <1>4 DEF RequesterCommits, Scheduled, Resumable, JobInv, OwnRequestIsFresh
  <2>6. TypeOK'
    BY <1>4, <2>1, <2>2, <2>3 DEF RequesterCommits, JobInv, TypeOK, Transaction, NoTransaction
  <2>7. OneJobPerIncident' /\ PendingHasRunner'
    BY <1>4, SameJobsPreserve DEF RequesterCommits, JobInv, Holding
  <2>8. owed' = [owed EXCEPT ![i] = IF txn.own \/ @ = "own" THEN "own" ELSE "behind"]
    BY <1>4 DEF RequesterCommits
  <2>9. \A j \in Incidents : owed'[j] = "own" => owed[j] = "own" \/ (j = i /\ txn.own)
    BY <2>1, <2>8 DEF JobInv, TypeOK
  <2>10. OwnRequestSurvives'
    BY <2>2, <2>4, <2>5, <2>9 DEF JobInv, TypeOK, OwnRequestSurvives
  <2>11. OwnRequestWaits' /\ OwnRequestIsFresh'
    BY <1>4, <2>5, <2>9 DEF RequesterCommits, JobInv, OwnRequestWaits, OwnRequestIsFresh, Running, NoTransaction
  <2>. QED
    BY <2>6, <2>7, <2>10, <2>11 DEF JobInv
<1>5. CASE RequesterRollsBack
  <2>1. TypeOK'
    BY <1>5, BoundsAssumption DEF RequesterRollsBack, JobInv, TypeOK, Transaction, NoTransaction
  <2>2. OneJobPerIncident' /\ PendingHasRunner'
    BY <1>5, SameJobsPreserve DEF RequesterRollsBack, JobInv, Holding
  <2>3. OwnRequestSurvives' /\ OwnRequestWaits' /\ OwnRequestIsFresh'
    BY <1>5 DEF RequesterRollsBack, JobInv, OwnRequestSurvives, OwnRequestWaits, OwnRequestIsFresh, Running, NoTransaction
  <2>. QED
    BY <2>1, <2>2, <2>3 DEF JobInv
<1>. QED
  BY <1>1, <1>2, <1>3, <1>4, <1>5

-----------------------------------------------------------------------------
(* The worker thread, up to the end of the analysis.                        *)
LEMMA AnalysisPreserves ==
    ASSUME JobInv,
           \/ TakeJob \/ WaitEnds \/ StartAnalysis
           \/ \E result \in {"DONE", "FAILED", "PENDING"} : FinishAnalysis(result)
           \/ WorkerWriteFails
    PROVE  JobInv'
<1>1. CASE TakeJob
  <2>1. /\ queue \in Seq(Request) /\ queue # <<>> /\ queue' = Tail(queue)
        /\ UNCHANGED <<inflight, pending>>
    BY <1>1 DEF TakeJob, JobInv, TypeOK
  <2> DEFINE h == Head(queue)
  <2>2. /\ queue' \in Seq(Request) /\ h \in Request /\ h = queue[1]
        /\ DOMAIN queue = 1..Len(queue) /\ Len(queue) \in Nat \ {0}
        /\ DOMAIN queue' = 1..(Len(queue) - 1)
        /\ \A n \in 1..(Len(queue) - 1) : queue'[n] = queue[n + 1]
    BY <2>1, TakenJob
  <2>3. h.incident \in Incidents /\ h.kind \in Kinds
    BY <2>2 DEF Request
  <2>4. job' = [phase |-> "waiting", incident |-> h.incident, kind |-> h.kind]
    BY <1>1 DEF TakeJob
  <2>5. Holding = {} /\ Holding' = {h.incident}
    BY <1>1, <2>4 DEF TakeJob, Holding, IdleJob
  <2>6. \A m, n \in DOMAIN queue' : queue'[m].incident = queue'[n].incident => m = n
    <3>1. ASSUME NEW m \in DOMAIN queue', NEW n \in DOMAIN queue',
                 queue'[m].incident = queue'[n].incident
          PROVE  m = n
      <4>1. /\ m + 1 \in DOMAIN queue /\ n + 1 \in DOMAIN queue /\ m \in Nat /\ n \in Nat
            /\ queue'[m] = queue[m + 1] /\ queue'[n] = queue[n + 1]
        BY <2>2
      <4>2. m + 1 = n + 1
        BY <3>1, <4>1 DEF JobInv, OneJobPerIncident
      <4>. QED
        BY <4>1, <4>2
    <3>. QED
      BY <3>1
  <2>7. h.incident \notin Queued'
    <3>1. ASSUME NEW n \in DOMAIN queue', queue'[n].incident = h.incident
          PROVE  FALSE
      <4>1. /\ n + 1 \in DOMAIN queue /\ 1 \in DOMAIN queue /\ n \in Nat \ {0}
            /\ queue'[n] = queue[n + 1]
        BY <2>2
      <4>2. n + 1 = 1
        BY <2>2, <3>1, <4>1 DEF JobInv, OneJobPerIncident
      <4>. QED
        BY <4>1, <4>2
    <3>. QED
      BY <3>1 DEF Queued
  <2>8. Queued = Queued' \cup {h.incident}
    <3>1. ASSUME NEW n \in DOMAIN queue
          PROVE  queue[n].incident \in Queued' \cup {h.incident}
      <4>1. CASE n = 1
        BY <2>2, <4>1
      <4>2. CASE n # 1
        <5>1. n - 1 \in DOMAIN queue' /\ queue'[n - 1] = queue[n]
          BY <2>2, <4>2
        <5>. QED
          BY <5>1 DEF Queued
      <4>. QED
        BY <4>1, <4>2
    <3>2. ASSUME NEW n \in DOMAIN queue'
          PROVE  queue'[n].incident \in Queued
      <4>1. n + 1 \in DOMAIN queue /\ queue'[n] = queue[n + 1]
        BY <2>2
      <4>. QED
        BY <4>1 DEF Queued
    <3>3. h.incident \in Queued
      BY <2>2 DEF Queued
    <3>. QED
      BY <3>1, <3>2, <3>3 DEF Queued
  <2>9. OneJobPerIncident'
    <3>1. Queued' \cap Holding' = {}
      BY <2>5, <2>7
    <3>2. \A i \in Incidents : inflight'[i] # None <=> i \in Queued' \cup Holding'
      BY <2>1, <2>5, <2>8 DEF JobInv, OneJobPerIncident
    <3>. QED
      BY <2>6, <3>1, <3>2 DEF OneJobPerIncident
  <2>10. PendingHasRunner'
    BY <2>1 DEF JobInv, PendingHasRunner
  <2>11. TypeOK'
    BY <1>1, <2>2, <2>3, <2>4 DEF TakeJob, JobInv, TypeOK, Job
  <2>12. OwnRequestSurvives' /\ OwnRequestWaits' /\ OwnRequestIsFresh'
    BY <1>1, <2>4 DEF TakeJob, JobInv, OwnRequestSurvives, OwnRequestWaits, OwnRequestIsFresh, Running
  <2>. QED
    BY <2>9, <2>10, <2>11, <2>12 DEF JobInv
<1>2. CASE WaitEnds
  <2>1. job.incident \in Incidents /\ job.kind \in Kinds /\ job.phase = "waiting"
    BY <1>2, JobFields DEF WaitEnds, JobInv, TypeOK
  <2>2. job = [phase |-> "waiting", incident |-> job.incident, kind |-> job.kind]
    BY <2>1 DEF JobInv, TypeOK, Job
  <2>3. \/ job' = [phase |-> "ran", incident |-> job.incident, kind |-> job.kind]
        \/ job' = [phase |-> "loaded", incident |-> job.incident, kind |-> job.kind,
                   seen |-> row[job.incident]]
    BY <1>2, <2>2 DEF WaitEnds
  <2>4. row[job.incident] \in Row
    BY <2>1 DEF JobInv, TypeOK
  <2>5. job' \in Job
    BY <2>1, <2>3, <2>4 DEF Job
  <2>6. TypeOK'
    BY <1>2, <2>5 DEF WaitEnds, JobInv, TypeOK
  <2>7. Holding' = Holding
    BY <2>1, <2>3 DEF Holding
  <2>8. OneJobPerIncident' /\ PendingHasRunner'
    BY <1>2, <2>7, SameJobsPreserve DEF WaitEnds, JobInv
  <2>9. job'.phase # "running"
    BY <2>3
  <2>10. OwnRequestSurvives' /\ OwnRequestWaits' /\ OwnRequestIsFresh'
    BY <1>2, <2>9 DEF WaitEnds, JobInv, OwnRequestSurvives, OwnRequestWaits, OwnRequestIsFresh, Running
  <2>. QED
    BY <2>6, <2>8, <2>10 DEF JobInv
<1>3. CASE StartAnalysis
  <2>1. /\ job.incident \in Incidents /\ job.kind \in Kinds /\ job.phase = "loaded"
        /\ job.seen \in Row
    BY <1>3, JobFields DEF StartAnalysis, JobInv, TypeOK
  <2> DEFINE i == job.incident
             new == Started(row[i], job.seen, job.kind)
  <2>2. job = [phase |-> "loaded", incident |-> i, kind |-> job.kind, seen |-> job.seen]
    BY <2>1 DEF JobInv, TypeOK, Job
  <2>3. job' = [phase |-> "running", incident |-> i, kind |-> job.kind, seen |-> job.seen]
    BY <1>3, <2>2 DEF StartAnalysis
  <2>4. job' \in Job
    BY <2>1, <2>3 DEF Job
  <2>5. row' = [row EXCEPT ![i] = new] /\ row[i] \in Row
    BY <1>3, <2>1 DEF StartAnalysis, JobInv, TypeOK
  <2>6. new \in Row
    BY <2>1, <2>5 DEF Started, Row
  <2>7. owed' = [owed EXCEPT ![i] = "no"]
    BY <1>3 DEF StartAnalysis
  <2>8. TypeOK'
    BY <1>3, <2>1, <2>4, <2>5, <2>6, <2>7 DEF StartAnalysis, JobInv, TypeOK
  <2>9. Holding' = Holding
    BY <2>1, <2>3 DEF Holding
  <2>10. OneJobPerIncident' /\ PendingHasRunner'
    BY <1>3, <2>9, SameJobsPreserve DEF StartAnalysis, JobInv
  <2>11. \A j \in Incidents : owed'[j] = "own" => j # i /\ owed[j] = "own"
    BY <2>1, <2>7 DEF JobInv, TypeOK
  <2>12. OwnRequestSurvives'
    BY <2>5, <2>11 DEF JobInv, TypeOK, OwnRequestSurvives
  <2>13. OwnRequestWaits'
    BY <2>3, <2>11 DEF OwnRequestWaits, Running
  <2>14. OwnRequestIsFresh'
    BY <1>3 DEF StartAnalysis, WriteLockFree, OwnRequestIsFresh
  <2>. QED
    BY <2>8, <2>10, <2>12, <2>13, <2>14 DEF JobInv
<1>4. ASSUME NEW result \in {"DONE", "FAILED", "PENDING"}, FinishAnalysis(result)
      PROVE  JobInv'
  <2>1. job.incident \in Incidents /\ job.kind \in Kinds /\ job.phase = "running"
    BY <1>4, JobFields DEF FinishAnalysis, JobInv, TypeOK
  <2> DEFINE i == job.incident
  <2>2. job' = [phase |-> "ran", incident |-> i, kind |-> job.kind]
    BY <1>4 DEF FinishAnalysis
  <2>3. job' \in Job
    BY <2>1, <2>2 DEF Job
  <2>4. row' = [row EXCEPT ![i].status = result] /\ row[i] \in Row
    BY <1>4, <2>1 DEF FinishAnalysis, JobInv, TypeOK
  <2>5. [row[i] EXCEPT !.status = result] \in Row
    BY <2>4 DEF Row
  <2>6. failures' \in 0..MaxFailures
    BY <1>4, BoundsAssumption DEF FinishAnalysis, JobInv, TypeOK
  <2>7. row' \in [Incidents -> Row]
    BY <2>1, <2>4, <2>5 DEF JobInv, TypeOK
  <2>8. TypeOK'
    BY <1>4, <2>3, <2>6, <2>7 DEF FinishAnalysis, JobInv, TypeOK
  <2>9. Holding' = Holding
    BY <2>1, <2>2 DEF Holding
  <2>10. OneJobPerIncident' /\ PendingHasRunner'
    BY <1>4, <2>9, SameJobsPreserve DEF FinishAnalysis, JobInv
  <2>11. owed[i] # "own"
    BY <2>1 DEF JobInv, OwnRequestWaits, Running
  <2>12. OwnRequestSurvives'
    BY <1>4, <2>4, <2>11 DEF FinishAnalysis, JobInv, TypeOK, OwnRequestSurvives
  <2>13. OwnRequestWaits'
    BY <2>2 DEF OwnRequestWaits, Running
  <2>14. OwnRequestIsFresh'
    BY <1>4 DEF FinishAnalysis, WriteLockFree, OwnRequestIsFresh
  <2>. QED
    BY <2>8, <2>10, <2>12, <2>13, <2>14 DEF JobInv
<1>5. CASE WorkerWriteFails
  <2>1. /\ job.incident \in Incidents /\ job.kind \in Kinds
        /\ job.phase \in {"loaded", "running"}
    BY <1>5, JobFields DEF WorkerWriteFails, JobInv, TypeOK
  <2>2. job' = [phase |-> "ran", incident |-> job.incident, kind |-> job.kind]
    BY <1>5 DEF WorkerWriteFails
  <2>3. job' \in Job
    BY <2>1, <2>2 DEF Job
  <2>4. TypeOK'
    BY <1>5, <2>3, BoundsAssumption DEF WorkerWriteFails, JobInv, TypeOK
  <2>5. Holding' = Holding
    BY <2>1, <2>2 DEF Holding
  <2>6. OneJobPerIncident' /\ PendingHasRunner'
    BY <1>5, <2>5, SameJobsPreserve DEF WorkerWriteFails, JobInv
  <2>7. OwnRequestSurvives' /\ OwnRequestWaits' /\ OwnRequestIsFresh'
    BY <1>5, <2>2 DEF WorkerWriteFails, JobInv, OwnRequestSurvives, OwnRequestWaits, OwnRequestIsFresh, Running
  <2>. QED
    BY <2>4, <2>6, <2>7 DEF JobInv
<1>. QED
  BY <1>1, <1>2, <1>3, <1>4, <1>5

(* The end of a job: its place is given up, and a kind found behind it is     *)
(* requested anew.                                                         *)
LEMMA DrainPreserves ==
    ASSUME JobInv, Drain \/ RequestAgain
    PROVE  JobInv'
<1>1. CASE Drain
  <2> DEFINE i == job.incident
  <2>1. i \in Incidents /\ job.phase = "ran"
    BY <1>1, JobFields DEF Drain, JobInv, TypeOK
  <2>2. inflight' = [inflight EXCEPT ![i] = None] /\ pending' = [pending EXCEPT ![i] = None]
    BY <1>1 DEF Drain, Released
  <2>3. job = [phase |-> "ran", incident |-> i, kind |-> job.kind]
    BY <2>1 DEF JobInv, TypeOK, Job
  <2>4. \/ job' = IdleJob
        \/ /\ job' = [phase |-> "rerun", incident |-> i, kind |-> pending[i]]
           /\ pending[i] # None
    BY <1>1, <2>3 DEF Drain
  <2>5. job' \in Job
    BY <2>1, <2>4 DEF JobInv, TypeOK, Job, IdleJob
  <2>6. TypeOK'
    BY <1>1, <2>1, <2>2, <2>5 DEF Drain, JobInv, TypeOK
  <2>7. Holding = {i} /\ Holding' = {} /\ Queued' = Queued
    BY <1>1, <2>1, <2>4 DEF Drain, Holding, IdleJob, Queued
  <2>8. \A m, n \in DOMAIN queue' : queue'[m].incident = queue'[n].incident => m = n
    BY <1>1 DEF Drain, JobInv, OneJobPerIncident
  <2>9. \A j \in Incidents : inflight'[j] # None <=> j \in Queued' \cup Holding'
    BY <2>1, <2>2, <2>7 DEF JobInv, TypeOK, OneJobPerIncident
  <2>10. OneJobPerIncident'
    BY <2>7, <2>8, <2>9 DEF OneJobPerIncident
  <2>11. PendingHasRunner'
    BY <2>1, <2>2 DEF JobInv, TypeOK, PendingHasRunner
  <2>12. OwnRequestSurvives' /\ OwnRequestWaits' /\ OwnRequestIsFresh'
    BY <1>1, <2>4 DEF Drain, JobInv, OwnRequestSurvives, OwnRequestWaits, OwnRequestIsFresh, Running, IdleJob
  <2>. QED
    BY <2>6, <2>10, <2>11, <2>12 DEF JobInv
<1>2. CASE RequestAgain
  <2>1. job.incident \in Incidents /\ job.kind \in Kinds /\ job.phase = "rerun"
    BY <1>2, JobFields DEF RequestAgain, JobInv, TypeOK
  <2>2. RequestAnalysis(job.incident, job.kind) /\ job' = IdleJob
    BY <1>2 DEF RequestAgain
  <2>3. /\ inflight' \in [Incidents -> Kinds \cup {None}]
        /\ pending' \in [Incidents -> Kinds \cup {None}]
        /\ queue' \in Seq(Request)
    BY <2>1, <2>2, RequestPreserves DEF JobInv
  <2>4. TypeOK'
    BY <1>2, <2>2, <2>3 DEF RequestAgain, JobInv, TypeOK, Job, IdleJob
  <2>5. Holding' = Holding
    BY <2>1, <2>2 DEF Holding, IdleJob
  <2>6. /\ \A m, n \in DOMAIN queue' : queue'[m].incident = queue'[n].incident => m = n
        /\ Queued' \cap Holding = {}
        /\ \A j \in Incidents : inflight'[j] # None <=> j \in Queued' \cup Holding
        /\ PendingHasRunner'
    BY <2>1, <2>2, RequestPreserves DEF JobInv
  <2>7. OneJobPerIncident'
    BY <2>5, <2>6 DEF OneJobPerIncident
  <2>8. OwnRequestSurvives' /\ OwnRequestWaits' /\ OwnRequestIsFresh'
    BY <1>2, <2>2 DEF RequestAgain, JobInv, OwnRequestSurvives, OwnRequestWaits, OwnRequestIsFresh, Running, IdleJob
  <2>. QED
    BY <2>4, <2>6, <2>7, <2>8 DEF JobInv
<1>. QED
  BY <1>1, <1>2

(* The sweep, a crash and the start after it keep the invariant: what they    *)
(* select can be requested because its kind is recorded.                    *)
LEMMA RetryPreserves ==
    ASSUME JobInv, KindRecorded,
           \/ \E S \in SUBSET Incidents : SweepSelects(S)
           \/ Requeue
           \/ Crash
           \/ Serve
    PROVE  JobInv'
<1>1. ASSUME NEW S \in SUBSET Incidents, \A i \in S : row[i].status \in Resumable
      PROVE  Selected(S) \subseteq Request
  <2>1. \A i \in S : row[i].kind \in Kinds
    BY <1>1 DEF KindRecorded, JobInv, TypeOK, Row, Resumable
  <2>. QED
    BY <2>1 DEF Selected, Request
<1>2. ASSUME NEW S \in SUBSET Incidents, SweepSelects(S)
      PROVE  JobInv'
  <2>1. retry' \subseteq Request
    BY <1>1, <1>2 DEF SweepSelects
  <2>2. TypeOK'
    BY <1>2, <2>1 DEF SweepSelects, JobInv, TypeOK
  <2>3. OneJobPerIncident' /\ PendingHasRunner'
    BY <1>2, SameJobsPreserve DEF SweepSelects, JobInv, Holding
  <2>4. OwnRequestSurvives' /\ OwnRequestWaits' /\ OwnRequestIsFresh'
    BY <1>2 DEF SweepSelects, JobInv, OwnRequestSurvives, OwnRequestWaits, OwnRequestIsFresh, Running
  <2>. QED
    BY <2>2, <2>3, <2>4 DEF JobInv
<1>3. ASSUME NEW r \in retry, RequestAnalysis(r.incident, r.kind), retry' = retry \ {r},
             UNCHANGED <<row, route, txn, job, serving, owed, requests, failures>>
      PROVE  JobInv'
  <2>1. r.incident \in Incidents /\ r.kind \in Kinds
    BY DEF JobInv, TypeOK, Request
  <2>2. /\ inflight' \in [Incidents -> Kinds \cup {None}]
        /\ pending' \in [Incidents -> Kinds \cup {None}]
        /\ queue' \in Seq(Request)
        /\ \A m, n \in DOMAIN queue' : queue'[m].incident = queue'[n].incident => m = n
        /\ Queued' \cap Holding = {}
        /\ \A j \in Incidents : inflight'[j] # None <=> j \in Queued' \cup Holding
        /\ PendingHasRunner'
    BY <1>3, <2>1, RequestPreserves DEF JobInv
  <2>3. TypeOK'
    BY <1>3, <2>2 DEF JobInv, TypeOK
  <2>4. Holding' = Holding
    BY <1>3 DEF Holding
  <2>5. OneJobPerIncident'
    BY <2>2, <2>4 DEF OneJobPerIncident
  <2>6. OwnRequestSurvives' /\ OwnRequestWaits' /\ OwnRequestIsFresh'
    BY <1>3 DEF JobInv, OwnRequestSurvives, OwnRequestWaits, OwnRequestIsFresh, Running
  <2>. QED
    BY <2>2, <2>3, <2>5, <2>6 DEF JobInv
<1>4. CASE Crash
  <2>1. retry' \subseteq Request
    BY <1>1, <1>4 DEF Crash
  <2>2. /\ inflight' \in [Incidents -> Kinds \cup {None}]
        /\ pending' \in [Incidents -> Kinds \cup {None}]
        /\ queue' \in Seq(Request) /\ DOMAIN queue' = {}
    BY <1>4 DEF Crash
  <2>3. route' \in Route /\ txn' \in Transaction /\ job' \in Job
    BY <1>4 DEF Crash, Route, NoRoute, Transaction, NoTransaction, Job, IdleJob
  <2>4. TypeOK'
    <3>1. failures' \in 0..MaxFailures
      BY <1>4, BoundsAssumption DEF Crash, JobInv, TypeOK
    <3>2. UNCHANGED <<row, owed, requests>> /\ serving' = FALSE
      BY <1>4 DEF Crash
    <3>. QED
      BY <2>1, <2>2, <2>3, <3>1, <3>2 DEF JobInv, TypeOK
  <2>5. Queued' = {} /\ Holding' = {}
    BY <1>4, <2>2 DEF Crash, Queued, Holding, IdleJob
  <2>6. OneJobPerIncident'
    BY <1>4, <2>2, <2>5 DEF Crash, OneJobPerIncident
  <2>7. PendingHasRunner'
    BY <1>4 DEF Crash, PendingHasRunner
  <2>8. OwnRequestSurvives' /\ OwnRequestWaits' /\ OwnRequestIsFresh'
    BY <1>4 DEF Crash, JobInv, OwnRequestSurvives, OwnRequestWaits, OwnRequestIsFresh, Running, IdleJob
  <2>. QED
    BY <2>4, <2>6, <2>7, <2>8 DEF JobInv
<1>5. CASE Serve
  <2>1. TypeOK'
    BY <1>5 DEF Serve, JobInv, TypeOK
  <2>2. OneJobPerIncident' /\ PendingHasRunner'
    BY <1>5, SameJobsPreserve DEF Serve, JobInv, Holding
  <2>3. OwnRequestSurvives' /\ OwnRequestWaits' /\ OwnRequestIsFresh'
    BY <1>5 DEF Serve, JobInv, OwnRequestSurvives, OwnRequestWaits, OwnRequestIsFresh, Running
  <2>. QED
    BY <2>1, <2>2, <2>3 DEF JobInv
<1>. QED
  BY <1>2, <1>3, <1>4, <1>5 DEF Requeue

-----------------------------------------------------------------------------
(* No step takes the kind of a row away.                                    *)
LEMMA KindStays ==
    ASSUME JobInv, KindRecorded, Next, NEW i \in Incidents, row[i].kind # None
    PROVE  row'[i].kind # None
<1>1. CASE RequesterCommits
  <2>1. txn.incident \in Incidents /\ txn.kind # None
    BY <1>1, TransactionFields, NoneAssumption DEF RequesterCommits, JobInv, TypeOK
  <2>2. row' = [row EXCEPT ![txn.incident] = Scheduled(row[txn.incident], txn.seen, txn.kind)]
    BY <1>1 DEF RequesterCommits
  <2>. QED
    BY <2>1, <2>2 DEF Scheduled, JobInv, TypeOK
<1>2. CASE StartAnalysis
  <2>1. job.incident \in Incidents /\ job.kind # None
    BY <1>2, JobFields, NoneAssumption DEF StartAnalysis, JobInv, TypeOK
  <2>2. row' = [row EXCEPT ![job.incident] = Started(row[job.incident], job.seen, job.kind)]
    BY <1>2 DEF StartAnalysis
  <2>. QED
    BY <2>1, <2>2 DEF Started, JobInv, TypeOK
<1>3. ASSUME NEW result, FinishAnalysis(result)
      PROVE  row'[i].kind # None
  BY <1>3 DEF FinishAnalysis, JobInv, TypeOK, Row
<1>4. CASE UNCHANGED row
  BY <1>4
<1>5. \/ RequesterCommits \/ StartAnalysis \/ (\E result : FinishAnalysis(result))
      \/ UNCHANGED row
  BY DEF Next, WebhookSchedules, RouteLoads, RouteSchedules, Schedule, RequesterRollsBack,
         WorkerStep, TakeJob, WaitEnds, Drain, RequestAgain, WorkerWriteFails, SweepSelects,
         Requeue, Crash, Serve
<1>. QED
  BY <1>1, <1>2, <1>3, <1>4, <1>5

(* Next keeps every recorded kind where it is needed.                       *)
LEMMA KindPreserves ==
    ASSUME JobInv, KindRecorded, Next
    PROVE  KindRecorded'
<1>1. \A i \in Incidents : row[i].kind # None => row'[i].kind # None
  BY KindStays
<1>2. \A i \in Incidents : row'[i].status # "absent" => row'[i].kind # None
  <2>1. CASE RequesterCommits
    <3>1. txn.incident \in Incidents /\ txn.kind # None
      BY <2>1, TransactionFields, NoneAssumption DEF RequesterCommits, JobInv, TypeOK
    <3>2. row' = [row EXCEPT ![txn.incident] = Scheduled(row[txn.incident], txn.seen, txn.kind)]
      BY <2>1 DEF RequesterCommits
    <3>3. row'[txn.incident].kind # None
      BY <2>1, <3>1, <3>2 DEF RequesterCommits, Scheduled, KindRecorded, JobInv, TypeOK
    <3>. QED
      BY <3>1, <3>2, <3>3 DEF KindRecorded, JobInv, TypeOK
  <2>2. CASE StartAnalysis
    <3>1. job.incident \in Incidents /\ job.phase = "loaded"
      BY <2>2, JobFields DEF StartAnalysis, JobInv, TypeOK
    <3>2. row'[job.incident].kind # None
      BY <1>1, <3>1 DEF KindRecorded
    <3>3. \A i \in Incidents \ {job.incident} : row'[i] = row[i]
      BY <2>2, <3>1 DEF StartAnalysis, JobInv, TypeOK
    <3>. QED
      BY <3>1, <3>2, <3>3 DEF KindRecorded
  <2>3. ASSUME NEW result, FinishAnalysis(result)
        PROVE  \A i \in Incidents : row'[i].status # "absent" => row'[i].kind # None
    <3>1. job.incident \in Incidents /\ job.phase = "running"
      BY <2>3, JobFields DEF FinishAnalysis, JobInv, TypeOK
    <3>2. row'[job.incident].kind # None
      BY <1>1, <3>1 DEF KindRecorded
    <3>3. \A i \in Incidents \ {job.incident} : row'[i] = row[i]
      BY <2>3, <3>1 DEF FinishAnalysis, JobInv, TypeOK
    <3>. QED
      BY <3>1, <3>2, <3>3 DEF KindRecorded
  <2>4. CASE UNCHANGED row
    BY <2>4 DEF KindRecorded
  <2>5. \/ RequesterCommits \/ StartAnalysis \/ (\E result : FinishAnalysis(result))
        \/ UNCHANGED row
    BY DEF Next, WebhookSchedules, RouteLoads, RouteSchedules, Schedule, RequesterRollsBack,
           WorkerStep, TakeJob, WaitEnds, Drain, RequestAgain, WorkerWriteFails, SweepSelects,
           Requeue, Crash, Serve
  <2>. QED
    BY <2>1, <2>2, <2>3, <2>4, <2>5
<1>3. txn' # NoTransaction /\ txn'.seen.kind # None => row'[txn'.incident].kind # None
  <2>1. ASSUME NEW i \in Incidents, NEW k \in Kinds, WebhookSchedules(i, k)
        PROVE  txn'.seen.kind # None => row'[txn'.incident].kind # None
    BY <2>1 DEF WebhookSchedules, Schedule
  <2>2. CASE RouteSchedules
    BY <2>2 DEF RouteSchedules, Schedule, KindRecorded
  <2>3. CASE txn' = NoTransaction
    BY <2>3
  <2>4. CASE txn' = txn
    <3>1. txn # NoTransaction => txn.incident \in Incidents
      BY TransactionFields DEF JobInv, TypeOK
    <3>. QED
      BY <1>1, <2>4, <3>1 DEF KindRecorded
  <2>5. \/ \E i \in Incidents, k \in Kinds : WebhookSchedules(i, k)
        \/ RouteSchedules \/ txn' = NoTransaction \/ txn' = txn
    BY DEF Next, RouteLoads, RequesterCommits, RequesterRollsBack,
           WorkerStep, TakeJob, WaitEnds, StartAnalysis, FinishAnalysis, Drain, RequestAgain,
           WorkerWriteFails, SweepSelects, Requeue, Crash, Serve
  <2>. QED
    BY <2>1, <2>2, <2>3, <2>4, <2>5
<1>4. route' # NoRoute => row'[route'.incident].kind # None
  <2>1. ASSUME NEW i \in Incidents, RouteLoads(i)
        PROVE  row'[route'.incident].kind # None
    BY <2>1 DEF RouteLoads, KindRecorded
  <2>2. CASE route' = NoRoute
    BY <2>2
  <2>3. CASE route' = route
    <3>1. route # NoRoute => route.incident \in Incidents
      BY DEF JobInv, TypeOK, Route, NoRoute
    <3>. QED
      BY <1>1, <2>3, <3>1 DEF KindRecorded
  <2>4. (\E i \in Incidents : RouteLoads(i)) \/ route' = NoRoute \/ route' = route
    BY DEF Next, WebhookSchedules, RouteSchedules, RequesterCommits, RequesterRollsBack,
           WorkerStep, TakeJob, WaitEnds, StartAnalysis, FinishAnalysis, Drain, RequestAgain,
           WorkerWriteFails, SweepSelects, Requeue, Crash, Serve
  <2>. QED
    BY <2>1, <2>2, <2>3, <2>4
<1>5. job'.phase \in {"loaded", "running"} => row'[job'.incident].kind # None
  <2>1. CASE WaitEnds
    <3>1. job.incident \in Incidents /\ row' = row
      BY <2>1, JobFields DEF WaitEnds, JobInv, TypeOK
    <3>2. job = [phase |-> "waiting", incident |-> job.incident, kind |-> job.kind]
      BY <2>1 DEF WaitEnds, JobInv, TypeOK, Job
    <3>. QED
      BY <2>1, <3>1, <3>2 DEF WaitEnds, KindRecorded
  <2>2. CASE StartAnalysis
    <3>1. job.incident \in Incidents /\ job.phase = "loaded"
      BY <2>2, JobFields DEF StartAnalysis, JobInv, TypeOK
    <3>2. job'.incident = job.incident
      BY <2>2, <3>1 DEF StartAnalysis, JobInv, TypeOK, Job
    <3>. QED
      BY <1>1, <3>1, <3>2 DEF KindRecorded
  <2>3. CASE job' = job
    <3>1. job.phase \in {"loaded", "running"} => job.incident \in Incidents
      BY JobFields DEF JobInv, TypeOK
    <3>. QED
      BY <1>1, <2>3, <3>1 DEF KindRecorded
  <2>4. CASE job'.phase \in {"idle", "waiting", "ran"}
    BY <2>4
  <2>5. CASE Drain
    BY <2>5 DEF Drain, IdleJob, JobInv, TypeOK, Job
  <2>6. TakeJob => job'.phase = "waiting"
    BY DEF TakeJob
  <2>7. (\E result : FinishAnalysis(result)) \/ WorkerWriteFails => job'.phase = "ran"
    <3>1. ASSUME NEW result, FinishAnalysis(result)
          PROVE  job'.phase = "ran"
      BY <3>1 DEF FinishAnalysis
    <3>2. WorkerWriteFails => job'.phase = "ran"
      BY DEF WorkerWriteFails
    <3>. QED
      BY <3>1, <3>2
  <2>8. RequestAgain \/ Crash => job'.phase = "idle"
    BY DEF RequestAgain, Crash, IdleJob
  <2>9. \/ WaitEnds \/ StartAnalysis \/ job' = job \/ TakeJob
        \/ (\E result : FinishAnalysis(result)) \/ WorkerWriteFails \/ RequestAgain
        \/ Crash \/ Drain
    BY DEF Next, WebhookSchedules, RouteLoads, RouteSchedules, Schedule, RequesterCommits,
           RequesterRollsBack, WorkerStep, SweepSelects, Requeue, Serve
  <2>. QED
    BY <2>1, <2>2, <2>3, <2>4, <2>5, <2>6, <2>7, <2>8, <2>9
<1>. QED
  BY <1>2, <1>3, <1>4, <1>5 DEF KindRecorded

-----------------------------------------------------------------------------
(* The invariant holds at first, and every step keeps it.                   *)
LEMMA InitSound == Init => IInv
<1> SUFFICES ASSUME Init PROVE IInv
  OBVIOUS
<1>1. TypeOK
  <2>1. row \in [Incidents -> Row]
    BY DEF Init, AbsentRow, Row
  <2>2. queue \in Seq(Request)
    BY DEF Init
  <2>3. requests \in 0..MaxRequests /\ failures \in 0..MaxFailures
    BY BoundsAssumption DEF Init
  <2>. QED
    BY <2>1, <2>2, <2>3 DEF Init, TypeOK, Route, NoRoute, Transaction, NoTransaction, Job, IdleJob
<1>2. OneJobPerIncident /\ PendingHasRunner
  <2>1. DOMAIN queue = {}
    BY DEF Init
  <2>2. Queued = {} /\ Holding = {}
    BY <2>1 DEF Init, Queued, Holding, IdleJob
  <2>. QED
    BY <2>1, <2>2 DEF Init, OneJobPerIncident, PendingHasRunner
<1>3. OwnRequestSurvives /\ OwnRequestIsFresh /\ OwnRequestWaits
  BY DEF Init, OwnRequestSurvives, OwnRequestIsFresh, OwnRequestWaits, Running, IdleJob
<1>4. KindRecorded
  BY DEF Init, KindRecorded, AbsentRow, IdleJob
<1>. QED
  BY <1>1, <1>2, <1>3, <1>4 DEF IInv, JobInv

(* Each disjunct of Next, and stuttering.                                   *)
LEMMA NextSound == IInv /\ [Next]_vars => IInv'
<1> SUFFICES ASSUME IInv, [Next]_vars PROVE IInv'
  OBVIOUS
<1>1. CASE Next
  <2>1. JobInv /\ KindRecorded
    BY DEF IInv
  <2>2. \/ \/ \E i \in Incidents : (\E k \in Kinds : WebhookSchedules(i, k)) \/ RouteLoads(i)
           \/ RouteSchedules \/ RequesterCommits \/ RequesterRollsBack
        \/ \/ TakeJob \/ WaitEnds \/ StartAnalysis
           \/ \E result \in {"DONE", "FAILED", "PENDING"} : FinishAnalysis(result)
           \/ WorkerWriteFails
        \/ Drain \/ RequestAgain
        \/ (\E S \in SUBSET Incidents : SweepSelects(S)) \/ Requeue \/ Crash \/ Serve
    BY <1>1 DEF Next, WorkerStep
  <2>3. JobInv'
    BY <2>1, <2>2, RequesterPreserves, AnalysisPreserves, DrainPreserves, RetryPreserves
  <2>4. KindRecorded'
    BY <1>1, <2>1, KindPreserves
  <2>. QED
    BY <2>3, <2>4 DEF IInv
<1>2. CASE UNCHANGED vars
  <2>1. JobInv'
    BY <1>2 DEF vars, IInv, JobInv, TypeOK, OneJobPerIncident, Queued, Holding, PendingHasRunner,
                OwnRequestSurvives, OwnRequestIsFresh, OwnRequestWaits, Running
  <2>2. KindRecorded'
    BY <1>2 DEF vars, IInv, KindRecorded
  <2>. QED
    BY <2>1, <2>2 DEF IInv
<1>. QED
  BY <1>1, <1>2

(* The inductive invariant, for any incidents, limits and bounds.            *)
THEOREM WorkerInvariant == Spec => []IInv
BY InitSound, NextSound, PTL DEF Spec

(* TypeOK: the columns, the maps, the queue and the job keep their types;    *)
(* whatever the sweep or a restart selects has a kind to be requested with. *)
THEOREM WorkerTypeCorrect == Spec => []TypeOK
<1>1. IInv => TypeOK
  BY DEF IInv, JobInv
<1>. QED
  BY <1>1, WorkerInvariant, PTL

(* request_analysis and _drain_pending, in two sections each without the      *)
(* other's lock held, never let an incident have two jobs.                  *)
THEOREM JobsStayApart == Spec => []OneJobPerIncident
<1>1. IInv => OneJobPerIncident
  BY DEF IInv, JobInv
<1>. QED
  BY <1>1, WorkerInvariant, PTL

(* Nothing waits in _PENDING without a job that will drain it.               *)
THEOREM PendingAlwaysHasRunner == Spec => []PendingHasRunner
<1>1. IInv => PendingHasRunner
  BY DEF IInv, JobInv
<1>. QED
  BY <1>1, WorkerInvariant, PTL

(* A webhook's request that found nothing in flight is requeued by a restart *)
(* until its analysis begins.                                               *)
THEOREM OwnRequestsSurvive == Spec => []OwnRequestSurvives
<1>1. IInv => OwnRequestSurvives
  BY DEF IInv, JobInv
<1>. QED
  BY <1>1, WorkerInvariant, PTL

=============================================================================
