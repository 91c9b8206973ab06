---------------------------- MODULE AnalysisWorker ----------------------------
(***************************************************************************)
(* Requests for an analysis and the thread that runs them                   *)
(* (app/services/worker.py, schedule_analysis and analyze_incident_now in   *)
(* app/services/pipeline.py, _retry_stale_analysis in                       *)
(* app/services/sweeper.py).                                               *)
(*                                                                         *)
(* A request leaves two marks: columns of the incident's row, which survive *)
(* a restart, and an entry in the worker's memory, which does not.  The     *)
(* requester's transaction is still open when the worker hears of the       *)
(* request, and each side writes only columns that differ from what it had  *)
(* loaded.                                                                 *)
(***************************************************************************)
EXTENDS Naturals, Sequences

CONSTANTS
    Incidents,
    None,         \* no kind
    MaxAttempts,  \* settings.analysis_max_attempts
    MaxRequests,  \* bound: requests explored
    MaxFailures   \* bound: failed writes, failed analyses and crashes explored

ASSUME MaxAttemptsAssumption == MaxAttempts \in Nat \ {0}
ASSUME BoundsAssumption == MaxRequests \in Nat /\ MaxFailures \in Nat

VARIABLES
    row,        \* columns analysis_* of table incidents, as committed
    route,      \* a POST /analyze that has loaded its row and not flushed
    txn,        \* the requester's transaction that holds SQLite's write lock
    inflight,   \* _INFLIGHT
    pending,    \* _PENDING
    queue,      \* jobs submitted to the executor and not taken
    job,        \* what the worker thread is doing
    retry,      \* selected rows, by the sweep or at start, not requested yet
    serving,    \* start-up is over
    owed,       \* history: a request committed since the last analysis began
    requests,
    failures

vars == <<row, route, txn, inflight, pending, queue, job, retry, serving, owed,
          requests, failures>>

Kinds == {"incident_created", "incident_root_changed", "manual_reanalyze"}

ASSUME NoneAssumption == None \notin Kinds

Resumable == {"PENDING", "RUNNING"}

Row ==
    [status : {"absent", "PENDING", "RUNNING", "DONE", "FAILED"},
     kind : Kinds \cup {None},
     attempts : Nat]

AbsentRow == [status |-> "absent", kind |-> None, attempts |-> 0]

Request == [incident : Incidents, kind : Kinds]

(* own: a webhook's, and nothing was in flight.                             *)
Transaction ==
    [phase : {"none"}]
      \cup [phase : {"flushed"}, incident : Incidents, kind : Kinds, seen : Row, own : BOOLEAN]

NoTransaction == [phase |-> "none"]

Route == [phase : {"none"}] \cup [phase : {"loaded"}, incident : Incidents, seen : Row]

NoRoute == [phase |-> "none"]

(* _analyze_job: wait, load, set RUNNING, analyse, write the result, then   *)
(* _drain_pending in its two sections.                                      *)
Job ==
    [phase : {"idle"}]
      \cup [phase : {"waiting", "ran", "rerun"}, incident : Incidents, kind : Kinds]
      \cup [phase : {"loaded", "running"}, incident : Incidents, kind : Kinds, seen : Row]

IdleJob == [phase |-> "idle"]

WriteLockFree == txn = NoTransaction

Init ==
    /\ row = [i \in Incidents |-> AbsentRow]
    /\ route = NoRoute
    /\ txn = NoTransaction
    /\ inflight = [i \in Incidents |-> None]
    /\ pending = [i \in Incidents |-> None]
    /\ queue = <<>>
    /\ job = IdleJob
    /\ retry = {}
    /\ serving = TRUE
    /\ owed = [i \in Incidents |-> "no"]
    /\ requests = 0
    /\ failures = 0

-----------------------------------------------------------------------------
(* Requests.                                                               *)

(* Mutated: a request is submitted whether or not one is in flight.         *)
RequestUnmerged(i, k) ==
    /\ inflight' = [inflight EXCEPT ![i] = k]
    /\ queue' = Append(queue, [incident |-> i, kind |-> k])
    /\ UNCHANGED pending

(* request_analysis: behind a job in flight only the latest kind is kept.   *)
RequestAnalysis(i, k) ==
    \/ /\ inflight[i] # None
       /\ pending' = [pending EXCEPT ![i] = k]
       /\ UNCHANGED <<inflight, queue>>
    \/ /\ inflight[i] = None
       /\ inflight' = [inflight EXCEPT ![i] = k]
       /\ queue' = Append(queue, [incident |-> i, kind |-> k])
       /\ UNCHANGED pending

(* schedule_analysis flushes the columns and hands the request over.        *)
Schedule(i, k, seen, own) ==
    /\ WriteLockFree
    /\ requests < MaxRequests
    /\ requests' = requests + 1
    /\ txn' = [phase |-> "flushed", incident |-> i, kind |-> k, seen |-> seen, own |-> own]
    /\ RequestAnalysis(i, k)
    /\ UNCHANGED <<row, job, retry, serving, owed, failures>>

(* A webhook loads the incident, or creates it, with the write lock held.   *)
WebhookSchedules(i, k) ==
    /\ serving
    /\ row[i].status = "absent" => k = "incident_created"
    /\ k # "manual_reanalyze"
    /\ Schedule(i, k, row[i], inflight[i] = None)
    /\ UNCHANGED route

(* POST /analyze loads first and waits for the lock when it flushes.        *)
RouteLoads(i) ==
    /\ serving
    /\ route = NoRoute
    /\ row[i].status # "absent"
    /\ requests < MaxRequests
    /\ route' = [phase |-> "loaded", incident |-> i, seen |-> row[i]]
    /\ UNCHANGED <<row, txn, inflight, pending, queue, job, retry, serving, owed, requests, failures>>

RouteSchedules ==
    /\ route # NoRoute
    /\ Schedule(route.incident, "manual_reanalyze", route.seen, FALSE)
    /\ route' = NoRoute

(* Mutated: the kind is not recorded.                                       *)
ScheduledNoKind(r, seen, k) == [r EXCEPT !.status = "PENDING", !.attempts = 0]

(* Mutated: the row does not say that an analysis is due.                   *)
ScheduledQuietly(r, seen, k) == [r EXCEPT !.status = "DONE", !.kind = k, !.attempts = 0]

(* The row after the columns that differ from seen were written.            *)
Scheduled(r, seen, k) ==
    [status |-> IF seen.status = "PENDING" THEN r.status ELSE "PENDING",
     kind |-> IF seen.kind = k THEN r.kind ELSE k,
     attempts |-> IF seen.attempts = 0 THEN r.attempts ELSE 0]

RequesterCommits ==
    /\ txn # NoTransaction
    /\ row' = [row EXCEPT ![txn.incident] = Scheduled(@, txn.seen, txn.kind)]
    /\ owed' = [owed EXCEPT ![txn.incident] = IF txn.own \/ @ = "own" THEN "own" ELSE "behind"]
    /\ txn' = NoTransaction
    /\ UNCHANGED <<route, inflight, pending, queue, job, retry, serving, requests, failures>>

(* The event or the route fails after the request was handed over.          *)
RequesterRollsBack ==
    /\ txn # NoTransaction
    /\ failures < MaxFailures
    /\ failures' = failures + 1
    /\ txn' = NoTransaction
    /\ UNCHANGED <<row, route, inflight, pending, queue, job, retry, serving, owed, requests>>

-----------------------------------------------------------------------------
(* The worker thread.                                                      *)

TakeJob ==
    /\ job = IdleJob
    /\ queue # <<>>
    /\ job' = [phase |-> "waiting", incident |-> Head(queue).incident, kind |-> Head(queue).kind]
    /\ queue' = Tail(queue)
    /\ UNCHANGED <<row, route, txn, inflight, pending, retry, serving, owed, requests, failures>>

(* _wait_for ends when the row can be processed or after five seconds, and   *)
(* the job goes on either way: a job for a row nobody can see is over.      *)
WaitEnds ==
    /\ job.phase = "waiting"
    /\ job' = IF row[job.incident].status = "absent"
              THEN [job EXCEPT !.phase = "ran"]
              ELSE [phase |-> "loaded", incident |-> job.incident, kind |-> job.kind,
                    seen |-> row[job.incident]]
    /\ UNCHANGED <<row, route, txn, inflight, pending, queue, retry, serving, owed, requests, failures>>

Started(r, seen, k) ==
    [status |-> IF seen.status = "RUNNING" THEN r.status ELSE "RUNNING",
     kind |-> IF seen.kind = k THEN r.kind ELSE k,
     attempts |-> seen.attempts + 1]

StartAnalysis ==
    /\ job.phase = "loaded"
    /\ WriteLockFree
    /\ row' = [row EXCEPT ![job.incident] = Started(@, job.seen, job.kind)]
    /\ job' = [job EXCEPT !.phase = "running"]
    /\ owed' = [owed EXCEPT ![job.incident] = "no"]
    /\ UNCHANGED <<route, txn, inflight, pending, queue, retry, serving, requests, failures>>

(* Whether it succeeded, failed, or failed in a way worth repeating.        *)
FinishAnalysis(result) ==
    /\ job.phase = "running"
    /\ WriteLockFree
    /\ result # "DONE" => failures < MaxFailures
    /\ failures' = IF result = "DONE" THEN failures ELSE failures + 1
    /\ row' = [row EXCEPT ![job.incident].status = result]
    /\ job' = [phase |-> "ran", incident |-> job.incident, kind |-> job.kind]
    /\ UNCHANGED <<route, txn, inflight, pending, queue, retry, serving, owed, requests>>

(* "database is locked" when the row is written: the job is over.           *)
WorkerWriteFails ==
    /\ job.phase \in {"loaded", "running"}
    /\ failures < MaxFailures
    /\ failures' = failures + 1
    /\ job' = [phase |-> "ran", incident |-> job.incident, kind |-> job.kind]
    /\ UNCHANGED <<row, route, txn, inflight, pending, queue, retry, serving, owed, requests>>

(* Mutated: the job ends without giving up its place.                       *)
DrainKeepsInflight(i) == UNCHANGED inflight /\ pending' = [pending EXCEPT ![i] = None]

(* Mutated: what is pending stays, to be picked up by the next job.         *)
DrainForgets(i) == inflight' = [inflight EXCEPT ![i] = None] /\ UNCHANGED pending

(* First section of _drain_pending.                                        *)
Released(i) == inflight' = [inflight EXCEPT ![i] = None] /\ pending' = [pending EXCEPT ![i] = None]

Drain ==
    /\ job.phase = "ran"
    /\ Released(job.incident)
    /\ job' = IF pending[job.incident] \in {None, job.kind}
              THEN IdleJob
              ELSE [job EXCEPT !.phase = "rerun", !.kind = pending[job.incident]]
    /\ UNCHANGED <<row, route, txn, queue, retry, serving, owed, requests, failures>>

(* Second section: anybody may have requested the incident in between.      *)
RequestAgain ==
    /\ job.phase = "rerun"
    /\ RequestAnalysis(job.incident, job.kind)
    /\ job' = IdleJob
    /\ UNCHANGED <<row, route, txn, retry, serving, owed, requests, failures>>

WorkerStep ==
    \/ TakeJob \/ WaitEnds \/ StartAnalysis \/ FinishAnalysis("DONE")
    \/ Drain \/ RequestAgain

-----------------------------------------------------------------------------
(* Sweep and restart.                                                      *)

Selected(S) == {[incident |-> i, kind |-> row[i].kind] : i \in S}

(* Some rows have not been updated for analysis_stale_seconds.              *)
SweepSelects(S) ==
    /\ serving
    /\ retry = {}
    /\ S # {}
    /\ \A i \in S : row[i].status \in Resumable /\ row[i].attempts < MaxAttempts
    /\ retry' = Selected(S)
    /\ UNCHANGED <<row, route, txn, inflight, pending, queue, job, serving, owed, requests, failures>>

Requeue ==
    \E r \in retry :
        /\ RequestAnalysis(r.incident, r.kind)
        /\ retry' = retry \ {r}
        /\ UNCHANGED <<row, route, txn, job, serving, owed, requests, failures>>

(* The process dies and is started again: requeue_pending selects what was  *)
(* under way, and requests are served when all of it is requeued.           *)
Crash ==
    /\ failures < MaxFailures
    /\ failures' = failures + 1
    /\ route' = NoRoute
    /\ txn' = NoTransaction
    /\ inflight' = [i \in Incidents |-> None]
    /\ pending' = [i \in Incidents |-> None]
    /\ queue' = <<>>
    /\ job' = IdleJob
    /\ retry' = Selected({i \in Incidents : row[i].status \in Resumable})
    /\ serving' = FALSE
    /\ UNCHANGED <<row, owed, requests>>

Serve ==
    /\ ~serving
    /\ retry = {}
    /\ serving' = TRUE
    /\ UNCHANGED <<row, route, txn, inflight, pending, queue, job, retry, owed, requests, failures>>

Next ==
    \/ \E i \in Incidents : (\E k \in Kinds : WebhookSchedules(i, k)) \/ RouteLoads(i)
    \/ RouteSchedules
    \/ RequesterCommits
    \/ RequesterRollsBack
    \/ WorkerStep
    \/ \E result \in {"FAILED", "PENDING"} : FinishAnalysis(result)
    \/ WorkerWriteFails
    \/ \E S \in SUBSET Incidents : SweepSelects(S)
    \/ Requeue
    \/ Crash
    \/ Serve

Spec == Init /\ [][Next]_vars

(* The threads keep running, an open transaction ends, and rounds of the    *)
(* sweep go on finding what is stale.                                      *)
LiveSpec ==
    /\ Spec
    /\ WF_vars(WorkerStep)
    /\ WF_vars(RequesterCommits)
    /\ WF_vars(RouteSchedules)
    /\ WF_vars(Requeue)
    /\ WF_vars(Serve)
    /\ \A i \in Incidents : SF_vars(\E S \in SUBSET Incidents : i \in S /\ SweepSelects(S))

-----------------------------------------------------------------------------
(* Properties.                                                             *)

TypeOK ==
    /\ row \in [Incidents -> Row]
    /\ route \in Route
    /\ txn \in Transaction
    /\ inflight \in [Incidents -> Kinds \cup {None}]
    /\ pending \in [Incidents -> Kinds \cup {None}]
    /\ queue \in Seq(Request)
    /\ job \in Job
    /\ retry \subseteq Request
    /\ serving \in BOOLEAN
    /\ owed \in [Incidents -> {"no", "own", "behind"}]
    /\ requests \in 0..MaxRequests
    /\ failures \in 0..MaxFailures

(* The incident whose place in _INFLIGHT the worker holds.                  *)
Holding == IF job.phase \in {"waiting", "loaded", "running", "ran"} THEN {job.incident} ELSE {}

Queued == {queue[n].incident : n \in DOMAIN queue}

(* Whatever requests, sweeps and restarts arrive, an incident has at most    *)
(* one job, and exactly the incidents with a job are marked in flight.       *)
OneJobPerIncident ==
    /\ \A m, n \in DOMAIN queue : queue[m].incident = queue[n].incident => m = n
    /\ Queued \cap Holding = {}
    /\ \A i \in Incidents : inflight[i] # None <=> i \in Queued \cup Holding

(* A kind waits in _PENDING only behind a job that will drain it.            *)
PendingHasRunner == \A i \in Incidents : pending[i] # None => inflight[i] # None

(* Until its analysis begins, a webhook's request that found nothing in      *)
(* flight is in a row that a restart requeues, whatever other requests,      *)
(* jobs that fail and crashes come before.                                  *)
OwnRequestSurvives == \A i \in Incidents : owed[i] = "own" => row[i].status \in Resumable

(* Every analysis comes to an end or uses up its attempts.                  *)
AnalysisSettles ==
    \A i \in Incidents :
        row[i].status \in Resumable
            ~> row[i].status \notin Resumable \/ row[i].attempts >= MaxAttempts

=============================================================================
