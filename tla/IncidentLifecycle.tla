-------------------------- MODULE IncidentLifecycle --------------------------
(***************************************************************************)
(* The threads that move an incident through its life:                     *)
(*   - webhook requests, one transaction per event (BEGIN IMMEDIATE, so a   *)
(*     single step; it waits while the sweep's transaction is open);       *)
(*   - the recovery sweep, one transaction per round whose network phases   *)
(*     hold no lock, so what it read may be stale when it writes;          *)
(*   - operator requests, which read and write without PROCESS_LOCK.       *)
(*                                                                         *)
(* Writes go through SQLAlchemy's unit of work: an UPDATE names only the    *)
(* columns that differ from the values loaded, and carries no version      *)
(* check.  The sweep's UPDATEs are visible to it (db) and to nobody else    *)
(* until it commits (committed).                                           *)
(***************************************************************************)
EXTENDS IncidentStore, Naturals

CONSTANTS
    Operators,             \* operator requests that may be in flight at once
    PrometheusConfigured,  \* settings.prometheus_url is set
    MaxFailures            \* bound: crashes and failed sweeps explored

ASSUME ConfiguredAssumption == PrometheusConfigured \in BOOLEAN
ASSUME MaxFailuresAssumption == MaxFailures \in Nat

VARIABLES
    db,         \* the store as the open sweep transaction sees it
    committed,  \* the store every other connection sees
    sweep,      \* the round in progress
    op,         \* per operator request, what it has loaded
    failures    \* crashes and failed rounds so far

vars == <<db, committed, sweep, op, failures>>

-----------------------------------------------------------------------------
(* What a session has loaded of an incident.                               *)

Loaded == [status : IncidentStatus, deadline : Deadlines]

NotLoaded == [status |-> "absent", deadline |-> "none"]

Load(row) == [status |-> row.status, deadline |-> row.deadline]

(* Mutated: the whole row is rewritten from what was loaded before a merge. *)
FlushUnmerges(row, seen, s) ==
    [row EXCEPT !.status = s, !.deadline = "none", !.merged = None]

(* Flushing "status := s; recovery_deadline := NULL" for an object loaded   *)
(* with values seen onto the current row: an equal column is not written.   *)
Flush(row, seen, s) ==
    [row EXCEPT !.status = IF seen.status = s THEN @ ELSE s,
                !.deadline = IF seen.deadline = "none" THEN @ ELSE "none"]

Verdicts == {"recovered", "not_recovered", "unverified"}

Phases == {"idle", "expired", "explicit", "probe"}

Sweep ==
    [phase : Phases,
     txn : BOOLEAN,
     todo : SUBSET Incidents,                    \* loaded, not verified yet
     seen : [Incidents -> Loaded],
     verdict : [Incidents -> Verdicts \cup {"none"}]]

IdleSweep ==
    [phase |-> "idle", txn |-> FALSE, todo |-> {},
     seen |-> [i \in Incidents |-> NotLoaded],
     verdict |-> [i \in Incidents |-> "none"]]

Request ==
    [kind : {"none", "ack", "resolve", "detach"},
     incident : Incidents \cup {None},
     alert : Alerts \cup {None},
     seen : Loaded]

NoRequest == [kind |-> "none", incident |-> None, alert |-> None, seen |-> NotLoaded]

Init ==
    /\ db = EmptyStore
    /\ committed = EmptyStore
    /\ sweep = IdleSweep
    /\ op = [o \in Operators |-> NoRequest]
    /\ failures = 0

(* A transaction of a thread other than the sweep: it needs SQLite's write   *)
(* lock, so it cannot overlap the sweep's, and it commits in this step.     *)
Commit(d) ==
    /\ ~sweep.txn
    /\ db' = d
    /\ committed' = d

-----------------------------------------------------------------------------
(* Webhook: one event of one request, under PROCESS_LOCK.                  *)

(* The fault is already firing: count the repeat, refresh its incident.     *)
RepeatFiring(f) ==
    \E a \in FindFiring(db, f) :
        /\ Commit(RefreshStates(db, OwnersOf(db, {a})))
        /\ UNCHANGED <<sweep, op, failures>>

(* The stores correlation may leave for new alert a: attached to an open    *)
(* incident, to the incident of an earlier alert of the same fault, or to   *)
(* a new incident.                                                          *)
Correlated(d, a) ==
    LET earlier == IncidentsByFingerprint(d, d.alert[a].fingerprint)
    IN  {AttachAlert(d, i, a, p) : i \in OpenIncidents(d) \cup earlier, p \in BOOLEAN}
          \cup {CreateIncident(d, i, a) : i \in FreshIncidents(d)}

NewFiring(f) ==
    /\ FindFiring(db, f) = {}
    /\ \E a \in FreshAlerts(db) :
       \E d \in Correlated(CreateAlert(db, a, f), a) :
       \E r \in Reconciled(d, d.alert[a].incident) :
            Commit(r)
    /\ UNCHANGED <<sweep, op, failures>>

(* The source reports the fault recovered.                                  *)
ResolvedEvent(f) ==
    \E a \in FindFiring(db, f) :
        /\ Commit(LET d == ResolveAlerts(db, {a}, "resolved")
                  IN  RefreshStates(d, OwnersOf(d, {a})))
        /\ UNCHANGED <<sweep, op, failures>>

Webhook == \E f \in Fingerprints : RepeatFiring(f) \/ NewFiring(f) \/ ResolvedEvent(f)

-----------------------------------------------------------------------------
(* Sweep.  Selections read db: with no transaction open that is the         *)
(* committed store.                                                        *)

(* The alerts of S have been silent longer than alert_stale_seconds.  An    *)
(* empty S flushes nothing and opens no transaction.                        *)
SweepExpire(S) ==
    /\ sweep.phase = "idle"
    /\ S \subseteq Firing(db)
    /\ db' = LET d == ResolveAlerts(db, S, "stale") IN RefreshStates(d, OwnersOf(d, S))
    /\ sweep' = [sweep EXCEPT !.phase = "expired", !.txn = S # {}]
    /\ UNCHANGED <<committed, op, failures>>

Select(phase, S) ==
    sweep' = [sweep EXCEPT !.phase = phase,
                           !.todo = S,
                           !.seen = [i \in Incidents |->
                               IF i \in S THEN Load(db.incident[i]) ELSE NotLoaded]]

(* _resolve_recovered: every incident whose observation period is over.     *)
SweepSelectRecovering ==
    /\ sweep.phase = "expired"
    /\ Select("explicit", {i \in Incidents : /\ db.incident[i].status = "RECOVERING"
                                             /\ db.incident[i].deadline = "passed"})
    /\ UNCHANGED <<db, committed, op, failures>>

(* verify_recovery: alerts first, then whatever Prometheus answers; an      *)
(* incident with no alerts has nothing to ask about.                        *)
VerifyOutcomes(d, i) ==
    IF \E a \in Attached(d, i) : d.alert[a].status = "FIRING" THEN {"not_recovered"}
    ELSE IF ~PrometheusConfigured THEN {"recovered"}
    ELSE IF Attached(d, i) = {} THEN {"unverified"}
    ELSE Verdicts

SweepVerify(i) ==
    /\ i \in sweep.todo
    /\ \E v \in VerifyOutcomes(db, i) :
        sweep' = [sweep EXCEPT !.todo = @ \ {i}, !.verdict[i] = v]
    /\ UNCHANGED <<db, committed, op, failures>>

(* Mutated: an unverified recovery is left under observation.               *)
AppliedUnlessUnverified(row, seen, verdict, path) ==
    LET marked == IF path = "probe" THEN [row EXCEPT !.probe = verdict] ELSE row
    IN  IF verdict = "recovered" THEN Flush(marked, seen, "RESOLVED")
        ELSE IF verdict = "unverified" THEN marked
        ELSE Flush(marked, seen, "OPEN")

(* The row _apply_verdict leaves; the probe path keeps its last result (a   *)
(* column nobody else writes) and lets an unchanged negative verdict pass   *)
(* without touching the status.                                            *)
Applied(row, seen, verdict, path) ==
    LET marked == IF path = "probe" THEN [row EXCEPT !.probe = verdict] ELSE row
    IN  IF verdict = "recovered" THEN Flush(marked, seen, "RESOLVED")
        ELSE IF path = "probe" /\ row.probe = verdict THEN marked
        ELSE Flush(marked, seen, "OPEN")

(* All verdicts are in before the first is applied; applying one opens the  *)
(* round's transaction if none is open yet.                                 *)
SweepApply(i) ==
    /\ sweep.todo = {}
    /\ sweep.verdict[i] # "none"
    /\ db' = [db EXCEPT !.incident[i] = Applied(@, sweep.seen[i], sweep.verdict[i], sweep.phase)]
    /\ sweep' = [sweep EXCEPT !.txn = TRUE, !.seen[i] = NotLoaded, !.verdict[i] = "none"]
    /\ UNCHANGED <<committed, op, failures>>

PhaseDone == sweep.todo = {} /\ \A i \in Incidents : sweep.verdict[i] = "none"

(* Silence and the probing interval decide which of these are due.          *)
Probeable(d) ==
    IF PrometheusConfigured
    THEN {i \in OpenIncidents(d) : ~(/\ d.incident[i].status = "RECOVERING"
                                     /\ d.incident[i].deadline # "none")}
    ELSE {}

SweepSelectProbes(S) ==
    /\ sweep.phase = "explicit"
    /\ PhaseDone
    /\ S \subseteq Probeable(db)
    /\ Select("probe", S)
    /\ UNCHANGED <<db, committed, op, failures>>

SweepCommit ==
    /\ sweep.phase = "probe"
    /\ PhaseDone
    /\ committed' = db
    /\ sweep' = IdleSweep
    /\ UNCHANGED <<db, op, failures>>

(* An exception in the round ("database is locked" on a flush, say).        *)
SweepFails ==
    /\ sweep.phase # "idle"
    /\ failures < MaxFailures
    /\ failures' = failures + 1
    /\ db' = committed
    /\ sweep' = IdleSweep
    /\ UNCHANGED <<committed, op>>

SweepStep ==
    \/ \E S \in SUBSET Alerts : SweepExpire(S)
    \/ SweepSelectRecovering
    \/ \E i \in Incidents : SweepVerify(i) \/ SweepApply(i)
    \/ \E S \in SUBSET Incidents : SweepSelectProbes(S)
    \/ SweepCommit

-----------------------------------------------------------------------------
(* Operator requests: load, then write; nothing holds between the two.      *)

OperatorLoads(o, kind, i) ==
    /\ op[o] = NoRequest
    /\ committed.incident[i].status # "absent"
    /\ op' = [op EXCEPT ![o] = [kind |-> kind, incident |-> i, alert |-> None,
                                seen |-> Load(committed.incident[i])]]
    /\ UNCHANGED <<db, committed, sweep, failures>>

OperatorPicksLink(o, i, a) ==
    /\ op[o] = NoRequest
    /\ <<i, a>> \in committed.link
    /\ op' = [op EXCEPT ![o] = [kind |-> "detach", incident |-> i, alert |-> a,
                                seen |-> NotLoaded]]
    /\ UNCHANGED <<db, committed, sweep, failures>>

Finish(o) ==
    /\ op' = [op EXCEPT ![o] = NoRequest]
    /\ UNCHANGED <<sweep, failures>>

AckIncident(o) ==
    /\ op[o].kind = "ack"
    /\ Commit(IF op[o].seen.status = "OPEN"
              THEN [db EXCEPT !.incident[op[o].incident].status = "ACKNOWLEDGED"] ELSE db)
    /\ Finish(o)

ResolveIncident(o) ==
    /\ op[o].kind = "resolve"
    /\ Commit([db EXCEPT !.incident[op[o].incident] = Flush(@, op[o].seen, "RESOLVED")])
    /\ Finish(o)

Detach(o) ==
    /\ op[o].kind = "detach"
    /\ Commit(DetachAlert(db, op[o].alert))
    /\ Finish(o)

OperatorStep ==
    \E o \in Operators :
        \/ \E i \in Incidents, kind \in {"ack", "resolve"} : OperatorLoads(o, kind, i)
        \/ \E i \in Incidents, a \in Alerts : OperatorPicksLink(o, i, a)
        \/ AckIncident(o) \/ ResolveIncident(o) \/ Detach(o)

-----------------------------------------------------------------------------
(* The observation period of i ends.  A round compares deadlines with the   *)
(* time it started at, so this does not happen during one.                  *)
DeadlinePasses(i) ==
    /\ sweep.phase = "idle"
    /\ db.incident[i].deadline = "ahead"
    /\ db' = [db EXCEPT !.incident[i].deadline = "passed"]
    /\ committed' = [committed EXCEPT !.incident[i].deadline = "passed"]
    /\ UNCHANGED <<sweep, op, failures>>

(* The process dies: the open transaction is rolled back, requests are lost.*)
Crash ==
    /\ failures < MaxFailures
    /\ failures' = failures + 1
    /\ db' = committed
    /\ sweep' = IdleSweep
    /\ op' = [o \in Operators |-> NoRequest]
    /\ UNCHANGED committed

Next ==
    \/ Webhook
    \/ SweepStep
    \/ OperatorStep
    \/ \E i \in Incidents : DeadlinePasses(i)
    \/ SweepFails
    \/ Crash

Spec == Init /\ [][Next]_vars

(* Time passes and the sweep loop keeps running its rounds; nothing is       *)
(* assumed of webhooks, operators, crashes or failing rounds.               *)
LiveSpec ==
    /\ Spec
    /\ WF_vars(SweepStep)
    /\ \A i \in Incidents : SF_vars(DeadlinePasses(i))

-----------------------------------------------------------------------------
(* Properties.                                                             *)

(* Types of the tables, of the round in progress and of the requests; an     *)
(* alert's status and its resolution_reason are written together.           *)
TypeOK ==
    /\ db \in Store /\ EndedWithReason(db)
    /\ committed \in Store /\ EndedWithReason(committed)
    /\ sweep \in Sweep
    /\ op \in [Operators -> Request]
    /\ failures \in 0..MaxFailures

(* Attach, merge and detach keep the two representations of "this alert is   *)
(* on that incident" together, also when a detach lands after a merge.      *)
LinksMatchOwners == OwnersAreLinked(db) /\ OwnersAreLinked(committed)

(* Nothing is ever attached to an incident that was merged away, although    *)
(* stale acknowledgements and verdicts may rewrite its status.              *)
MergedHoldsNothing == MergedIsEmpty(db) /\ MergedIsEmpty(committed)

(* Merging never makes a cycle of incidents.                                *)
MergesAreAcyclic == MergesEnd(db) /\ MergesEnd(committed)

(* Every firing fault has its incident.                                     *)
FiringIsTracked == FaultsAreTracked(db) /\ FaultsAreTracked(committed)

(* A fault fires once, repeats included.                                    *)
FaultFiresOnce == OneFiringPerFault(db) /\ OneFiringPerFault(committed)

(* Observation starts, and survives merges, only with a recovery signal.     *)
RecoveringWasSignalled == RecoveryHasSignal(db) /\ RecoveryHasSignal(committed)

(* Promotion, merging and detaching keep root_alert_id and relation ROOT     *)
(* consistent.                                                             *)
RootIsOwn == RootIsMarked(db) /\ RootIsMarked(committed)

Enters(i, s) == committed.incident[i].status # s /\ committed'.incident[i].status = s

(* What connections see of alerts and of the incidents that hold them.      *)
Ledger == INSTANCE AlertLedger WITH
    Faults <- Fingerprints,
    state <- [a \in Alerts |-> IF committed.alert[a].status = "RESOLVED"
                               THEN committed.alert[a].reason
                               ELSE committed.alert[a].status],
    fault <- [a \in Alerts |-> committed.alert[a].fingerprint],
    holder <- [a \in Alerts |-> committed.alert[a].incident],
    merged <- [i \in Incidents |-> committed.incident[i].merged]

(* Every commit, of whichever thread and however old the rows it loaded, is  *)
(* a step of the ledger or changes nothing there: alerts and merges are      *)
(* final, a fault fires once, and an alert changes hands only along a merge. *)
ImplementsLedger == Ledger!Spec

(* No transaction puts an incident under observation while one of its        *)
(* alerts fires.                                                            *)
RecoveryStartsQuiet ==
    [][\A i \in Incidents : Enters(i, "RECOVERING") => ~HasFiring(committed', i)]_vars

(* Observation ends: the sweep reaches a verdict on every observed incident. *)
RecoveryDecided ==
    \A i \in Incidents :
        committed.incident[i].status = "RECOVERING"
            ~> committed.incident[i].status # "RECOVERING"

(* Claims of the documentation that the code does not keep.                 *)

(* "All alerts recovered -> RECOVERING -> verified -> RESOLVED": a round of   *)
(* the sweep closes only incidents without a firing alert.                  *)
AutoCloseIsQuiet ==
    [][\A i \in Incidents : Enters(i, "RESOLVED") /\ UNCHANGED op =>
          ~HasFiring(committed', i)]_vars

(* "Silence is not recovery": an incident enters RECOVERING only in a step   *)
(* in which one of its firing alerts is declared recovered by its source.   *)
SilenceIsNotRecovery ==
    [][\A i \in Incidents : Enters(i, "RECOVERING") =>
          \E a \in Owned(committed', i) : /\ committed.alert[a].status = "FIRING"
                                         /\ committed'.alert[a].reason = "resolved"]_vars

=============================================================================
