-------------------------------- MODULE Intake --------------------------------
(***************************************************************************)
(* From deliveries of a source to alerts.  The source evaluates its rules   *)
(* and sends what it finds; a delivery may come late, twice or never.       *)
(* process_one handles one event in one transaction under PROCESS_LOCK, so  *)
(* it is one step; what Prometheus answers meanwhile is left open.          *)
(***************************************************************************)
EXTENDS Normalizer, FiniteSets

CONSTANTS
    Faults,      \* alerts a source can raise: a rule and what it found
    PayloadOf,   \* per fault: the payload that reports it
    Native,      \* the faults reported in the source's own form, labels included
    MaxTime,     \* bound: evaluations
    MaxSilent    \* bound: events during which Prometheus fails to answer

ASSUME FaultsAssumption == PayloadOf \in [Faults -> Payload] /\ Native \subseteq Faults
ASSUME BoundsAssumption == MaxTime \in Nat /\ MaxSilent \in Nat

VARIABLES
    clock,      \* evaluations so far
    sent,       \* events the source has sent, or will repeat
    delivered,  \* events that arrived at least once (for the properties only)
    raw,        \* raw_events: key and processing status of each event
    alerts,     \* the alerts table
    cache,      \* machine_info answers of the Prometheus client
    silent      \* events processed without an answer so far

vars == <<clock, sent, delivered, raw, alerts, cache, silent>>

Rejected(f) == PayloadOf[f].rule = None

(* What every event of a fault is normalised to.                            *)
Normalized == [f \in {g \in Faults : ~Rejected(g)} |-> Normalize(PayloadOf[f])]

Event == [fault : Faults, time : 1..MaxTime, recovered : BOOLEAN]

Init ==
    /\ clock = 0
    /\ sent = {}
    /\ delivered = {}
    /\ raw = {}
    /\ alerts = {}
    /\ cache = {}
    /\ silent = 0

(* The source: trigger_time tells two evaluations apart.                     *)
Send(f, recovered) ==
    /\ clock < MaxTime
    /\ clock' = clock + 1
    /\ sent' = sent \cup {[fault |-> f, time |-> clock', recovered |-> recovered]}
    /\ UNCHANGED <<delivered, raw, alerts, cache, silent>>

-----------------------------------------------------------------------------
(* One event.                                                              *)

(* Mutated: the hash alone, which all evaluations of a fault share.          *)
KeyWithoutTime(e) == [hash |-> e.fault, recovered |-> e.recovered, marker |-> 0]

(* The digest of what identifies a delivery: a retry has the same body.      *)
DedupKey(e) == [hash |-> e.fault, recovered |-> e.recovered, marker |-> e.time]

Known(e) == \E r \in raw : r.key = DedupKey(e)

Insert(e, status) == raw' = raw \cup {[key |-> DedupKey(e), status |-> status]}

Firing(fp) == {a \in alerts : a.status = "FIRING" /\ a.fingerprint = fp}

(* Rows of alerts, each named by the event that opened it.  The events are   *)
(* those counted; the code keeps their number only.                         *)
Opened(fp, e) ==
    [opened |-> e, fingerprint |-> fp, status |-> "FIRING", count |-> 1, events |-> {e}]

Repeated(a, e) ==
    [opened |-> a.opened, fingerprint |-> a.fingerprint, status |-> a.status,
     count |-> a.count + 1, events |-> a.events \cup {e}]

Ended(a, reason) ==
    [opened |-> a.opened, fingerprint |-> a.fingerprint, status |-> reason,
     count |-> a.count, events |-> a.events]

UpsertFiring(fp, e) ==
    alerts' = IF Firing(fp) # {}
              THEN {IF a \in Firing(fp) THEN Repeated(a, e) ELSE a : a \in alerts}
              ELSE alerts \cup {Opened(fp, e)}

End(S, reason) == alerts' = {IF a \in S THEN Ended(a, reason) ELSE a : a \in alerts}

(* A recovery without a firing alert changes nothing; one that arrives late   *)
(* ends what was counted since.                                             *)
MarkResolved(fp) == End(Firing(fp), "resolved")

Cached(key) == {c \in cache : c.key = key}

(* What machine_info returns: a kept answer, if there is one.                *)
Machine(key, answered) ==
    IF Cached(key) # {} THEN (CHOOSE c \in Cached(key) : TRUE).row ELSE MachineRow(key, answered)

Remember(key, answered) ==
    cache' = IF Cached(key) # {} THEN cache
             ELSE cache \cup {[key |-> key, row |-> MachineRow(key, answered)]}

(* Mutated: is_recovered is not read.                                        *)
AlwaysFiring(fp, e) == UpsertFiring(fp, e)

ByStatus(fp, e) == IF e.recovered THEN MarkResolved(fp) ELSE UpsertFiring(fp, e)

(* The event as it is when its fingerprint is built.                         *)
Enriched(f, answered) ==
    LET n == WithKube(Normalized[f], answered)
    IN  IF n.type = "node" THEN WithMachine(n, Machine(MachineKey(n), answered)) ELSE n

Duplicate(e) ==
    /\ e \in sent
    /\ Known(e)
    /\ delivered' = delivered \cup {e}
    /\ UNCHANGED <<clock, sent, raw, alerts, cache, silent>>

(* A payload without the name of a rule is kept as failed.                   *)
Reject(e) ==
    /\ e \in sent
    /\ ~Known(e)
    /\ Rejected(e.fault)
    /\ Insert(e, "FAILED")
    /\ delivered' = delivered \cup {e}
    /\ UNCHANGED <<clock, sent, alerts, cache, silent>>

Process(e, answered) ==
    /\ e \in sent
    /\ ~Known(e)
    /\ ~Rejected(e.fault)
    /\ answered # Queries => silent < MaxSilent
    /\ silent' = IF answered = Queries THEN silent ELSE silent + 1
    /\ LET n == WithKube(Normalized[e.fault], answered)
       IN  IF n.type = "node" THEN Remember(MachineKey(n), answered) ELSE UNCHANGED cache
    /\ ByStatus(Fingerprint(Enriched(e.fault, answered)), e)
    /\ Insert(e, "PROCESSED")
    /\ delivered' = delivered \cup {e}
    /\ UNCHANGED <<clock, sent>>

(* A round of the sweep ends alerts that were silent for too long.           *)
Expire(S) ==
    /\ S # {}
    /\ \A a \in S : a.status = "FIRING"
    /\ End(S, "stale")
    /\ UNCHANGED <<clock, sent, delivered, raw, cache, silent>>

(* machine_info_ttl_seconds have passed.                                     *)
CacheExpires(c) ==
    /\ c \in cache
    /\ cache' = cache \ {c}
    /\ UNCHANGED <<clock, sent, delivered, raw, alerts, silent>>

Next ==
    \/ \E f \in Faults, recovered \in BOOLEAN : Send(f, recovered)
    \/ \E e \in sent : Duplicate(e) \/ Reject(e) \/ \E answered \in SUBSET Queries : Process(e, answered)
    \/ \E S \in SUBSET alerts : Expire(S)
    \/ \E c \in cache : CacheExpires(c)

Spec == Init /\ [][Next]_vars

-----------------------------------------------------------------------------
(* Properties.                                                             *)

(* Types of the tables; raw_events, alerts and the cache have their keys,     *)
(* and an alert counts firings only, of events that were not rejected.       *)
TypeOK ==
    /\ clock \in 0..MaxTime /\ silent \in 0..MaxSilent
    /\ sent \subseteq Event /\ delivered \subseteq sent
    /\ \A r, s \in raw : r.key = s.key => r = s
    /\ \A c, d \in cache : c.key = d.key => c = d
    /\ \A c \in cache : c.row \in MachineInfo \cup {None}
    /\ \A a \in alerts : /\ a.status \in {"FIRING", "resolved", "stale"}
                         /\ a.events \subseteq delivered
                         /\ a.opened \in a.events
                         /\ \A e \in a.events : ~e.recovered /\ ~Rejected(e.fault)

(* occurrence_count is the number of evaluations that found the fault, each  *)
(* counted in one alert however often and in whatever order it arrives.      *)
EachTriggerCountsOnce ==
    /\ \A a \in alerts : a.count = Cardinality(a.events)
    /\ \A a, b \in alerts : a.events \cap b.events # {} => a = b
    /\ \A e \in delivered : ~e.recovered /\ ~Rejected(e.fault) =>
          \E a \in alerts : e \in a.events

ApartIn(S) ==
    \A a \in alerts : \A d, e \in a.events :
        d.fault \in S /\ e.fault \in S => d.fault = e.fault

(* Faults reported in the source's own form never share an alert, whatever   *)
(* names, ports and addresses their payloads use.                           *)
NativeKeptApart == ApartIn(Native)

ClusterOf(p) == Pick(p, <<"scope.cluster", "cluster", "label.cluster", "label.cluster_name">>)

(* What makes two payloads reports of two faults: their rules, what their     *)
(* entity is called, the clusters they name, and for pods and cards the       *)
(* labels that tell those of one entity apart.                              *)
DistinctReports(p, q) ==
    \/ p.rule # q.rule
    \/ TypeOf(p) # TypeOf(q)
    \/ IdOf(p) # IdOf(q)
    \/ ClusterOf(p) # None /\ ClusterOf(q) # None /\ ClusterOf(p) # ClusterOf(q)
    \/ /\ TypeOf(p) \in {"pod", "container"}
       /\ \E l \in {"label.namespace", "label.pod", "label.container"} : p.field[l] # q.field[l]
    \/ /\ TypeOf(p) = "gpu"
       /\ \E l \in {"label.gpu_index", "label.device"} : p.field[l] # q.field[l]

(* No alert mixes reports that are distinct, whatever Prometheus answers to   *)
(* which of them.                                                           *)
ReportsKeptApart ==
    \A a \in alerts : \A d, e \in a.events :
        ~DistinctReports(PayloadOf[d.fault], PayloadOf[e.fault])

(* The source's own form reports its faults distinctly: by node, by pod and   *)
(* namespace, by card.                                                      *)
NativeReportsDistinct ==
    \A f, g \in Native : f # g /\ ~Rejected(f) /\ ~Rejected(g) =>
        DistinctReports(PayloadOf[f], PayloadOf[g])

(* Recovery e ends every alert that has counted its fault before.            *)
EndsFault(e) ==
    \A a \in alerts' :
        (\E d \in a.events : d.fault = e.fault /\ d.time < e.time) => a.status # "FIRING"

Recoveries == {e \in sent : e.recovered /\ ~Rejected(e.fault)}

NamesCluster(f) == Normalized[f].cluster # None

(* A recovery whose payload names the cluster finds its alert, with or        *)
(* without Prometheus.                                                      *)
NamedRecoveryEnds ==
    [][\A e \in Recoveries \cap (delivered' \ delivered) : NamesCluster(e.fault) => EndsFault(e)]_vars

(* The ledger of alerts that IncidentLifecycle implements as well.  A fault   *)
(* of the ledger is a fingerprint here, an alert has the name of the event    *)
(* that opened it, and one incident stands for all.                          *)
Fingerprints ==
    {Fingerprint(WithMachine(WithKube(Normalized[f], answered), r)) :
        f \in DOMAIN Normalized, answered \in SUBSET Queries, r \in MachineInfo \cup {None}}

RowsOf(e) == {a \in alerts : a.opened = e}

RowOf(e) == CHOOSE a \in RowsOf(e) : TRUE

SomeIncident == "incident"

Ledger == INSTANCE AlertLedger WITH
    Alerts <- Event,
    Incidents <- {SomeIncident},
    Faults <- Fingerprints,
    state <- [e \in Event |-> IF RowsOf(e) = {} THEN "absent" ELSE RowOf(e).status],
    fault <- [e \in Event |-> IF RowsOf(e) = {} THEN None ELSE RowOf(e).fingerprint],
    holder <- [e \in Event |-> IF RowsOf(e) = {} THEN None ELSE SomeIncident],
    merged <- [i \in {SomeIncident} |-> None]

(* Opening, repeating and ending alerts is nothing but raising and ending     *)
(* them in the ledger: one alert at most fires for a fingerprint, and what    *)
(* has ended stays ended for its reason.                                    *)
ImplementsLedger == Ledger!Spec

=============================================================================
