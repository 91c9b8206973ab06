------------------------------ MODULE Correlation ------------------------------
(***************************************************************************)
(* Which incident a new alert joins and which incidents are merged            *)
(* (app/correlation/engine.py, rules.py, topology.py, and create, attach,      *)
(* promote, merge and reconcile of app/services/incident_service.py).         *)
(*                                                                         *)
(* IncidentStore lets the engine choose any incident; here the rules, the      *)
(* scores and the relations choose. An incident goes by the alert that        *)
(* opened it. Alerts arrive in any order and with any times; their ends, the   *)
(* states of an open incident and operators other than a closing one are in   *)
(* IncidentLifecycle.                                                       *)
(***************************************************************************)
EXTENDS Integers, Sequences

CONSTANTS
    Alerts,
    None,             \* NULL
    Attr,             \* what the normaliser and the enricher made of an event
    NeverLink,        \* rules/correlation.yaml: pairs of names, in the order written
    ForceLink,
    CausalRules,      \* rules/causal_rules.yaml: a sequence
    RootPriority,     \* of every name, the default filled in
    Weights,
    Threshold,
    StrongSignals,
    Window,           \* minutes: the longest of correlation_windows
    Times,            \* bound: minutes at which alerts occur
    ApiRelations,     \* relations POST /topology/relations may register
    MaxFailures       \* bound: attempts at an event that are rolled back

Names == {Attr[a].name : a \in Alerts}

ASSUME TimesAssumption == Times \subseteq Nat /\ Window \in Nat
ASSUME FailuresAssumption == MaxFailures \in Nat
ASSUME RulesAssumption ==
    /\ Len(CausalRules) \in Nat /\ DOMAIN CausalRules = 1..Len(CausalRules)
    /\ \A k \in DOMAIN CausalRules : CausalRules[k].weight \in Int
(* No name excludes itself.                                                 *)
ASSUME NeverAssumption == \A n \in Names : <<n, n>> \notin NeverLink
ASSUME StrongAssumption == StrongSignals \subseteq {"exact_entity", "topology", "causal_rule", "force_link"}

VARIABLES
    incident,    \* rows of incidents with the alerts linked to them
    seen,        \* first_seen of the alerts that were processed
    relations,   \* rows of resource_relations, without their kind
    pending,     \* session.info: relations the open session believes it has added
    failures

vars == <<incident, seen, relations, pending, failures>>

Entity(a) == Attr[a].entity
Node(a) == Attr[a].node
Cluster(a) == Attr[a].cluster
Name(a) == Attr[a].name

(* The labels the fingerprint hashes name the entity.                       *)
Fingerprint(a) == <<Name(a), Cluster(a), Entity(a)>>

Absent ==
    [status |-> "absent", held |-> {}, root |-> None, node |-> None, cluster |-> None,
     first |-> 0, last |-> 0, merged |-> None]

Init ==
    /\ incident = [i \in Alerts |-> Absent]
    /\ seen = [a \in Alerts |-> None]
    /\ relations = {}
    /\ pending = {}
    /\ failures = 0

-----------------------------------------------------------------------------
(* Topology. R is the table as the transaction sees it.                     *)

Unconnected == 3

neighbors(R, e) ==
    {r[2] : r \in {q \in R : q[1] = e}} \cup {r[1] : r \in {q \in R : q[2] = e}}

distance(R, a, b) ==
    IF a = b THEN 0
    ELSE IF b \in neighbors(R, a) THEN 1
    ELSE IF neighbors(R, a) \cap neighbors(R, b) # {} THEN 2
    ELSE Unconnected

Near(R, a, b) == distance(R, a, b) \in {1, 2}

(* upsert skips what the session has added before, even if it was rolled    *)
(* back since, and leaves what the table has.                               *)
Upserted(R, rows) == R \cup (rows \ pending)
PendingAfter(R, rows) == pending \cup (rows \ R)

-----------------------------------------------------------------------------
(* Rules.                                                                  *)

never(x, y) == <<x, y>> \in NeverLink \/ <<y, x>> \in NeverLink
force(x, y) == <<x, y>> \in ForceLink \/ <<y, x>> \in ForceLink

role(rule, name, others) ==
    IF name = rule.cause /\ others \cap rule.symptoms # {} THEN "cause"
    ELSE IF name \in rule.symptoms /\ rule.cause \in others THEN "symptom"
    ELSE "none"

(* The loop over the rules: after rule k, best[k] is the best of the first k,  *)
(* 0 while none has matched.                                                *)
causal_match(name, others) ==
    LET best[k \in 0..Len(CausalRules)] ==
            IF k = 0 THEN 0
            ELSE IF /\ role(CausalRules[k], name, others) # "none"
                    /\ \/ best[k - 1] = 0
                       \/ CausalRules[k].weight > CausalRules[best[k - 1]].weight
                 THEN k
                 ELSE best[k - 1]
    IN  best[Len(CausalRules)]

-----------------------------------------------------------------------------
(* CorrelationEngine.correlate.                                            *)

NamesOf(row) == {Name(x) : x \in row.held}

(* OPEN, ACKNOWLEDGED and RECOVERING are one status here.                   *)
Candidates(a, t) ==
    {i \in Alerts : /\ incident[i].status = "OPEN"
                    /\ incident[i].last + Window >= t
                    /\ Cluster(a) # None => incident[i].cluster \in {None, Cluster(a)}}

(* Mutated: the node of the incident is not looked at.                      *)
AnyNode(n, row) == TRUE

node_compatible(n, row) == n = None \/ row.node = None \/ n = row.node

Blocked(a, row) == \E name \in NamesOf(row) : never(Name(a), name)

ForcedBy(a, row) == \E name \in NamesOf(row) : force(Name(a), name)

Causal(a, row) ==
    LET k == causal_match(Name(a), NamesOf(row))
    IN  IF k # 0 /\ CausalRules[k].same_node /\ ~node_compatible(Node(a), row) THEN 0 ELSE k

Entities(row) == {Entity(x) : x \in row.held \cup {row.root}}
SameEntity(a, row) == Entity(a) \in Entities(row)
SameNode(a, row) == ~SameEntity(a, row) /\ Node(a) # None /\ Node(a) = row.node
AtDistance(R, a, row, d) == \E e \in Entities(row) : distance(R, Entity(a), e) = d

signals(R, a, row) ==
    {s \in {"exact_entity", "same_node", "topology", "causal_rule"} :
        CASE s = "exact_entity" -> SameEntity(a, row)
          [] s = "same_node"    -> SameNode(a, row)
          [] s = "topology"     -> AtDistance(R, a, row, 1) \/ AtDistance(R, a, row, 2)
          [] s = "causal_rule"  -> Causal(a, row) # 0}

Worth(condition, weight) == IF condition THEN weight ELSE 0

(* Sameness that only adds to a score: of cluster, namespace and project.    *)
Shared(a, row, label) == Attr[a][label] # None /\ \E x \in row.held : Attr[x][label] = Attr[a][label]

time_score(row, t) ==
    LET delta == IF t >= row.last THEN t - row.last ELSE row.last - t
    IN  IF delta <= 1 THEN Weights.time_1m
        ELSE IF delta <= 3 THEN Weights.time_3m
        ELSE IF delta <= 5 THEN Weights.time_5m
        ELSE 0

score(R, a, t, row) ==
    Worth(SameEntity(a, row), Weights.exact_entity)
    + Worth(SameNode(a, row), Weights.same_physical_node)
    + (IF AtDistance(R, a, row, 1) THEN Weights.topology_distance_1
       ELSE Worth(AtDistance(R, a, row, 2), Weights.topology_distance_2))
    + Worth(Cluster(a) # None /\ Cluster(a) = row.cluster, Weights.same_cluster)
    + Worth(Shared(a, row, "namespace"), Weights.same_namespace)
    + Worth(Shared(a, row, "project"), Weights.same_project)
    + time_score(row, t)
    + (IF Causal(a, row) = 0 THEN 0 ELSE CausalRules[Causal(a, row)].weight)

(* Mutated: the score alone decides, as before the gate was added.          *)
AlwaysLinkable(R, a, row) == TRUE

linkable(R, a, row) == signals(R, a, row) \cap StrongSignals # {}

(* The loop visits the candidates from the latest last_seen on: the first     *)
(* with a forced name on its node ends it.                                  *)
Latest(S) == {i \in S : \A j \in S : incident[j].last <= incident[i].last}

Forced(a, t) ==
    Latest({i \in Candidates(a, t) : /\ ~Blocked(a, incident[i])
                                     /\ ForcedBy(a, incident[i])
                                     /\ node_compatible(Node(a), incident[i])})

Scored(R, a, t) ==
    {i \in Candidates(a, t) : /\ ~Blocked(a, incident[i])
                              /\ ~ForcedBy(a, incident[i])
                              /\ linkable(R, a, incident[i])}

Best(R, a, t) ==
    LET worth == [i \in Scored(R, a, t) |-> score(R, a, t, incident[i])]
        highest == {i \in DOMAIN worth : \A j \in DOMAIN worth : worth[j] <= worth[i]}
    IN  {i \in Latest(highest) : worth[i] >= Threshold}

(* Relation ROOT for the cause of a rule; the other relations promote alike. *)
relation(a, row) ==
    IF Causal(a, row) = 0 THEN "SYMPTOM"
    ELSE IF role(CausalRules[Causal(a, row)], Name(a), NamesOf(row)) = "cause" THEN "ROOT"
    ELSE "SYMPTOM"

-----------------------------------------------------------------------------
(* Incident service.                                                       *)

Created(a, t) ==
    [status |-> "OPEN", held |-> {a}, root |-> a, node |-> Node(a), cluster |-> Cluster(a),
     first |-> t, last |-> t, merged |-> None]

Later(x, y) == IF x >= y THEN x ELSE y

_maybe_promote_root(row, a, rel) ==
    IF rel # "ROOT" /\ RootPriority[Name(a)] <= RootPriority[Name(row.root)] THEN row
    ELSE [row EXCEPT !.root = a, !.node = IF Node(a) # None THEN Node(a) ELSE @]

(* Mutated: last_seen is set rather than raised.                            *)
AttachedLast(row, a, t, rel) ==
    _maybe_promote_root([row EXCEPT !.held = @ \cup {a}, !.last = t, !.status = "OPEN"], a, rel)

Attached(row, a, t, rel) ==
    _maybe_promote_root(
        [row EXCEPT !.held = @ \cup {a}, !.last = Later(@, t), !.status = "OPEN"], a, rel)

(* keep is the older of the two, so its first_seen is the lesser already.     *)
Kept(row, from) == [row EXCEPT !.held = @ \cup from.held, !.last = Later(@, from.last)]
Dropped(row, keep) == [row EXCEPT !.held = {}, !.status = "MERGED", !.merged = keep]

Merged(inc, keep, drop) ==
    [inc EXCEPT ![keep] = Kept(@, inc[drop]), ![drop] = Dropped(@, keep)]

(* Mutated: never_link is left to the engine.                               *)
NothingForbids(x, y) == FALSE

Forbidden(x, y) == \E m \in NamesOf(x), n \in NamesOf(y) : never(m, n)

Ruled(x, y) ==
    \/ \E m \in NamesOf(x), n \in NamesOf(y) : force(m, n)
    \/ \E m \in NamesOf(x) : causal_match(m, NamesOf(y)) # 0
    \/ \E n \in NamesOf(y) : causal_match(n, NamesOf(x)) # 0

(* Incidents that reconcile_incidents may merge with i.                     *)
Matches(R, inc, i) ==
    {j \in Alerts \ {i} :
        LET x == inc[i]
            y == inc[j]
            ruled == Ruled(x, y)
        IN  /\ y.status = "OPEN" /\ y.held # {}
            /\ y.last + Window >= x.first /\ x.first + Window >= y.last
            /\ x.cluster = None \/ y.cluster = None \/ x.cluster = y.cluster
            /\ ~Forbidden(x, y)
            /\ ruled => node_compatible(x.node, y)
            /\ ruled \/ Near(R, Entity(x.root), Entity(y.root))}

(* One merge per event, the older incident kept. The query has no order; of  *)
(* two that were first seen together the numbers decide, which are not here.  *)
Reconciled(R, inc, i) ==
    LET others == Matches(R, inc, i)
    IN  IF others = {} THEN {inc}
        ELSE {Merged(inc, j, i) : j \in {k \in others : inc[k].first <= inc[i].first}}
             \cup {Merged(inc, i, j) : j \in {k \in others : inc[i].first <= inc[k].first}}

-----------------------------------------------------------------------------
(* The part of _handle_firing that places an alert, then reconciles.        *)

Linked(a) == {i \in Alerts : \E x \in incident[i].held : Fingerprint(x) = Fingerprint(a)}

(* incident_by_fingerprint, if the latest is within the recurrence window.   *)
Recurring(a) == Latest({i \in Linked(a) : incident[i].merged = None})

Joined(R, a, t, i, rel) ==
    Reconciled(R, [incident EXCEPT ![i] = Attached(@, a, t, rel)], i)

Opened(R, a, t) == Reconciled(R, [incident EXCEPT ![a] = Created(a, t)], a)

(* The recurrence window ends at utcnow, which the times of events do not     *)
(* bound: it may or may not reach back to the last incident of the fault.    *)
Placed(R, a, t) ==
    LET forced == Forced(a, t)
        best == Best(R, a, t)
    IN  IF forced # {} THEN UNION {Joined(R, a, t, i, "SYMPTOM") : i \in forced}
        ELSE IF best # {} THEN UNION {Joined(R, a, t, i, relation(a, incident[i])) : i \in best}
        ELSE Opened(R, a, t) \cup (UNION {Joined(R, a, t, i, "UNKNOWN") : i \in Recurring(a)})

(* An event with a new alert: enriched, correlated, committed.              *)
AlertArrives(a) ==
    /\ seen[a] = None
    /\ \E t \in Times :
          LET R == Upserted(relations, Attr[a].facts)
          IN  /\ incident' \in Placed(R, a, t)
              /\ seen' = [seen EXCEPT ![a] = t]
              /\ relations' = R
    /\ pending' = PendingAfter(relations, Attr[a].facts)
    /\ UNCHANGED failures

(* An attempt that is rolled back leaves its keys in session.info.          *)
AttemptFails(a) ==
    /\ seen[a] = None
    /\ failures < MaxFailures
    /\ failures' = failures + 1
    /\ pending' = PendingAfter(relations, Attr[a].facts)
    /\ UNCHANGED <<incident, seen, relations>>

(* The request is answered and its session closed.                          *)
SessionEnds ==
    /\ pending # {}
    /\ pending' = {}
    /\ UNCHANGED <<incident, seen, relations, failures>>

(* POST /api/v1/topology/relations, in a session of its own.                *)
create_relation(r) ==
    /\ r \notin relations
    /\ relations' = relations \cup {r}
    /\ UNCHANGED <<incident, seen, pending, failures>>

(* The sweep or POST /resolve.                                              *)
IncidentCloses(i) ==
    /\ incident[i].status = "OPEN"
    /\ incident' = [incident EXCEPT ![i].status = "RESOLVED"]
    /\ UNCHANGED <<seen, relations, pending, failures>>

Next ==
    \/ \E a \in Alerts : AlertArrives(a)
    \/ \E a \in Alerts : AttemptFails(a)
    \/ SessionEnds
    \/ \E r \in ApiRelations : create_relation(r)
    \/ \E i \in Alerts : IncidentCloses(i)

Spec == Init /\ [][Next]_vars

-----------------------------------------------------------------------------
(* Properties.                                                             *)

Rows ==
    [status : {"absent", "OPEN", "RESOLVED", "MERGED"}, held : SUBSET Alerts,
     root : Alerts \cup {None}, node : {Attr[a].node : a \in Alerts} \cup {None},
     cluster : {Attr[a].cluster : a \in Alerts} \cup {None},
     first : Nat, last : Nat, merged : Alerts \cup {None}]

(* The tables keep their types, an incident that is not merged away holds    *)
(* its root, and it was not last seen before it was first seen, whatever      *)
(* order the events come in (create_incident, attach_alert, merge_incidents). *)
TypeOK ==
    /\ incident \in [Alerts -> Rows]
    /\ \A i \in Alerts : incident[i].status \in {"OPEN", "RESOLVED"} =>
          /\ incident[i].root \in incident[i].held
          /\ incident[i].first <= incident[i].last
    /\ \A i \in Alerts : incident[i].status \in {"absent", "MERGED"} => incident[i].held = {}
    /\ seen \in [Alerts -> Times \cup {None}]
    /\ failures \in 0..MaxFailures

(* never_link comes before everything else: two alerts whose names exclude    *)
(* each other are never on one incident, be it by attachment, by recurrence   *)
(* or because their incidents are merged through others (engine.py:166,       *)
(* incident_service.py:331).                                                *)
NeverTogether ==
    \A i \in Alerts : \A x, y \in incident[i].held : ~never(Name(x), Name(y))

(* By rule k alert x is a cause of alert y.                                 *)
Explains(k, x, y) == Name(x) = CausalRules[k].cause /\ Name(y) \in CausalRules[k].symptoms

Tied(R, x, y) ==
    \/ Entity(x) = Entity(y)
    \/ Near(R, Entity(x), Entity(y))
    \/ force(Name(x), Name(y))
    \/ \E k \in DOMAIN CausalRules : Explains(k, x, y) \/ Explains(k, y, x)

(* Alerts that only share a node, a cluster or the time are not joined: an    *)
(* incident cannot be split in two parts without cutting a tie of entity,     *)
(* topology or rule, however attachments and merges built it (the gate of     *)
(* strong signals, engine.py:6-7).                                           *)
TiedTogether ==
    \A i \in Alerts : \A S \in SUBSET incident[i].held :
        S \notin {{}, incident[i].held} =>
            \E x \in S, y \in incident[i].held \ S : Tied(relations, x, y)

(* What reaches from node to node: one entity that was seen on both, as a pod *)
(* that moved, the topology, or a rule that does not ask for the same node.   *)
Bridged(R, x, y) ==
    \/ Entity(x) = Entity(y)
    \/ Near(R, Entity(x), Entity(y))
    \/ \E k \in DOMAIN CausalRules :
          ~CausalRules[k].same_node /\ (Explains(k, x, y) \/ Explains(k, y, x))

(* A failure of one node does not swallow those of another: an incident whose *)
(* alerts all name their node cannot be split by nodes without cutting a      *)
(* bridge; force_link and the rules that ask for the same node never join     *)
(* nodes (engine.py:69, incident_service.py:353).                           *)
NodesTied ==
    \A i \in Alerts :
        LET held == incident[i].held
            nodes == {Node(x) : x \in held}
        IN  None \notin nodes =>
                \A S \in (SUBSET nodes) \ {{}, nodes} :
                    \E x, y \in held :
                        Node(x) \in S /\ Node(y) \notin S /\ Bridged(relations, x, y)

Symptom(x, y) == \E k \in DOMAIN CausalRules : Explains(k, x, y)

(* "Symptom first, root cause later: the root must be promoted": the root of   *)
(* an incident is not the symptom of another alert on it                      *)
(* (incident_service.py:201-204).                                           *)
CauseIsRoot ==
    \A i \in Alerts : incident[i].status = "OPEN" =>
        \A x \in incident[i].held : ~Symptom(x, incident[i].root)

=============================================================================
