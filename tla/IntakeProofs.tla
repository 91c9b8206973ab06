----------------------------- MODULE IntakeProofs -----------------------------
(***************************************************************************)
(* For any payloads, any rows of kube-state-metrics and machine_info and    *)
(* any answers of Prometheus: every evaluation is counted once, a recovery  *)
(* that names its cluster finds its alert, alerts do not mix what payloads  *)
(* report apart, and Intake implements AlertLedger.                         *)
(***************************************************************************)
EXTENDS Intake, FiniteSetTheorems, TLAPS

(* Enrichment completes an event and leaves what it is about alone.          *)
SameFault(m, n) ==
    /\ m.rule = n.rule /\ m.type = n.type /\ m.id = n.id /\ m.dims = n.dims
    /\ n.cluster # None => m.cluster = n.cluster

IsNormal(m) ==
    m = [rule |-> m.rule, type |-> m.type, id |-> m.id, ip |-> m.ip, hostname |-> m.hostname,
         namespace |-> m.namespace, node |-> m.node, scopeNode |-> m.scopeNode,
         cluster |-> m.cluster, dims |-> m.dims]

LEMMA StepsSameFault ==
    ASSUME NEW n, IsNormal(n), NEW r
    PROVE  /\ IsNormal(WithNode(n, r)) /\ SameFault(WithNode(n, r), n)
           /\ IsNormal(WithPod(n, r)) /\ SameFault(WithPod(n, r), n)
           /\ SameFault(WithMachine(n, r), n)
  <1>1. /\ n = [rule |-> n.rule, type |-> n.type, id |-> n.id, ip |-> n.ip,
                hostname |-> n.hostname, namespace |-> n.namespace, node |-> n.node,
                scopeNode |-> n.scopeNode, cluster |-> n.cluster, dims |-> n.dims]
    BY DEF IsNormal
  <1>2. IsNormal(WithNode(n, r)) /\ SameFault(WithNode(n, r), n)
    <2> DEFINE m == WithNode(n, r)
               node == IF n.node = None \/ IsAddress(n.node) THEN r.node ELSE n.node
               scopeNode == IF n.scopeNode = None \/ IsAddress(n.scopeNode)
                            THEN r.node ELSE n.scopeNode
               hostname == Orelse(n.hostname, r.node)
               cluster == Orelse(n.cluster, r.env)
    <2>1. m = [n EXCEPT !.node = node, !.scopeNode = scopeNode, !.hostname = hostname,
                        !.ip = r.internal_ip, !.cluster = cluster]
      BY <1>1 DEF WithNode
    <2>2. n.cluster # None => cluster = n.cluster
      BY DEF Orelse
    <2> HIDE DEF m, node, scopeNode, hostname, cluster
    <2>3. m = [rule |-> n.rule, type |-> n.type, id |-> n.id, ip |-> r.internal_ip,
               hostname |-> hostname, namespace |-> n.namespace, node |-> node,
               scopeNode |-> scopeNode, cluster |-> cluster, dims |-> n.dims]
      BY <1>1, <2>1
    <2> QED BY <2>2, <2>3 DEF IsNormal, SameFault, m
  <1>3. IsNormal(WithPod(n, r)) /\ SameFault(WithPod(n, r), n)
    <2> DEFINE m == WithPod(n, r)
               node == Orelse(n.node, r.node)
               scopeNode == Orelse(n.scopeNode, r.node)
               cluster == Orelse(n.cluster, r.env)
    <2>1. m = [n EXCEPT !.node = node, !.scopeNode = scopeNode, !.cluster = cluster]
      BY <1>1 DEF WithPod
    <2>2. n.cluster # None => cluster = n.cluster
      BY DEF Orelse
    <2> HIDE DEF m, node, scopeNode, cluster
    <2>3. m = [rule |-> n.rule, type |-> n.type, id |-> n.id, ip |-> n.ip,
               hostname |-> n.hostname, namespace |-> n.namespace, node |-> node,
               scopeNode |-> scopeNode, cluster |-> cluster, dims |-> n.dims]
      BY <1>1, <2>1
    <2> QED BY <2>2, <2>3 DEF IsNormal, SameFault, m
  <1>4. SameFault(WithMachine(n, r), n)
    BY DEF IsNormal, SameFault, WithMachine, Orelse
  <1> QED BY <1>2, <1>3, <1>4

LEMMA EnrichedSameFault ==
    ASSUME NEW f \in Faults, ~Rejected(f), NEW answered
    PROVE  SameFault(Enriched(f, answered), Normalized[f])
  <1> DEFINE n == Normalized[f]
             k == WithKube(n, answered)
             kube == KubeRow(n, answered)
             key == Machine(MachineKey(k), answered)
  <1>1. IsNormal(n)
    BY DEF Normalized, Normalize, IsNormal
  <1>2. k = n \/ k = WithNode(n, kube) \/ k = WithPod(n, kube)
    BY DEF WithKube
  <1>3. Enriched(f, answered) = k \/ Enriched(f, answered) = WithMachine(k, key)
    BY DEF Enriched
  <1> HIDE DEF n, k, kube, key
  <1>4. IsNormal(k) /\ SameFault(k, n)
    <2>1. SameFault(n, n)
      BY DEF SameFault
    <2> QED BY <1>1, <1>2, <2>1, StepsSameFault
  <1>5. SameFault(Enriched(f, answered), k)
    <2>1. SameFault(k, k)
      BY DEF SameFault
    <2> QED BY <1>3, <1>4, <2>1, StepsSameFault
  <1> QED BY <1>4, <1>5 DEF SameFault, n

(* The fingerprint of a fault whose payload names the cluster is the same     *)
(* whatever Prometheus answers and whatever it answered before.              *)
LEMMA NamedFingerprint ==
    ASSUME NEW f \in Faults, ~Rejected(f), NamesCluster(f), NEW answered
    PROVE  Fingerprint(Enriched(f, answered)) = Fingerprint(Normalized[f])
  BY EnrichedSameFault DEF SameFault, Fingerprint, NamesCluster

(* What a fingerprint says of a fault it was built for: everything but a      *)
(* cluster that only Prometheus knows.                                      *)
FitsFault(fp, f) ==
    /\ fp.rule = Normalized[f].rule /\ fp.type = Normalized[f].type
    /\ fp.id = Normalized[f].id /\ fp.dims = Normalized[f].dims
    /\ NamesCluster(f) => fp = Fingerprint(Normalized[f])

LEMMA FaultFingerprint ==
    ASSUME NEW f \in Faults, ~Rejected(f), NEW answered
    PROVE  FitsFault(Fingerprint(Enriched(f, answered)), f)
  <1>1. SameFault(Enriched(f, answered), Normalized[f])
    BY EnrichedSameFault
  <1>2. NamesCluster(f) => Fingerprint(Enriched(f, answered)) = Fingerprint(Normalized[f])
    BY NamedFingerprint
  <1> QED BY <1>1, <1>2 DEF SameFault, Fingerprint, FitsFault

-----------------------------------------------------------------------------
(* The inductive invariant.                                                *)

(* Rows are about firings that arrived and count each of them.               *)
RowsCount ==
    \A a \in alerts :
        /\ a = [opened |-> a.opened, fingerprint |-> a.fingerprint, status |-> a.status,
                count |-> a.count, events |-> a.events]
        /\ IsFiniteSet(a.events)
        /\ a.count = Cardinality(a.events)
        /\ \A e \in a.events : ~e.recovered /\ ~Rejected(e.fault)

RowsApart == \A a, b \in alerts : a.events \cap b.events # {} => a = b

FiringsCounted ==
    \A e \in delivered : ~e.recovered /\ ~Rejected(e.fault) => \E a \in alerts : e \in a.events

(* At most one firing alert has a fingerprint.                               *)
FiringApart ==
    \A a, b \in alerts :
        a.status = "FIRING" /\ b.status = "FIRING" /\ a.fingerprint = b.fingerprint => a = b

(* raw_events holds one row for each event that arrived.                     *)
RawIsDelivered ==
    /\ \A e \in delivered : Known(e)
    /\ \A r \in raw : \E e \in delivered : r.key = DedupKey(e)

(* Every event of a row is about the fault its fingerprint names.            *)
RowsFit == \A a \in alerts : \A e \in a.events : FitsFault(a.fingerprint, e.fault)

AlertsOK ==
    \A a \in alerts : /\ a.status \in {"FIRING", "resolved", "stale"}
                     /\ a.events \subseteq delivered
                     /\ a.opened \in a.events

AlertsInv ==
    /\ AlertsOK
    /\ RowsCount
    /\ RowsApart
    /\ FiringApart
    /\ FiringsCounted
    /\ RowsFit

IInv ==
    /\ TypeOK
    /\ RawIsDelivered
    /\ AlertsInv

LEMMA KeysAreEvents ==
    ASSUME NEW d \in Event, NEW e \in Event, DedupKey(d) = DedupKey(e)
    PROVE  d = e
  BY DEF Event, DedupKey

(* An event without a row of its own has not arrived.                        *)
LEMMA UnknownIsNew ==
    ASSUME IInv, NEW e \in sent, ~Known(e)
    PROVE  e \notin delivered
  BY DEF IInv, RawIsDelivered

LEMMA KnownIsDelivered ==
    ASSUME IInv, NEW e \in sent, Known(e)
    PROVE  e \in delivered
  <1>1. PICK d \in delivered : DedupKey(d) = DedupKey(e)
    BY DEF IInv, RawIsDelivered, Known
  <1>2. d \in Event /\ e \in Event
    BY DEF IInv, TypeOK
  <1> QED BY <1>1, <1>2, KeysAreEvents

(* An event that gets its row now: raw_events as the invariant wants it.      *)
LEMMA InsertRaw ==
    ASSUME IInv, NEW e \in sent, ~Known(e), NEW status, Insert(e, status),
           delivered' = delivered \cup {e}
    PROVE  /\ RawIsDelivered'
           /\ \A r, s \in raw' : r.key = s.key => r = s
  <1>1. raw' = raw \cup {[key |-> DedupKey(e), status |-> status]}
    BY DEF Insert
  <1>2. \A r \in raw : r.key # DedupKey(e)
    BY DEF Known
  <1>3. \A r, s \in raw : r.key = s.key => r = s
    BY DEF IInv, TypeOK
  <1>4. \A r, s \in raw' : r.key = s.key => r = s
    BY <1>1, <1>2, <1>3
  <1>5. \A d \in delivered' : \E r \in raw' : r.key = DedupKey(d)
    <2>1. \A d \in delivered : \E r \in raw : r.key = DedupKey(d)
      BY DEF IInv, RawIsDelivered, Known
    <2> DEFINE new == [key |-> DedupKey(e), status |-> status]
    <2>2. new \in raw' /\ new.key = DedupKey(e) /\ raw \subseteq raw'
      BY <1>1
    <2> HIDE DEF new
    <2>3. SUFFICES ASSUME NEW d \in delivered' PROVE \E r \in raw' : r.key = DedupKey(d)
      OBVIOUS
    <2>4. CASE d \in delivered
      BY <2>1, <2>2, <2>4
    <2>5. CASE d = e
      BY <2>2, <2>5
    <2> QED BY <2>4, <2>5
  <1>6. \A r \in raw' : \E d \in delivered' : r.key = DedupKey(d)
    BY <1>1 DEF IInv, RawIsDelivered
  <1>7. RawIsDelivered'
    BY <1>5, <1>6 DEF RawIsDelivered, Known, DedupKey
  <1> QED BY <1>4, <1>7

LEMMA Repeats ==
    ASSUME IInv, NEW a \in alerts, NEW e \in sent, e \notin delivered,
           ~e.recovered, ~Rejected(e.fault)
    PROVE  LET b == Repeated(a, e)
           IN  /\ b = [opened |-> b.opened, fingerprint |-> b.fingerprint, status |-> b.status,
                       count |-> b.count, events |-> b.events]
               /\ IsFiniteSet(b.events)
               /\ b.count = Cardinality(b.events)
               /\ b.events = a.events \cup {e}
               /\ b.fingerprint = a.fingerprint
               /\ b.opened = a.opened
               /\ b.status = a.status
  <1>1. /\ IsFiniteSet(a.events) /\ a.count = Cardinality(a.events)
        /\ e \notin a.events
    BY DEF IInv, AlertsInv, AlertsOK, RowsCount
  <1>2. /\ IsFiniteSet(a.events \cup {e})
        /\ Cardinality(a.events \cup {e}) = Cardinality(a.events) + 1
    BY <1>1, FS_AddElement
  <1> QED BY <1>1, <1>2 DEF Repeated

-----------------------------------------------------------------------------
(* The steps.                                                              *)

(* One row b takes over what the rows it replaces had counted and counts e;  *)
(* old is what they had counted, rest the other rows.                       *)
CountsOf(b, rest, old, e) ==
    /\ b = [opened |-> b.opened, fingerprint |-> b.fingerprint, status |-> b.status,
            count |-> b.count, events |-> b.events]
    /\ IsFiniteSet(b.events) /\ b.count = Cardinality(b.events)
    /\ b.events = old \cup {e} /\ b.opened \in b.events /\ b.status = "FIRING"
    /\ \A a \in rest : a.events \cap old = {}
    /\ \A a \in alerts \ rest : a.events \subseteq old
    /\ \A d \in old : ~d.recovered /\ ~Rejected(d.fault)
    /\ \A d \in b.events : FitsFault(b.fingerprint, d.fault)
    /\ \A a \in rest : a.status = "FIRING" => a.fingerprint # b.fingerprint

LEMMA CountedBy ==
    ASSUME IInv, NEW e \in sent, e \notin delivered, ~e.recovered, ~Rejected(e.fault),
           delivered' = delivered \cup {e},
           NEW rest \in SUBSET alerts, NEW old \in SUBSET delivered, NEW b,
           alerts' = rest \cup {b},
           CountsOf(b, rest, old, e)
    PROVE  AlertsInv'
  <1>1. AlertsInv
    BY DEF IInv
  <1> USE DEF CountsOf
  <1>2. AlertsOK'
    BY <1>1 DEF AlertsInv, AlertsOK
  <1>3. RowsCount'
    BY <1>1 DEF AlertsInv, RowsCount, Rejected
  <1>4. RowsApart'
    <2>1. \A a \in rest : a.events \cap b.events = {}
      BY <1>1 DEF AlertsInv, AlertsOK
    <2> QED BY <1>1, <2>1 DEF AlertsInv, RowsApart
  <1>5. FiringApart'
    BY <1>1 DEF AlertsInv, FiringApart
  <1>6. FiringsCounted'
    <2> SUFFICES ASSUME NEW d \in delivered', ~d.recovered, ~Rejected(d.fault)
                 PROVE  \E a \in alerts' : d \in a.events
      BY DEF FiringsCounted, Rejected
    <2>1. CASE d = e
      BY <2>1
    <2>2. CASE d \in delivered
      <3>1. PICK a \in alerts : d \in a.events
        BY <1>1, <2>2 DEF AlertsInv, FiringsCounted
      <3>2. CASE a \in rest
        BY <3>1, <3>2
      <3>3. CASE a \notin rest
        BY <3>1, <3>3
      <3> QED BY <3>2, <3>3
    <2> QED BY <2>1, <2>2
  <1>7. RowsFit'
    <2> SUFFICES ASSUME NEW a \in rest \cup {b}, NEW d \in a.events
                 PROVE  FitsFault(a.fingerprint, d.fault)
      BY DEF RowsFit, FitsFault, NamesCluster, Normalized
    <2>1. CASE a = b
      BY <2>1
    <2>2. CASE a \in rest
      BY <1>1, <2>2 DEF AlertsInv, RowsFit
    <2> QED BY <2>1, <2>2
  <1> QED BY <1>2, <1>3, <1>4, <1>5, <1>6, <1>7 DEF AlertsInv

(* A firing event is counted by one row: the firing one or a new one.        *)
LEMMA FiringCounted ==
    ASSUME IInv, NEW e \in sent, e \notin delivered, ~e.recovered, ~Rejected(e.fault),
           delivered' = delivered \cup {e}, NEW fp, UpsertFiring(fp, e),
           FitsFault(fp, e.fault)
    PROVE  AlertsInv'
  <1>1. AlertsInv
    BY DEF IInv
  <1>2. CASE Firing(fp) = {}
    <2> DEFINE b == Opened(fp, e)
    <2>1. alerts' = alerts \cup {b}
      BY <1>2 DEF UpsertFiring
    <2>2. /\ b = [opened |-> b.opened, fingerprint |-> b.fingerprint, status |-> b.status,
                  count |-> b.count, events |-> b.events]
          /\ b.opened = e /\ b.fingerprint = fp /\ b.status = "FIRING" /\ b.count = 1
          /\ b.events = {e}
      BY DEF Opened
    <2>3. IsFiniteSet({e}) /\ Cardinality({e}) = 1
      BY FS_Singleton
    <2>4. \A a \in alerts : a.status = "FIRING" => a.fingerprint # fp
      BY <1>2 DEF Firing
    <2> HIDE DEF b
    <2>5. CountsOf(b, alerts, {}, e)
      BY <2>2, <2>3, <2>4 DEF CountsOf
    <2> QED BY <2>1, <2>5, CountedBy
  <1>3. CASE Firing(fp) # {}
    <2>1. PICK x \in alerts : x.status = "FIRING" /\ x.fingerprint = fp
      BY <1>3 DEF Firing
    <2>2. Firing(fp) = {x}
      BY <1>1, <2>1 DEF AlertsInv, FiringApart, Firing
    <2> DEFINE b == Repeated(x, e)
               rest == alerts \ {x}
    <2>3. alerts' = rest \cup {b}
      BY <1>3, <2>1, <2>2 DEF UpsertFiring
    <2>4. /\ b = [opened |-> b.opened, fingerprint |-> b.fingerprint, status |-> b.status,
                  count |-> b.count, events |-> b.events]
          /\ IsFiniteSet(b.events) /\ b.count = Cardinality(b.events)
          /\ b.events = x.events \cup {e}
          /\ b.fingerprint = x.fingerprint /\ b.opened = x.opened /\ b.status = x.status
      BY Repeats
    <2> HIDE DEF b
    <2>5. /\ x.events \in SUBSET delivered
          /\ x.opened \in x.events
      BY <1>1 DEF AlertsInv, AlertsOK
    <2>6. \A a \in rest : a.events \cap x.events = {}
      BY <1>1 DEF AlertsInv, RowsApart
    <2>7. \A a \in alerts \ rest : a.events \subseteq x.events
      OBVIOUS
    <2>8. \A d \in x.events : ~d.recovered /\ ~Rejected(d.fault)
      BY <1>1 DEF AlertsInv, RowsCount
    <2>9. \A d \in b.events : FitsFault(b.fingerprint, d.fault)
      BY <1>1, <2>1, <2>4 DEF AlertsInv, RowsFit
    <2>10. \A a \in rest : a.status = "FIRING" => a.fingerprint # b.fingerprint
      BY <2>2, <2>1, <2>4 DEF Firing
    <2>11. rest \in SUBSET alerts /\ b.opened \in b.events /\ b.status = "FIRING"
      BY <2>1, <2>4, <2>5
    <2> HIDE DEF rest
    <2>12. CountsOf(b, rest, x.events, e)
      BY <2>4, <2>6, <2>7, <2>8, <2>9, <2>10, <2>11 DEF CountsOf
    <2> QED BY <2>3, <2>5, <2>11, <2>12, CountedBy
  <1> QED BY <1>2, <1>3

(* Rows that end keep what they counted.                                    *)
LEMMA EndKeeps ==
    ASSUME IInv, NEW S, NEW reason \in {"resolved", "stale"}, End(S, reason), delivered \subseteq delivered',
           \A d \in delivered' \ delivered : d.recovered \/ Rejected(d.fault)
    PROVE  AlertsInv'
  <1> DEFINE After(a) == IF a \in S THEN Ended(a, reason) ELSE a
  <1>1. AlertsInv
    BY DEF IInv
  <1>2. alerts' = {After(a) : a \in alerts}
    BY DEF End
  <1>3. \A a \in alerts :
           /\ After(a) = [opened |-> After(a).opened, fingerprint |-> After(a).fingerprint,
                          status |-> After(a).status, count |-> After(a).count,
                          events |-> After(a).events]
           /\ After(a).opened = a.opened /\ After(a).fingerprint = a.fingerprint
           /\ After(a).count = a.count /\ After(a).events = a.events
           /\ After(a).status \in {reason, a.status}
    BY <1>1 DEF AlertsInv, RowsCount, Ended
  <1> HIDE DEF After
  <1>4. AlertsOK'
    BY <1>1, <1>2, <1>3 DEF AlertsInv, AlertsOK
  <1>5. RowsCount'
    BY <1>1, <1>2, <1>3 DEF AlertsInv, RowsCount, Rejected
  <1>6. RowsApart'
    <2> SUFFICES ASSUME NEW a \in alerts, NEW b \in alerts,
                        After(a).events \cap After(b).events # {}
                 PROVE  After(a) = After(b)
      BY <1>2 DEF RowsApart
    <2> QED BY <1>1, <1>3 DEF AlertsInv, RowsApart
  <1>7. FiringApart'
    <2> SUFFICES ASSUME NEW a \in alerts, NEW b \in alerts,
                        After(a).status = "FIRING", After(b).status = "FIRING",
                        After(a).fingerprint = After(b).fingerprint
                 PROVE  After(a) = After(b)
      BY <1>2 DEF FiringApart
    <2>1. a.status = "FIRING" /\ b.status = "FIRING" /\ a.fingerprint = b.fingerprint
      BY <1>3
    <2> QED BY <1>1, <2>1 DEF AlertsInv, FiringApart
  <1>8. FiringsCounted'
    <2> SUFFICES ASSUME NEW d \in delivered', ~d.recovered, ~Rejected(d.fault)
                 PROVE  \E a \in alerts' : d \in a.events
      BY DEF FiringsCounted, Rejected
    <2>1. d \in delivered
      OBVIOUS
    <2>2. PICK a \in alerts : d \in a.events
      BY <1>1, <2>1 DEF AlertsInv, FiringsCounted
    <2> QED BY <1>2, <1>3, <2>2
  <1>9. RowsFit'
    BY <1>1, <1>2, <1>3 DEF AlertsInv, RowsFit, FitsFault, NamesCluster, Normalized, Rejected
  <1> QED BY <1>4, <1>5, <1>6, <1>7, <1>8, <1>9 DEF AlertsInv

(* Nothing about the tables changes.                                        *)
LEMMA Untouched ==
    ASSUME IInv, UNCHANGED <<delivered, raw, alerts>>
    PROVE  RawIsDelivered' /\ AlertsInv'
  BY DEF IInv, RawIsDelivered, AlertsInv, AlertsOK, RowsCount, RowsApart, FiringApart,
         FiringsCounted, RowsFit, FitsFault, Known, DedupKey, NamesCluster, Normalized, Rejected

LEMMA RememberKeys ==
    ASSUME IInv, NEW key, NEW answered, Remember(key, answered)
    PROVE  /\ \A c, d \in cache' : c.key = d.key => c = d
           /\ \A c \in cache' : c.row \in MachineInfo \cup {None}
  <1> DEFINE new == [key |-> key, row |-> MachineRow(key, answered)]
  <1>1. /\ \A c, d \in cache : c.key = d.key => c = d
        /\ \A c \in cache : c.row \in MachineInfo \cup {None}
    BY DEF IInv, TypeOK
  <1>4. MachineRow(key, answered) \in MachineInfo \cup {None}
    BY DEF MachineRow, Row
  <1>2. CASE Cached(key) # {}
    BY <1>1, <1>2 DEF Remember
  <1>3. CASE Cached(key) = {}
    <2>1. cache' = cache \cup {new} /\ new.key = key /\ new.row \in MachineInfo \cup {None}
      BY <1>3, <1>4 DEF Remember
    <2>2. \A c \in cache : c.key # key
      BY <1>3 DEF Cached
    <2> HIDE DEF new
    <2> QED BY <1>1, <2>1, <2>2
  <1> QED BY <1>2, <1>3

LEMMA ProcessKeeps ==
    ASSUME IInv, NEW e \in sent, NEW answered \in SUBSET Queries, Process(e, answered)
    PROVE  IInv'
  <1>1. /\ ~Known(e) /\ ~Rejected(e.fault) /\ Insert(e, "PROCESSED")
        /\ delivered' = delivered \cup {e} /\ UNCHANGED <<clock, sent>>
    BY DEF Process
  <1>2. e \notin delivered
    BY <1>1, UnknownIsNew
  <1>3. e.fault \in Faults
    BY DEF IInv, TypeOK, Event
  <1>4. RawIsDelivered' /\ \A r, s \in raw' : r.key = s.key => r = s
    BY <1>1, InsertRaw
  <1>5. AlertsInv'
    <2> DEFINE fp == Fingerprint(Enriched(e.fault, answered))
    <2>1. IF e.recovered THEN MarkResolved(fp) ELSE UpsertFiring(fp, e)
      BY DEF Process, ByStatus
    <2>2. FitsFault(fp, e.fault)
      BY <1>1, <1>3, FaultFingerprint
    <2> HIDE DEF fp
    <2>3. CASE e.recovered
      <3>1. End(Firing(fp), "resolved")
        BY <2>1, <2>3 DEF MarkResolved
      <3> QED BY <1>1, <2>3, <3>1, EndKeeps
    <2>4. CASE ~e.recovered
      BY <1>1, <1>2, <2>1, <2>2, <2>4, FiringCounted
    <2> QED BY <2>3, <2>4
  <1>6. /\ \A c, d \in cache' : c.key = d.key => c = d
        /\ \A c \in cache' : c.row \in MachineInfo \cup {None}
    <2> DEFINE n == WithKube(Normalized[e.fault], answered)
    <2>1. IF n.type = "node" THEN Remember(MachineKey(n), answered) ELSE UNCHANGED cache
      BY DEF Process
    <2> HIDE DEF n
    <2>2. CASE n.type = "node"
      BY <2>1, <2>2, RememberKeys
    <2>3. CASE n.type # "node"
      BY <2>1, <2>3 DEF IInv, TypeOK
    <2> QED BY <2>2, <2>3
  <1>7. silent' \in 0..MaxSilent
    BY BoundsAssumption DEF Process, IInv, TypeOK
  <1>8. TypeOK'
    BY <1>1, <1>4, <1>5, <1>6, <1>7 DEF IInv, TypeOK, AlertsInv, AlertsOK, RowsCount
  <1> QED BY <1>4, <1>5, <1>8 DEF IInv

LEMMA RejectKeeps ==
    ASSUME IInv, NEW e \in sent, Reject(e)
    PROVE  IInv'
  <1>1. /\ ~Known(e) /\ Rejected(e.fault) /\ Insert(e, "FAILED")
        /\ delivered' = delivered \cup {e} /\ UNCHANGED <<clock, sent, alerts, cache, silent>>
    BY DEF Reject
  <1>2. RawIsDelivered' /\ \A r, s \in raw' : r.key = s.key => r = s
    BY <1>1, InsertRaw
  <1>3. AlertsInv'
    <2>1. AlertsOK' /\ RowsCount' /\ RowsApart' /\ FiringApart' /\ RowsFit'
      BY <1>1 DEF IInv, AlertsInv, AlertsOK, RowsCount, RowsApart, FiringApart, RowsFit,
                  FitsFault, NamesCluster, Normalized, Rejected
    <2>2. FiringsCounted'
      BY <1>1 DEF IInv, AlertsInv, FiringsCounted, Rejected
    <2> QED BY <2>1, <2>2 DEF AlertsInv
  <1>4. TypeOK'
    BY <1>1, <1>2, <1>3 DEF IInv, TypeOK, AlertsInv, AlertsOK
  <1> QED BY <1>2, <1>3, <1>4 DEF IInv

LEMMA SendKeeps ==
    ASSUME IInv, NEW f \in Faults, NEW recovered \in BOOLEAN, Send(f, recovered)
    PROVE  IInv'
  <1>1. /\ UNCHANGED <<delivered, raw, alerts, cache, silent>>
        /\ clock' \in 0..MaxTime /\ clock' \in 1..MaxTime
        /\ sent' = sent \cup {[fault |-> f, time |-> clock', recovered |-> recovered]}
    BY BoundsAssumption DEF Send, IInv, TypeOK
  <1>2. sent' \subseteq Event
    BY <1>1 DEF IInv, TypeOK, Event
  <1>3. TypeOK'
    BY <1>1, <1>2 DEF IInv, TypeOK
  <1> QED BY <1>1, <1>3, Untouched DEF IInv

LEMMA NextKeeps ==
    ASSUME IInv, [Next]_vars
    PROVE  IInv'
  <1>1. CASE \E f \in Faults, recovered \in BOOLEAN : Send(f, recovered)
    BY <1>1, SendKeeps
  <1>2. CASE \E e \in sent : Duplicate(e)
    <2>1. PICK e \in sent : Duplicate(e)
      BY <1>2
    <2>2. e \in delivered
      BY <2>1, KnownIsDelivered DEF Duplicate
    <2>3. UNCHANGED vars
      BY <2>1, <2>2 DEF Duplicate, vars
    <2> QED BY <2>3, Untouched DEF IInv, TypeOK, vars
  <1>3. CASE \E e \in sent : Reject(e)
    BY <1>3, RejectKeeps
  <1>4. CASE \E e \in sent : \E answered \in SUBSET Queries : Process(e, answered)
    BY <1>4, ProcessKeeps
  <1>5. CASE \E S \in SUBSET alerts : Expire(S)
    <2>1. PICK S \in SUBSET alerts : Expire(S)
      BY <1>5
    <2>2. End(S, "stale") /\ UNCHANGED <<clock, sent, delivered, raw, cache, silent>>
      BY <2>1 DEF Expire
    <2>3. AlertsInv'
      BY <2>2, EndKeeps
    <2>4. RawIsDelivered'
      BY <2>2 DEF IInv, RawIsDelivered, Known, DedupKey
    <2>5. TypeOK'
      BY <2>2, <2>3 DEF IInv, TypeOK, AlertsInv, AlertsOK, RowsCount
    <2> QED BY <2>3, <2>4, <2>5 DEF IInv
  <1>6. CASE \E c \in cache : CacheExpires(c)
    <2>1. UNCHANGED <<clock, sent, delivered, raw, alerts, silent>> /\ cache' \subseteq cache
      BY <1>6 DEF CacheExpires
    <2> QED BY <2>1, Untouched DEF IInv, TypeOK
  <1>7. CASE UNCHANGED vars
    BY <1>7, Untouched DEF IInv, TypeOK, vars
  <1> QED BY <1>1, <1>2, <1>3, <1>4, <1>5, <1>6, <1>7 DEF Next

LEMMA InitHolds == Init => IInv
  BY BoundsAssumption DEF Init, IInv, TypeOK, RawIsDelivered, AlertsInv, AlertsOK, RowsCount,
     RowsApart, FiringApart, FiringsCounted, RowsFit

(* The tables agree with what arrived, in every reachable state.             *)
THEOREM IntakeInvariant == Spec => []IInv
  BY InitHolds, NextKeeps, PTL DEF Spec

(* raw_events, alerts and the cache of machine_info keep their keys.          *)
THEOREM IntakeTypes == Spec => []TypeOK
  BY IntakeInvariant, PTL DEF IInv

(* No evaluation is lost or counted twice, for any payloads, late, repeated  *)
(* or reordered deliveries and any answers of Prometheus.                    *)
THEOREM TriggersCountOnce == Spec => []EachTriggerCountsOnce
  <1>1. IInv => EachTriggerCountsOnce
    BY DEF IInv, AlertsInv, RowsCount, RowsApart, FiringsCounted, EachTriggerCountsOnce
  <1> QED BY <1>1, IntakeInvariant, PTL

(* A recovery whose payload names its cluster ends the alerts of its fault,   *)
(* even when Prometheus is silent for one of the two and not for the other.   *)
THEOREM NamedRecoveriesEnd == Spec => NamedRecoveryEnds
  <1>1. ASSUME IInv, [Next]_vars,
               NEW e \in Recoveries \cap (delivered' \ delivered), NamesCluster(e.fault)
        PROVE  EndsFault(e)
    <2>1. e \in sent /\ e.recovered /\ ~Rejected(e.fault) /\ e \in delivered' /\ e \notin delivered
      BY <1>1 DEF Recoveries
    <2>2. e.fault \in Faults
      BY <1>1, <2>1 DEF IInv, TypeOK, Event
    <2>3. \A d \in sent : Duplicate(d) \/ Reject(d) => d \in delivered \/ Rejected(d.fault)
      BY <1>1, KnownIsDelivered DEF Duplicate, Reject
    <2>4. PICK answered \in SUBSET Queries : Process(e, answered)
      BY <1>1, <2>1, <2>3 DEF Next, vars, Send, Duplicate, Reject, Process, Expire, CacheExpires
    <2> DEFINE fp == Fingerprint(Enriched(e.fault, answered))
               After(a) == IF a \in Firing(fp) THEN Ended(a, "resolved") ELSE a
    <2>5. alerts' = {After(a) : a \in alerts}
      BY <2>1, <2>4 DEF Process, ByStatus, MarkResolved, End
    <2>6. fp = Fingerprint(Normalized[e.fault])
      BY <1>1, <2>1, <2>2, NamedFingerprint
    <2> SUFFICES ASSUME NEW a \in alerts, NEW d \in After(a).events, d.fault = e.fault
                 PROVE  After(a).status # "FIRING"
      BY <2>5 DEF EndsFault
    <2>7. d \in a.events
      BY DEF Ended
    <2>8. a.fingerprint = fp
      BY <1>1, <2>6, <2>7 DEF IInv, AlertsInv, RowsFit, FitsFault
    <2>9. a.status \in {"FIRING", "resolved", "stale"}
      BY <1>1 DEF IInv, AlertsInv, AlertsOK
    <2> HIDE DEF fp
    <2> QED BY <2>8, <2>9 DEF Firing, Ended
  <1>2. IInv /\ [Next]_vars =>
           [\A e \in Recoveries \cap (delivered' \ delivered) :
               NamesCluster(e.fault) => EndsFault(e)]_vars
    BY <1>1
  <1> QED BY <1>2, IntakeInvariant, PTL DEF Spec, NamedRecoveryEnds

-----------------------------------------------------------------------------
(* Faults that are told apart.                                             *)

(* The dimensions of a normal form are the labels that distinguish it.        *)
LEMMA DimensionsTell ==
    ASSUME NEW p, NEW q, TypeOf(p) = TypeOf(q), Normalize(p).dims = Normalize(q).dims
    PROVE  /\ TypeOf(p) \in {"pod", "container"} =>
                \A l \in {"label.namespace", "label.pod", "label.container"} : p.field[l] = q.field[l]
           /\ TypeOf(p) = "gpu" =>
                \A l \in {"label.gpu_index", "label.device"} : p.field[l] = q.field[l]
  <1> DEFINE D == Dimensions(TypeOf(p))
  <1>1. [k \in DOMAIN D |-> p.field[D[k]]] = [k \in DOMAIN D |-> q.field[D[k]]]
    BY DEF Normalize
  <1>2. \A k \in DOMAIN D : p.field[D[k]] = q.field[D[k]]
    <2> HIDE DEF D
    <2> QED BY <1>1, Zenon
  <1>3. CASE TypeOf(p) \in {"pod", "container"}
    <2>1. D = <<"label.namespace", "label.pod", "label.container">>
      BY <1>3 DEF Dimensions
    <2> HIDE DEF D
    <2>2. DOMAIN D = 1..3 /\ D[1] = "label.namespace" /\ D[2] = "label.pod" /\ D[3] = "label.container"
      BY <2>1
    <2>3. 1 \in DOMAIN D /\ 2 \in DOMAIN D /\ 3 \in DOMAIN D
      BY <2>2
    <2>4. /\ p.field["label.namespace"] = q.field["label.namespace"]
          /\ p.field["label.pod"] = q.field["label.pod"]
          /\ p.field["label.container"] = q.field["label.container"]
      BY <1>2, <2>2, <2>3
    <2> QED BY <1>3, <2>4
  <1>4. CASE TypeOf(p) = "gpu"
    <2>1. D = <<"label.gpu_index", "label.device">>
      BY <1>4 DEF Dimensions
    <2> HIDE DEF D
    <2>2. DOMAIN D = 1..2 /\ D[1] = "label.gpu_index" /\ D[2] = "label.device"
      BY <2>1
    <2>3. 1 \in DOMAIN D /\ 2 \in DOMAIN D
      BY <2>2
    <2>4. /\ p.field["label.gpu_index"] = q.field["label.gpu_index"]
          /\ p.field["label.device"] = q.field["label.device"]
      BY <1>2, <2>2, <2>3
    <2> QED BY <1>4, <2>4
  <1> QED BY <1>3, <1>4

LEMMA FitsTell ==
    ASSUME NEW f \in Faults, NEW g \in Faults, ~Rejected(f), ~Rejected(g),
           NEW fp, FitsFault(fp, f), FitsFault(fp, g)
    PROVE  ~DistinctReports(PayloadOf[f], PayloadOf[g])
  <1> DEFINE p == PayloadOf[f]
             q == PayloadOf[g]
  <1>1. Normalized[f] = Normalize(p) /\ Normalized[g] = Normalize(q)
    BY DEF Normalized
  <1> HIDE DEF p, q
  <1>2. /\ Normalize(p).rule = Normalize(q).rule /\ Normalize(p).type = Normalize(q).type
        /\ Normalize(p).id = Normalize(q).id /\ Normalize(p).dims = Normalize(q).dims
    BY <1>1 DEF FitsFault
  <1>3. /\ p.rule = q.rule /\ TypeOf(p) = TypeOf(q) /\ IdOf(p) = IdOf(q)
    BY <1>2 DEF Normalize
  <1>4. ClusterOf(p) # None /\ ClusterOf(q) # None => ClusterOf(p) = ClusterOf(q)
    <2>1. Normalize(p).cluster = ClusterOf(p) /\ Normalize(q).cluster = ClusterOf(q)
      BY DEF Normalize, ClusterOf
    <2>2. \A n : Fingerprint(n).cluster = n.cluster
      BY DEF Fingerprint
    <2>3. /\ Normalize(p).cluster # None => fp = Fingerprint(Normalize(p))
          /\ Normalize(q).cluster # None => fp = Fingerprint(Normalize(q))
      BY <1>1 DEF FitsFault, NamesCluster
    <2> QED BY <2>1, <2>2, <2>3
  <1>5. ~DistinctReports(p, q)
    BY <1>2, <1>3, <1>4, DimensionsTell DEF DistinctReports
  <1> QED BY <1>5 DEF p, q

(* Whatever Prometheus answers to which of them, two events are counted in    *)
(* one alert only when their payloads report one rule, entity and cluster,    *)
(* and for pods and cards the same labels.                                  *)
THEOREM AlertsKeepReportsApart == Spec => []ReportsKeptApart
  <1>1. IInv => ReportsKeptApart
    <2> SUFFICES ASSUME IInv, NEW a \in alerts, NEW d \in a.events, NEW e \in a.events
                 PROVE  ~DistinctReports(PayloadOf[d.fault], PayloadOf[e.fault])
      BY DEF ReportsKeptApart
    <2>1. FitsFault(a.fingerprint, d.fault) /\ FitsFault(a.fingerprint, e.fault)
      BY DEF IInv, AlertsInv, RowsFit
    <2>2. ~Rejected(d.fault) /\ ~Rejected(e.fault)
      BY DEF IInv, AlertsInv, RowsCount
    <2>3. d \in Event /\ e \in Event
      BY DEF IInv, AlertsInv, AlertsOK, TypeOK
    <2>4. d.fault \in Faults /\ e.fault \in Faults
      BY <2>3 DEF Event
    <2> QED BY <2>1, <2>2, <2>4, FitsTell
  <1> QED BY <1>1, IntakeInvariant, PTL

(* Where the payloads of the source's own form report their faults distinctly *)
(* (which they do by node, by pod and namespace and by card), no two of those *)
(* faults ever share an alert.                                              *)
THEOREM NativeFaultsApart ==
    ASSUME NativeReportsDistinct
    PROVE  Spec => []NativeKeptApart
  <1>1. IInv /\ ReportsKeptApart => NativeKeptApart
    <2> SUFFICES ASSUME IInv, ReportsKeptApart,
                        NEW a \in alerts, NEW d \in a.events, NEW e \in a.events,
                        d.fault \in Native, e.fault \in Native
                 PROVE  d.fault = e.fault
      BY DEF NativeKeptApart, ApartIn
    <2>1. ~Rejected(d.fault) /\ ~Rejected(e.fault)
      BY DEF IInv, AlertsInv, RowsCount
    <2> QED BY <2>1 DEF ReportsKeptApart, NativeReportsDistinct
  <1> QED BY <1>1, IntakeInvariant, AlertsKeepReportsApart, PTL

-----------------------------------------------------------------------------
(* The ledger.                                                             *)

(* The alert an event has opened, if any, as the ledger sees it.             *)
LedgerState == [e \in Event |-> IF RowsOf(e) = {} THEN "absent" ELSE RowOf(e).status]
LedgerFault == [e \in Event |-> IF RowsOf(e) = {} THEN None ELSE RowOf(e).fingerprint]
LedgerHolder == [e \in Event |-> IF RowsOf(e) = {} THEN None ELSE SomeIncident]
LedgerMerged == [i \in {SomeIncident} |-> None]

(* An event opens one alert at most.                                        *)
LEMMA OneRow ==
    ASSUME IInv
    PROVE  \A a \in alerts : /\ a.opened \in Event
                             /\ RowsOf(a.opened) = {a} /\ RowOf(a.opened) = a
  <1> SUFFICES ASSUME NEW a \in alerts
               PROVE  a.opened \in Event /\ RowsOf(a.opened) = {a} /\ RowOf(a.opened) = a
    OBVIOUS
  <1>1. a.opened \in a.events /\ a.events \subseteq Event
    BY DEF IInv, TypeOK
  <1>2. ASSUME NEW b \in alerts, b.opened = a.opened PROVE b = a
    <2>1. b.opened \in b.events
      BY DEF IInv, TypeOK
    <2> QED BY <1>1, <1>2, <2>1 DEF IInv, AlertsInv, RowsApart
  <1>3. RowsOf(a.opened) = {a}
    BY <1>2 DEF RowsOf
  <1> QED BY <1>1, <1>3 DEF RowOf

(* The ledger says of an alert what its row says, and nothing else.           *)
RowsInLedger ==
    /\ \A a \in alerts : /\ LedgerState[a.opened] = a.status
                         /\ LedgerFault[a.opened] = a.fingerprint
                         /\ LedgerHolder[a.opened] = SomeIncident
    /\ \A e \in Event : (\A a \in alerts : a.opened # e) =>
          LedgerState[e] = "absent" /\ LedgerFault[e] = None /\ LedgerHolder[e] = None

LEMMA LedgerOfRows == IInv => RowsInLedger
  <1> SUFFICES ASSUME IInv PROVE RowsInLedger
    OBVIOUS
  <1>1. ASSUME NEW e \in Event, \A a \in alerts : a.opened # e PROVE RowsOf(e) = {}
    BY <1>1 DEF RowsOf
  <1> QED BY <1>1, OneRow DEF LedgerState, LedgerFault, LedgerHolder, RowsInLedger

LEMMA LedgerOfRowsAfter == IInv' => RowsInLedger'
  BY LedgerOfRows, PTL

(* The rows stay; those of S get a new status.                               *)
Restated(S, status) ==
    /\ \A a \in alerts : \E b \in alerts' :
          /\ b.opened = a.opened /\ b.fingerprint = a.fingerprint
          /\ b.status = IF a \in S THEN status ELSE a.status
    /\ \A b \in alerts' : \E a \in alerts : b.opened = a.opened

LEMMA LedgerRestated ==
    ASSUME IInv, IInv', NEW S \in SUBSET alerts, NEW status, Restated(S, status)
    PROVE  /\ LedgerState' = [e \in Event |-> IF e \in {a.opened : a \in S} THEN status
                                              ELSE LedgerState[e]]
           /\ UNCHANGED <<LedgerFault, LedgerHolder, LedgerMerged>>
  <1>1. ASSUME NEW e \in Event
        PROVE  /\ LedgerState'[e] = IF e \in {a.opened : a \in S} THEN status ELSE LedgerState[e]
               /\ LedgerFault'[e] = LedgerFault[e] /\ LedgerHolder'[e] = LedgerHolder[e]
    <2>1. CASE \A a \in alerts : a.opened # e
      <3>1. \A b \in alerts' : b.opened # e
        BY <2>1 DEF Restated
      <3>2. LedgerState[e] = "absent" /\ LedgerFault[e] = None /\ LedgerHolder[e] = None
        BY <2>1, LedgerOfRows DEF RowsInLedger
      <3>3. LedgerState'[e] = "absent" /\ LedgerFault'[e] = None /\ LedgerHolder'[e] = None
        BY <3>1, LedgerOfRowsAfter DEF RowsInLedger
      <3>4. e \notin {a.opened : a \in S}
        BY <2>1
      <3> QED BY <3>2, <3>3, <3>4
    <2>2. CASE \E a \in alerts : a.opened = e
      <3>1. PICK a \in alerts : a.opened = e
        BY <2>2
      <3>2. PICK b \in alerts' : /\ b.opened = e /\ b.fingerprint = a.fingerprint
                                 /\ b.status = IF a \in S THEN status ELSE a.status
        BY <3>1 DEF Restated
      <3>3. LedgerState[e] = a.status /\ LedgerFault[e] = a.fingerprint
            /\ LedgerHolder[e] = SomeIncident
        BY <3>1, LedgerOfRows DEF RowsInLedger
      <3>4. LedgerState'[e] = b.status /\ LedgerFault'[e] = b.fingerprint
            /\ LedgerHolder'[e] = SomeIncident
        BY <3>2, LedgerOfRowsAfter DEF RowsInLedger
      <3>5. \A c \in alerts : c.opened = e => c = a
        BY <3>1, OneRow DEF RowsOf
      <3>6. e \in {c.opened : c \in S} <=> a \in S
        BY <3>1, <3>5
      <3> QED BY <3>2, <3>3, <3>4, <3>6
    <2> QED BY <2>1, <2>2
  <1>2. LedgerState' = [e \in Event |-> LedgerState'[e]]
        /\ LedgerFault' = [e \in Event |-> LedgerFault'[e]]
        /\ LedgerHolder' = [e \in Event |-> LedgerHolder'[e]]
    BY DEF LedgerState, LedgerFault, LedgerHolder
  <1>3. LedgerFault = [e \in Event |-> LedgerFault[e]]
        /\ LedgerHolder = [e \in Event |-> LedgerHolder[e]]
    BY DEF LedgerFault, LedgerHolder
  <1>4. UNCHANGED LedgerMerged
    BY DEF LedgerMerged
  <1>5. LedgerState' = [e \in Event |-> IF e \in {a.opened : a \in S} THEN status
                                        ELSE LedgerState[e]]
    BY <1>1, <1>2
  <1>6. UNCHANGED <<LedgerFault, LedgerHolder>>
    BY <1>1, <1>2, <1>3
  <1> QED BY <1>4, <1>5, <1>6

LEMMA LedgerEndIs ==
    \A S, why : Ledger!End(S, why) <=>
        /\ S # {}
        /\ \A a \in S : LedgerState[a] = "FIRING"
        /\ LedgerState' = [a \in Event |-> IF a \in S THEN why ELSE LedgerState[a]]
        /\ UNCHANGED <<LedgerFault, LedgerHolder, LedgerMerged>>
  BY DEF Ledger!End, LedgerState, LedgerFault, LedgerHolder, LedgerMerged

LEMMA LedgerRests ==
    ASSUME IInv, IInv', Restated({}, "absent")
    PROVE  UNCHANGED Ledger!vars
  <1>1. /\ LedgerState' = [e \in Event |-> IF e \in {a.opened : a \in {}} THEN "absent"
                                           ELSE LedgerState[e]]
        /\ UNCHANGED <<LedgerFault, LedgerHolder, LedgerMerged>>
    BY LedgerRestated
  <1>2. LedgerState = [e \in Event |-> LedgerState[e]]
    BY DEF LedgerState
  <1>3. UNCHANGED LedgerState
    <2>1. {a.opened : a \in {}} = {}
      OBVIOUS
    <2> QED BY <1>1, <1>2, <2>1
  <1>4. UNCHANGED <<LedgerFault, LedgerHolder, LedgerMerged>>
    BY <1>1
  <1> QED BY <1>3, <1>4 DEF Ledger!vars, LedgerState, LedgerFault, LedgerHolder, LedgerMerged

LEMMA LedgerEnds ==
    ASSUME IInv, IInv', NEW S \in SUBSET alerts, NEW reason, S # {},
           \A a \in S : a.status = "FIRING", End(S, reason)
    PROVE  Ledger!End({a.opened : a \in S}, reason)
  <1> DEFINE After(a) == IF a \in S THEN Ended(a, reason) ELSE a
  <1>1. alerts' = {After(a) : a \in alerts}
    BY DEF End
  <1>2. \A a \in alerts : /\ After(a).opened = a.opened /\ After(a).fingerprint = a.fingerprint
                          /\ After(a).status = IF a \in S THEN reason ELSE a.status
    BY DEF Ended
  <1> HIDE DEF After
  <1>3. Restated(S, reason)
    BY <1>1, <1>2 DEF Restated
  <1>4. \A e \in {a.opened : a \in S} : LedgerState[e] = "FIRING"
    BY LedgerOfRows DEF RowsInLedger
  <1>5. /\ LedgerState' = [e \in Event |-> IF e \in {a.opened : a \in S} THEN reason
                                           ELSE LedgerState[e]]
        /\ UNCHANGED <<LedgerFault, LedgerHolder, LedgerMerged>>
    BY <1>3, LedgerRestated
  <1>6. {a.opened : a \in S} # {}
    OBVIOUS
  <1> QED BY <1>4, <1>5, <1>6, LedgerEndIs

(* A firing event whose fingerprint does not fire.                          *)
LEMMA LedgerRaises ==
    ASSUME IInv, IInv', NEW e \in Event, e \notin delivered, NEW fp \in Fingerprints,
           Firing(fp) = {}, alerts' = alerts \cup {Opened(fp, e)}
    PROVE  Ledger!Raise(e, fp, SomeIncident)
  <1>1. \A a \in alerts : a.opened # e
    BY DEF IInv, AlertsInv, AlertsOK
  <1> DEFINE new == Opened(fp, e)
  <1>2. new \in alerts' /\ new.opened = e /\ new.fingerprint = fp /\ new.status = "FIRING"
    BY DEF Opened
  <1>3. alerts' = alerts \cup {new}
    OBVIOUS
  <1> HIDE DEF new
  <1>4. LedgerState[e] = "absent"
    BY <1>1, LedgerOfRows DEF RowsInLedger
  <1>5. \A b \in Event : LedgerState[b] = "FIRING" => LedgerFault[b] # fp
    <2> SUFFICES ASSUME NEW b \in Event, LedgerState[b] = "FIRING" PROVE LedgerFault[b] # fp
      OBVIOUS
    <2>1. PICK a \in alerts : a.opened = b
      BY LedgerOfRows DEF RowsInLedger
    <2>2. a.status = "FIRING" /\ LedgerFault[b] = a.fingerprint
      BY <2>1, LedgerOfRows DEF RowsInLedger
    <2> QED BY <2>2 DEF Firing
  <1>6. ASSUME NEW d \in Event
        PROVE  /\ LedgerState'[d] = IF d = e THEN "FIRING" ELSE LedgerState[d]
               /\ LedgerFault'[d] = IF d = e THEN fp ELSE LedgerFault[d]
               /\ LedgerHolder'[d] = IF d = e THEN SomeIncident ELSE LedgerHolder[d]
    <2>1. CASE d = e
      BY <1>2, <2>1, LedgerOfRowsAfter DEF RowsInLedger
    <2>2. CASE d # e /\ \E a \in alerts : a.opened = d
      <3>1. PICK a \in alerts : a.opened = d
        BY <2>2
      <3>2. a \in alerts'
        BY <1>3
      <3> QED BY <2>2, <3>1, <3>2, LedgerOfRows, LedgerOfRowsAfter DEF RowsInLedger
    <2>3. CASE d # e /\ \A a \in alerts : a.opened # d
      <3>1. \A a \in alerts' : a.opened # d
        BY <1>2, <1>3, <2>3
      <3> QED BY <2>3, <3>1, LedgerOfRows, LedgerOfRowsAfter DEF RowsInLedger
    <2> QED BY <2>1, <2>2, <2>3
  <1>7. /\ LedgerState' = [LedgerState EXCEPT ![e] = "FIRING"]
        /\ LedgerFault' = [LedgerFault EXCEPT ![e] = fp]
        /\ LedgerHolder' = [LedgerHolder EXCEPT ![e] = SomeIncident]
    <2>1. /\ DOMAIN LedgerState = Event /\ LedgerState' = [d \in Event |-> LedgerState'[d]]
          /\ DOMAIN LedgerFault = Event /\ LedgerFault' = [d \in Event |-> LedgerFault'[d]]
          /\ DOMAIN LedgerHolder = Event /\ LedgerHolder' = [d \in Event |-> LedgerHolder'[d]]
      BY DEF LedgerState, LedgerFault, LedgerHolder
    <2> QED BY <1>6, <2>1
  <1>8. LedgerMerged' = LedgerMerged /\ LedgerMerged[SomeIncident] = None
    BY DEF LedgerMerged
  <1> QED BY <1>4, <1>5, <1>7, <1>8
          DEF Ledger!Raise, Ledger!Quiet, LedgerState, LedgerFault, LedgerHolder, LedgerMerged

(* What events have in common is one of the fingerprints of the ledger.       *)
LEMMA EnrichedFingerprint ==
    ASSUME IInv, NEW f \in Faults, ~Rejected(f), NEW answered \in SUBSET Queries
    PROVE  Fingerprint(Enriched(f, answered)) \in Fingerprints
  <1> DEFINE n == WithKube(Normalized[f], answered)
             key == MachineKey(n)
  <1>1. Machine(key, answered) \in MachineInfo \cup {None}
    <2>1. MachineRow(key, answered) \in MachineInfo \cup {None}
      BY DEF MachineRow, Row
    <2>2. CASE Cached(key) # {}
      <3>1. (CHOOSE c \in Cached(key) : TRUE) \in Cached(key)
        BY <2>2
      <3>2. \A c \in Cached(key) : c.row \in MachineInfo \cup {None}
        BY DEF Cached, IInv, TypeOK
      <3> QED BY <2>2, <3>1, <3>2 DEF Machine
    <2> QED BY <2>1, <2>2 DEF Machine
  <1>2. f \in DOMAIN Normalized
    BY DEF Normalized
  <1>3. \E r \in MachineInfo \cup {None} : Enriched(f, answered) = WithMachine(n, r)
    <2>1. n = WithMachine(n, None)
      BY DEF WithMachine
    <2> QED BY <1>1, <2>1 DEF Enriched
  <1> QED BY <1>2, <1>3 DEF Fingerprints

LEMMA ProcessIsLedgerStep ==
    ASSUME IInv, IInv', NEW e \in sent, NEW answered \in SUBSET Queries, Process(e, answered)
    PROVE  Ledger!Next \/ UNCHANGED Ledger!vars
  <1> DEFINE fp == Fingerprint(Enriched(e.fault, answered))
  <1>1. /\ ~Known(e) /\ ~Rejected(e.fault)
        /\ IF e.recovered THEN MarkResolved(fp) ELSE UpsertFiring(fp, e)
    BY DEF Process, ByStatus
  <1>2. e \in Event /\ e.fault \in Faults /\ e \notin delivered
    BY <1>1, UnknownIsNew DEF IInv, TypeOK, Event
  <1>3. fp \in Fingerprints
    BY <1>1, <1>2, EnrichedFingerprint
  <1> HIDE DEF fp
  <1>4. Firing(fp) \subseteq alerts /\ \A a \in Firing(fp) : a.status = "FIRING"
    BY DEF Firing
  <1>5. CASE e.recovered /\ Firing(fp) = {}
    <2>1. alerts' = alerts
      BY <1>1, <1>5 DEF MarkResolved, End
    <2> QED BY <2>1, LedgerRests DEF Restated
  <1>6. CASE e.recovered /\ Firing(fp) # {}
    <2>1. PICK x \in alerts : x.status = "FIRING" /\ x.fingerprint = fp
      BY <1>6 DEF Firing
    <2>2. Firing(fp) = {x}
      BY <2>1 DEF IInv, AlertsInv, FiringApart, Firing
    <2>3. End({x}, "resolved")
      BY <1>1, <1>6, <2>2 DEF MarkResolved
    <2>4. Ledger!End({a.opened : a \in {x}}, "resolved")
      BY <2>1, <2>3, LedgerEnds
    <2>5. {a.opened : a \in {x}} = {x.opened} /\ x.opened \in Event
      BY OneRow
    <2> QED BY <2>4, <2>5 DEF Ledger!Next, Ledger!Recover
  <1>7. CASE ~e.recovered /\ Firing(fp) = {}
    <2>1. alerts' = alerts \cup {Opened(fp, e)}
      BY <1>1, <1>7 DEF UpsertFiring
    <2>2. Ledger!Raise(e, fp, SomeIncident)
      BY <1>2, <1>3, <1>7, <2>1, LedgerRaises
    <2> QED BY <1>2, <1>3, <2>2 DEF Ledger!Next
  <1>8. CASE ~e.recovered /\ Firing(fp) # {}
    <2> DEFINE After(a) == IF a \in Firing(fp) THEN Repeated(a, e) ELSE a
    <2>1. alerts' = {After(a) : a \in alerts}
      BY <1>1, <1>8 DEF UpsertFiring
    <2>2. \A a \in alerts : /\ After(a).opened = a.opened /\ After(a).fingerprint = a.fingerprint
                            /\ After(a).status = a.status
      BY DEF Repeated
    <2> HIDE DEF After
    <2> QED BY <2>1, <2>2, LedgerRests DEF Restated
  <1> QED BY <1>5, <1>6, <1>7, <1>8

LEMMA NextIsLedgerStep ==
    ASSUME IInv, IInv', [Next]_vars
    PROVE  [Ledger!Next]_(Ledger!vars)
  <1>1. CASE UNCHANGED alerts
    BY <1>1, LedgerRests DEF Restated
  <1>2. CASE \E e \in sent : \E answered \in SUBSET Queries : Process(e, answered)
    BY <1>2, ProcessIsLedgerStep
  <1>3. ASSUME NEW S \in SUBSET alerts, Expire(S) PROVE Ledger!Next
    <2>1. Ledger!End({a.opened : a \in S}, "stale")
      BY <1>3, LedgerEnds DEF Expire
    <2>2. {a.opened : a \in S} \in SUBSET Event
      BY OneRow
    <2> QED BY <2>1, <2>2 DEF Ledger!Next, Ledger!Expire
  <1>4. \/ \E f \in Faults, recovered \in BOOLEAN : Send(f, recovered)
        \/ \E e \in sent : Duplicate(e) \/ Reject(e)
        \/ \E c \in cache : CacheExpires(c)
        \/ UNCHANGED vars
        => UNCHANGED alerts
    BY DEF Send, Duplicate, Reject, CacheExpires, vars
  <1> QED BY <1>1, <1>2, <1>3, <1>4 DEF Next

(* From payloads to alerts the system keeps the ledger that IncidentLifecycle *)
(* keeps from alerts to incidents: whatever arrives in whatever order and     *)
(* whatever Prometheus answers, an alert is raised only for a fingerprint     *)
(* that does not fire, ends once, and is not opened again.                   *)
THEOREM IntakeKeepsLedger == Spec => ImplementsLedger
  <1>1. Init => Ledger!Init
    BY DEF Init, Ledger!Init, RowsOf
  <1>2. IInv /\ IInv' /\ [Next]_vars => [Ledger!Next]_(Ledger!vars)
    BY NextIsLedgerStep
  <1> QED BY <1>1, <1>2, IntakeInvariant, PTL DEF Spec, ImplementsLedger, Ledger!Spec

=============================================================================
