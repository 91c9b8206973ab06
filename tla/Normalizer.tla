------------------------------ MODULE Normalizer ------------------------------
(***************************************************************************)
(* Which fault an event is about: the payload is mapped to one entity       *)
(* (normalizer.py), completed from kube-state-metrics and machine_info as   *)
(* far as Prometheus answers (enricher.py), and reduced to a fingerprint    *)
(* (fingerprint.py).                                                       *)
(*                                                                         *)
(* A value of a payload is a text: a word, with or without ":port".  Of a   *)
(* payload only the fields that identity depends on are kept; severity,     *)
(* times, summaries and hardware are not.                                  *)
(***************************************************************************)
EXTENDS Naturals, Sequences

CONSTANTS
    Words,       \* host names, addresses, namespaces, clusters, indexes
    Addresses,   \* the words that are IPv4 addresses
    Rules,       \* names of alert rules
    Hint,        \* per rule: the entity type its name suggests, or None
    NodeInfo,    \* rows of kube_node_info: [node, internal_ip, env]
    PodInfo,     \* rows of kube_pod_info: [namespace, pod, node, env]
    MachineInfo, \* rows of machine_info: [ip, hostname, cluster]
    None         \* no value

Types == {"node", "pod", "container", "gpu", "job", "switch", "unknown"}

Text == [word : Words, port : BOOLEAN]

Value == Text \cup {None}

ASSUME WordsAssumption == Addresses \subseteq Words /\ "container" \in Words /\ None \notin Text
ASSUME HintAssumption == Hint \in [Rules -> Types \cup {None}]
ASSUME RowsAssumption ==
    /\ NodeInfo \subseteq [node : Text, internal_ip : Text, env : Value]
    /\ PodInfo \subseteq [namespace : Text, pod : Text, node : Text, env : Value]
    /\ MachineInfo \subseteq [ip : Text, hostname : Text, cluster : Value]

Plain(w) == [word |-> w, port |-> FALSE]

IsAddress(t) == t # None /\ t.word \in Addresses /\ ~t.port

-----------------------------------------------------------------------------
(* Payloads.                                                               *)

(* "entity.x" and "scope.x" are members of objects the source built itself,  *)
(* "x" its own members, "label.x" labels and tags; "label.other" stands for   *)
(* the labels whose names no code knows, such as deployment.                 *)
LabelFields ==
    {"label.node", "label.node_name", "label.nodename", "label.kubernetes_node",
     "label.Hostname", "label.hostname", "label.ip", "label.instance", "label.pod",
     "label.container", "label.namespace", "label.gpu_index", "label.device", "label.gpu",
     "label.cluster", "label.cluster_name", "label.other"}

Fields ==
    {"entity.id", "entity.node", "entity.hostname", "entity.ip", "entity.pod",
     "entity.namespace", "scope.cluster", "scope.node",
     "entity_id", "target_ident", "node", "hostname", "ip", "namespace", "cluster"}
        \cup LabelFields

(* type is what the source says; ksm: the label job names a component that   *)
(* watches the whole cluster.                                              *)
Payload ==
    [rule : Rules \cup {None}, type : Types \cup {None}, ksm : BOOLEAN,
     field : [Fields -> Value]]

(* The first value given, or None.                                          *)
First(values) ==
    IF \E k \in DOMAIN values : values[k] # None
    THEN values[CHOOSE k \in DOMAIN values :
                  values[k] # None /\ \A j \in 1..(k - 1) : values[j] = None]
    ELSE None

Pick(p, names) == First([k \in DOMAIN names |-> p.field[names[k]]])

-----------------------------------------------------------------------------
(* Normalisation.                                                          *)

NodeOf(p) ==
    Pick(p, <<"entity.node", "node", "label.node", "label.nodename", "label.kubernetes_node",
              "label.Hostname", "hostname">>)

HostnameOf(p) ==
    First(<<Pick(p, <<"entity.hostname", "label.hostname", "label.Hostname", "label.nodename",
                      "label.kubernetes_node">>),
            NodeOf(p), p.field["hostname"]>>)

PodOf(p) == Pick(p, <<"entity.pod", "label.pod">>)

NamespaceOf(p) == Pick(p, <<"entity.namespace", "namespace", "label.namespace">>)

(* The address of what collected the metric stands for the entity only if    *)
(* the collector runs there.                                               *)
AddressOf(p) ==
    First(<<Pick(p, <<"entity.ip", "ip", "label.ip">>),
            IF p.ksm THEN None ELSE p.field["label.instance"]>>)

HostOf(p) == First(<<NodeOf(p), HostnameOf(p), AddressOf(p)>>)

TypeOf(p) ==
    First(<<p.type,
            Hint[p.rule],
            IF p.field["label.pod"] # None THEN "pod" ELSE None,
            IF Pick(p, <<"label.gpu_index", "label.device">>) # None THEN "gpu" ELSE None,
            IF HostnameOf(p) # None THEN "node" ELSE "unknown">>)

(* An identity: a name and, for a card or a container, what it is part of.   *)
(* Without any name a digest of the labels, and of nothing else, stands for  *)
(* it.                                                                      *)
Named(t) == [name |-> t, part |-> None]

Labels(p) == [label |-> [f \in LabelFields |-> p.field[f]], ksm |-> p.ksm]

GivenId(p) == Pick(p, <<"entity.id", "entity_id", "target_ident">>)

OwnId(p) ==
    LET pod == PodOf(p)
        card == Pick(p, <<"label.gpu_index", "label.device", "label.gpu">>)
    IN  CASE GivenId(p) # None -> Named(GivenId(p))
          [] GivenId(p) = None /\ TypeOf(p) = "pod" /\ pod # None -> Named(pod)
          [] GivenId(p) = None /\ TypeOf(p) = "container" /\ pod # None ->
                [name |-> pod, part |-> First(<<p.field["label.container"], Plain("container")>>)]
          [] GivenId(p) = None /\ TypeOf(p) = "gpu" -> [name |-> HostOf(p), part |-> card]
          [] OTHER -> Named(HostOf(p))

(* "address:port" names the machine, not the exporter on it.                 *)
WithoutPort(id) ==
    IF id.part = None /\ id.name # None /\ id.name.port /\ id.name.word \in Addresses
    THEN Named(Plain(id.name.word)) ELSE id

IdOf(p) == IF OwnId(p) = Named(None) THEN [name |-> None, part |-> Labels(p)]
           ELSE WithoutPort(OwnId(p))

(* Mutated: cards of one machine are not told apart.                         *)
DimensionsOfPods(type) ==
    CASE type \in {"pod", "container"} -> <<"label.namespace", "label.pod", "label.container">>
      [] OTHER -> <<>>

(* Which labels distinguish two alerts of one entity.                        *)
Dimensions(type) ==
    CASE type \in {"pod", "container"} -> <<"label.namespace", "label.pod", "label.container">>
      [] type = "gpu" -> <<"label.gpu_index", "label.device">>
      [] OTHER -> <<>>

Host(t) == IF t = None THEN None ELSE Plain(t.word)

(* The address of an event without one of its own is that of the collector,  *)
(* whatever the collector is.                                              *)
IpOf(p) ==
    LET id == IdOf(p)
    IN  First(<<Host(AddressOf(p)),
                IF id.part = None /\ IsAddress(id.name) THEN id.name ELSE None,
                Host(p.field["label.instance"])>>)

EntityNode(p) ==
    First(<<NodeOf(p), HostnameOf(p),
            IF TypeOf(p) = "node" /\ IdOf(p).part = None THEN IdOf(p).name ELSE None>>)

ScopeNode(p) == Pick(p, <<"scope.node", "node", "label.node", "label.node_name">>)

Normalize(p) ==
    [rule |-> p.rule,
     type |-> TypeOf(p),
     id |-> IdOf(p),
     ip |-> IpOf(p),
     hostname |-> HostnameOf(p),
     namespace |-> NamespaceOf(p),
     node |-> First(<<EntityNode(p), ScopeNode(p)>>),
     scopeNode |-> First(<<ScopeNode(p), EntityNode(p)>>),
     cluster |-> Pick(p, <<"scope.cluster", "cluster", "label.cluster", "label.cluster_name">>),
     dims |-> [k \in DOMAIN Dimensions(TypeOf(p)) |-> p.field[Dimensions(TypeOf(p))[k]]]]

-----------------------------------------------------------------------------
(* Enrichment.  answered: the queries Prometheus answers for this event; a   *)
(* query without an answer looks like one without a result.                 *)

Queries == {"node", "internal_ip", "pod", "machine"}

Orelse(a, b) == IF a # None THEN a ELSE b

(* One row of S, or None.                                                   *)
Row(S) == IF S = {} THEN None ELSE CHOOSE r \in S : TRUE

NodeRow(n, answered) ==
    LET name == Orelse(n.node, IF n.id.part = None THEN n.id.name ELSE None)
        byName == {r \in NodeInfo : "node" \in answered /\ r.node = name}
        byAddress == {r \in NodeInfo : "internal_ip" \in answered /\ r.internal_ip = n.ip}
    IN  Row(IF byName # {} THEN byName ELSE byAddress)

PodRow(n, answered) ==
    Row({r \in PodInfo : /\ "pod" \in answered
                         /\ n.id = Named(r.pod) /\ n.namespace = r.namespace})

(* Mutated: the cluster Prometheus knows wins over the one of the payload.   *)
WithNodeEnv(n, r) ==
    [n EXCEPT !.node = IF @ = None \/ IsAddress(@) THEN r.node ELSE @,
              !.scopeNode = IF @ = None \/ IsAddress(@) THEN r.node ELSE @,
              !.hostname = Orelse(@, r.node),
              !.ip = r.internal_ip,
              !.cluster = Orelse(r.env, @)]

(* A node name replaces none or an address, the address kube-state-metrics   *)
(* knows replaces any, its cluster only none.                               *)
WithNode(n, r) ==
    [n EXCEPT !.node = IF @ = None \/ IsAddress(@) THEN r.node ELSE @,
              !.scopeNode = IF @ = None \/ IsAddress(@) THEN r.node ELSE @,
              !.hostname = Orelse(@, r.node),
              !.ip = r.internal_ip,
              !.cluster = Orelse(@, r.env)]

WithPod(n, r) ==
    [n EXCEPT !.node = Orelse(@, r.node),
              !.scopeNode = Orelse(@, r.node),
              !.cluster = Orelse(@, r.env)]

(* Step 1: what kube-state-metrics says of a node or a pod.                  *)
KubeRow(n, answered) ==
    CASE n.type = "node" -> NodeRow(n, answered)
      [] n.type \in {"pod", "container"} /\ n.namespace # None -> PodRow(n, answered)
      [] OTHER -> None

WithKube(n, answered) ==
    LET r == KubeRow(n, answered)
    IN  IF r = None THEN n ELSE IF n.type = "node" THEN WithNode(n, r) ELSE WithPod(n, r)

(* Step 2, nodes only: machine_info, by address and then by host name; what  *)
(* it answered, nothing included, is kept under both for a while.            *)
MachineKey(n) ==
    [ip |-> n.ip, hostname |-> Orelse(n.hostname, n.id.name)]

MachineRow(key, answered) ==
    LET byAddress == {r \in MachineInfo : "machine" \in answered /\ r.ip = key.ip}
        byHostname == {r \in MachineInfo : "machine" \in answered /\ r.hostname = key.hostname}
    IN  Row(IF byAddress # {} THEN byAddress ELSE byHostname)

WithMachine(n, r) == IF r = None THEN n ELSE [n EXCEPT !.cluster = Orelse(@, r.cluster)]

-----------------------------------------------------------------------------
(* What two events of one alert have in common.                             *)
Fingerprint(n) ==
    [rule |-> n.rule, cluster |-> n.cluster, type |-> n.type, id |-> n.id, dims |-> n.dims]

=============================================================================
