------------------------------- MODULE MCIntake -------------------------------
(* Payloads of the shapes tests/test_phase1.py sends.                        *)
EXTENDS Intake, TLC

MCWords ==
    {"n1", "n2", "10.0.0.1", "10.0.0.2", "10.0.9.9", "pod-a", "ns1", "ns2", "0", "1", "c1",
     "center", "container", "web", "api"}
MCAddresses == {"10.0.0.1", "10.0.0.2", "10.0.9.9"}

MCHint ==
    [r \in {"NodeNotReady", "HighDiskUsage", "GPUXidError", "PodNotReady", "DeploymentDown"} |->
        CASE r \in {"NodeNotReady", "HighDiskUsage"} -> "node"
          [] r = "GPUXidError" -> "gpu"
          [] r = "PodNotReady" -> "pod"
          [] r = "DeploymentDown" -> None]
MCRules == DOMAIN MCHint

With(t) == [word |-> t, port |-> TRUE]
P(rule, ksm, given) ==
    [rule |-> rule, type |-> None, ksm |-> ksm,
     field |-> given @@ [f \in Fields |-> None]]

(* A node by kube-state-metrics, whose address is not the node's.            *)
Ksm(n) ==
    P("NodeNotReady", TRUE,
      "label.node" :> Plain(n) @@ "label.instance" :> With("10.0.9.9") @@ "cluster" :> Plain("c1"))
(* A node by its exporter; no member names the cluster.                      *)
Disk(a) ==
    P("HighDiskUsage", FALSE,
      "target_ident" :> With(a) @@ "label.instance" :> With(a))
Card(i) ==
    P("GPUXidError", FALSE,
      "target_ident" :> With("10.0.0.1") @@ "label.Hostname" :> Plain("n1")
        @@ "label.gpu_index" :> Plain(i) @@ "cluster" :> Plain("c1"))
PodNative(ns) ==
    P("PodNotReady", FALSE,
      "label.pod" :> Plain("pod-a") @@ "label.namespace" :> Plain(ns) @@ "cluster" :> Plain("c1"))
(* A deployment by kube-state-metrics: nothing in it names an entity.        *)
Deployment(d) ==
    P("DeploymentDown", TRUE,
      "label.other" :> Plain(d) @@ "label.namespace" :> Plain("ns1")
        @@ "label.instance" :> With("10.0.9.9") @@ "cluster" :> Plain("c1"))
PodFormatted(ns) ==
    P("PodNotReady", FALSE,
      "entity.id" :> Plain("pod-a") @@ "entity.namespace" :> Plain(ns)
        @@ "scope.cluster" :> Plain("c1"))

MCPayloadOf ==
    [f \in Faults |->
        CASE f = "ksm1" -> Ksm("n1")
          [] f = "ksm2" -> Ksm("n2")
          [] f = "disk" -> Disk("10.0.0.1")
          [] f = "card0" -> Card("0")
          [] f = "card1" -> Card("1")
          [] f = "pod1" -> PodNative("ns1")
          [] f = "pod2" -> PodNative("ns2")
          [] f = "web" -> Deployment("web")
          [] f = "api" -> Deployment("api")
          [] f = "no_rule" -> [Disk("10.0.0.2") EXCEPT !.rule = None]]

MCNodeInfo ==
    {[node |-> Plain("n1"), internal_ip |-> Plain("10.0.0.1"), env |-> Plain("center")],
     [node |-> Plain("n2"), internal_ip |-> Plain("10.0.0.2"), env |-> None]}
MCPodInfo ==
    {[namespace |-> Plain("ns1"), pod |-> Plain("pod-a"), node |-> Plain("n1"), env |-> Plain("center")]}
MCMachineInfo ==
    {[ip |-> Plain("10.0.0.2"), hostname |-> Plain("n2"), cluster |-> Plain("center")]}

(* What NativeFaultsApart assumes of the payloads holds of these.            *)
ASSUME NativeReportsDistinctAssumption == NativeReportsDistinct

(* Payloads without a name are told apart by their labels and by nothing      *)
(* else: the namespace given outside the labels makes no difference.         *)
ASSUME NamelessByLabelsAssumption ==
    LET moved == [Deployment("web") EXCEPT !.field["namespace"] = Plain("ns2")]
    IN  /\ IdOf(Deployment("web")).name = None
        /\ IdOf(Deployment("web")) # IdOf(Deployment("api"))
        /\ IdOf(Deployment("web")) = IdOf(moved)

(* A claim of the documentation that the code does not keep: the namespace    *)
(* is a dimension of pods, but the formatted payload carries it in entity     *)
(* and build reads labels, so pods of one name in two namespaces have one     *)
(* fingerprint.                                                             *)
ASSUME FormattedPodsCollideAssumption ==
    /\ PodFormatted("ns1") # PodFormatted("ns2")
    /\ Fingerprint(Normalize(PodFormatted("ns1"))) = Fingerprint(Normalize(PodFormatted("ns2")))
    /\ Fingerprint(Normalize(PodNative("ns1"))) # Fingerprint(Normalize(PodNative("ns2")))

=============================================================================
