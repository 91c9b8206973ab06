----------------------------- MODULE MCCorrelation -----------------------------
(* Alerts of tests/test_phase1.py under an excerpt of rules/*.yaml.          *)
EXTENDS Correlation, TLC

CONSTANTS podA, podB, notReady, kubelet, disk, hot, hot2

At(name, entity, node, facts) ==
    [name |-> name, entity |-> entity, node |-> node, cluster |-> "c1",
     namespace |-> None, project |-> None, facts |-> facts]

MCAttr ==
    [a \in Alerts |->
        CASE a = podA     -> At("PodNotReady", "pod:a", "n1", {})
          [] a = podB     -> At("PodNotReady", "pod:b", "n1", {})
          [] a = notReady -> At("NodeNotReady", "node:n1", "n1", {<<"node:n1", "cluster:c1">>})
          [] a = kubelet  -> At("KubeletDown", "node:n2", "n2", {<<"node:n2", "cluster:c1">>})
          [] a = disk     -> At("DiskUsageHigh", "disk:n1", "n1", {})
          [] a \in {hot, hot2} -> At("GPUHighTemperature", "node:n1", "n1", {<<"node:n1", "cluster:c1">>})]

MCNeverLink == {<<"DiskUsageHigh", "GPUHighTemperature">>, <<"GPUHighTemperature", "DiskUsageHigh">>}
MCForceLink == {<<"NodeNotReady", "KubeletDown">>}
MCCausalRules ==
    << [cause |-> "NodeNotReady", symptoms |-> {"KubeletDown", "PodNotReady"},
        same_node |-> TRUE, weight |-> 50] >>
MCRootPriority ==
    [n \in {"PodNotReady", "NodeNotReady", "KubeletDown", "DiskUsageHigh", "GPUHighTemperature"} |->
        CASE n = "NodeNotReady" -> 95 [] n = "KubeletDown" -> 80 [] n = "DiskUsageHigh" -> 40
          [] n = "PodNotReady" -> 20 [] n = "GPUHighTemperature" -> 10]
MCWeights ==
    [exact_entity |-> 50, same_physical_node |-> 40, topology_distance_1 |-> 30,
     topology_distance_2 |-> 15, same_cluster |-> 10, same_namespace |-> 10, same_project |-> 5,
     time_1m |-> 20, time_3m |-> 15, time_5m |-> 10]
MCStrongSignals == {"exact_entity", "topology", "causal_rule", "force_link"}
MCApiRelations == {<<"disk:n1", "node:n1">>}

(* The same fault twice.                                                    *)
Symmetry == Permutations({hot, hot2})

=============================================================================
