----------------------------- MODULE MCScheduler -----------------------------
(***************************************************************************)
(* Scheduler on small instances.  Time is scaled: a permit plugin lets a   *)
(* pod wait for PermitTimeout units, and the numbers of nodes are below.   *)
(***************************************************************************)
EXTENDS Scheduler

MCOnePod == {"pod1"}
MCTwoIncarnations == {"pod1", "pod1-again"}
\* The name of the second ends in no digit.
MCTwoNames == {"pod1", "pod-a"}

MCKeys == {"pod1_default", "pod-a_default"}
MCKey == [p \in Pods |-> IF p = "pod-a" THEN "pod-a_default" ELSE "pod1_default"]

MCPodSuffix == [p \in Pods |-> IF p = "pod-a" THEN NaN ELSE 1]

\* The nodes: one whose number is that of pod1, one that has none.
MCNodes == {"node1", "node-a"}
MCNodeSuffix == [n \in Nodes |-> CASE n = "node0" -> 0
                                   [] n = "node1" -> 1
                                   [] OTHER -> NaN]
MCNodeZero == {"node0"}
MCNodeOne == {"node1"}

MCClusterEventMap == eventsToRegister

\* What ErrorFunc takes from a FitError or leaves empty.
MCPluginSets == {{}, {NodeUnschedulable}}

MCPermitPlugins == {NodeNumber}
=============================================================================
