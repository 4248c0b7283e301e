------------------------- MODULE MCSchedulingQueue -------------------------
(***************************************************************************)
(* SchedulingQueue on a small instance: two incarnations of one pod and a  *)
(* second pod, the plugins' registered events, and a backoff of one time   *)
(* unit (podMaxBackoffDuration is ten times that, as in the code).         *)
(***************************************************************************)
EXTENDS SchedulingQueue

MCPods == {"pod1", "pod1-again", "pod2"}

MCTwoPods == {"pod1", "pod2"}

MCKeys == {"pod1_default", "pod2_default"}

MCKey == [p \in Pods |-> IF p = "pod2" THEN "pod2_default" ELSE "pod1_default"]

MCEvents == addAllEventHandlers(unionedGVKs(eventsToRegister))

\* One of them: all are registered under the same name.
MCOneEvent == {CHOOSE e \in MCEvents : TRUE}

\* No plugin named, the filter plugin, and a plugin under whose name no
\* event is registered.
MCPluginSets == {{}, {NodeUnschedulable}, {NodeNumber}}

\* An entry that every event releases and one that none does.
MCTwoPluginSets == {{}, {NodeNumber}}

MCClusterEventMap == eventsToRegister
=============================================================================
