--------------------------- MODULE ClusterEvents ---------------------------
(***************************************************************************)
(* The cluster-event registry of the scheduler: which plugin registered    *)
(* which event (minisched/initialize.go), which informer handlers exist as *)
(* a consequence (minisched/eventhandler.go), and whether an event may     *)
(* help a pod that given plugins rejected (minisched/queue/queue.go).      *)
(*                                                                         *)
(* An ActionType is a bit mask in the code; here it is the set of its      *)
(* bits, so that a non-zero AND is a non-empty intersection.               *)
(***************************************************************************)

UpdateBits == {"UpdateNodeAllocatable", "UpdateNodeLabel",
               "UpdateNodeTaint", "UpdateNodeCondition"}

AllBits == {"Add", "Delete"} \cup UpdateBits

WildCard == "*"

IsWildCard(evt) == evt.resource = WildCard /\ evt.actions = AllBits

NodeUnschedulable == "NodeUnschedulable"
NodeNumber == "NodeNumber"

----------------------------------------------------------------------------
(* Registration.                                                           *)

\* What the kube-scheduler plugin NodeUnschedulable registers.
NodeUnschedulableEvents ==
    {[resource |-> "Node", actions |-> {"Add", "UpdateNodeTaint"}]}

\* What NodeNumber registers.
NodeNumberEvents == {[resource |-> "Node", actions |-> {"Add"}]}

registerClusterEvents(name, eventToPlugins, evts) ==
    [e \in DOMAIN eventToPlugins \cup evts |->
        (IF e \in DOMAIN eventToPlugins THEN eventToPlugins[e] ELSE {})
          \cup (IF e \in evts THEN {name} ELSE {})]

\* A mutant: the names of the two plugins swapped at the two registrations.
MutSwappedNames ==
    registerClusterEvents(NodeUnschedulable,
        registerClusterEvents(NodeNumber, <<>>, NodeUnschedulableEvents),
        NodeNumberEvents)

\* Both registrations pass the name of NodeUnschedulable: the events of
\* NodeNumber are registered under the other plugin's name.
eventsToRegister ==
    registerClusterEvents(NodeUnschedulable,
        registerClusterEvents(NodeUnschedulable, <<>>, NodeUnschedulableEvents),
        NodeNumberEvents)

unionedGVKs(m) ==
    [gvk \in {e.resource : e \in DOMAIN m} |->
        UNION {e.actions : e \in {x \in DOMAIN m : x.resource = gvk}}]

\* The events that the node informer's handlers pass to the queue: one
\* handler function for each kind of action that some plugin registered.
buildEvtResHandler(at, gvk) ==
    {[resource |-> gvk, actions |-> bits] :
        bits \in {b \in {{"Add"}, UpdateBits, {"Delete"}} : b \cap at # {}}}

\* Only the Node resource has handlers.
addAllEventHandlers(gvkMap) ==
    IF "Node" \in DOMAIN gvkMap THEN buildEvtResHandler(gvkMap["Node"], "Node")
                                ELSE {}

----------------------------------------------------------------------------
(* Matching.                                                               *)

intersect(x, y) == x \cap y # {}

podMatchesEvent(clusterEventMap, plugins, clusterEvent) ==
    \/ IsWildCard(clusterEvent)
    \/ \E evt \in DOMAIN clusterEventMap :
          /\ \/ IsWildCard(evt)
             \/ /\ evt.resource = clusterEvent.resource
                /\ intersect(evt.actions, clusterEvent.actions)
          /\ intersect(clusterEventMap[evt], plugins)

=============================================================================
