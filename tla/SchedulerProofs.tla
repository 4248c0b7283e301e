--------------------------- MODULE SchedulerProofs ---------------------------
(***************************************************************************)
(* Proofs about Scheduler, for any pods, names and nodes.                  *)
(***************************************************************************)
EXTENDS Scheduler, QueueDataProofs, WaitingPodDataProofs

----------------------------------------------------------------------------
(* The inductive invariant.                                                *)

RejectedBy == {{}, {NodeUnschedulable}}

\* The loop's local variables fit where it is.
LoopConsistent ==
    /\ loop.pc = "next" <=> loop.pod = Nil
    /\ loop.pc \in {"permit", "record"} => loop.node \in Nodes
    /\ loop.pc = "record" => PermitWaits(loop.node)
    /\ loop.plugins \in RejectedBy

\* A queue has no pod twice, and a pod's entry is under its key.
QueuesConsistent ==
    /\ IsInjective(podEvents) /\ IsInjective(activeQ) /\ IsInjective(podBackoffQ)
    /\ \A k \in Keys :
          unschedulableQ[k] # Nil => /\ Key[unschedulableQ[k].pod] = k
                                     /\ unschedulableQ[k].plugins \in RejectedBy

\* A MoveAllToActiveOrBackoffQueue has yet to look at every entry there is.
MoveConsistent ==
    \/ moving = NotMoving
    \/ /\ moving.event \in Handlers
       /\ moving.todo = {k \in Keys : unschedulableQ[k] # Nil}

(***************************************************************************)
(* Where a pod can be.  The scheduler's variables know of a pod in at most *)
(* one of these ways.                                                      *)
(***************************************************************************)
Where == {"absent", "event", "active", "backoff", "unschedulable", "loop",
          "binder", "replaced"}

At(p, x) ==
    \/ x = "absent" /\ pod[p] = "absent"
    \/ x = "event" /\ p \in Range(podEvents)
    \/ x = "active" /\ p \in Range(activeQ)
    \/ x = "backoff" /\ p \in Range(podBackoffQ)
    \/ x = "unschedulable" /\ Waiting(p)
    \/ x = "loop" /\ loop.pod = p
    \/ x = "binder" /\ binder[p].pc # "none"
    \/ x = "replaced" /\ p \in replaced

Exclusive ==
    \A p \in Pods : \A x, y \in Where : At(p, x) /\ At(p, y) => x = y

(***************************************************************************)
(* A pod has a waiting pod exactly while its binding goroutine is to wait; *)
(* one that is allowed was allowed by its timer or by a late one.          *)
(***************************************************************************)
PermitConsistent ==
    \A p \in Pods :
        /\ waitingPods[p] # Nil <=> /\ binder[p].pc \in {"start", "wait"}
                                    /\ PermitWaits(binder[p].node)
        /\ waitingPods[p] # Nil => \/ waitingPods[p].s # NoSignal
                                   \/ waitingPods[p].timer[NodeNumber] = "armed"
        /\ binder[p].pc = "wait" => waitingPods[p] # Nil
        /\ waitingPods[p] # Nil /\ waitingPods[p].s = Success =>
              allowTimer[p] = Off \/ p \in helped
        /\ binder[p].pc = "bind" /\ PermitWaits(binder[p].node) =>
              allowTimer[p] = Off \/ p \in helped

SchedulerInv ==
    /\ SchedulerTypeOK
    /\ LoopConsistent
    /\ QueuesConsistent
    /\ MoveConsistent
    /\ Exclusive
    /\ PermitConsistent

----------------------------------------------------------------------------
(* What leaves the parts of the invariant alone.                           *)

\* A step that does not touch these variables keeps the parts of the invariant.
LEMMA LoopFrame == LoopConsistent /\ UNCHANGED loop => LoopConsistent'
BY DEF LoopConsistent

\* The entries and queues are as before.
LEMMA QueuesFrame ==
    QueuesConsistent /\ UNCHANGED <<podEvents, activeQ, podBackoffQ, unschedulableQ>>
        => QueuesConsistent'
BY DEF QueuesConsistent

\* No entry was added or moved.
LEMMA MoveFrame ==
    MoveConsistent /\ UNCHANGED <<moving, unschedulableQ>> => MoveConsistent'
BY DEF MoveConsistent

\* No pod was handed on.
LEMMA ExclusiveFrame ==
    Exclusive /\ UNCHANGED <<pod, podEvents, activeQ, podBackoffQ, unschedulableQ,
                             loop, binder, replaced>>
        => Exclusive'
BY DEF Exclusive, At, Waiting

\* Neither the waiting pods nor what allows them changed.
LEMMA PermitFrame ==
    PermitConsistent /\ UNCHANGED <<waitingPods, binder, allowTimer, helped>>
        => PermitConsistent'
BY DEF PermitConsistent

(***************************************************************************)
(* What a step can do with a pod: leave it where it is, move it to another *)
(* place, or be done with it.  No such step leaves a pod in two places.    *)
(***************************************************************************)
Stays(p) == \A z \in Where : At(p, z)' <=> At(p, z)

Moves(p, x, y) == /\ At(p, x) /\ ~At(p, x)' /\ At(p, y)'
                  /\ \A z \in Where : At(p, z)' => At(p, z) \/ z = y

Leaves(p, x) == /\ At(p, x) /\ ~At(p, x)'
                /\ \A z \in Where : At(p, z)' => At(p, z)

\* A step that moves each pod at most once keeps it at one place.
LEMMA ExclusiveStep ==
    ASSUME Exclusive,
           \A p \in Pods : \/ Stays(p)
                           \/ \E x \in Where : Leaves(p, x)
                           \/ \E x, y \in Where : Moves(p, x, y)
    PROVE  Exclusive'
<1> SUFFICES ASSUME NEW p \in Pods, NEW a \in Where, NEW b \in Where,
                    At(p, a)', At(p, b)'
             PROVE  a = b
  BY DEF Exclusive
<1>1. CASE Stays(p) \/ \E x \in Where : Leaves(p, x)
  BY <1>1 DEF Stays, Leaves, Exclusive
<1>2. ASSUME NEW x \in Where, NEW y \in Where, Moves(p, x, y) PROVE a = b
  <2>1. ASSUME NEW z \in Where, At(p, z)' PROVE z = y
    <3>1. CASE At(p, z)
      <4>1. z = x
        BY <1>2, <3>1 DEF Exclusive, Moves
      <4>2. QED
        BY <1>2, <2>1, <4>1 DEF Moves
    <3>2. QED
      BY <1>2, <2>1, <3>1 DEF Moves
  <2>2. QED
    BY <2>1
<1>3. QED
  BY <1>1, <1>2

----------------------------------------------------------------------------
(* The API server's users and the informers.                               *)

\* Nothing exists yet: every pod is absent and no thread has one.
LEMMA SchedulerInitially == SchedulerInit => SchedulerInv
<1> SUFFICES ASSUME SchedulerInit PROVE SchedulerInv
  OBVIOUS
<1>1. {} \in PluginSets /\ 0 \in 0 .. MaxChanges /\ 0 \in 0 .. PermitTimeout
  BY SchedulerAssumption
<1>2. Idle \in LoopType /\ NoBinder \in BinderType /\ NotMoving \in MovingType
  BY <1>1 DEF Idle, NoBinder, NotMoving, LoopType, BinderType, MovingType
<1>3. <<>> \in Seq(Pods) /\ <<>> \in Seq(Handlers)
  BY EmptySeq
<1>4. SchedulerTypeOK
  BY <1>1, <1>2, <1>3 DEF SchedulerInit, SchedulerTypeOK, Countdown
<1>5. LoopConsistent
  BY DEF SchedulerInit, LoopConsistent, Idle, RejectedBy
<1>6. QueuesConsistent
  BY DEF SchedulerInit, QueuesConsistent, IsInjective
<1>7. MoveConsistent
  BY DEF SchedulerInit, MoveConsistent
<1>8. Exclusive
  <2>1. ASSUME NEW p \in Pods, NEW x \in Where, At(p, x) PROVE x = "absent"
    <3>1. Nil # p /\ Key[p] \in Keys
      BY QueueAssumption
    <3>2. /\ p \notin Range(podEvents) /\ p \notin Range(activeQ)
          /\ p \notin Range(podBackoffQ) /\ p \notin replaced
      BY DEF SchedulerInit, Range
    <3>3. ~Waiting(p) /\ loop.pod # p /\ binder[p].pc = "none"
      BY <3>1 DEF SchedulerInit, Waiting, Idle, NoBinder
    <3>4. QED
      BY <2>1, <3>2, <3>3 DEF At
  <2>2. QED
    BY <2>1 DEF Exclusive
<1>9. PermitConsistent
  BY DEF SchedulerInit, PermitConsistent, Idle, NoBinder
<1>10. QED
  BY <1>4, <1>5, <1>6, <1>7, <1>8, <1>9 DEF SchedulerInv

\* A created pod is an event for the informer.
LEMMA CreatePodStep ==
    ASSUME SchedulerInv, NEW p \in Pods, CreatePod(p)
    PROVE  SchedulerInv' /\ Moves(p, "absent", "event")
           /\ \A q \in Pods \ {p} : Stays(q)
<1>1. /\ pod[p] = "absent" /\ pod' = [pod EXCEPT ![p] = "live"]
      /\ podEvents' = Append(podEvents, p)
      /\ UNCHANGED <<binding, node, changes, nodeEvents, queueVars, timerVars,
                     threadVars, crashed>>
  BY DEF CreatePod
<1>2. /\ UNCHANGED <<activeQ, podBackoffQ, unschedulableQ, moving, replaced>>
      /\ UNCHANGED <<allowTimer, lateTimer, rejectTimer, helped>>
      /\ UNCHANGED <<loop, binder, waitingPods>>
  BY <1>1 DEF queueVars, timerVars, threadVars
<1>3. podEvents \in Seq(Pods) /\ IsInjective(podEvents)
      /\ pod \in [Pods -> {"absent", "live", "deleted"}]
  BY DEF SchedulerInv, SchedulerTypeOK, QueuesConsistent
<1>4. p \notin Range(podEvents)
  <2>1. At(p, "absent") /\ ~At(p, "event")
    BY <1>1 DEF SchedulerInv, Exclusive, At, Where
  <2>2. QED
    BY <2>1 DEF At
<1>5. IsInjective(podEvents') /\ Range(podEvents') = Range(podEvents) \cup {p}
      /\ podEvents' \in Seq(Pods)
  BY <1>1, <1>3, <1>4, AppendInjects, AppendPod
<1>6. pod' \in [Pods -> {"absent", "live", "deleted"}] /\ pod'[p] = "live"
      /\ \A q \in Pods \ {p} : pod'[q] = pod[q]
  BY <1>1, <1>3
<1>7. SchedulerTypeOK'
  BY <1>1, <1>2, <1>5, <1>6 DEF SchedulerInv, SchedulerTypeOK
<1>8. QueuesConsistent'
  BY <1>2, <1>5 DEF SchedulerInv, QueuesConsistent
<1>9. Moves(p, "absent", "event") /\ \A q \in Pods \ {p} : Stays(q)
  BY <1>1, <1>2, <1>5, <1>6 DEF Moves, Stays, At, Where, Waiting
<1>10. Exclusive'
  BY <1>9, ExclusiveStep DEF SchedulerInv, Where
<1>11. QED
  BY <1>1, <1>2, <1>7, <1>8, <1>9, <1>10, LoopFrame, MoveFrame, PermitFrame
     DEF SchedulerInv

\* A deleted pod stays where the scheduler has it: there is no handler.
LEMMA DeletePodStep ==
    ASSUME SchedulerInv, NEW p \in Pods, DeletePod(p)
    PROVE  SchedulerInv' /\ \A q \in Pods : Stays(q)
<1>1. /\ pod[p] = "live" /\ pod' = [pod EXCEPT ![p] = "deleted"]
      /\ UNCHANGED <<binding, node, changes, eventVars, queueVars, timerVars,
                     threadVars, crashed>>
  BY DEF DeletePod
<1>2. /\ UNCHANGED <<podEvents, nodeEvents>>
      /\ UNCHANGED <<activeQ, podBackoffQ, unschedulableQ, moving, replaced>>
      /\ UNCHANGED <<allowTimer, lateTimer, rejectTimer, helped>>
      /\ UNCHANGED <<loop, binder, waitingPods>>
  BY <1>1 DEF eventVars, queueVars, timerVars, threadVars
<1>3. pod \in [Pods -> {"absent", "live", "deleted"}]
  BY DEF SchedulerInv, SchedulerTypeOK
<1>4. pod' \in [Pods -> {"absent", "live", "deleted"}]
      /\ \A q \in Pods : pod'[q] = "absent" <=> pod[q] = "absent"
  BY <1>1, <1>3
<1>5. SchedulerTypeOK'
  BY <1>1, <1>2, <1>4 DEF SchedulerInv, SchedulerTypeOK
<1>6. \A q \in Pods : Stays(q)
  BY <1>1, <1>2, <1>4 DEF Stays, At, Waiting
<1>7. Exclusive'
  BY <1>6, ExclusiveStep DEF SchedulerInv
<1>8. QED
  BY <1>1, <1>2, <1>5, <1>6, <1>7, LoopFrame, QueuesFrame, MoveFrame, PermitFrame
     DEF SchedulerInv

\* A changed node is at most an event.
LEMMA ChangeNodeStep ==
    ASSUME SchedulerInv, NEW n \in Nodes, ChangeNode(n)
    PROVE  SchedulerInv' /\ \A q \in Pods : Stays(q)
<1>1. /\ changes < MaxChanges /\ changes' = changes + 1
      /\ \E t \in {"absent", "ready", "cordoned"} : node' = [node EXCEPT ![n] = t]
      /\ UNCHANGED <<pod, binding, podEvents, queueVars, timerVars, threadVars,
                     crashed>>
  BY DEF ChangeNode
<1>2. /\ UNCHANGED <<activeQ, podBackoffQ, unschedulableQ, moving, replaced>>
      /\ UNCHANGED <<allowTimer, lateTimer, rejectTimer, helped>>
      /\ UNCHANGED <<loop, binder, waitingPods>>
  BY <1>1 DEF queueVars, timerVars, threadVars
<1>3. nodeEvents' \in Seq(Handlers)
  <2>1. nodeEvents \in Seq(Handlers)
    BY DEF SchedulerInv, SchedulerTypeOK
  <2>2. PICK kind : Notify(kind)
    BY DEF ChangeNode
  <2> DEFINE evts == {e \in Handlers : e.actions = kind}
  <2>3. evts # {} => (CHOOSE e \in evts : TRUE) \in Handlers
    OBVIOUS
  <2>4. \/ UNCHANGED nodeEvents
        \/ evts # {} /\ nodeEvents' = Append(nodeEvents, CHOOSE e \in evts : TRUE)
    BY <2>2 DEF Notify
  <2>5. ASSUME NEW e \in Handlers PROVE Append(nodeEvents, e) \in Seq(Handlers)
    BY <2>1
  <2> HIDE DEF evts
  <2>6. QED
    BY <2>1, <2>3, <2>4, <2>5
<1>4. changes' \in 0 .. MaxChanges
  <2>1. changes \in 0 .. MaxChanges
    BY DEF SchedulerInv, SchedulerTypeOK
  <2>2. QED
    BY <1>1, <2>1, SchedulerAssumption
<1>5. node' \in [Nodes -> {"absent", "ready", "cordoned"}]
  BY <1>1 DEF SchedulerInv, SchedulerTypeOK
<1>6. SchedulerTypeOK'
  BY <1>1, <1>2, <1>3, <1>4, <1>5 DEF SchedulerInv, SchedulerTypeOK
<1>7. \A q \in Pods : Stays(q)
  BY <1>1, <1>2 DEF Stays, At, Waiting
<1>8. QED
  BY <1>1, <1>2, <1>6, <1>7, LoopFrame, QueuesFrame, MoveFrame, ExclusiveFrame,
     PermitFrame
     DEF SchedulerInv

\* addPodToSchedulingQueue moves the pod from the informer to activeQ.
LEMMA AddPodStep ==
    ASSUME SchedulerInv, addPodToSchedulingQueue, NEW p, p = Head(podEvents)
    PROVE  /\ SchedulerInv' /\ p \in Pods
           /\ Moves(p, "event", "active") /\ \A q \in Pods \ {p} : Stays(q)
<1>1. /\ podEvents # <<>>
      /\ activeQ' = Append(activeQ, p) /\ podEvents' = Tail(podEvents)
      /\ UNCHANGED <<apiVars, nodeEvents, podBackoffQ, unschedulableQ, moving,
                     replaced, timerVars, threadVars, crashed>>
  BY DEF addPodToSchedulingQueue
<1>2. /\ UNCHANGED <<pod, binding, node, changes>>
      /\ UNCHANGED <<allowTimer, lateTimer, rejectTimer, helped>>
      /\ UNCHANGED <<loop, binder, waitingPods>>
  BY <1>1 DEF apiVars, timerVars, threadVars
<1>3. /\ podEvents \in Seq(Pods) /\ IsInjective(podEvents)
      /\ activeQ \in Seq(Pods) /\ IsInjective(activeQ)
  BY DEF SchedulerInv, SchedulerTypeOK, QueuesConsistent
<1>4. /\ IsInjective(podEvents') /\ Range(podEvents') = Range(podEvents) \ {p}
      /\ p \in Range(podEvents) /\ podEvents' \in Seq(Pods) /\ p \in Pods
  BY <1>1, <1>3, TailRemovesHead, HeadTailProperties
<1>5. p \notin Range(activeQ)
  <2>1. At(p, "event") /\ ~At(p, "active")
    BY <1>4 DEF SchedulerInv, Exclusive, At, Where
  <2>2. QED
    BY <2>1 DEF At
<1>6. /\ IsInjective(activeQ') /\ Range(activeQ') = Range(activeQ) \cup {p}
      /\ activeQ' \in Seq(Pods)
  BY <1>1, <1>3, <1>4, <1>5, AppendInjects, AppendPod
<1>7. SchedulerTypeOK'
  BY <1>1, <1>2, <1>4, <1>6 DEF SchedulerInv, SchedulerTypeOK
<1>8. QueuesConsistent'
  BY <1>1, <1>4, <1>6 DEF SchedulerInv, QueuesConsistent
<1>9. Moves(p, "event", "active") /\ \A q \in Pods \ {p} : Stays(q)
  <2>1. Moves(p, "event", "active")
    BY <1>1, <1>2, <1>4, <1>6 DEF Moves, At, Where, Waiting
  <2>2. \A q \in Pods \ {p} : Stays(q)
    BY <1>1, <1>2, <1>4, <1>6 DEF Stays, At, Where, Waiting
  <2>3. QED
    BY <2>1, <2>2
<1>10. Exclusive'
  BY <1>9, ExclusiveStep DEF SchedulerInv, Where
<1>11. QED
  BY <1>1, <1>2, <1>4, <1>7, <1>8, <1>9, <1>10, LoopFrame, MoveFrame, PermitFrame
     DEF SchedulerInv

----------------------------------------------------------------------------
(* MoveAllToActiveOrBackoffQueue.                                          *)

(***************************************************************************)
(* Both plugins' events are registered under the name of NodeUnschedulable *)
(* and no other plugin rejects a pod: an event that has a handler helps    *)
(* every pod.                                                              *)
(***************************************************************************)
LEMMA EveryHandlerHelps ==
    ASSUME NEW event \in Handlers, NEW entry, entry.plugins \in RejectedBy
    PROVE  ~notHelped(entry, event)
<1> DEFINE evt == [resource |-> "Node", actions |-> {"Add", "UpdateNodeTaint"}]
<1>1. \A e \in DOMAIN eventsToRegister :
          e.resource = "Node" /\ e.actions \subseteq {"Add", "UpdateNodeTaint"}
  BY DEF eventsToRegister, registerClusterEvents, NodeUnschedulableEvents,
         NodeNumberEvents
<1>2. evt \in DOMAIN eventsToRegister /\ NodeUnschedulable \in eventsToRegister[evt]
  BY DEF eventsToRegister, registerClusterEvents, NodeUnschedulableEvents,
         NodeNumberEvents
<1>3. event.resource = "Node" /\ event.actions \in {{"Add"}, UpdateBits}
  <2>1. \A x \in DOMAIN unionedGVKs(eventsToRegister) :
           x = "Node" /\ unionedGVKs(eventsToRegister)[x] \subseteq {"Add", "UpdateNodeTaint"}
    <3>1. \A x \in DOMAIN unionedGVKs(eventsToRegister) : x = "Node"
      BY <1>1 DEF unionedGVKs
    <3>2. QED
      BY <1>1, <3>1 DEF unionedGVKs
  <2>2. /\ event \in buildEvtResHandler(unionedGVKs(eventsToRegister)["Node"], "Node")
        /\ unionedGVKs(eventsToRegister)["Node"] \subseteq {"Add", "UpdateNodeTaint"}
    BY <2>1, SchedulerAssumption DEF Handlers, addAllEventHandlers
  <2>3. QED
    BY <2>2 DEF buildEvtResHandler
<1>4. intersect(evt.actions, event.actions)
  BY <1>3 DEF intersect, UpdateBits
<1>5. CASE entry.plugins = {NodeUnschedulable}
  <2>1. intersect(eventsToRegister[evt], entry.plugins)
    BY <1>2, <1>5 DEF intersect
  <2>2. podMatchesEvent(clusterEventMap, entry.plugins, event)
    BY <1>2, <1>3, <1>4, <2>1, SchedulerAssumption DEF podMatchesEvent
  <2>3. QED
    BY <2>2 DEF notHelped
<1>6. QED
  BY <1>5 DEF notHelped, RejectedBy

\* MoveAllToActiveOrBackoffQueue begins with all entries there are ...
LEMMA MoveBeginStep ==
    ASSUME SchedulerInv, MoveBegin
    PROVE  SchedulerInv' /\ \A q \in Pods : Stays(q)
<1>1. /\ nodeEvents # <<>> /\ nodeEvents' = Tail(nodeEvents)
      /\ moving' = [event |-> Head(nodeEvents),
                    todo |-> {k \in Keys : unschedulableQ[k] # Nil}]
      /\ UNCHANGED <<apiVars, podEvents, activeQ, podBackoffQ, unschedulableQ,
                     replaced, timerVars, threadVars, crashed>>
  BY DEF MoveBegin
<1>2. /\ UNCHANGED <<pod, binding, node, changes>>
      /\ UNCHANGED <<allowTimer, lateTimer, rejectTimer, helped>>
      /\ UNCHANGED <<loop, binder, waitingPods>>
  BY <1>1 DEF apiVars, timerVars, threadVars
<1>3. nodeEvents \in Seq(Handlers)
  BY DEF SchedulerInv, SchedulerTypeOK
<1>4. nodeEvents' \in Seq(Handlers) /\ Head(nodeEvents) \in Handlers
  BY <1>1, <1>3
<1>5. /\ moving' \in MovingType /\ moving'.event \in Handlers
      /\ moving'.todo = {k \in Keys : unschedulableQ[k] # Nil}
  BY <1>1, <1>4 DEF MovingType
<1>6. SchedulerTypeOK'
  BY <1>1, <1>2, <1>4, <1>5 DEF SchedulerInv, SchedulerTypeOK
<1>7. MoveConsistent'
  BY <1>1, <1>5 DEF MoveConsistent
<1>8. \A q \in Pods : Stays(q)
  BY <1>1, <1>2 DEF Stays, At, Waiting
<1>9. QED
  BY <1>1, <1>2, <1>6, <1>7, <1>8, LoopFrame, QueuesFrame, ExclusiveFrame, PermitFrame
     DEF SchedulerInv

\* ... and ends when none is left.
LEMMA MoveEndStep ==
    ASSUME SchedulerInv, MoveEnd
    PROVE  SchedulerInv' /\ \A q \in Pods : Stays(q)
<1>1. /\ moving' = NotMoving
      /\ UNCHANGED <<apiVars, eventVars, activeQ, podBackoffQ, unschedulableQ,
                     replaced, timerVars, threadVars, crashed>>
  BY DEF MoveEnd
<1>2. /\ UNCHANGED <<pod, binding, node, changes>> /\ UNCHANGED <<podEvents, nodeEvents>>
      /\ UNCHANGED <<allowTimer, lateTimer, rejectTimer, helped>>
      /\ UNCHANGED <<loop, binder, waitingPods>>
  BY <1>1 DEF apiVars, eventVars, timerVars, threadVars
<1>3. moving' \in MovingType /\ MoveConsistent'
  BY <1>1 DEF NotMoving, MovingType, MoveConsistent
<1>4. SchedulerTypeOK'
  BY <1>1, <1>2, <1>3 DEF SchedulerInv, SchedulerTypeOK
<1>5. \A q \in Pods : Stays(q)
  BY <1>1, <1>2 DEF Stays, At, Waiting
<1>6. QED
  BY <1>1, <1>2, <1>3, <1>4, <1>5, LoopFrame, QueuesFrame, ExclusiveFrame, PermitFrame
     DEF SchedulerInv

(***************************************************************************)
(* An entry is moved to activeQ or to podBackoffQ: it is never left.       *)
(***************************************************************************)
LEMMA MoveEntryStep ==
    ASSUME SchedulerInv, NEW k \in Keys, MoveEntry(k), NEW p, p = unschedulableQ[k].pod
    PROVE  /\ SchedulerInv' /\ p \in Pods
           /\ \/ Moves(p, "unschedulable", "backoff") /\ UNCHANGED activeQ
              \/ Moves(p, "unschedulable", "active") /\ activeQ' = Append(activeQ, p)
           /\ \A q \in Pods \ {p} : Stays(q)
<1> DEFINE entry == unschedulableQ[k]
<1>1. /\ k \in moving.todo /\ moving' = [moving EXCEPT !.todo = @ \ {k}]
      /\ UNCHANGED <<apiVars, eventVars, replaced, timerVars, threadVars, crashed>>
  BY DEF MoveEntry
<1>2. /\ UNCHANGED <<pod, binding, node, changes>> /\ UNCHANGED <<podEvents, nodeEvents>>
      /\ UNCHANGED <<allowTimer, lateTimer, rejectTimer, helped>>
      /\ UNCHANGED <<loop, binder, waitingPods>>
  BY <1>1 DEF apiVars, eventVars, timerVars, threadVars
<1>3. /\ unschedulableQ \in [Keys -> Entry \cup {Nil}] /\ moving \in MovingType
      /\ activeQ \in Seq(Pods) /\ podBackoffQ \in Seq(Pods)
      /\ IsInjective(activeQ) /\ IsInjective(podBackoffQ)
  BY DEF SchedulerInv, SchedulerTypeOK, QueuesConsistent
<1>4. /\ moving.event \in Handlers
      /\ moving.todo = {l \in Keys : unschedulableQ[l] # Nil}
  BY <1>1 DEF SchedulerInv, MoveConsistent, NotMoving
<1>5. entry \in Entry /\ entry # Nil /\ p \in Pods /\ Key[p] = k
      /\ entry.plugins \in RejectedBy
  BY <1>1, <1>3, <1>4, EntryIsNotNil DEF SchedulerInv, QueuesConsistent
<1>6. ~notHelped(entry, moving.event)
  BY <1>4, <1>5, EveryHandlerHelps
<1>7. /\ unschedulableQ' = [unschedulableQ EXCEPT ![k] = Nil]
      /\ \/ podBackoffQ' = Append(podBackoffQ, p) /\ UNCHANGED activeQ
         \/ activeQ' = Append(activeQ, p) /\ UNCHANGED podBackoffQ
  BY <1>6 DEF MoveEntry
<1>8. /\ unschedulableQ' \in [Keys -> Entry \cup {Nil}]
      /\ \A l \in Keys : unschedulableQ'[l] = IF l = k THEN Nil ELSE unschedulableQ[l]
  BY <1>3, <1>7
<1>9. /\ moving' \in MovingType /\ moving'.event = moving.event
      /\ moving'.todo = moving.todo \ {k}
  BY <1>1, <1>3 DEF MovingType
<1>10. Waiting(p) /\ ~Waiting(p)'
       /\ \A q \in Pods \ {p} : Waiting(q)' <=> Waiting(q)
  <2>1. \A q \in Pods : Key[q] \in Keys
    BY QueueAssumption
  <2>2. QED
    BY <1>5, <1>8, <2>1 DEF Waiting
<1>11. p \notin Range(activeQ) /\ p \notin Range(podBackoffQ)
  <2>1. At(p, "unschedulable") /\ ~At(p, "active") /\ ~At(p, "backoff")
    BY <1>5, <1>10 DEF SchedulerInv, Exclusive, At, Where
  <2>2. QED
    BY <2>1 DEF At
<1>12. \/ /\ activeQ' = activeQ
          /\ podBackoffQ' \in Seq(Pods) /\ IsInjective(podBackoffQ')
          /\ Range(podBackoffQ') = Range(podBackoffQ) \cup {p}
       \/ /\ podBackoffQ' = podBackoffQ /\ activeQ' = Append(activeQ, p)
          /\ activeQ' \in Seq(Pods) /\ IsInjective(activeQ')
          /\ Range(activeQ') = Range(activeQ) \cup {p}
  <2>1. /\ IsInjective(Append(activeQ, p))
        /\ Range(Append(activeQ, p)) = Range(activeQ) \cup {p}
        /\ Append(activeQ, p) \in Seq(Pods)
    BY <1>3, <1>5, <1>11, AppendInjects, AppendPod
  <2>2. /\ IsInjective(Append(podBackoffQ, p))
        /\ Range(Append(podBackoffQ, p)) = Range(podBackoffQ) \cup {p}
        /\ Append(podBackoffQ, p) \in Seq(Pods)
    BY <1>3, <1>5, <1>11, AppendInjects, AppendPod
  <2>3. QED
    BY <1>7, <2>1, <2>2
<1> HIDE DEF entry
<1>13. SchedulerTypeOK'
  BY <1>1, <1>2, <1>3, <1>8, <1>9, <1>12 DEF SchedulerInv, SchedulerTypeOK
<1>14. QueuesConsistent'
  BY <1>2, <1>3, <1>8, <1>12 DEF SchedulerInv, QueuesConsistent
<1>15. MoveConsistent'
  BY <1>4, <1>8, <1>9 DEF MoveConsistent
<1>16. \/ Moves(p, "unschedulable", "backoff") /\ UNCHANGED activeQ
       \/ Moves(p, "unschedulable", "active") /\ activeQ' = Append(activeQ, p)
  BY <1>1, <1>2, <1>10, <1>12 DEF Moves, At, Where
<1>17. \A q \in Pods \ {p} : Stays(q)
  BY <1>1, <1>2, <1>10, <1>12 DEF Stays, At, Where
<1>18. Exclusive'
  BY <1>16, <1>17, ExclusiveStep DEF SchedulerInv, Where
<1>19. QED
  BY <1>1, <1>2, <1>5, <1>13, <1>14, <1>15, <1>16, <1>17, <1>18, LoopFrame, PermitFrame
     DEF SchedulerInv

----------------------------------------------------------------------------
(* The scheduling loop.                                                    *)

\* The loop's local variables before and after NextPod.
LEMMA IdleType ==
    /\ Idle \in LoopType /\ Idle.pc = "next" /\ Idle.pod = Nil /\ Idle.plugins = {}
    /\ \A p \in Pods :
          LET l == [Idle EXCEPT !.pc = "list", !.pod = p]
          IN  l \in LoopType /\ l.pc = "list" /\ l.pod = p /\ l.plugins = {}
BY SchedulerAssumption DEF Idle, LoopType

\* NextPod moves the head of activeQ to the loop.
LEMMA NextPodStep ==
    ASSUME SchedulerInv, NextPod, NEW p, p = Head(activeQ)
    PROVE  /\ SchedulerInv' /\ p \in Pods
           /\ Moves(p, "active", "loop") /\ \A q \in Pods \ {p} : Stays(q)
<1>1. /\ loop.pc = "next" /\ activeQ # <<>> /\ activeQ' = Tail(activeQ)
      /\ loop' = [Idle EXCEPT !.pc = "list", !.pod = p]
      /\ UNCHANGED <<apiVars, eventVars, podBackoffQ, unschedulableQ, moving,
                     replaced, timerVars, binder, waitingPods, crashed>>
  BY DEF NextPod
<1>2. /\ UNCHANGED <<pod, binding, node, changes>> /\ UNCHANGED <<podEvents, nodeEvents>>
      /\ UNCHANGED <<allowTimer, lateTimer, rejectTimer, helped>>
  BY <1>1 DEF apiVars, eventVars, timerVars
<1>3. activeQ \in Seq(Pods) /\ IsInjective(activeQ) /\ loop.pod = Nil
  BY <1>1 DEF SchedulerInv, SchedulerTypeOK, QueuesConsistent, LoopConsistent
<1>4. /\ IsInjective(activeQ') /\ Range(activeQ') = Range(activeQ) \ {p}
      /\ p \in Range(activeQ) /\ activeQ' \in Seq(Pods) /\ p \in Pods
  BY <1>1, <1>3, TailRemovesHead, HeadTailProperties
<1>5. loop' \in LoopType /\ loop'.pc = "list" /\ loop'.pod = p /\ loop'.plugins = {}
  BY <1>1, <1>4, IdleType
<1>6. SchedulerTypeOK'
  BY <1>1, <1>2, <1>4, <1>5 DEF SchedulerInv, SchedulerTypeOK
<1>7. QueuesConsistent'
  BY <1>1, <1>2, <1>4 DEF SchedulerInv, QueuesConsistent
<1>8. LoopConsistent'
  BY <1>4, <1>5, QueueAssumption DEF LoopConsistent, RejectedBy
<1>9. \A q \in Pods : q # loop.pod
  BY <1>3, QueueAssumption
<1>10. Moves(p, "active", "loop")
  BY <1>1, <1>2, <1>4, <1>5 DEF Moves, At, Where, Waiting
<1>11. \A q \in Pods \ {p} : Stays(q)
  BY <1>1, <1>2, <1>4, <1>5, <1>9 DEF Stays, At, Where, Waiting
<1>12. Exclusive'
  BY <1>10, <1>11, ExclusiveStep DEF SchedulerInv, Where
<1>13. QED
  BY <1>1, <1>2, <1>4, <1>6, <1>7, <1>8, <1>10, <1>11, <1>12, MoveFrame,
     PermitFrame
     DEF SchedulerInv

(***************************************************************************)
(* A cycle selects a listed node, or names NodeUnschedulable or no plugin. *)
(* For a pod without a number it selects none.                             *)
(***************************************************************************)
LEMMA OutcomeIs ==
    ASSUME NEW p, NEW nodes, NEW outcome \in scheduleOutcomes(p, nodes)
    PROVE  \/ /\ outcome.ok /\ outcome.node \in DOMAIN nodes
              /\ PodSuffix[p] # NaN
           \/ ~outcome.ok /\ outcome.plugins \in RejectedBy
<1> DEFINE feasible == feasibleNodes(nodes)
           score == RunScorePlugins(p, feasible)
<1>1. feasible \subseteq DOMAIN nodes
  BY DEF feasibleNodes
<1>2. CASE feasible = {}
  <2>1. outcome = Failure(UnschedulablePlugins(nodes))
    BY <1>2 DEF scheduleOutcomes
  <2>2. QED
    BY <2>1 DEF Failure, UnschedulablePlugins, RejectedBy
<1>3. CASE feasible # {} /\ \E n \in feasible : score[n] = ScoreError
  <2>1. outcome = Failure({})
    BY <1>3 DEF scheduleOutcomes
  <2>2. QED
    BY <2>1 DEF Failure, RejectedBy
<1>4. CASE feasible # {} /\ ~\E n \in feasible : score[n] = ScoreError
  <2>1. PICK n \in selectHost(score) : outcome = Selected(n)
    BY <1>4 DEF scheduleOutcomes
  <2>2. n \in feasible
    BY DEF selectHost, RunScorePlugins
  <2>3. PodSuffix[p] # NaN
    BY <1>4 DEF RunScorePlugins, Score, PreScore
  <2>4. QED
    BY <1>1, <2>1, <2>2, <2>3 DEF Selected
<1>5. QED
  BY <1>2, <1>3, <1>4

\* A cycle that succeeds has a pod with a number and a node from the list; one
\* that fails names no plugin but NodeUnschedulable.
LEMMA ScheduleOneStep ==
    ASSUME SchedulerInv, ScheduleOne \/ ListError
    PROVE  SchedulerInv' /\ \A q \in Pods : Stays(q)
<1>1. /\ loop.pc = "list"
      /\ UNCHANGED <<apiVars, eventVars, queueVars, timerVars, binder, waitingPods,
                     crashed>>
  BY DEF ScheduleOne, ListError
<1>2. /\ UNCHANGED <<pod, binding, node, changes>> /\ UNCHANGED <<podEvents, nodeEvents>>
      /\ UNCHANGED <<activeQ, podBackoffQ, unschedulableQ, moving, replaced>>
      /\ UNCHANGED <<allowTimer, lateTimer, rejectTimer, helped>>
  BY <1>1 DEF apiVars, eventVars, queueVars, timerVars
<1>3. loop \in LoopType /\ loop.plugins \in RejectedBy /\ loop.pod \in Pods
      /\ RejectedBy \subseteq PluginSets
  BY <1>1, SchedulerAssumption
     DEF SchedulerInv, SchedulerTypeOK, LoopConsistent, LoopType, RejectedBy
<1>4. /\ loop' \in LoopType /\ loop'.pod = loop.pod /\ loop'.plugins \in RejectedBy
      /\ \/ loop'.pc = "fail"
         \/ loop'.pc = "permit" /\ loop'.node \in Nodes /\ PodSuffix[loop.pod] # NaN
  <2>1. CASE ScheduleOne
    <3>1. PICK outcome \in scheduleOutcomes(loop.pod, NodeList) :
             loop' = IF outcome.ok
                     THEN [loop EXCEPT !.pc = "permit", !.node = outcome.node]
                     ELSE [loop EXCEPT !.pc = "fail", !.plugins = outcome.plugins]
      BY <2>1 DEF ScheduleOne
    <3>2. DOMAIN NodeList \subseteq Nodes
      BY DEF NodeList
    <3>3. CASE outcome.ok
      <4>1. outcome.node \in Nodes /\ PodSuffix[loop.pod] # NaN
        BY <3>2, <3>3, OutcomeIs
      <4>2. QED
        BY <1>3, <3>1, <3>3, <4>1 DEF LoopType
    <3>4. CASE ~outcome.ok
      <4>1. outcome.plugins \in RejectedBy
        BY <3>4, OutcomeIs
      <4>2. QED
        BY <1>3, <3>1, <3>4, <4>1 DEF LoopType
    <3>5. QED
      BY <3>3, <3>4
  <2>2. CASE ListError
    BY <1>3, <2>2 DEF ListError, LoopType
  <2>3. QED
    BY <2>1, <2>2
<1>5. SchedulerTypeOK'
  BY <1>1, <1>2, <1>4 DEF SchedulerInv, SchedulerTypeOK
<1>6. LoopConsistent'
  BY <1>3, <1>4, QueueAssumption DEF LoopConsistent
<1>7. \A q \in Pods : Stays(q)
  BY <1>1, <1>2, <1>4 DEF Stays, At, Waiting
<1>8. Exclusive'
  BY <1>7, ExclusiveStep DEF SchedulerInv
<1>9. QED
  BY <1>1, <1>2, <1>5, <1>6, <1>7, <1>8, QueuesFrame, MoveFrame, PermitFrame
     DEF SchedulerInv

(***************************************************************************)
(* ErrorFunc: the pod has an entry under its key, which replaces one of a  *)
(* pod of the same name.                                                   *)
(***************************************************************************)
LEMMA ErrorFuncEffect ==
    ASSUME SchedulerInv, NEW p \in Pods, NEW plugins \in RejectedBy,
           ErrorFunc(p, plugins), UNCHANGED podEvents
    PROVE  /\ unschedulableQ' \in [Keys -> Entry \cup {Nil}]
           /\ replaced' \in SUBSET Pods
           /\ QueuesConsistent' /\ MoveConsistent'
           /\ UNCHANGED <<activeQ, podBackoffQ, moving>>
           /\ Waiting(p)'
           /\ \A q \in Pods \ {p} : Waiting(q)' <=> Waiting(q) /\ Key[q] # Key[p]
           /\ \A q \in Pods : q \in replaced' <=> \/ q \in replaced
                                                  \/ /\ q # p /\ Waiting(q)
                                                     /\ Key[q] = Key[p]
<1> DEFINE k == Key[p]
           e == newEntry(p, plugins)
<1>1. /\ moving = NotMoving /\ unschedulableQ' = [unschedulableQ EXCEPT ![k] = e]
      /\ replaced' = replaced \cup {q \in Pods \ {p} : /\ unschedulableQ[k] # Nil
                                                       /\ unschedulableQ[k].pod = q}
      /\ UNCHANGED <<activeQ, podBackoffQ, moving>>
  BY DEF ErrorFunc
<1>2. /\ unschedulableQ \in [Keys -> Entry \cup {Nil}] /\ replaced \in SUBSET Pods
      /\ \A l \in Keys :
            unschedulableQ[l] # Nil => /\ Key[unschedulableQ[l].pod] = l
                                       /\ unschedulableQ[l].plugins \in RejectedBy
  BY DEF SchedulerInv, SchedulerTypeOK, QueuesConsistent
<1>3. plugins \in PluginSets
  BY SchedulerAssumption DEF RejectedBy
<1>4. e \in Entry /\ e # Nil /\ e.pod = p /\ e.plugins = plugins
  <2>1. e \in Entry
    BY <1>3, NewEntryType
  <2>2. e.pod = p /\ e.plugins = plugins
    BY DEF newEntry
  <2> HIDE DEF e
  <2>3. QED
    BY <2>1, <2>2, EntryIsNotNil
<1>5. \A q \in Pods : Key[q] \in Keys
  BY QueueAssumption
<1> HIDE DEF e
<1>6. /\ unschedulableQ' \in [Keys -> Entry \cup {Nil}]
      /\ \A l \in Keys : unschedulableQ'[l] = IF l = k THEN e ELSE unschedulableQ[l]
  BY <1>1, <1>2, <1>4, <1>5
<1>7. QueuesConsistent'
  BY <1>1, <1>2, <1>4, <1>5, <1>6 DEF SchedulerInv, QueuesConsistent
<1>8. MoveConsistent'
  BY <1>1 DEF MoveConsistent
<1>9. /\ Waiting(p)'
      /\ \A q \in Pods \ {p} : Waiting(q)' <=> Waiting(q) /\ Key[q] # Key[p]
  BY <1>4, <1>5, <1>6 DEF Waiting
<1>10. \A q \in Pods : q \in replaced' <=> \/ q \in replaced
                                           \/ /\ q # p /\ Waiting(q)
                                              /\ Key[q] = Key[p]
  BY <1>1, <1>2, <1>5 DEF Waiting
<1>11. replaced' \in SUBSET Pods
  BY <1>1, <1>2
<1>12. QED
  BY <1>1, <1>6, <1>7, <1>8, <1>9, <1>10, <1>11

\* The pod p is given back: where it and the others go.
GivesBack(p, x) ==
    /\ Moves(p, x, "unschedulable")
    /\ \A q \in Pods \ {p} :
          \/ Stays(q) /\ ~(Waiting(q) /\ Key[q] = Key[p])
          \/ /\ Moves(q, "unschedulable", "replaced")
             /\ Waiting(q) /\ Key[q] = Key[p]

\* The loop gives its pod back.
LEMMA LoopFailsStep ==
    ASSUME SchedulerInv, LoopFails, NEW p, p = loop.pod
    PROVE  SchedulerInv' /\ p \in Pods /\ GivesBack(p, "loop") /\ UNCHANGED activeQ
<1>1. /\ loop.pc = "fail" /\ ErrorFunc(p, loop.plugins) /\ loop' = Idle
      /\ UNCHANGED <<apiVars, eventVars, timerVars, binder, waitingPods, crashed>>
  BY DEF LoopFails
<1>2. /\ UNCHANGED <<pod, binding, node, changes>> /\ UNCHANGED <<podEvents, nodeEvents>>
      /\ UNCHANGED <<allowTimer, lateTimer, rejectTimer, helped>>
  BY <1>1 DEF apiVars, eventVars, timerVars
<1>3. p \in Pods /\ loop.plugins \in RejectedBy /\ p # Nil
  BY <1>1, QueueAssumption
     DEF SchedulerInv, SchedulerTypeOK, LoopConsistent, LoopType
<1>4. /\ unschedulableQ' \in [Keys -> Entry \cup {Nil}]
      /\ replaced' \in SUBSET Pods
      /\ QueuesConsistent' /\ MoveConsistent'
      /\ UNCHANGED <<activeQ, podBackoffQ, moving>>
      /\ Waiting(p)'
      /\ \A q \in Pods \ {p} : Waiting(q)' <=> Waiting(q) /\ Key[q] # Key[p]
      /\ \A q \in Pods : q \in replaced' <=> \/ q \in replaced
                                             \/ /\ q # p /\ Waiting(q)
                                                /\ Key[q] = Key[p]
  <2>1. PICK plugins \in RejectedBy : plugins = loop.plugins
    BY <1>3
  <2>2. ErrorFunc(p, plugins)
    BY <1>1, <2>1 DEF ErrorFunc
  <2>3. QED
    BY <1>2, <1>3, <2>2, ErrorFuncEffect
<1>5. loop' \in LoopType /\ loop'.pc = "next" /\ loop'.pod = Nil /\ loop'.plugins = {}
  BY <1>1, IdleType
<1>6. SchedulerTypeOK'
  BY <1>1, <1>2, <1>4, <1>5 DEF SchedulerInv, SchedulerTypeOK
<1>7. LoopConsistent'
  BY <1>5 DEF LoopConsistent, RejectedBy
<1>8. \A q \in Pods : q # Nil
  BY QueueAssumption
<1>9. Moves(p, "loop", "unschedulable")
  BY <1>1, <1>2, <1>3, <1>4, <1>5, <1>8 DEF Moves, At, Where
<1>10. ASSUME NEW q \in Pods \ {p}, ~(Waiting(q) /\ Key[q] = Key[p]) PROVE Stays(q)
  BY <1>1, <1>2, <1>3, <1>4, <1>5, <1>8, <1>10 DEF Stays, At, Where
<1>11. ASSUME NEW q \in Pods \ {p}, Waiting(q), Key[q] = Key[p]
       PROVE  Moves(q, "unschedulable", "replaced")
  BY <1>1, <1>2, <1>3, <1>4, <1>5, <1>8, <1>11 DEF Moves, At, Where
<1>12. GivesBack(p, "loop")
  BY <1>9, <1>10, <1>11 DEF GivesBack
<1>13. Exclusive'
  BY <1>12, ExclusiveStep DEF SchedulerInv, GivesBack, Where
<1>14. QED
  BY <1>1, <1>2, <1>3, <1>4, <1>6, <1>7, <1>12, <1>13, PermitFrame
     DEF SchedulerInv

(***************************************************************************)
(* The loop has a pod, which no binding goroutine has, and for which there *)
(* is no waiting pod.                                                      *)
(***************************************************************************)
LEMMA LoopPod ==
    ASSUME SchedulerInv, loop.pc # "next"
    PROVE  /\ loop.pod \in Pods
           /\ binder[loop.pod].pc = "none"
           /\ waitingPods[loop.pod] = Nil
<1>1. loop.pod \in Pods
  BY DEF SchedulerInv, SchedulerTypeOK, LoopConsistent, LoopType
<1>2. PICK p \in Pods : p = loop.pod
  BY <1>1
<1>3. binder[p].pc = "none"
  <2>1. At(p, "loop") /\ ~At(p, "binder")
    BY <1>2 DEF SchedulerInv, Exclusive, At, Where
  <2>2. QED
    BY <2>1 DEF At
<1>4. waitingPods[p] = Nil
  BY <1>3 DEF SchedulerInv, PermitConsistent
<1>5. QED
  BY <1>1, <1>2, <1>3, <1>4

\* Permit arms this attempt's timer; the pod has no waiting pod yet.
LEMMA PermitStep ==
    ASSUME SchedulerInv, Permit
    PROVE  SchedulerInv' /\ \A q \in Pods : Stays(q)
<1>1. PICK p : p = loop.pod
  OBVIOUS
<1>2. /\ loop.pc = "permit" /\ PermitWaits(loop.node)
      /\ lateTimer' = [lateTimer EXCEPT ![p] = IF allowTimer[p] = Off THEN @
                                               ELSE allowTimer[p]]
      /\ allowTimer' = [allowTimer EXCEPT ![p] = NodeSuffix[loop.node]]
      /\ helped' = helped \ {p} /\ loop' = [loop EXCEPT !.pc = "record"]
      /\ UNCHANGED <<apiVars, eventVars, queueVars, rejectTimer, binder, waitingPods,
                     crashed>>
  BY <1>1 DEF Permit
<1>3. /\ UNCHANGED <<pod, binding, node, changes>> /\ UNCHANGED <<podEvents, nodeEvents>>
      /\ UNCHANGED <<activeQ, podBackoffQ, unschedulableQ, moving, replaced>>
  BY <1>2 DEF apiVars, eventVars, queueVars
<1>4. p \in Pods /\ binder[p].pc = "none" /\ waitingPods[p] = Nil
  BY <1>1, <1>2, LoopPod
<1>5. loop \in LoopType /\ loop.node \in Nodes /\ loop.plugins \in RejectedBy
      /\ loop.pod # Nil
  BY <1>2 DEF SchedulerInv, SchedulerTypeOK, LoopConsistent
<1>6. /\ loop' \in LoopType /\ loop'.pc = "record" /\ loop'.pod = loop.pod
      /\ loop'.node = loop.node /\ loop'.plugins = loop.plugins
  BY <1>2, <1>5 DEF LoopType
<1>7. allowTimer \in [Pods -> Countdown] /\ lateTimer \in [Pods -> Countdown]
      /\ helped \in SUBSET Pods
  BY DEF SchedulerInv, SchedulerTypeOK
<1>8. NodeSuffix[loop.node] \in Countdown
  BY <1>2, <1>5, SchedulerAssumption DEF PermitWaits, Countdown
<1>9. /\ allowTimer' \in [Pods -> Countdown] /\ lateTimer' \in [Pods -> Countdown]
      /\ helped' \in SUBSET Pods
      /\ \A q \in Pods \ {p} : allowTimer'[q] = allowTimer[q]
  BY <1>2, <1>4, <1>7, <1>8
<1>10. SchedulerTypeOK'
  BY <1>2, <1>3, <1>6, <1>9 DEF SchedulerInv, SchedulerTypeOK
<1>11. LoopConsistent'
  BY <1>2, <1>5, <1>6 DEF LoopConsistent
<1>12. PermitConsistent'
  <2>1. SUFFICES ASSUME NEW q \in Pods
                 PROVE  /\ waitingPods[q] # Nil /\ waitingPods[q].s = Success =>
                              allowTimer'[q] = Off \/ q \in helped'
                        /\ binder[q].pc = "bind" /\ PermitWaits(binder[q].node) =>
                              allowTimer'[q] = Off \/ q \in helped'
    BY <1>2 DEF SchedulerInv, PermitConsistent
  <2>2. CASE q = p
    BY <1>4, <2>2
  <2>3. CASE q # p
    BY <1>2, <1>9, <2>3 DEF SchedulerInv, PermitConsistent
  <2>4. QED
    BY <2>2, <2>3
<1>13. \A q \in Pods : Stays(q)
  BY <1>2, <1>3, <1>6 DEF Stays, At, Waiting
<1>14. Exclusive'
  BY <1>13, ExclusiveStep DEF SchedulerInv
<1>15. QED
  BY <1>3, <1>10, <1>11, <1>12, <1>13, <1>14, QueuesFrame, MoveFrame
     DEF SchedulerInv

(***************************************************************************)
(* The binding goroutine is started, with a waiting pod or without.        *)
(***************************************************************************)
LEMMA StartBinderStep ==
    ASSUME SchedulerInv, PermitAtOnce \/ RecordWaitingPod, NEW p, p = loop.pod
    PROVE  /\ SchedulerInv' /\ p \in Pods /\ UNCHANGED activeQ
           /\ Moves(p, "loop", "binder") /\ \A q \in Pods \ {p} : Stays(q)
<1> DEFINE b == [pc |-> "start", node |-> loop.node]
<1>1. /\ loop.pc \in {"permit", "record"} /\ loop' = Idle
      /\ binder' = [binder EXCEPT ![p] = b]
      /\ UNCHANGED <<apiVars, eventVars, queueVars, allowTimer, lateTimer, helped,
                     crashed>>
      /\ \/ ~PermitWaits(loop.node) /\ UNCHANGED <<rejectTimer, waitingPods>>
         \/ /\ loop.pc = "record"
            /\ waitingPods' = [waitingPods EXCEPT ![p] = NewWaitingPod]
            /\ rejectTimer' = [rejectTimer EXCEPT ![p] = PermitTimeout]
  BY DEF PermitAtOnce, RecordWaitingPod, timerVars
<1>2. /\ UNCHANGED <<pod, binding, node, changes>> /\ UNCHANGED <<podEvents, nodeEvents>>
      /\ UNCHANGED <<activeQ, podBackoffQ, unschedulableQ, moving, replaced>>
  BY <1>1 DEF apiVars, eventVars, queueVars
<1>3. p \in Pods /\ binder[p].pc = "none" /\ waitingPods[p] = Nil
  BY <1>1, LoopPod
<1>4. loop.node \in Nodes /\ (loop.pc = "record" => PermitWaits(loop.node))
  BY <1>1 DEF SchedulerInv, LoopConsistent
<1>5. binder \in [Pods -> BinderType] /\ waitingPods \in [Pods -> WaitingPodType \cup {Nil}]
      /\ rejectTimer \in [Pods -> 0 .. PermitTimeout]
  BY DEF SchedulerInv, SchedulerTypeOK
<1>6. loop' \in LoopType /\ loop'.pc = "next" /\ loop'.pod = Nil /\ loop'.plugins = {}
  BY <1>1, IdleType
<1>7. b \in BinderType /\ b.pc = "start" /\ b.node = loop.node
  BY <1>4 DEF BinderType
<1> HIDE DEF b
<1>8. /\ binder' \in [Pods -> BinderType]
      /\ \A q \in Pods : binder'[q] = IF q = p THEN b ELSE binder[q]
  BY <1>1, <1>3, <1>5, <1>7
<1>9. /\ NewWaitingPod \in WaitingPodType /\ NewWaitingPod # Nil
      /\ NewWaitingPod.s = NoSignal /\ NewWaitingPod.timer[NodeNumber] = "armed"
      /\ NoSignal # Success
  <2>1. /\ NewWaitingPod \in WaitingPodType /\ NewWaitingPod.s = NoSignal
        /\ NewWaitingPod.timer[NodeNumber] = "armed"
    BY SchedulerAssumption DEF NewWaitingPod, WaitingPodType
  <2>2. NoSignal # Success
    BY SignalIsNotNoSignal DEF Signal
  <2>3. QED
    BY <2>1, <2>2, SchedulerAssumption
<1>10. /\ waitingPods' \in [Pods -> WaitingPodType \cup {Nil}]
       /\ \A q \in Pods \ {p} : waitingPods'[q] = waitingPods[q]
       /\ waitingPods'[p] = IF PermitWaits(loop.node) THEN NewWaitingPod ELSE Nil
  BY <1>1, <1>3, <1>4, <1>5, <1>9
<1>11. rejectTimer' \in [Pods -> 0 .. PermitTimeout]
  <2>1. PermitTimeout \in 0 .. PermitTimeout
    BY SchedulerAssumption
  <2>2. QED
    BY <1>1, <1>5, <2>1
<1>12. SchedulerTypeOK'
  BY <1>1, <1>2, <1>6, <1>8, <1>10, <1>11 DEF SchedulerInv, SchedulerTypeOK
<1>13. LoopConsistent'
  BY <1>6 DEF LoopConsistent, RejectedBy
<1>14. PermitConsistent'
  BY <1>1, <1>7, <1>8, <1>9, <1>10 DEF SchedulerInv, PermitConsistent
<1>15. \A q \in Pods : q # Nil
  BY QueueAssumption
<1>16. Moves(p, "loop", "binder")
  BY <1>2, <1>3, <1>6, <1>7, <1>8, <1>15 DEF Moves, At, Where, Waiting
<1>17. \A q \in Pods \ {p} : Stays(q)
  BY <1>2, <1>6, <1>8, <1>15 DEF Stays, At, Where, Waiting
<1>18. Exclusive'
  BY <1>16, <1>17, ExclusiveStep DEF SchedulerInv, Where
<1>19. QED
  BY <1>2, <1>3, <1>12, <1>13, <1>14, <1>16, <1>17, <1>18, QueuesFrame, MoveFrame
     DEF SchedulerInv

----------------------------------------------------------------------------
(* The binding goroutines.                                                 *)

(***************************************************************************)
(* A binding goroutine goes on.                                            *)
(***************************************************************************)
LEMMA BinderGoesOn ==
    ASSUME SchedulerInv, NEW p \in Pods, NEW pc \in {"wait", "bind", "fail"},
           binder' = [binder EXCEPT ![p].pc = pc]
    PROVE  /\ binder' \in [Pods -> BinderType]
           /\ binder'[p].pc = pc /\ binder'[p].node = binder[p].node
           /\ \A q \in Pods \ {p} : binder'[q] = binder[q]
<1>1. binder \in [Pods -> BinderType]
  BY DEF SchedulerInv, SchedulerTypeOK
<1>2. PICK b \in BinderType : b = binder[p]
  BY <1>1
<1>3. [b EXCEPT !.pc = pc] \in BinderType /\ [b EXCEPT !.pc = pc].pc = pc
      /\ [b EXCEPT !.pc = pc].node = b.node
  BY DEF BinderType
<1>4. binder' = [binder EXCEPT ![p] = [b EXCEPT !.pc = pc]]
  BY <1>2
<1>5. QED
  BY <1>1, <1>2, <1>3, <1>4

\* The binding goroutine finds a waiting pod exactly if it has to wait.
LEMMA LookUpStep ==
    ASSUME SchedulerInv, NEW p \in Pods, LookUpWaitingPod(p)
    PROVE  SchedulerInv' /\ \A q \in Pods : Stays(q)
<1>1. /\ binder[p].pc = "start"
      /\ binder' = [binder EXCEPT ![p].pc = IF waitingPods[p] = Nil THEN "bind" ELSE "wait"]
      /\ UNCHANGED <<apiVars, eventVars, queueVars, timerVars, loop, waitingPods,
                     crashed>>
  BY DEF LookUpWaitingPod
<1>2. /\ UNCHANGED <<pod, binding, node, changes>> /\ UNCHANGED <<podEvents, nodeEvents>>
      /\ UNCHANGED <<activeQ, podBackoffQ, unschedulableQ, moving, replaced>>
      /\ UNCHANGED <<allowTimer, lateTimer, rejectTimer, helped>>
  BY <1>1 DEF apiVars, eventVars, queueVars, timerVars
<1>3. PICK pc \in {"wait", "bind", "fail"} :
         pc = IF waitingPods[p] = Nil THEN "bind" ELSE "wait"
  OBVIOUS
<1>4. /\ binder' \in [Pods -> BinderType]
      /\ binder'[p].pc = pc /\ binder'[p].node = binder[p].node
      /\ \A q \in Pods \ {p} : binder'[q] = binder[q]
  BY <1>1, <1>3, BinderGoesOn
<1>5. SchedulerTypeOK'
  BY <1>1, <1>2, <1>4 DEF SchedulerInv, SchedulerTypeOK
<1>6. PermitConsistent'
  BY <1>1, <1>2, <1>3, <1>4 DEF SchedulerInv, PermitConsistent
<1>7. \A q \in Pods : Stays(q)
  BY <1>1, <1>2, <1>3, <1>4 DEF Stays, At, Waiting
<1>8. Exclusive'
  BY <1>7, ExclusiveStep DEF SchedulerInv
<1>9. QED
  BY <1>1, <1>2, <1>5, <1>6, <1>7, <1>8, LoopFrame, QueuesFrame, MoveFrame
     DEF SchedulerInv

\* A binding goroutine goes on to bind only when the pod was allowed.
LEMMA WaitOnPermitStep ==
    ASSUME SchedulerInv, NEW p \in Pods, WaitOnPermit(p)
    PROVE  SchedulerInv' /\ \A q \in Pods : Stays(q)
<1>1. /\ binder[p].pc = "wait"
      /\ binder' = [binder EXCEPT ![p].pc =
                       IF waitingPods[p].s = Success THEN "bind" ELSE "fail"]
      /\ waitingPods' = [waitingPods EXCEPT ![p] = Nil]
      /\ rejectTimer' = [rejectTimer EXCEPT ![p] = 0]
      /\ UNCHANGED <<apiVars, eventVars, queueVars, allowTimer, lateTimer, helped,
                     loop, crashed>>
  BY DEF WaitOnPermit
<1>2. /\ UNCHANGED <<pod, binding, node, changes>> /\ UNCHANGED <<podEvents, nodeEvents>>
      /\ UNCHANGED <<activeQ, podBackoffQ, unschedulableQ, moving, replaced>>
  BY <1>1 DEF apiVars, eventVars, queueVars
<1>3. PICK pc \in {"wait", "bind", "fail"} :
         pc = IF waitingPods[p].s = Success THEN "bind" ELSE "fail"
  OBVIOUS
<1>4. /\ binder' \in [Pods -> BinderType]
      /\ binder'[p].pc = pc /\ binder'[p].node = binder[p].node
      /\ \A q \in Pods \ {p} : binder'[q] = binder[q]
  BY <1>1, <1>3, BinderGoesOn
<1>5. /\ waitingPods' \in [Pods -> WaitingPodType \cup {Nil}]
      /\ \A q \in Pods : waitingPods'[q] = IF q = p THEN Nil ELSE waitingPods[q]
  <2>1. waitingPods \in [Pods -> WaitingPodType \cup {Nil}]
    BY DEF SchedulerInv, SchedulerTypeOK
  <2>2. QED
    BY <1>1, <2>1
<1>6. rejectTimer' \in [Pods -> 0 .. PermitTimeout]
  <2>1. rejectTimer \in [Pods -> 0 .. PermitTimeout]
    BY DEF SchedulerInv, SchedulerTypeOK
  <2>2. 0 \in 0 .. PermitTimeout
    BY SchedulerAssumption
  <2>3. QED
    BY <1>1, <2>1, <2>2
<1>7. SchedulerTypeOK'
  BY <1>1, <1>2, <1>4, <1>5, <1>6 DEF SchedulerInv, SchedulerTypeOK
<1>8. PermitConsistent'
  BY <1>1, <1>3, <1>4, <1>5 DEF SchedulerInv, PermitConsistent
<1>9. \A q \in Pods : Stays(q)
  BY <1>1, <1>2, <1>3, <1>4 DEF Stays, At, Waiting
<1>10. Exclusive'
  BY <1>9, ExclusiveStep DEF SchedulerInv
<1>11. QED
  BY <1>1, <1>2, <1>7, <1>8, <1>9, <1>10, LoopFrame, QueuesFrame, MoveFrame
     DEF SchedulerInv

\* No binding goroutine.
LEMMA NoBinderType == NoBinder \in BinderType /\ NoBinder.pc = "none"
BY DEF NoBinder, BinderType

\* A pod that is bound is nowhere in the scheduler.
LEMMA BindStep ==
    ASSUME SchedulerInv, NEW p \in Pods, Bind(p)
    PROVE  /\ SchedulerInv' /\ UNCHANGED activeQ
           /\ Leaves(p, "binder") /\ \A q \in Pods \ {p} : Stays(q)
<1>1. /\ binder[p].pc = "bind" /\ binder' = [binder EXCEPT ![p] = NoBinder]
      /\ binding' = [binding EXCEPT ![p] = binder[p].node]
      /\ UNCHANGED <<pod, node, changes, eventVars, queueVars, timerVars, loop,
                     waitingPods, crashed>>
  BY DEF Bind
<1>2. /\ UNCHANGED <<podEvents, nodeEvents>>
      /\ UNCHANGED <<activeQ, podBackoffQ, unschedulableQ, moving, replaced>>
      /\ UNCHANGED <<allowTimer, lateTimer, rejectTimer, helped>>
  BY <1>1 DEF eventVars, queueVars, timerVars
<1>3. binder \in [Pods -> BinderType] /\ binding \in [Pods -> Nodes \cup {Nil}]
      /\ binder[p].node \in Nodes \cup {Nil}
  BY DEF SchedulerInv, SchedulerTypeOK, BinderType
<1>4. /\ binder' \in [Pods -> BinderType] /\ binding' \in [Pods -> Nodes \cup {Nil}]
      /\ \A q \in Pods : binder'[q] = IF q = p THEN NoBinder ELSE binder[q]
      /\ \A q \in Pods \ {p} : binding'[q] = binding[q]
  BY <1>1, <1>3, NoBinderType
<1>5. SchedulerTypeOK'
  BY <1>1, <1>2, <1>4 DEF SchedulerInv, SchedulerTypeOK
<1>6. PermitConsistent'
  BY <1>1, <1>2, <1>4, NoBinderType DEF SchedulerInv, PermitConsistent
<1>7. Leaves(p, "binder") /\ \A q \in Pods \ {p} : Stays(q)
  BY <1>1, <1>2, <1>4, NoBinderType DEF Leaves, Stays, At, Where, Waiting
<1>8. Exclusive'
  BY <1>7, ExclusiveStep DEF SchedulerInv, Where
<1>9. QED
  BY <1>1, <1>2, <1>5, <1>6, <1>7, <1>8, LoopFrame, QueuesFrame, MoveFrame
     DEF SchedulerInv

\* A failed Bind, whether the pod is bound or not, leaves it with its goroutine.
LEMMA BindErrorStep ==
    ASSUME SchedulerInv, NEW p \in Pods, BindError(p)
    PROVE  SchedulerInv' /\ \A q \in Pods : Stays(q)
<1>1. /\ binder[p].pc = "bind" /\ binder' = [binder EXCEPT ![p].pc = "fail"]
      /\ \/ UNCHANGED binding
         \/ binding' = [binding EXCEPT ![p] = binder[p].node]
      /\ UNCHANGED <<pod, node, changes, eventVars, queueVars, timerVars, loop,
                     waitingPods, crashed>>
  BY DEF BindError
<1>2. /\ UNCHANGED <<podEvents, nodeEvents>>
      /\ UNCHANGED <<activeQ, podBackoffQ, unschedulableQ, moving, replaced>>
      /\ UNCHANGED <<allowTimer, lateTimer, rejectTimer, helped>>
  BY <1>1 DEF eventVars, queueVars, timerVars
<1>3. binding \in [Pods -> Nodes \cup {Nil}] /\ binder[p].node \in Nodes \cup {Nil}
  BY DEF SchedulerInv, SchedulerTypeOK, BinderType
<1>4. /\ binder' \in [Pods -> BinderType]
      /\ binder'[p].pc = "fail" /\ binder'[p].node = binder[p].node
      /\ \A q \in Pods \ {p} : binder'[q] = binder[q]
  BY <1>1, BinderGoesOn
<1>5. /\ binding' \in [Pods -> Nodes \cup {Nil}]
      /\ \A q \in Pods \ {p} : binding'[q] = binding[q]
  BY <1>1, <1>3
<1>6. SchedulerTypeOK'
  BY <1>1, <1>2, <1>4, <1>5 DEF SchedulerInv, SchedulerTypeOK
<1>7. PermitConsistent'
  BY <1>1, <1>2, <1>4 DEF SchedulerInv, PermitConsistent
<1>8. \A q \in Pods : Stays(q)
  BY <1>1, <1>2, <1>4 DEF Stays, At, Waiting
<1>9. Exclusive'
  BY <1>8, ExclusiveStep DEF SchedulerInv
<1>10. QED
  BY <1>1, <1>2, <1>6, <1>7, <1>8, <1>9, LoopFrame, QueuesFrame, MoveFrame
     DEF SchedulerInv

\* The binding goroutine gives its pod back and ends.
LEMMA BinderFailsStep ==
    ASSUME SchedulerInv, NEW p \in Pods, BinderFails(p)
    PROVE  SchedulerInv' /\ GivesBack(p, "binder") /\ UNCHANGED activeQ
<1>1. /\ binder[p].pc = "fail" /\ ErrorFunc(p, {})
      /\ binder' = [binder EXCEPT ![p] = NoBinder]
      /\ UNCHANGED <<apiVars, eventVars, timerVars, loop, waitingPods, crashed>>
  BY DEF BinderFails
<1>2. /\ UNCHANGED <<pod, binding, node, changes>> /\ UNCHANGED <<podEvents, nodeEvents>>
      /\ UNCHANGED <<allowTimer, lateTimer, rejectTimer, helped>>
  BY <1>1 DEF apiVars, eventVars, timerVars
<1>3. /\ unschedulableQ' \in [Keys -> Entry \cup {Nil}]
      /\ replaced' \in SUBSET Pods
      /\ QueuesConsistent' /\ MoveConsistent'
      /\ UNCHANGED <<activeQ, podBackoffQ, moving>>
      /\ Waiting(p)'
      /\ \A q \in Pods \ {p} : Waiting(q)' <=> Waiting(q) /\ Key[q] # Key[p]
      /\ \A q \in Pods : q \in replaced' <=> \/ q \in replaced
                                             \/ /\ q # p /\ Waiting(q)
                                                /\ Key[q] = Key[p]
  <2>1. {} \in RejectedBy
    BY DEF RejectedBy
  <2>2. QED
    BY <1>1, <1>2, <2>1, ErrorFuncEffect
<1>4. /\ binder' \in [Pods -> BinderType]
      /\ \A q \in Pods : binder'[q] = IF q = p THEN NoBinder ELSE binder[q]
  <2>1. binder \in [Pods -> BinderType]
    BY DEF SchedulerInv, SchedulerTypeOK
  <2>2. QED
    BY <1>1, <2>1, NoBinderType
<1>5. SchedulerTypeOK'
  BY <1>1, <1>2, <1>3, <1>4 DEF SchedulerInv, SchedulerTypeOK
<1>6. PermitConsistent'
  BY <1>1, <1>2, <1>4, NoBinderType DEF SchedulerInv, PermitConsistent
<1>7. Moves(p, "binder", "unschedulable")
  BY <1>1, <1>2, <1>3, <1>4, NoBinderType DEF Moves, At, Where
<1>8. ASSUME NEW q \in Pods \ {p}, ~(Waiting(q) /\ Key[q] = Key[p]) PROVE Stays(q)
  BY <1>1, <1>2, <1>3, <1>4, <1>8 DEF Stays, At, Where
<1>9. ASSUME NEW q \in Pods \ {p}, Waiting(q), Key[q] = Key[p]
       PROVE  Moves(q, "unschedulable", "replaced")
  BY <1>1, <1>2, <1>3, <1>4, <1>9 DEF Moves, At, Where
<1>10. GivesBack(p, "binder")
  BY <1>7, <1>8, <1>9 DEF GivesBack
<1>11. Exclusive'
  BY <1>10, ExclusiveStep DEF SchedulerInv, GivesBack, Where
<1>12. QED
  BY <1>1, <1>3, <1>5, <1>6, <1>10, <1>11, LoopFrame
     DEF SchedulerInv

----------------------------------------------------------------------------
(* Timers.                                                                 *)

(***************************************************************************)
(* A timer of NodeNumber, the only permit plugin, allows the pod, or finds *)
(* no waiting pod and the process dies.                                    *)
(***************************************************************************)
LEMMA CallAllowEffect ==
    ASSUME SchedulerInv, NEW p \in Pods, CallAllow(p)
    PROVE  /\ crashed' \in {"no", "nil waiting pod", "concurrent map access"}
           /\ waitingPods' \in [Pods -> WaitingPodType \cup {Nil}]
           /\ \A q \in Pods \ {p} : waitingPods'[q] = waitingPods[q]
           /\ waitingPods'[p] = Nil <=> waitingPods[p] = Nil
           /\ waitingPods'[p] # Nil => waitingPods'[p].s # NoSignal
<1>1. waitingPods \in [Pods -> WaitingPodType \cup {Nil}]
      /\ crashed \in {"no", "nil waiting pod", "concurrent map access"}
  BY DEF SchedulerInv, SchedulerTypeOK
<1>2. CASE waitingPods[p] = Nil
  BY <1>1, <1>2 DEF CallAllow
<1>3. CASE waitingPods[p] # Nil
  <2>1. PICK v \in WaitingPodType : v = waitingPods[p]
    BY <1>1, <1>3
  <2>2. PermitPlugins = {NodeNumber} /\ NodeNumber \in PermitPlugins
        /\ Nil \notin WaitingPodType
    BY SchedulerAssumption
  <2>3. v.pendingPlugins \ {NodeNumber} = {}
    BY <2>2 DEF WaitingPodType
  <2>4. /\ Allow(v, NodeNumber) \in WaitingPodType
        /\ Allow(v, NodeNumber).s = IF v.s = NoSignal THEN Success ELSE v.s
    BY <2>2, <2>3, AllowEffect
  <2>5. Success # NoSignal
    BY SignalIsNotNoSignal DEF Signal
  <2>6. /\ waitingPods' = [waitingPods EXCEPT ![p] = Allow(v, NodeNumber)]
        /\ UNCHANGED crashed
    BY <1>3, <2>1 DEF CallAllow
  <2>7. QED
    BY <1>1, <1>3, <2>2, <2>4, <2>5, <2>6
<1>4. QED
  BY <1>2, <1>3

\* Either timer moves no pod; afterwards the pod counts as allowed or helped.
LEMMA TimerFiresStep ==
    ASSUME SchedulerInv, NEW p \in Pods, AllowTimerFires(p) \/ LateTimerFires(p)
    PROVE  SchedulerInv' /\ \A q \in Pods : Stays(q)
<1>1. /\ CallAllow(p)
      /\ \/ /\ allowTimer' = [allowTimer EXCEPT ![p] = Off]
            /\ UNCHANGED <<lateTimer, helped>>
         \/ /\ lateTimer' = [lateTimer EXCEPT ![p] = Off] /\ helped' = helped \cup {p}
            /\ UNCHANGED allowTimer
      /\ UNCHANGED <<apiVars, eventVars, queueVars, rejectTimer, loop, binder>>
  BY DEF AllowTimerFires, LateTimerFires
<1>2. /\ UNCHANGED <<pod, binding, node, changes>> /\ UNCHANGED <<podEvents, nodeEvents>>
      /\ UNCHANGED <<activeQ, podBackoffQ, unschedulableQ, moving, replaced>>
  BY <1>1 DEF apiVars, eventVars, queueVars
<1>3. /\ crashed' \in {"no", "nil waiting pod", "concurrent map access"}
      /\ waitingPods' \in [Pods -> WaitingPodType \cup {Nil}]
      /\ \A q \in Pods \ {p} : waitingPods'[q] = waitingPods[q]
      /\ waitingPods'[p] = Nil <=> waitingPods[p] = Nil
      /\ waitingPods'[p] # Nil => waitingPods'[p].s # NoSignal
  BY <1>1, CallAllowEffect
<1>4. allowTimer \in [Pods -> Countdown] /\ lateTimer \in [Pods -> Countdown]
      /\ helped \in SUBSET Pods
  BY DEF SchedulerInv, SchedulerTypeOK
<1>5. Off \in Countdown
  BY DEF Countdown
<1>6. /\ allowTimer' \in [Pods -> Countdown] /\ lateTimer' \in [Pods -> Countdown]
      /\ helped' \in SUBSET Pods
      /\ allowTimer'[p] = Off \/ p \in helped'
      /\ \A q \in Pods \ {p} : allowTimer'[q] = allowTimer[q] /\ (q \in helped' <=> q \in helped)
  BY <1>1, <1>4, <1>5
<1>7. SchedulerTypeOK'
  BY <1>1, <1>2, <1>3, <1>6 DEF SchedulerInv, SchedulerTypeOK
<1>8. PermitConsistent'
  BY <1>1, <1>3, <1>6 DEF SchedulerInv, PermitConsistent
<1>9. \A q \in Pods : Stays(q)
  BY <1>1, <1>2 DEF Stays, At, Waiting
<1>10. QED
  BY <1>1, <1>2, <1>7, <1>8, <1>9, LoopFrame, QueuesFrame, MoveFrame, ExclusiveFrame
     DEF SchedulerInv

\* The waiting pod's own timer leaves a signal other than Success, or the one
\* that was there.
LEMMA RejectTimerStep ==
    ASSUME SchedulerInv, NEW p \in Pods, RejectTimerFires(p)
    PROVE  SchedulerInv' /\ \A q \in Pods : Stays(q)
<1>1. /\ waitingPods[p] # Nil
      /\ waitingPods' = [waitingPods EXCEPT ![p] =
                            Reject([@ EXCEPT !.timer[NodeNumber] = "done"], NodeNumber)]
      /\ UNCHANGED <<apiVars, eventVars, queueVars, timerVars, loop, binder, crashed>>
  BY DEF RejectTimerFires
<1>2. /\ UNCHANGED <<pod, binding, node, changes>> /\ UNCHANGED <<podEvents, nodeEvents>>
      /\ UNCHANGED <<activeQ, podBackoffQ, unschedulableQ, moving, replaced>>
      /\ UNCHANGED <<allowTimer, lateTimer, rejectTimer, helped>>
  BY <1>1 DEF apiVars, eventVars, queueVars, timerVars
<1>3. waitingPods \in [Pods -> WaitingPodType \cup {Nil}]
  BY DEF SchedulerInv, SchedulerTypeOK
<1>4. PICK v \in WaitingPodType : v = waitingPods[p]
  BY <1>1, <1>3
<1> DEFINE fired == [v EXCEPT !.timer[NodeNumber] = "done"]
           r == Reject(fired, NodeNumber)
<1>5. NodeNumber \in PermitPlugins /\ Nil \notin WaitingPodType
  BY SchedulerAssumption
<1>6. fired \in WaitingPodType /\ fired.s = v.s
  BY <1>5 DEF WaitingPodType
<1>7. Unschedulable(NodeNumber) \in Signal
      /\ Unschedulable(NodeNumber) # Success /\ Unschedulable(NodeNumber) # NoSignal
  BY <1>5, SignalIsNotNoSignal DEF Signal
<1>8. /\ r \in WaitingPodType
      /\ r.s = IF v.s = NoSignal THEN Unschedulable(NodeNumber) ELSE v.s
  <2> HIDE DEF fired
  <2>1. StopPending(fired) \in WaitingPodType /\ StopPending(fired).s = v.s
    BY <1>6, StopPendingEffect
  <2>2. r = Send(StopPending(fired), Unschedulable(NodeNumber))
    BY DEF Reject
  <2> HIDE DEF r
  <2>3. QED
    BY <1>7, <2>1, <2>2, SendEffect
<1>9. waitingPods' = [waitingPods EXCEPT ![p] = r]
  BY <1>1, <1>4
<1> HIDE DEF r
<1>10. /\ waitingPods' \in [Pods -> WaitingPodType \cup {Nil}]
       /\ \A q \in Pods : waitingPods'[q] = IF q = p THEN r ELSE waitingPods[q]
  BY <1>3, <1>8, <1>9
<1>11. r # Nil /\ r.s # NoSignal /\ (r.s = Success => v.s = Success)
  BY <1>5, <1>7, <1>8
<1>12. SchedulerTypeOK'
  BY <1>1, <1>2, <1>10 DEF SchedulerInv, SchedulerTypeOK
<1>13. PermitConsistent'
  BY <1>1, <1>2, <1>4, <1>10, <1>11 DEF SchedulerInv, PermitConsistent
<1>14. \A q \in Pods : Stays(q)
  BY <1>1, <1>2 DEF Stays, At, Waiting
<1>15. QED
  BY <1>1, <1>2, <1>12, <1>13, <1>14, LoopFrame, QueuesFrame, MoveFrame,
     ExclusiveFrame
     DEF SchedulerInv

\* The passage of time moves no pod and starts no timer.
LEMMA TickStep ==
    ASSUME SchedulerInv, Tick
    PROVE  SchedulerInv' /\ (\A q \in Pods : Stays(q)) /\ UNCHANGED activeQ
<1> DEFINE down(t) == IF t \in {0, Off} THEN t ELSE t - 1
<1>1. /\ allowTimer' = [p \in Pods |-> down(allowTimer[p])]
      /\ lateTimer' = [p \in Pods |-> down(lateTimer[p])]
      /\ rejectTimer' = [p \in Pods |-> down(rejectTimer[p])]
      /\ unschedulableQ' = [k \in Keys |-> older(unschedulableQ[k])]
      /\ UNCHANGED <<apiVars, eventVars, activeQ, podBackoffQ, moving, replaced,
                     helped, threadVars, crashed>>
  BY DEF Tick
<1>2. /\ UNCHANGED <<pod, binding, node, changes>> /\ UNCHANGED <<podEvents, nodeEvents>>
      /\ UNCHANGED <<loop, binder, waitingPods>>
  BY <1>1 DEF apiVars, eventVars, threadVars
<1>3. /\ allowTimer \in [Pods -> Countdown] /\ lateTimer \in [Pods -> Countdown]
      /\ rejectTimer \in [Pods -> 0 .. PermitTimeout]
      /\ unschedulableQ \in [Keys -> Entry \cup {Nil}]
  BY DEF SchedulerInv, SchedulerTypeOK
<1>4. \A t \in Countdown : down(t) \in Countdown /\ (t = Off => down(t) = Off)
  BY SchedulerAssumption DEF Countdown, MaxSuffix
<1>5. \A t \in 0 .. PermitTimeout : down(t) \in 0 .. PermitTimeout
  BY SchedulerAssumption
<1> HIDE DEF down
<1>6. /\ allowTimer' \in [Pods -> Countdown] /\ lateTimer' \in [Pods -> Countdown]
      /\ rejectTimer' \in [Pods -> 0 .. PermitTimeout]
      /\ \A p \in Pods : allowTimer[p] = Off => allowTimer'[p] = Off
  BY <1>1, <1>3, <1>4, <1>5
<1>7. ASSUME NEW e \in Entry
      PROVE  /\ older(e) \in Entry /\ older(e) # Nil /\ older(e).pod = e.pod
             /\ older(e).plugins = e.plugins
  BY <1>7, OlderType, EntryIsNotNil
<1>8. older(Nil) = Nil
  BY DEF older
<1>9. /\ unschedulableQ' \in [Keys -> Entry \cup {Nil}]
      /\ \A k \in Keys :
            /\ unschedulableQ'[k] = Nil <=> unschedulableQ[k] = Nil
            /\ unschedulableQ[k] # Nil =>
                  /\ unschedulableQ'[k].pod = unschedulableQ[k].pod
                  /\ unschedulableQ'[k].plugins = unschedulableQ[k].plugins
  BY <1>1, <1>3, <1>7, <1>8
<1>10. SchedulerTypeOK'
  BY <1>1, <1>2, <1>6, <1>9 DEF SchedulerInv, SchedulerTypeOK
<1>11. QueuesConsistent'
  BY <1>1, <1>2, <1>9 DEF SchedulerInv, QueuesConsistent
<1>12. MoveConsistent'
  <2>1. {k \in Keys : unschedulableQ'[k] # Nil} = {k \in Keys : unschedulableQ[k] # Nil}
    BY <1>9
  <2>2. QED
    BY <1>1, <2>1 DEF SchedulerInv, MoveConsistent
<1>13. PermitConsistent'
  BY <1>1, <1>2, <1>6 DEF SchedulerInv, PermitConsistent
<1>14. \A q \in Pods : Waiting(q)' <=> Waiting(q)
  BY <1>9, QueueAssumption DEF Waiting
<1>15. \A q \in Pods : Stays(q)
  BY <1>1, <1>2, <1>14 DEF Stays, At
<1>16. Exclusive'
  BY <1>15, ExclusiveStep DEF SchedulerInv
<1>17. QED
  BY <1>1, <1>2, <1>10, <1>11, <1>12, <1>13, <1>15, <1>16, LoopFrame
     DEF SchedulerInv

\* The runtime's fatal error changes nothing else.
LEMMA MapAccessStep ==
    ASSUME SchedulerInv, ConcurrentMapAccess \/ UNCHANGED svars
    PROVE  SchedulerInv' /\ \A q \in Pods : Stays(q)
<1>1. /\ UNCHANGED <<apiVars, eventVars, queueVars, timerVars, threadVars>>
      /\ crashed' = "concurrent map access" \/ UNCHANGED crashed
  BY DEF ConcurrentMapAccess, svars
<1>2. /\ UNCHANGED <<pod, binding, node, changes>> /\ UNCHANGED <<podEvents, nodeEvents>>
      /\ UNCHANGED <<activeQ, podBackoffQ, unschedulableQ, moving, replaced>>
      /\ UNCHANGED <<allowTimer, lateTimer, rejectTimer, helped>>
      /\ UNCHANGED <<loop, binder, waitingPods>>
  BY <1>1 DEF apiVars, eventVars, queueVars, timerVars, threadVars
<1>3. SchedulerTypeOK'
  BY <1>1, <1>2 DEF SchedulerInv, SchedulerTypeOK
<1>4. \A q \in Pods : Stays(q)
  BY <1>2 DEF Stays, At, Waiting
<1>5. QED
  BY <1>2, <1>3, <1>4, LoopFrame, QueuesFrame, MoveFrame, ExclusiveFrame, PermitFrame
     DEF SchedulerInv

----------------------------------------------------------------------------
(* All steps together.                                                     *)

(***************************************************************************)
(* What a step does with the pods and with activeQ.                        *)
(***************************************************************************)
OnePodMoves(p) ==
    \/ /\ \/ Moves(p, "absent", "event") \/ Moves(p, "loop", "binder")
          \/ Moves(p, "unschedulable", "backoff") \/ Leaves(p, "binder")
       /\ UNCHANGED activeQ
    \/ /\ Moves(p, "event", "active") \/ Moves(p, "unschedulable", "active")
       /\ activeQ' = Append(activeQ, p)
    \/ /\ Moves(p, "active", "loop")
       /\ activeQ # <<>> /\ p = Head(activeQ) /\ activeQ' = Tail(activeQ)

Effect ==
    \/ UNCHANGED activeQ /\ \A q \in Pods : Stays(q)
    \/ \E p \in Pods : OnePodMoves(p) /\ \A q \in Pods \ {p} : Stays(q)
    \/ \E p \in Pods : (GivesBack(p, "loop") \/ GivesBack(p, "binder")) /\ UNCHANGED activeQ

\* The steps of the users and of the pod informer.
LEMMA UsersStep ==
    ASSUME SchedulerInv, Users \/ addPodToSchedulingQueue
    PROVE  SchedulerInv' /\ Effect
<1>1. ASSUME NEW p \in Pods, CreatePod(p) PROVE SchedulerInv' /\ Effect
  <2>1. UNCHANGED activeQ
    BY <1>1 DEF CreatePod, queueVars
  <2>2. QED
    BY <1>1, <2>1, CreatePodStep DEF Effect, OnePodMoves
<1>2. ASSUME NEW p \in Pods, DeletePod(p) PROVE SchedulerInv' /\ Effect
  <2>1. UNCHANGED activeQ
    BY <1>2 DEF DeletePod, queueVars
  <2>2. QED
    BY <1>2, <2>1, DeletePodStep DEF Effect
<1>3. ASSUME NEW n \in Nodes, ChangeNode(n) PROVE SchedulerInv' /\ Effect
  <2>1. UNCHANGED activeQ
    BY <1>3 DEF ChangeNode, queueVars
  <2>2. QED
    BY <1>3, <2>1, ChangeNodeStep DEF Effect
<1>4. CASE addPodToSchedulingQueue
  <2>1. PICK p : p = Head(podEvents)
    OBVIOUS
  <2>2. activeQ' = Append(activeQ, p)
    BY <1>4, <2>1 DEF addPodToSchedulingQueue
  <2>3. QED
    BY <1>4, <2>1, <2>2, AddPodStep DEF Effect, OnePodMoves
<1>5. QED
  BY <1>1, <1>2, <1>3, <1>4 DEF Users

\* The steps of MoveAllToActiveOrBackoffQueue.
LEMMA MoveStep ==
    ASSUME SchedulerInv, Move
    PROVE  SchedulerInv' /\ Effect
<1>1. CASE MoveBegin
  BY <1>1, MoveBeginStep DEF Effect, MoveBegin
<1>2. CASE MoveEnd
  BY <1>2, MoveEndStep DEF Effect, MoveEnd
<1>3. ASSUME NEW k \in Keys, MoveEntry(k) PROVE SchedulerInv' /\ Effect
  <2>1. PICK p : p = unschedulableQ[k].pod
    OBVIOUS
  <2>2. QED
    BY <1>3, <2>1, MoveEntryStep DEF Effect, OnePodMoves
<1>4. QED
  BY <1>1, <1>2, <1>3 DEF Move

\* The steps of scheduleOne.
LEMMA LoopStep ==
    ASSUME SchedulerInv, scheduleOne
    PROVE  SchedulerInv' /\ Effect
<1>1. CASE NextPod
  <2>1. PICK p : p = Head(activeQ)
    OBVIOUS
  <2>2. activeQ # <<>> /\ activeQ' = Tail(activeQ)
    BY <1>1 DEF NextPod
  <2>3. QED
    BY <1>1, <2>1, <2>2, NextPodStep DEF Effect, OnePodMoves
<1>2. CASE ScheduleOne \/ ListError
  <2>1. UNCHANGED activeQ
    BY <1>2 DEF ScheduleOne, ListError, queueVars
  <2>2. QED
    BY <1>2, <2>1, ScheduleOneStep DEF Effect
<1>3. CASE LoopFails
  <2>1. PICK p : p = loop.pod
    OBVIOUS
  <2>2. QED
    BY <1>3, <2>1, LoopFailsStep DEF Effect
<1>4. CASE Permit
  <2>1. UNCHANGED activeQ
    BY <1>4 DEF Permit, queueVars
  <2>2. QED
    BY <1>4, <2>1, PermitStep DEF Effect
<1>5. CASE PermitAtOnce \/ RecordWaitingPod
  <2>1. PICK p : p = loop.pod
    OBVIOUS
  <2>2. QED
    BY <1>5, <2>1, StartBinderStep DEF Effect, OnePodMoves
<1>6. QED
  BY <1>1, <1>2, <1>3, <1>4, <1>5 DEF scheduleOne

\* The steps of a binding goroutine.
LEMMA BindingCycleStep ==
    ASSUME SchedulerInv, NEW p \in Pods, BindingCycle(p)
    PROVE  SchedulerInv' /\ Effect
<1>1. CASE LookUpWaitingPod(p)
  <2>1. UNCHANGED activeQ
    BY <1>1 DEF LookUpWaitingPod, queueVars
  <2>2. QED
    BY <1>1, <2>1, LookUpStep DEF Effect
<1>2. CASE WaitOnPermit(p)
  <2>1. UNCHANGED activeQ
    BY <1>2 DEF WaitOnPermit, queueVars
  <2>2. QED
    BY <1>2, <2>1, WaitOnPermitStep DEF Effect
<1>3. CASE Bind(p)
  BY <1>3, BindStep DEF Effect, OnePodMoves
<1>4. CASE BindError(p)
  <2>1. UNCHANGED activeQ
    BY <1>4 DEF BindError, queueVars
  <2>2. QED
    BY <1>4, <2>1, BindErrorStep DEF Effect
<1>5. CASE BinderFails(p)
  BY <1>5, BinderFailsStep DEF Effect
<1>6. QED
  BY <1>1, <1>2, <1>3, <1>4, <1>5 DEF BindingCycle

\* The steps of the timers.
LEMMA TimersStep ==
    ASSUME SchedulerInv, NEW p \in Pods, Timers(p)
    PROVE  SchedulerInv' /\ Effect
<1>1. UNCHANGED activeQ
  BY DEF Timers, AllowTimerFires, LateTimerFires, RejectTimerFires, queueVars
<1>2. SchedulerInv' /\ \A q \in Pods : Stays(q)
  BY TimerFiresStep, RejectTimerStep DEF Timers
<1>3. QED
  BY <1>1, <1>2 DEF Effect

\* Every step keeps the invariant and has an effect on the pods.
LEMMA SchedulerStep ==
    SchedulerInv /\ [SchedulerNext]_svars => SchedulerInv' /\ Effect
<1> SUFFICES ASSUME SchedulerInv, [SchedulerNext]_svars PROVE SchedulerInv' /\ Effect
  OBVIOUS
<1>1. CASE Users \/ addPodToSchedulingQueue
  BY <1>1, UsersStep
<1>2. CASE Move
  BY <1>2, MoveStep
<1>3. CASE scheduleOne
  BY <1>3, LoopStep
<1>4. CASE \E p \in Pods : BindingCycle(p) \/ Timers(p)
  BY <1>4, BindingCycleStep, TimersStep
<1>5. CASE Tick
  BY <1>5, TickStep DEF Effect
<1>6. CASE ConcurrentMapAccess \/ UNCHANGED svars
  <2>1. UNCHANGED activeQ
    BY <1>6 DEF ConcurrentMapAccess, svars, queueVars
  <2>2. QED
    BY <1>6, <2>1, MapAccessStep DEF Effect
<1>7. QED
  BY <1>1, <1>2, <1>3, <1>4, <1>5, <1>6 DEF SchedulerNext

----------------------------------------------------------------------------
(* The invariants.                                                         *)

(***************************************************************************)
(* Whatever the users, the loop, the binding goroutines and the timers do, *)
(* in whatever order, the parts of SchedulerInv hold together.             *)
(***************************************************************************)
THEOREM SchedulerCorrect == SchedulerSpec => []SchedulerInv
BY SchedulerInitially, SchedulerStep, PTL DEF SchedulerSpec

(***************************************************************************)
(* The state keeps its shape.                                              *)
(***************************************************************************)
THEOREM SchedulerTypeCorrect == SchedulerSpec => []SchedulerTypeOK
<1>1. SchedulerInv => SchedulerTypeOK
  BY DEF SchedulerInv
<1>2. QED
  BY <1>1, SchedulerCorrect, PTL

(***************************************************************************)
(* No pod is at two places at once: NextPod, ErrorFunc, the handlers and   *)
(* the binding goroutines hand it on, and none keeps it.                   *)
(***************************************************************************)
THEOREM PodIsAtOnePlace == SchedulerSpec => []AtOnePlace
<1>1. SchedulerInv => AtOnePlace
  <2> SUFFICES ASSUME Exclusive, NEW p \in Pods
               PROVE  /\ p \in Range(activeQ) => p \notin Range(podBackoffQ) /\ ~Waiting(p)
                      /\ p \in Range(podBackoffQ) => ~Waiting(p)
                      /\ Inflight(p) =>
                            /\ p \notin Range(activeQ) \cup Range(podBackoffQ)
                            /\ ~Waiting(p)
                            /\ loop.pod = p => binder[p].pc = "none"
    BY DEF SchedulerInv, AtOnePlace
  <2>1. /\ At(p, "active") <=> p \in Range(activeQ)
        /\ At(p, "backoff") <=> p \in Range(podBackoffQ)
        /\ At(p, "unschedulable") <=> Waiting(p)
        /\ At(p, "loop") <=> loop.pod = p
        /\ At(p, "binder") <=> binder[p].pc # "none"
    BY DEF At
  <2>2. \A x, y \in Where : At(p, x) /\ At(p, y) => x = y
    BY DEF Exclusive
  <2>3. QED
    BY <2>1, <2>2 DEF Where, Inflight
<1>2. QED
  BY <1>1, SchedulerCorrect, PTL

(***************************************************************************)
(* The waitingPods map neither leaks nor loses an entry.                   *)
(***************************************************************************)
THEOREM EveryWaitingPodHasItsBinder == SchedulerSpec => []WaitingPodHasBinder
<1>1. SchedulerInv => WaitingPodHasBinder
  BY DEF SchedulerInv, PermitConsistent, WaitingPodHasBinder
<1>2. QED
  BY <1>1, SchedulerCorrect, PTL

(***************************************************************************)
(* No pod is bound to a node with a number before the timer of its attempt *)
(* ran, unless a late timer of an earlier attempt allowed it.              *)
(***************************************************************************)
THEOREM PermitDelayIsKept == SchedulerSpec => []DelayIsKept
<1>1. SchedulerInv => DelayIsKept
  BY DEF SchedulerInv, PermitConsistent, DelayIsKept
<1>2. QED
  BY <1>1, SchedulerCorrect, PTL

----------------------------------------------------------------------------
(* MoveAllToActiveOrBackoffQueue leaves nothing behind.                    *)

(***************************************************************************)
(* When MoveAllToActiveOrBackoffQueue returns, unschedulableQ is empty: no *)
(* event that has a handler passes an entry over, and ErrorFunc adds none  *)
(* while the lock is held.                                                 *)
(***************************************************************************)
THEOREM EveryHandledEventReleasesAll == SchedulerSpec => EveryEventReleasesAll
<1>1. ASSUME SchedulerInv, [SchedulerNext]_svars, moving # NotMoving, moving' = NotMoving
      PROVE  \A k \in Keys : unschedulableQ'[k] = Nil
  <2>1. /\ moving.event \in Handlers
        /\ moving.todo = {k \in Keys : unschedulableQ[k] # Nil}
        /\ moving \in MovingType
        /\ unschedulableQ \in [Keys -> Entry \cup {Nil}]
    BY <1>1 DEF SchedulerInv, SchedulerTypeOK, MoveConsistent
  <2>2. CASE MoveEnd
    BY <2>1, <2>2 DEF MoveEnd
  <2>3. ASSUME NEW k \in Keys, MoveEntry(k)
        PROVE  \A l \in Keys : unschedulableQ'[l] = Nil
    <3>1. k \in moving.todo /\ moving'.todo = moving.todo \ {k}
      BY <2>1, <2>3 DEF MoveEntry, MovingType
    <3>2. moving.todo \ {k} = {}
      BY <1>1, <3>1 DEF NotMoving
    <3>3. unschedulableQ[k].plugins \in RejectedBy
      BY <1>1, <2>1, <3>1 DEF SchedulerInv, QueuesConsistent
    <3>4. ~notHelped(unschedulableQ[k], moving.event)
      BY <2>1, <3>3, EveryHandlerHelps
    <3>5. unschedulableQ' = [unschedulableQ EXCEPT ![k] = Nil]
      BY <2>3, <3>4 DEF MoveEntry
    <3>6. QED
      BY <2>1, <3>2, <3>5
  <2>4. CASE UNCHANGED moving
    BY <1>1, <2>4
  <2>5. MoveBegin => moving = NotMoving
    BY DEF MoveBegin
  <2>6. Users \/ addPodToSchedulingQueue \/ scheduleOne => UNCHANGED moving
    BY DEF Users, CreatePod, DeletePod, ChangeNode, addPodToSchedulingQueue, scheduleOne,
           NextPod, ScheduleOne, ListError, LoopFails, ErrorFunc, Permit, PermitAtOnce,
           RecordWaitingPod, queueVars
  <2>7. ASSUME NEW p \in Pods, BindingCycle(p) \/ Timers(p) PROVE UNCHANGED moving
    BY <2>7 DEF BindingCycle, LookUpWaitingPod, WaitOnPermit, Bind, BindError, BinderFails,
                ErrorFunc, Timers, AllowTimerFires, LateTimerFires, RejectTimerFires,
                queueVars
  <2>8. Tick \/ ConcurrentMapAccess \/ UNCHANGED svars => UNCHANGED moving
    BY DEF Tick, ConcurrentMapAccess, svars, queueVars
  <2>9. QED
    BY <1>1, <2>2, <2>3, <2>4, <2>5, <2>6, <2>7, <2>8 DEF SchedulerNext, Move
<1>2. SchedulerInv /\ [SchedulerNext]_svars =>
          [moving # NotMoving /\ moving' = NotMoving =>
              \A k \in Keys : unschedulableQ'[k] = Nil]_svars
  BY <1>1
<1>3. QED
  BY <1>2, SchedulerCorrect, PTL DEF SchedulerSpec, EveryEventReleasesAll

----------------------------------------------------------------------------
(* The scheduler implements PodLifecycle.                                  *)

\* What PodLifecycle calls the places of Where.
Place == [x \in Where |->
            CASE x \in {"absent", "event"} -> "new"
              [] x \in {"loop", "binder"} -> "inflight"
              [] OTHER -> x]

(***************************************************************************)
(* A pod is where PodLifecycle says; one that is nowhere is bound.         *)
(***************************************************************************)
PlaceAgrees(p) ==
    /\ \A x \in Where : At(p, x) => placeOf(p) = Place[x]
    /\ (\A x \in Where : ~At(p, x)) => placeOf(p) = "bound"

\* Since a pod is at one place, the order of the cases of placeOf is no matter ...
LEMMA PlacesAgree == Exclusive => \A p \in Pods : PlaceAgrees(p)
<1> SUFFICES ASSUME Exclusive, NEW p \in Pods PROVE PlaceAgrees(p)
  OBVIOUS
<1>1. \A x, y \in Where : At(p, x) /\ At(p, y) => x = y
  BY DEF Exclusive
<1>2. ASSUME NEW x \in Where, At(p, x) PROVE placeOf(p) = Place[x]
  <2>1. \A y \in Where \ {x} : ~At(p, y)
    BY <1>1, <1>2
  <2>2. QED
    BY <1>2, <2>1 DEF At, Where, Place, placeOf, Inflight
<1>3. (\A x \in Where : ~At(p, x)) => placeOf(p) = "bound"
  BY DEF At, Where, placeOf, Inflight
<1>4. QED
  BY <1>2, <1>3 DEF PlaceAgrees

\* ... before a step and after it.
LEMMA PlacesAgreeNext == (Exclusive => \A p \in Pods : PlaceAgrees(p))'
BY PlacesAgree, PTL

(***************************************************************************)
(* What the pod's steps are for PodLifecycle.                              *)
(***************************************************************************)
LEMMA PlaceSteps ==
    ASSUME Exclusive, Exclusive', NEW p \in Pods
    PROVE  /\ Stays(p) => placeOf(p)' = placeOf(p)
           /\ \A x, y \in Where :
                 Moves(p, x, y) => placeOf(p) = Place[x] /\ placeOf(p)' = Place[y]
           /\ \A x \in Where :
                 Leaves(p, x) => placeOf(p) = Place[x] /\ placeOf(p)' = "bound"
<1>1. PlaceAgrees(p)
  BY PlacesAgree
<1>2. PlaceAgrees(p)'
  BY PlacesAgreeNext
<1>3. ASSUME Stays(p) PROVE placeOf(p)' = placeOf(p)
  BY <1>1, <1>2, <1>3 DEF PlaceAgrees, Stays
<1>4. ASSUME NEW x \in Where, NEW y \in Where, Moves(p, x, y)
      PROVE  placeOf(p) = Place[x] /\ placeOf(p)' = Place[y]
  BY <1>1, <1>2, <1>4 DEF PlaceAgrees, Moves
<1>5. ASSUME NEW x \in Where, Leaves(p, x)
      PROVE  placeOf(p) = Place[x] /\ placeOf(p)' = "bound"
  <2>1. \A z \in Where : ~At(p, z)'
    BY <1>5 DEF Leaves, Exclusive
  <2>2. QED
    BY <1>1, <1>2, <1>5, <2>1 DEF PlaceAgrees, Leaves
<1>6. QED
  BY <1>3, <1>4, <1>5

\* Every step of the scheduler is a step of PodLifecycle or changes nothing there.
LEMMA SchedulerLifecycleStep ==
    SchedulerInv /\ [SchedulerNext]_svars => [Lifecycle!Next]_(Lifecycle!vars)
<1> DEFINE places == [p \in Pods |-> placeOf(p)]
<1> SUFFICES ASSUME SchedulerInv, [SchedulerNext]_svars
             PROVE  Lifecycle!Step \/ (places' = places /\ UNCHANGED activeQ)
  BY DEF Lifecycle!Next, Lifecycle!vars
<1>1. Exclusive /\ Exclusive' /\ Effect
  BY SchedulerStep DEF SchedulerInv
<1>2. \A p \in Pods : Stays(p) => placeOf(p)' = placeOf(p)
  BY <1>1, PlaceSteps
<1>3. /\ \A p \in Pods : places[p] = placeOf(p)
      /\ places' = [p \in Pods |-> placeOf(p)']
  OBVIOUS
<1>4. ASSUME UNCHANGED activeQ, \A q \in Pods : Stays(q)
      PROVE  places' = places /\ UNCHANGED activeQ
  BY <1>2, <1>4
<1>5. ASSUME NEW p \in Pods, OnePodMoves(p), \A q \in Pods \ {p} : Stays(q)
      PROVE  Lifecycle!Step \/ (places' = places /\ UNCHANGED activeQ)
  <2>1. \A x, y \in Where :
           Moves(p, x, y) => placeOf(p) = Place[x] /\ placeOf(p)' = Place[y]
    BY <1>1, PlaceSteps
  <2>2. Leaves(p, "binder") => placeOf(p) = "inflight" /\ placeOf(p)' = "bound"
    BY <1>1, PlaceSteps DEF Where, Place
  <2>3. places' = [places EXCEPT ![p] = placeOf(p)']
    BY <1>2, <1>3, <1>5
  <2>4. places[p] = placeOf(p)
    OBVIOUS
  <2> HIDE DEF places
  <2>5. CASE UNCHANGED activeQ /\ (Moves(p, "absent", "event") \/ Moves(p, "loop", "binder"))
    <3>1. placeOf(p)' = placeOf(p)
      BY <2>1, <2>5 DEF Where, Place
    <3>2. QED
      BY <2>3, <2>5, <3>1 DEF places
  <2>6. CASE UNCHANGED activeQ /\ Moves(p, "unschedulable", "backoff")
    <3>1. places[p] = "unschedulable" /\ placeOf(p)' = "backoff"
      BY <2>1, <2>4, <2>6 DEF Where, Place
    <3>2. Lifecycle!Delay(p)
      BY <2>3, <2>6, <3>1 DEF Lifecycle!Delay, places
    <3>3. QED
      BY <3>2 DEF Lifecycle!Step
  <2>7. CASE UNCHANGED activeQ /\ Leaves(p, "binder")
    <3>1. Lifecycle!Finish(p)
      BY <2>2, <2>3, <2>4, <2>7 DEF Lifecycle!Finish, places
    <3>2. QED
      BY <3>1 DEF Lifecycle!Step
  <2>8. CASE /\ Moves(p, "event", "active") \/ Moves(p, "unschedulable", "active")
             /\ activeQ' = Append(activeQ, p)
    <3>1. places[p] \in {"new", "unschedulable"} /\ placeOf(p)' = "active"
      BY <2>1, <2>4, <2>8 DEF Where, Place
    <3>2. Lifecycle!Activate(p)
      BY <2>3, <2>8, <3>1 DEF Lifecycle!Activate, places
    <3>3. QED
      BY <3>2 DEF Lifecycle!Step
  <2>9. CASE /\ Moves(p, "active", "loop")
             /\ activeQ # <<>> /\ p = Head(activeQ) /\ activeQ' = Tail(activeQ)
    <3>1. places[p] = "active" /\ placeOf(p)' = "inflight"
      BY <2>1, <2>4, <2>9 DEF Where, Place
    <3>2. Lifecycle!Take
      BY <2>3, <2>9, <3>1 DEF Lifecycle!Take, places
    <3>3. QED
      BY <3>2 DEF Lifecycle!Step
  <2>10. QED
    BY <1>5, <2>5, <2>6, <2>7, <2>8, <2>9 DEF OnePodMoves
<1>6. ASSUME NEW p \in Pods, GivesBack(p, "loop") \/ GivesBack(p, "binder"),
             UNCHANGED activeQ
      PROVE  Lifecycle!Step
  <2>1. ASSUME NEW q \in Pods, NEW x \in Where, NEW y \in Where, Moves(q, x, y)
        PROVE  placeOf(q) = Place[x] /\ placeOf(q)' = Place[y]
    BY <1>1, <2>1, PlaceSteps
  <2>2. places[p] = "inflight" /\ placeOf(p)' = "unschedulable"
    BY <1>6, <2>1 DEF GivesBack, Where, Place
  <2>3. \A q \in Pods : Waiting(q) <=> places[q] = "unschedulable"
    <3>1. \A q \in Pods : PlaceAgrees(q)
      BY <1>1, PlacesAgree
    <3>2. QED
      BY <3>1 DEF PlaceAgrees, At, Where, Place
  <2>4. ASSUME NEW q \in Pods \ {p}
        PROVE  placeOf(q)' = IF places[q] = "unschedulable" /\ Key[q] = Key[p]
                             THEN "replaced" ELSE places[q]
    <3>1. \/ Stays(q) /\ ~(Waiting(q) /\ Key[q] = Key[p])
          \/ Moves(q, "unschedulable", "replaced") /\ Waiting(q) /\ Key[q] = Key[p]
      BY <1>6 DEF GivesBack
    <3>2. Moves(q, "unschedulable", "replaced") => placeOf(q)' = "replaced"
      BY <2>1 DEF Where, Place
    <3>3. QED
      BY <1>2, <2>3, <3>1, <3>2
  <2>5. places' = [q \in Pods |->
                     IF q = p THEN "unschedulable"
                     ELSE IF places[q] = "unschedulable" /\ Key[q] = Key[p]
                          THEN "replaced" ELSE places[q]]
    BY <1>3, <2>2, <2>4
  <2>6. Lifecycle!GiveBack(p)
    BY <1>6, <2>2, <2>5 DEF Lifecycle!GiveBack
  <2>7. QED
    BY <2>6 DEF Lifecycle!Step
<1>7. QED
  BY <1>1, <1>4, <1>5, <1>6 DEF Effect

(***************************************************************************)
(* The scheduler as a whole implements PodLifecycle: from the informer     *)
(* through activeQ, the loop and the binding goroutine to the node or back *)
(* to the queue, a pod has one attempt at a time and keeps its turn, and   *)
(* only one whose entry a pod of the same name replaces is lost.           *)
(***************************************************************************)
THEOREM SchedulerImplementsLifecycle == SchedulerSpec => LifecycleSpec
<1>1. SchedulerInit => Lifecycle!Init
  <2> SUFFICES ASSUME SchedulerInit PROVE Lifecycle!Init
    OBVIOUS
  <2>1. \A p \in Pods : PlaceAgrees(p)
    BY SchedulerInitially, PlacesAgree DEF SchedulerInv
  <2>2. \A p \in Pods : At(p, "absent")
    BY DEF SchedulerInit, At
  <2>3. \A p \in Pods : placeOf(p) = "new"
    BY <2>1, <2>2 DEF PlaceAgrees, Where, Place
  <2>4. QED
    BY <2>3 DEF SchedulerInit, Lifecycle!Init
<1>2. QED
  BY <1>1, SchedulerCorrect, SchedulerLifecycleStep, PTL
     DEF SchedulerSpec, LifecycleSpec, Lifecycle!Spec
=============================================================================
