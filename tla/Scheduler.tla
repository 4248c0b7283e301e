------------------------------ MODULE Scheduler ------------------------------
(***************************************************************************)
(* The whole scheduler: the API objects and the informers that report      *)
(* their changes, the scheduling queue, the scheduling loop                *)
(* (minisched/minisched.go, scheduleOne), the binding goroutines it        *)
(* starts, the waitingPods map they share, and the timers of the permit    *)
(* phase.                                                                  *)
(*                                                                         *)
(* The queue's operations are single steps here, except that NextPod can   *)
(* run in the middle of a MoveAllToActiveOrBackoffQueue: SchedulingQueue   *)
(* models its unlocked reads and writes, and shows that without an         *)
(* overwritten update a pod has at most one scheduling attempt.  An        *)
(* attempt is therefore identified by its pod, and all that is shown here  *)
(* holds as long as no update of activeQ is overwritten.                   *)
(***************************************************************************)
EXTENDS Integers, Sequences, Functions, QueueData, SchedulingCycle,
        WaitingPodData

CONSTANTS
    Nodes,
    Off,            \* a timer that is not running
    PermitTimeout,  \* how long a permit plugin lets a pod wait
    MaxChanges      \* bound: how often nodes are created, changed or deleted

MaxSuffix == PermitTimeout - 1

ASSUME SchedulerAssumption ==
    /\ \A n \in Nodes : NodeSuffix[n] \in 0 .. MaxSuffix \cup {NaN}
    /\ PermitTimeout \in Nat \ {0}
    /\ MaxChanges \in Nat
    /\ PermitPlugins = {NodeNumber}
    /\ Nil \notin WaitingPodType
    \* What ErrorFunc takes from a FitError or leaves empty.
    /\ {{}, {NodeUnschedulable}} \subseteq PluginSets
    /\ clusterEventMap = eventsToRegister

VARIABLES
    (* the API server *)
    pod,            \* "absent", "live" or "deleted"
    binding,        \* the node each pod is bound to
    node,           \* "absent", "ready" or "cordoned"
    changes,
    (* the informers: events not yet handled *)
    podEvents, nodeEvents,
    (* the scheduling queue *)
    activeQ, podBackoffQ, unschedulableQ,
    moving,         \* a MoveAllToActiveOrBackoffQueue that holds the lock
    (* the threads *)
    loop,           \* the scheduling loop
    binder,         \* for each pod the goroutine that binds it
    waitingPods,
    allowTimer,     \* for each pod the timer of its current attempt ...
    lateTimer,      \* ... and one of an earlier attempt that has yet to run
    rejectTimer,    \* the time left to the waiting pod's own timer
    crashed,        \* "no", or what ended the process
    (* history *)
    replaced,       \* pods whose entry in unschedulableQ was replaced
    helped          \* pods that the timer of an earlier attempt allowed

apiVars == <<pod, binding, node, changes>>
eventVars == <<podEvents, nodeEvents>>
queueVars == <<activeQ, podBackoffQ, unschedulableQ, moving, replaced>>
timerVars == <<allowTimer, lateTimer, rejectTimer, helped>>
threadVars == <<loop, binder, waitingPods>>

svars == <<apiVars, eventVars, queueVars, timerVars, threadVars, crashed>>

----------------------------------------------------------------------------
(* State.                                                                  *)

Handlers == addAllEventHandlers(unionedGVKs(clusterEventMap))

NotMoving == [event |-> Nil, todo |-> {}]

Idle == [pc |-> "next", pod |-> Nil, node |-> Nil, plugins |-> {}]

NoBinder == [pc |-> "none", node |-> Nil]

Countdown == 0 .. MaxSuffix \cup {Off}

MovingType == [event : Handlers \cup {Nil}, todo : SUBSET Keys]

LoopType == [pc : {"next", "list", "permit", "record", "fail"},
             pod : Pods \cup {Nil}, node : Nodes \cup {Nil}, plugins : PluginSets]

BinderType == [pc : {"none", "start", "wait", "bind", "fail"},
               node : Nodes \cup {Nil}]

(***************************************************************************)
(* The state has the right shape.                                          *)
(***************************************************************************)
SchedulerTypeOK ==
    /\ pod \in [Pods -> {"absent", "live", "deleted"}]
    /\ binding \in [Pods -> Nodes \cup {Nil}]
    /\ node \in [Nodes -> {"absent", "ready", "cordoned"}]
    /\ changes \in 0 .. MaxChanges
    /\ podEvents \in Seq(Pods)
    /\ nodeEvents \in Seq(Handlers)
    /\ activeQ \in Seq(Pods)
    /\ podBackoffQ \in Seq(Pods)
    /\ unschedulableQ \in [Keys -> Entry \cup {Nil}]
    /\ moving \in MovingType
    /\ loop \in LoopType
    /\ binder \in [Pods -> BinderType]
    /\ waitingPods \in [Pods -> WaitingPodType \cup {Nil}]
    /\ allowTimer \in [Pods -> Countdown]
    /\ lateTimer \in [Pods -> Countdown]
    /\ rejectTimer \in [Pods -> 0 .. PermitTimeout]
    /\ crashed \in {"no", "nil waiting pod", "concurrent map access"}
    /\ replaced \in SUBSET Pods
    /\ helped \in SUBSET Pods

(***************************************************************************)
(* Nothing exists yet.  (The informer reports what exists when the         *)
(* scheduler starts as added, and Run does not wait for the handlers: a    *)
(* start with nodes is one after which they are created at once.)          *)
(***************************************************************************)
SchedulerInit ==
    /\ pod = [p \in Pods |-> "absent"]
    /\ binding = [p \in Pods |-> Nil]
    /\ node = [n \in Nodes |-> "absent"]
    /\ changes = 0
    /\ podEvents = <<>>
    /\ nodeEvents = <<>>
    /\ activeQ = <<>>
    /\ podBackoffQ = <<>>
    /\ unschedulableQ = [k \in Keys |-> Nil]
    /\ moving = NotMoving
    /\ loop = Idle
    /\ binder = [p \in Pods |-> NoBinder]
    /\ waitingPods = [p \in Pods |-> Nil]
    /\ allowTimer = [p \in Pods |-> Off]
    /\ lateTimer = [p \in Pods |-> Off]
    /\ rejectTimer = [p \in Pods |-> 0]
    /\ crashed = "no"
    /\ replaced = {}
    /\ helped = {}

----------------------------------------------------------------------------
(* The users of the API server, and the informers.                         *)

\* A name is free again when the pod that had it is deleted.
CreatePod(p) ==
    /\ crashed = "no"
    /\ pod[p] = "absent"
    /\ \A q \in Pods : Key[q] = Key[p] => pod[q] # "live"
    /\ pod' = [pod EXCEPT ![p] = "live"]
    /\ podEvents' = Append(podEvents, p)
    /\ UNCHANGED <<binding, node, changes, nodeEvents, queueVars, timerVars,
                   threadVars, crashed>>

\* The scheduler has no handler for deleted pods.
DeletePod(p) ==
    /\ crashed = "no"
    /\ pod[p] = "live"
    /\ pod' = [pod EXCEPT ![p] = "deleted"]
    /\ UNCHANGED <<binding, node, changes, eventVars, queueVars, timerVars,
                   threadVars, crashed>>

\* The informer calls a handler if there is one for the kind of change.
Notify(kind) ==
    LET evts == {e \in Handlers : e.actions = kind}
    IN  IF evts = {} THEN UNCHANGED nodeEvents
        ELSE nodeEvents' = Append(nodeEvents, CHOOSE e \in evts : TRUE)

ChangeNode(n) ==
    /\ crashed = "no"
    /\ changes < MaxChanges
    /\ changes' = changes + 1
    /\ \E s \in {"absent", "ready", "cordoned"} \ {node[n]} :
          /\ node' = [node EXCEPT ![n] = s]
          /\ Notify(CASE node[n] = "absent" -> {"Add"}
                      [] s = "absent" -> {"Delete"}
                      [] OTHER -> UpdateBits)
    /\ UNCHANGED <<pod, binding, podEvents, queueVars, timerVars, threadVars,
                   crashed>>

(***************************************************************************)
(* addPodToSchedulingQueue, with SchedulingQueue.Add.  The event carries   *)
(* the pod as it was created, not assigned to a node.                      *)
(***************************************************************************)
addPodToSchedulingQueue ==
    /\ crashed = "no"
    /\ podEvents # <<>>
    /\ moving = NotMoving
    /\ activeQ' = Append(activeQ, Head(podEvents))
    /\ podEvents' = Tail(podEvents)
    /\ UNCHANGED <<apiVars, nodeEvents, podBackoffQ, unschedulableQ, moving,
                   replaced, timerVars, threadVars, crashed>>

(***************************************************************************)
(* MoveAllToActiveOrBackoffQueue, entry by entry.                          *)
(***************************************************************************)
MoveBegin ==
    /\ crashed = "no"
    /\ nodeEvents # <<>>
    /\ moving = NotMoving
    /\ moving' = [event |-> Head(nodeEvents),
                  todo |-> {k \in Keys : unschedulableQ[k] # Nil}]
    /\ nodeEvents' = Tail(nodeEvents)
    /\ UNCHANGED <<apiVars, podEvents, activeQ, podBackoffQ, unschedulableQ,
                   replaced, timerVars, threadVars, crashed>>

MoveEntry(k) ==
    /\ crashed = "no"
    /\ k \in moving.todo
    /\ moving' = [moving EXCEPT !.todo = @ \ {k}]
    /\ LET entry == unschedulableQ[k]
       IN  IF notHelped(entry, moving.event)
           THEN UNCHANGED <<activeQ, podBackoffQ, unschedulableQ>>
           ELSE /\ unschedulableQ' = [unschedulableQ EXCEPT ![k] = Nil]
                /\ IF isPodBackingoff(entry)
                   THEN /\ podBackoffQ' = Append(podBackoffQ, entry.pod)
                        /\ UNCHANGED activeQ
                   ELSE /\ activeQ' = Append(activeQ, entry.pod)
                        /\ UNCHANGED podBackoffQ
    /\ UNCHANGED <<apiVars, eventVars, replaced, timerVars, threadVars, crashed>>

MoveEnd ==
    /\ crashed = "no"
    /\ moving # NotMoving
    /\ moving.todo = {}
    /\ moving' = NotMoving
    /\ UNCHANGED <<apiVars, eventVars, activeQ, podBackoffQ, unschedulableQ,
                   replaced, timerVars, threadVars, crashed>>

----------------------------------------------------------------------------
(* The scheduling loop.                                                    *)

\* Mutant: the pod that came last is taken.
MutNextPodLast ==
    /\ crashed = "no"
    /\ loop.pc = "next"
    /\ activeQ # <<>>
    /\ loop' = [Idle EXCEPT !.pc = "list", !.pod = activeQ[Len(activeQ)]]
    /\ activeQ' = SubSeq(activeQ, 1, Len(activeQ) - 1)
    /\ UNCHANGED <<apiVars, eventVars, podBackoffQ, unschedulableQ, moving,
                   replaced, timerVars, binder, waitingPods, crashed>>

NextPod ==
    /\ crashed = "no"
    /\ loop.pc = "next"
    /\ activeQ # <<>>
    /\ loop' = [Idle EXCEPT !.pc = "list", !.pod = Head(activeQ)]
    /\ activeQ' = Tail(activeQ)
    /\ UNCHANGED <<apiVars, eventVars, podBackoffQ, unschedulableQ, moving,
                   replaced, timerVars, binder, waitingPods, crashed>>

\* The node list: a snapshot of the API server.
NodeList == [n \in {m \in Nodes : node[m] # "absent"} |-> node[n] = "cordoned"]

(***************************************************************************)
(* Nodes().List, the filter and score plugins and selectHost.              *)
(***************************************************************************)
ScheduleOne ==
    /\ crashed = "no"
    /\ loop.pc = "list"
    /\ \E outcome \in scheduleOutcomes(loop.pod, NodeList) :
          loop' = IF outcome.ok
                  THEN [loop EXCEPT !.pc = "permit", !.node = outcome.node]
                  ELSE [loop EXCEPT !.pc = "fail", !.plugins = outcome.plugins]
    /\ UNCHANGED <<apiVars, eventVars, queueVars, timerVars, binder,
                   waitingPods, crashed>>

\* The API server does not answer the request.
ListError ==
    /\ crashed = "no"
    /\ loop.pc = "list"
    /\ loop' = [loop EXCEPT !.pc = "fail"]
    /\ UNCHANGED <<apiVars, eventVars, queueVars, timerVars, binder,
                   waitingPods, crashed>>

(***************************************************************************)
(* ErrorFunc and SchedulingQueue.AddUnschedulable.                         *)
(***************************************************************************)
ErrorFunc(p, plugins) ==
    /\ moving = NotMoving
    /\ unschedulableQ' = [unschedulableQ EXCEPT ![Key[p]] = newEntry(p, plugins)]
    /\ replaced' = replaced \cup
          {q \in Pods \ {p} : /\ unschedulableQ[Key[p]] # Nil
                              /\ unschedulableQ[Key[p]].pod = q}
    /\ UNCHANGED <<activeQ, podBackoffQ, moving>>

LoopFails ==
    /\ crashed = "no"
    /\ loop.pc = "fail"
    /\ ErrorFunc(loop.pod, loop.plugins)
    /\ loop' = Idle
    /\ UNCHANGED <<apiVars, eventVars, timerVars, binder, waitingPods, crashed>>

(***************************************************************************)
(* NodeNumber's Permit: it arms the timer that will allow the pod, and     *)
(* asks to wait.  If the name of the node ends in no digit, the pod is     *)
(* permitted at once and the binding goroutine started.  A timer of an     *)
(* earlier attempt that has still not run becomes the late one (bound: at  *)
(* most one of these).                                                     *)
(***************************************************************************)
Permit ==
    /\ crashed = "no"
    /\ loop.pc = "permit"
    /\ PermitWaits(loop.node)
    /\ Off \in {allowTimer[loop.pod], lateTimer[loop.pod]}
    /\ lateTimer' = [lateTimer EXCEPT ![loop.pod] =
                        IF allowTimer[loop.pod] = Off THEN @ ELSE allowTimer[loop.pod]]
    /\ allowTimer' = [allowTimer EXCEPT ![loop.pod] = NodeSuffix[loop.node]]
    /\ helped' = helped \ {loop.pod}
    /\ loop' = [loop EXCEPT !.pc = "record"]
    /\ UNCHANGED <<apiVars, eventVars, queueVars, rejectTimer, binder,
                   waitingPods, crashed>>

PermitAtOnce ==
    /\ crashed = "no"
    /\ loop.pc = "permit"
    /\ ~PermitWaits(loop.node)
    /\ binder' = [binder EXCEPT ![loop.pod] = [pc |-> "start", node |-> loop.node]]
    /\ loop' = Idle
    /\ UNCHANGED <<apiVars, eventVars, queueVars, timerVars, waitingPods, crashed>>

(***************************************************************************)
(* RunPermitPlugins creates the waiting pod and records it; the binding    *)
(* goroutine is started.                                                   *)
(***************************************************************************)
RecordWaitingPod ==
    /\ crashed = "no"
    /\ loop.pc = "record"
    /\ waitingPods' = [waitingPods EXCEPT ![loop.pod] = NewWaitingPod]
    /\ rejectTimer' = [rejectTimer EXCEPT ![loop.pod] = PermitTimeout]
    /\ binder' = [binder EXCEPT ![loop.pod] = [pc |-> "start", node |-> loop.node]]
    /\ loop' = Idle
    /\ UNCHANGED <<apiVars, eventVars, queueVars, allowTimer, lateTimer, helped,
                   crashed>>

----------------------------------------------------------------------------
(* The binding goroutines.                                                 *)

\* Mutant: the binding goroutine does not wait.
MutLookUpNoWait(p) ==
    /\ crashed = "no"
    /\ binder[p].pc = "start"
    /\ binder' = [binder EXCEPT ![p].pc = "bind"]
    /\ UNCHANGED <<apiVars, eventVars, queueVars, timerVars, loop, waitingPods,
                   crashed>>

(***************************************************************************)
(* WaitOnPermit looks up the waiting pod ...                               *)
(***************************************************************************)
LookUpWaitingPod(p) ==
    /\ crashed = "no"
    /\ binder[p].pc = "start"
    /\ binder' = [binder EXCEPT ![p].pc =
                     IF waitingPods[p] = Nil THEN "bind" ELSE "wait"]
    /\ UNCHANGED <<apiVars, eventVars, queueVars, timerVars, loop, waitingPods,
                   crashed>>

\* Mutant: the waiting pod is not deleted from the map.
MutWaitOnPermitKeeps(p) ==
    /\ crashed = "no"
    /\ binder[p].pc = "wait"
    /\ waitingPods[p].s # NoSignal
    /\ binder' = [binder EXCEPT ![p].pc =
                     IF waitingPods[p].s = Success THEN "bind" ELSE "fail"]
    /\ UNCHANGED <<apiVars, eventVars, queueVars, timerVars, waitingPods, loop,
                   crashed>>

(***************************************************************************)
(* ... and returns when GetSignal does, deleting it from the map.          *)
(***************************************************************************)
WaitOnPermit(p) ==
    /\ crashed = "no"
    /\ binder[p].pc = "wait"
    /\ waitingPods[p].s # NoSignal
    /\ binder' = [binder EXCEPT ![p].pc =
                     IF waitingPods[p].s = Success THEN "bind" ELSE "fail"]
    /\ waitingPods' = [waitingPods EXCEPT ![p] = Nil]
    /\ rejectTimer' = [rejectTimer EXCEPT ![p] = 0]
    /\ UNCHANGED <<apiVars, eventVars, queueVars, allowTimer, lateTimer, helped,
                   loop, crashed>>

(***************************************************************************)
(* Bind succeeds if the pod with this UID exists and is not bound.         *)
(***************************************************************************)
CanBind(p) == pod[p] = "live" /\ binding[p] = Nil

Bind(p) ==
    /\ crashed = "no"
    /\ binder[p].pc = "bind"
    /\ CanBind(p)
    /\ binding' = [binding EXCEPT ![p] = binder[p].node]
    /\ binder' = [binder EXCEPT ![p] = NoBinder]
    /\ UNCHANGED <<pod, node, changes, eventVars, queueVars, timerVars, loop,
                   waitingPods, crashed>>

(***************************************************************************)
(* Bind returns an error: the API server refuses, or the request or its    *)
(* answer is lost.  In the last case the pod may be bound all the same.    *)
(***************************************************************************)
BindError(p) ==
    /\ crashed = "no"
    /\ binder[p].pc = "bind"
    /\ \/ UNCHANGED binding
       \/ /\ CanBind(p)
          /\ binding' = [binding EXCEPT ![p] = binder[p].node]
    /\ binder' = [binder EXCEPT ![p].pc = "fail"]
    /\ UNCHANGED <<pod, node, changes, eventVars, queueVars, timerVars, loop,
                   waitingPods, crashed>>

\* Mutant: the goroutine goes on to bind the pod after giving it back.
MutBinderGoesOn(p) ==
    /\ crashed = "no"
    /\ binder[p].pc = "fail"
    /\ ErrorFunc(p, {})
    /\ binder' = [binder EXCEPT ![p].pc = "bind"]
    /\ UNCHANGED <<apiVars, eventVars, timerVars, loop, waitingPods, crashed>>

\* The error is no FitError: no plugin is named.
BinderFails(p) ==
    /\ crashed = "no"
    /\ binder[p].pc = "fail"
    /\ ErrorFunc(p, {})
    /\ binder' = [binder EXCEPT ![p] = NoBinder]
    /\ UNCHANGED <<apiVars, eventVars, timerVars, loop, waitingPods, crashed>>

----------------------------------------------------------------------------
(* Timers.                                                                 *)

(***************************************************************************)
(* NodeNumber's timer calls GetWaitingPod(uid) and then Allow, whatever    *)
(* GetWaitingPod returned.                                                 *)
(***************************************************************************)
CallAllow(p) ==
    IF waitingPods[p] = Nil
    THEN /\ crashed' = "nil waiting pod"
         /\ UNCHANGED waitingPods
    ELSE /\ waitingPods' = [waitingPods EXCEPT ![p] = Allow(@, NodeNumber)]
         /\ UNCHANGED crashed

AllowTimerFires(p) ==
    /\ crashed = "no"
    /\ allowTimer[p] = 0
    /\ allowTimer' = [allowTimer EXCEPT ![p] = Off]
    /\ CallAllow(p)
    /\ UNCHANGED <<apiVars, eventVars, queueVars, lateTimer, rejectTimer, helped,
                   loop, binder>>

LateTimerFires(p) ==
    /\ crashed = "no"
    /\ lateTimer[p] = 0
    /\ lateTimer' = [lateTimer EXCEPT ![p] = Off]
    /\ helped' = helped \cup {p}
    /\ CallAllow(p)
    /\ UNCHANGED <<apiVars, eventVars, queueVars, allowTimer, rejectTimer, loop,
                   binder>>

(***************************************************************************)
(* The waiting pod's own timer rejects it.                                 *)
(***************************************************************************)
RejectTimerFires(p) ==
    /\ crashed = "no"
    /\ waitingPods[p] # Nil
    /\ waitingPods[p].timer[NodeNumber] = "armed"
    /\ rejectTimer[p] = 0
    /\ waitingPods' = [waitingPods EXCEPT ![p] =
                          Reject([@ EXCEPT !.timer[NodeNumber] = "done"], NodeNumber)]
    /\ UNCHANGED <<apiVars, eventVars, queueVars, timerVars, loop, binder, crashed>>

(***************************************************************************)
(* A unit of time passes.  A timer whose time has come need not run at     *)
(* once.                                                                   *)
(***************************************************************************)
Tick ==
    /\ crashed = "no"
    /\ LET down(t) == IF t \in {0, Off} THEN t ELSE t - 1
       IN  /\ allowTimer' = [p \in Pods |-> down(allowTimer[p])]
           /\ lateTimer' = [p \in Pods |-> down(lateTimer[p])]
           /\ rejectTimer' = [p \in Pods |-> down(rejectTimer[p])]
    /\ unschedulableQ' = [k \in Keys |-> older(unschedulableQ[k])]
    /\ UNCHANGED <<apiVars, eventVars, activeQ, podBackoffQ, moving, replaced,
                   helped, threadVars, crashed>>

----------------------------------------------------------------------------
(* The waitingPods map has no lock.  The Go runtime may end the process    *)
(* when two goroutines use a map at the same time and one of them writes.  *)

Writers == (IF loop.pc = "record" THEN {<<"loop", loop.pod>>} ELSE {})
           \cup {<<"binder", p>> : p \in {q \in Pods : /\ binder[q].pc = "wait"
                                                       /\ waitingPods[q].s # NoSignal}}

Readers == {<<"binder", p>> : p \in {q \in Pods : binder[q].pc = "start"}}
           \cup {<<"timer", p>> : p \in {q \in Pods : 0 \in {allowTimer[q], lateTimer[q]}}}

ConcurrentMapAccess ==
    /\ crashed = "no"
    /\ \E x \in Writers : Writers \cup Readers # {x}
    /\ crashed' = "concurrent map access"
    /\ UNCHANGED <<apiVars, eventVars, queueVars, timerVars, threadVars>>

----------------------------------------------------------------------------
(* The specification.                                                      *)

Users == \/ \E p \in Pods : CreatePod(p) \/ DeletePod(p)
         \/ \E n \in Nodes : ChangeNode(n)

Move == MoveBegin \/ MoveEnd \/ \E k \in Keys : MoveEntry(k)

scheduleOne == \/ NextPod \/ ScheduleOne \/ ListError \/ LoopFails \/ Permit
               \/ PermitAtOnce \/ RecordWaitingPod

BindingCycle(p) == \/ LookUpWaitingPod(p) \/ WaitOnPermit(p) \/ Bind(p)
                   \/ BindError(p) \/ BinderFails(p)

Timers(p) == AllowTimerFires(p) \/ LateTimerFires(p) \/ RejectTimerFires(p)

SchedulerNext ==
    \/ Users \/ addPodToSchedulingQueue \/ Move \/ scheduleOne
    \/ \E p \in Pods : BindingCycle(p) \/ Timers(p)
    \/ Tick \/ ConcurrentMapAccess

SchedulerSpec == SchedulerInit /\ [][SchedulerNext]_svars

(***************************************************************************)
(* The goroutines run, informers deliver, timers fire, time passes.  The   *)
(* locked operations are short, so a goroutine that waits for the lock     *)
(* gets it (strong fairness).  Users do as they like.                      *)
(***************************************************************************)
SchedulerFairSpec ==
    /\ SchedulerSpec
    /\ SF_svars(addPodToSchedulingQueue)
    /\ WF_svars(Move)
    /\ SF_svars(scheduleOne)
    /\ \A p \in Pods : SF_svars(BindingCycle(p)) /\ WF_svars(Timers(p))
    /\ WF_svars(Tick)

----------------------------------------------------------------------------
(* Properties.                                                             *)

Waiting(p) == unschedulableQ[Key[p]] # Nil /\ unschedulableQ[Key[p]].pod = p

\* NextPod returned the pod and its attempt has not ended.
Inflight(p) == loop.pod = p \/ binder[p].pc # "none"

placeOf(p) ==
    CASE p \in Range(activeQ) -> "active"
      [] p \in Range(podBackoffQ) -> "backoff"
      [] Waiting(p) -> "unschedulable"
      [] Inflight(p) -> "inflight"
      [] pod[p] = "absent" \/ p \in Range(podEvents) -> "new"
      [] p \in replaced -> "replaced"
      [] OTHER -> "bound"

(***************************************************************************)
(* The scheduler as a whole treats pods as PodLifecycle says: through the  *)
(* informer, the queue, the loop, the binding goroutine and back, a pod    *)
(* has one attempt at a time, keeps its turn, and is not lost, except that *)
(* a pod of the same name replaces it; given that no update of activeQ is  *)
(* overwritten.                                                            *)
(***************************************************************************)
Lifecycle == INSTANCE PodLifecycle
                WITH place <- [p \in Pods |-> placeOf(p)],
                     fifo <- activeQ, broken <- FALSE

LifecycleSpec == Lifecycle!Spec

(***************************************************************************)
(* No pod is in two places at once, given that no update of activeQ is     *)
(* overwritten: the cases of placeOf exclude each other.                   *)
(***************************************************************************)
AtOnePlace ==
    \A p \in Pods :
        /\ p \in Range(activeQ) => p \notin Range(podBackoffQ) /\ ~Waiting(p)
        /\ p \in Range(podBackoffQ) => ~Waiting(p)
        /\ Inflight(p) =>
              /\ p \notin Range(activeQ) \cup Range(podBackoffQ)
              /\ ~Waiting(p)
              /\ loop.pod = p => binder[p].pc = "none"

(***************************************************************************)
(* The waitingPods map neither leaks nor loses: every entry belongs to a   *)
(* binding goroutine that will delete it, and a binding goroutine that     *)
(* waits has its entry, with a timer running or a signal sent.             *)
(***************************************************************************)
WaitingPodHasBinder ==
    \A p \in Pods :
        /\ waitingPods[p] # Nil => /\ binder[p].pc \in {"start", "wait"}
                                   /\ PermitWaits(binder[p].node)
        /\ binder[p].pc = "wait" =>
              /\ waitingPods[p] # Nil
              /\ \/ waitingPods[p].s # NoSignal
                 \/ waitingPods[p].timer[NodeNumber] = "armed"

(***************************************************************************)
(* The delay of NodeNumber is kept: a pod is bound to a node with a number *)
(* only after the timer of this very attempt ran, unless the late timer of *)
(* an earlier attempt allowed it.                                          *)
(***************************************************************************)
DelayIsKept ==
    \A p \in Pods :
        binder[p].pc = "bind" /\ PermitWaits(binder[p].node) =>
            allowTimer[p] = Off \/ p \in helped

(***************************************************************************)
(* Every node event that has a handler releases every pod: when            *)
(* MoveAllToActiveOrBackoffQueue returns, unschedulableQ is empty.  What   *)
(* makes it so is that the only plugin ErrorFunc ever names is             *)
(* NodeUnschedulable, under whose name the events of both plugins are      *)
(* registered.                                                             *)
(***************************************************************************)
EveryEventReleasesAll ==
    [][moving # NotMoving /\ moving' = NotMoving =>
          \A k \in Keys : unschedulableQ'[k] = Nil]_svars

(***************************************************************************)
(* Every scheduling attempt ends: a pod in activeQ is scheduled, and a pod *)
(* being scheduled is bound or given back, unless the process dies.        *)
(***************************************************************************)
AttemptEnds ==
    \A p \in Pods :
        p \in Range(activeQ) \/ Inflight(p) ~>
            (p \notin Range(activeQ) /\ ~Inflight(p)) \/ crashed # "no"

(***************************************************************************)
(* What the comment in NodeNumber's Permit says ("allow pod after          *)
(* {nodenum} seconds"): the timer finds a waiting pod to allow.  The timer *)
(* is armed before the waiting pod is recorded, and for node number 0 it   *)
(* runs at once.                                                           *)
(***************************************************************************)
TimerFindsWaitingPod == crashed # "nil waiting pod"

(***************************************************************************)
(* What the README says ("it supports re-scheduling of pods that fail to   *)
(* schedule"): the entry of a pod that exists and waits is not replaced by *)
(* that of a deleted one, which leaves it in no queue.                     *)
(***************************************************************************)
LivePodIsKept == \A p \in replaced : pod[p] # "live"

(***************************************************************************)
(* What the README says ("it supports re-scheduling of pods that fail to   *)
(* schedule"): a pod that the filter rejected does not wait in             *)
(* unschedulableQ while a node it could run on is there and no event is    *)
(* left to release it.                                                     *)
(***************************************************************************)
RejectedPodIsRescheduled ==
    \A p \in Pods :
        Waiting(p) /\ unschedulableQ[Key[p]].plugins # {} =>
            \/ \A n \in Nodes : node[n] # "ready"
            \/ nodeEvents # <<>>
            \/ moving # NotMoving

=============================================================================
