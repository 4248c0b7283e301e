--------------------------- MODULE SchedulingQueue ---------------------------
(***************************************************************************)
(* The scheduling queue (minisched/queue/queue.go) and the threads that    *)
(* use it: the informer goroutines call Add and                            *)
(* MoveAllToActiveOrBackoffQueue, the scheduling loop calls NextPod, and   *)
(* the scheduling loop and the binding goroutines call AddUnschedulable.   *)
(*                                                                         *)
(* Add, MoveAllToActiveOrBackoffQueue and AddUnschedulable hold the lock.  *)
(* NextPod takes no lock, so its reads and writes of activeQ, and those of *)
(* the lock holder, are separate steps.                                    *)
(***************************************************************************)
EXTENDS Integers, Sequences, Functions, QueueData

CONSTANTS
    Events,         \* the events the informers pass to the queue
    MaxRaces        \* bound: how many overwritten updates are explored

ASSUME MaxRacesAssumption == MaxRaces \in Nat

VARIABLES
    activeQ,        \* a sequence of pods
    podBackoffQ,    \* a sequence of pods
    unschedulableQ, \* for each key an entry or Nil
    lock,           \* the lock holder: its operation and its local variables,
                    \* and (history) the pods it has moved to activeQ
    next,           \* NextPod: its program counter and its local variables
    inflight,       \* how often NextPod returned a pod that is still being
                    \* scheduled or bound
    crashed,        \* a panic ended the process
    place,          \* history: where each pod is, by the book
    races           \* history: how often an update of activeQ overwrote
                    \* one of another thread

qvars == <<activeQ, podBackoffQ, unschedulableQ, lock, next, inflight,
           crashed, place, races>>

----------------------------------------------------------------------------
(* State.                                                                  *)

Free == [op |-> "none", event |-> Nil, todo |-> {}, pod |-> Nil, key |-> Nil,
         hdr |-> <<>>, moved |-> {}]

LockType == [op : {"none", "add", "move"}, event : Events \cup {Nil},
             todo : SUBSET Keys, pod : Pods \cup {Nil},
             key : Keys \cup {Nil}, hdr : Seq(Pods), moved : SUBSET Pods]

Idle == [pc |-> "wait", p |-> Nil, hdr |-> <<>>]

NextType == [pc : {"wait", "head", "slice"}, p : Pods \cup {Nil}, hdr : Seq(Pods)]

Places == {"new", "active", "backoff", "unschedulable", "inflight",
           "bound", "replaced"}

(***************************************************************************)
(* The state has the right shape.                                          *)
(***************************************************************************)
QueueTypeOK ==
    /\ activeQ \in Seq(Pods)
    /\ podBackoffQ \in Seq(Pods)
    /\ unschedulableQ \in [Keys -> Entry \cup {Nil}]
    /\ lock \in LockType
    /\ next \in NextType
    /\ inflight \in [Pods -> Nat]
    /\ crashed \in BOOLEAN
    /\ place \in [Pods -> Places]
    /\ races \in Nat

QueueInit ==
    /\ activeQ = <<>>
    /\ podBackoffQ = <<>>
    /\ unschedulableQ = [k \in Keys |-> Nil]
    /\ lock = Free
    /\ next = Idle
    /\ inflight = [p \in Pods |-> 0]
    /\ crashed = FALSE
    /\ place = [p \in Pods |-> "new"]
    /\ races = 0

----------------------------------------------------------------------------
(* Operations under the lock.                                              *)

(***************************************************************************)
(* One store of activeQ by a thread that computed it from hdr.  The store  *)
(* overwrites another thread's if activeQ is no longer hdr.                *)
(***************************************************************************)
StoreActiveQ(hdr, value) ==
    /\ activeQ' = value
    /\ races' = IF activeQ = hdr THEN races ELSE races + 1
    /\ races' <= MaxRaces

(***************************************************************************)
(* Add(pod): the lock is taken and activeQ is read ...                     *)
(***************************************************************************)
AddLoad(p) ==
    /\ ~crashed
    /\ lock.op = "none"
    /\ place[p] = "new"
    /\ lock' = [Free EXCEPT !.op = "add", !.pod = p, !.hdr = activeQ]
    /\ UNCHANGED <<activeQ, podBackoffQ, unschedulableQ, next, inflight,
                   crashed, place, races>>

\* Mutant: the pod is put in front.
MutAddStoreInFront ==
    /\ ~crashed
    /\ lock.op = "add"
    /\ StoreActiveQ(lock.hdr, <<lock.pod>> \o lock.hdr)
    /\ place' = [place EXCEPT ![lock.pod] = "active"]
    /\ lock' = Free
    /\ UNCHANGED <<podBackoffQ, unschedulableQ, next, inflight, crashed>>

(***************************************************************************)
(* ... and the longer queue is written and the lock released.              *)
(***************************************************************************)
AddStore ==
    /\ ~crashed
    /\ lock.op = "add"
    /\ StoreActiveQ(lock.hdr, Append(lock.hdr, lock.pod))
    /\ place' = [place EXCEPT ![lock.pod] = "active"]
    /\ lock' = Free
    /\ UNCHANGED <<podBackoffQ, unschedulableQ, next, inflight, crashed>>

(***************************************************************************)
(* MoveAllToActiveOrBackoffQueue(event): the lock is taken and the entries *)
(* of unschedulableQ are collected.                                        *)
(***************************************************************************)
MoveLock(event) ==
    /\ ~crashed
    /\ lock.op = "none"
    /\ lock' = [Free EXCEPT !.op = "move", !.event = event,
                            !.todo = {k \in Keys : unschedulableQ[k] # Nil}]
    /\ UNCHANGED <<activeQ, podBackoffQ, unschedulableQ, next, inflight,
                   crashed, place, races>>

\* The entry that movePodsToActiveOrBackoffQueue takes next, in the random
\* order of a Go map.
Moving(k) ==
    /\ ~crashed
    /\ lock.op = "move"
    /\ lock.pod = Nil
    /\ k \in lock.todo

\* Mutant: the loop does not go on to the next entry.
MutMoveSkipStays(k) ==
    /\ Moving(k)
    /\ notHelped(unschedulableQ[k], lock.event)
    /\ UNCHANGED qvars

MoveSkip(k) ==
    /\ Moving(k)
    /\ notHelped(unschedulableQ[k], lock.event)
    /\ lock' = [lock EXCEPT !.todo = @ \ {k}]
    /\ UNCHANGED <<activeQ, podBackoffQ, unschedulableQ, next, inflight,
                   crashed, place, races>>

MoveToBackoff(k) ==
    /\ Moving(k)
    /\ ~notHelped(unschedulableQ[k], lock.event)
    /\ isPodBackingoff(unschedulableQ[k])
    /\ podBackoffQ' = Append(podBackoffQ, unschedulableQ[k].pod)
    /\ place' = [place EXCEPT ![unschedulableQ[k].pod] = "backoff"]
    /\ unschedulableQ' = [unschedulableQ EXCEPT ![k] = Nil]
    /\ lock' = [lock EXCEPT !.todo = @ \ {k}]
    /\ UNCHANGED <<activeQ, next, inflight, crashed, races>>

(***************************************************************************)
(* The append to activeQ: it is read ...                                   *)
(***************************************************************************)
MoveLoad(k) ==
    /\ Moving(k)
    /\ ~notHelped(unschedulableQ[k], lock.event)
    /\ ~isPodBackingoff(unschedulableQ[k])
    /\ lock' = [lock EXCEPT !.pod = unschedulableQ[k].pod, !.key = k,
                            !.hdr = activeQ]
    /\ UNCHANGED <<activeQ, podBackoffQ, unschedulableQ, next, inflight,
                   crashed, place, races>>

\* Mutant: the entry is not deleted.
MutMoveStoreKeepsEntry ==
    /\ ~crashed
    /\ lock.op = "move"
    /\ lock.pod # Nil
    /\ StoreActiveQ(lock.hdr, Append(lock.hdr, lock.pod))
    /\ place' = [place EXCEPT ![lock.pod] = "active"]
    /\ lock' = [lock EXCEPT !.todo = @ \ {lock.key}, !.pod = Nil,
                            !.key = Nil, !.hdr = <<>>,
                            !.moved = @ \cup {lock.pod}]
    /\ UNCHANGED <<podBackoffQ, unschedulableQ, next, inflight, crashed>>

(***************************************************************************)
(* ... and written, and the entry is deleted from unschedulableQ.          *)
(***************************************************************************)
MoveStore ==
    /\ ~crashed
    /\ lock.op = "move"
    /\ lock.pod # Nil
    /\ StoreActiveQ(lock.hdr, Append(lock.hdr, lock.pod))
    /\ place' = [place EXCEPT ![lock.pod] = "active"]
    /\ unschedulableQ' = [unschedulableQ EXCEPT ![lock.key] = Nil]
    /\ lock' = [lock EXCEPT !.todo = @ \ {lock.key}, !.pod = Nil,
                            !.key = Nil, !.hdr = <<>>,
                            !.moved = @ \cup {lock.pod}]
    /\ UNCHANGED <<podBackoffQ, next, inflight, crashed>>

MoveUnlock ==
    /\ ~crashed
    /\ lock.op = "move"
    /\ lock.pod = Nil
    /\ lock.todo = {}
    /\ lock' = Free
    /\ UNCHANGED <<activeQ, podBackoffQ, unschedulableQ, next, inflight,
                   crashed, place, races>>

(***************************************************************************)
(* AddUnschedulable(pInfo): the entry of the pod's key is added or         *)
(* replaced, with a fresh timestamp.                                       *)
(***************************************************************************)
AddUnschedulable(p, plugins) ==
    /\ ~crashed
    /\ lock.op = "none"
    /\ inflight[p] > 0
    /\ unschedulableQ' = [unschedulableQ EXCEPT ![Key[p]] = newEntry(p, plugins)]
    /\ inflight' = [inflight EXCEPT ![p] = @ - 1]
    /\ place' = [q \in Pods |->
                   IF q = p THEN "unschedulable"
                   ELSE IF /\ unschedulableQ[Key[p]] # Nil
                           /\ unschedulableQ[Key[p]].pod = q
                        THEN "replaced" ELSE place[q]]
    /\ UNCHANGED <<activeQ, podBackoffQ, lock, next, crashed, races>>

----------------------------------------------------------------------------
(* NextPod, which takes no lock.                                           *)

\* Mutant: the queue's length is not tested.
MutNextPodHeadNoWait ==
    /\ ~crashed
    /\ next.pc = "wait"
    /\ next' = [next EXCEPT !.pc = "head",
                            !.p = IF activeQ = <<>> THEN Nil ELSE Head(activeQ)]
    /\ UNCHANGED <<activeQ, podBackoffQ, unschedulableQ, lock, inflight,
                   crashed, place, races>>

\* Mutant: the wait goes on while one pod is in the queue.
MutNextPodHeadWaitsForTwo ==
    /\ ~crashed
    /\ next.pc = "wait"
    /\ Len(activeQ) > 1
    /\ next' = [next EXCEPT !.pc = "head", !.p = Head(activeQ)]
    /\ UNCHANGED <<activeQ, podBackoffQ, unschedulableQ, lock, inflight,
                   crashed, place, races>>

(***************************************************************************)
(* The wait ends and the head is read: p := s.activeQ[0].                  *)
(***************************************************************************)
NextPodHead ==
    /\ ~crashed
    /\ next.pc = "wait"
    /\ activeQ # <<>>
    /\ next' = [next EXCEPT !.pc = "head", !.p = Head(activeQ)]
    /\ UNCHANGED <<activeQ, podBackoffQ, unschedulableQ, lock, inflight,
                   crashed, place, races>>

(***************************************************************************)
(* activeQ is read again, to slice it ...                                  *)
(***************************************************************************)
NextPodSlice ==
    /\ ~crashed
    /\ next.pc = "head"
    /\ next' = [next EXCEPT !.pc = "slice", !.hdr = activeQ]
    /\ UNCHANGED <<activeQ, podBackoffQ, unschedulableQ, lock, inflight,
                   crashed, place, races>>

(***************************************************************************)
(* ... and written: s.activeQ = s.activeQ[1:]; return p.Pod.               *)
(***************************************************************************)
NextPodStore ==
    /\ ~crashed
    /\ next.pc = "slice"
    /\ StoreActiveQ(next.hdr, Tail(next.hdr))
    /\ inflight' = [inflight EXCEPT ![next.p] = @ + 1]
    /\ place' = [place EXCEPT ![next.p] = "inflight"]
    /\ next' = Idle
    /\ UNCHANGED <<podBackoffQ, unschedulableQ, lock, crashed>>

(***************************************************************************)
(* The compiled append writes the length of activeQ before the element:    *)
(* NextPod may see an empty queue grow and find no element in it, and      *)
(* p.Pod then dereferences nil.                                            *)
(***************************************************************************)
NextPodTorn ==
    /\ ~crashed
    /\ next.pc = "wait"
    /\ activeQ = <<>>
    /\ lock.pod # Nil
    /\ lock.hdr = <<>>
    /\ crashed' = TRUE
    /\ UNCHANGED <<activeQ, podBackoffQ, unschedulableQ, lock, next, inflight,
                   place, races>>

----------------------------------------------------------------------------
(* The rest of the scheduler, as the queue sees it.                        *)

\* Mutant: the binding goroutine goes on after the pod was given back.
MutFinishAnyway(p) ==
    /\ ~crashed
    /\ place[p] \in {"inflight", "unschedulable"}
    /\ inflight' = [inflight EXCEPT ![p] = @ - 1]
    /\ place' = [place EXCEPT ![p] = "bound"]
    /\ UNCHANGED <<activeQ, podBackoffQ, unschedulableQ, lock, next, crashed,
                   races>>

(***************************************************************************)
(* A pod that NextPod returned is bound and never given back.              *)
(***************************************************************************)
Finish(p) ==
    /\ ~crashed
    /\ inflight[p] > 0
    /\ inflight' = [inflight EXCEPT ![p] = @ - 1]
    /\ place' = [place EXCEPT ![p] = "bound"]
    /\ UNCHANGED <<activeQ, podBackoffQ, unschedulableQ, lock, next, crashed,
                   races>>

(***************************************************************************)
(* A unit of time passes.                                                  *)
(***************************************************************************)
Tick ==
    /\ ~crashed
    /\ unschedulableQ' = [k \in Keys |-> older(unschedulableQ[k])]
    /\ UNCHANGED <<activeQ, podBackoffQ, lock, next, inflight, crashed, place,
                   races>>

----------------------------------------------------------------------------
(* The specification.                                                      *)

\* The steps of a thread inside an operation.
Holder == \/ AddStore \/ MoveStore \/ MoveUnlock
          \/ \E k \in Keys : MoveSkip(k) \/ MoveToBackoff(k) \/ MoveLoad(k)

NextPod == NextPodHead \/ NextPodSlice \/ NextPodStore \/ NextPodTorn

\* The calls that other parts of the scheduler decide on.
Calls == \/ \E p \in Pods : AddLoad(p) \/ Finish(p)
         \/ \E p \in Pods, plugins \in PluginSets : AddUnschedulable(p, plugins)
         \/ \E e \in Events : MoveLock(e)

QueueNext == Holder \/ NextPod \/ Calls \/ Tick

QueueSpec == QueueInit /\ [][QueueNext]_qvars

(***************************************************************************)
(* A goroutine inside an operation of the queue, and the one that spins in *)
(* NextPod, is scheduled again and again by the Go runtime.                *)
(***************************************************************************)
QueueFairSpec == QueueSpec /\ WF_qvars(Holder) /\ WF_qvars(NextPod)

----------------------------------------------------------------------------
(* What the threads know about their local variables.                      *)

\* The lock holder's pod and entries are there.
LockConsistent ==
    /\ lock.op = "none" => lock.pod = Nil
    /\ lock.op = "add" => lock.pod # Nil
    /\ lock.op = "move" =>
          /\ \A k \in lock.todo : unschedulableQ[k] # Nil
          /\ lock.pod # Nil => /\ lock.key \in lock.todo
                               /\ unschedulableQ[lock.key].pod = lock.pod

\* NextPod has read a pod from a queue that was not empty.
NextConsistent ==
    /\ next.pc = "head" => activeQ # <<>>
    /\ next.pc = "slice" => next.hdr # <<>>
    /\ next.pc # "wait" => next.p # Nil

\* As long as no update was overwritten, the pod being added is new, and
\* NextPod holds the head of the queue.
UndisturbedConsistent ==
    races = 0 =>
       /\ lock.op = "add" => place[lock.pod] = "new"
       /\ next.pc = "head" => next.p = Head(activeQ)
       /\ next.pc = "slice" => next.p = Head(next.hdr)

----------------------------------------------------------------------------
(* Properties.                                                             *)

EntriesOf(p) == {k \in Keys : /\ unschedulableQ[k] # Nil
                              /\ unschedulableQ[k].pod = p}

\* Each part of the queue holds the pods that the book puts there, once, and
\* unschedulableQ holds them under their own key.
ActiveAgrees == /\ IsInjective(activeQ)
                /\ \A p \in Pods : p \in Range(activeQ) <=> place[p] = "active"

BackoffAgrees ==
    /\ IsInjective(podBackoffQ)
    /\ \A p \in Pods : p \in Range(podBackoffQ) <=> place[p] = "backoff"

UnschedulableAgrees ==
    \A p \in Pods : EntriesOf(p) = IF place[p] = "unschedulable" THEN {Key[p]} ELSE {}

InflightAgrees ==
    \A p \in Pods : inflight[p] = IF place[p] = "inflight" THEN 1 ELSE 0

(***************************************************************************)
(* As long as no update of activeQ was overwritten, a pod is in the one    *)
(* queue the book says it is in, once, in unschedulableQ under its own     *)
(* key, or with exactly one scheduling attempt (Add, NextPod,              *)
(* MoveAllToActiveOrBackoffQueue and AddUnschedulable together).  A pod    *)
(* whose entry a pod of the same name replaced is in none.                 *)
(***************************************************************************)
OnePlace ==
    races = 0 => ActiveAgrees /\ BackoffAgrees /\ UnschedulableAgrees /\ InflightAgrees

(***************************************************************************)
(* NextPod reads activeQ[0] and slices activeQ[1:] without the lock and    *)
(* without looking again at its length: even when updates are overwritten, *)
(* the queue it slices is never empty.                                     *)
(***************************************************************************)
NeverSlicesEmpty ==
    /\ next.pc = "head" => activeQ # <<>>
    /\ next.pc = "slice" => next.hdr # <<>>

(***************************************************************************)
(* When MoveAllToActiveOrBackoffQueue returns, every pod still in          *)
(* unschedulableQ was rejected by plugins none of which registered the     *)
(* event: pods that failed for another reason, with no plugin named, are   *)
(* always moved.                                                           *)
(***************************************************************************)
MoveLeavesOnlyUnmatched ==
    [][lock.op = "move" /\ lock'.op = "none" =>
          \A k \in Keys : unschedulableQ'[k] # Nil =>
             /\ unschedulableQ'[k].plugins # {}
             /\ \A evt \in DOMAIN clusterEventMap :
                   clusterEventMap[evt] \cap unschedulableQ'[k].plugins # {} =>
                      \/ evt.resource # lock.event.resource
                      \/ evt.actions \cap lock.event.actions = {}]_qvars

(***************************************************************************)
(* The queue keeps the promise of PodLifecycle, first come first served    *)
(* included, until an update of activeQ is overwritten.                    *)
(***************************************************************************)
Lifecycle == INSTANCE PodLifecycle WITH fifo <- activeQ, broken <- races > 0

LifecycleSpec == Lifecycle!Spec

(***************************************************************************)
(* A pod in activeQ is handed out by NextPod, whatever the other threads   *)
(* do, unless an update of activeQ is overwritten or the process dies.     *)
(***************************************************************************)
ActiveIsHandedOut ==
    \A p \in Pods :
        p \in Range(activeQ) ~> inflight[p] > 0 \/ races > 0 \/ crashed

(***************************************************************************)
(* Every operation that takes the lock gives it back, unless the process   *)
(* dies.  (At the bound on overwritten updates the model stops a store.)   *)
(***************************************************************************)
LockIsReleased ==
    lock.op # "none" ~> lock.op = "none" \/ crashed \/ races = MaxRaces

(***************************************************************************)
(* What the comment on MoveAllToActiveOrBackoffQueue says ("this function  *)
(* adds all pods"): while it runs, a pod that it put in activeQ leaves it  *)
(* only because NextPod hands it out.  NextPod takes no lock, and its      *)
(* write of activeQ discards the pods that were added since its read.      *)
(***************************************************************************)
MovedPodsStay ==
    [][\A p \in lock.moved :
          p \in Range(activeQ) \ Range(activeQ') => inflight'[p] > inflight[p]]_qvars

=============================================================================
