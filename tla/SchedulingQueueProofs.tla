----------------------- MODULE SchedulingQueueProofs -----------------------
(***************************************************************************)
(* Proofs about SchedulingQueue, for any pods, names, events and plugins.  *)
(***************************************************************************)
EXTENDS SchedulingQueue, QueueDataProofs

----------------------------------------------------------------------------
(* Type correctness.                                                       *)

\* The inductive invariant behind type correctness.
TypeInv == QueueTypeOK /\ LockConsistent /\ NextConsistent

(***************************************************************************)
(* A store of activeQ keeps it a sequence of pods.                         *)
(***************************************************************************)
LEMMA StoreType ==
    ASSUME NEW hdr, NEW value \in Seq(Pods), races \in Nat,
           StoreActiveQ(hdr, value)
    PROVE  activeQ' \in Seq(Pods) /\ races' \in Nat
BY DEF StoreActiveQ

(***************************************************************************)
(* The initial state satisfies the invariant.                              *)
(***************************************************************************)
LEMMA TypeInit == QueueInit => TypeInv
<1> SUFFICES ASSUME QueueInit PROVE TypeInv
  OBVIOUS
<1>1. <<>> \in Seq(Pods)
  BY EmptySeq
<1>2. Free \in LockType
  BY <1>1 DEF Free, LockType
<1>3. Idle \in NextType
  BY <1>1 DEF Idle, NextType
<1>4. QueueTypeOK
  BY <1>1, <1>2, <1>3 DEF QueueInit, QueueTypeOK, Places
<1>5. LockConsistent
  BY DEF QueueInit, LockConsistent, Free
<1>6. NextConsistent
  BY DEF QueueInit, NextConsistent, Idle
<1>7. QED
  BY <1>4, <1>5, <1>6 DEF TypeInv

(***************************************************************************)
(* Every step keeps the invariant.                                         *)
(***************************************************************************)
LEMMA TypeStep == TypeInv /\ [QueueNext]_qvars => TypeInv'
<1> SUFFICES ASSUME TypeInv, [QueueNext]_qvars PROVE TypeInv'
  OBVIOUS
<1> USE QueueAssumption DEF TypeInv, QueueTypeOK, LockConsistent, NextConsistent,
        Free, Idle, Places, LockType, NextType
<1>1. CASE UNCHANGED qvars
  BY <1>1 DEF qvars
<1>2. ASSUME NEW p \in Pods, AddLoad(p) PROVE TypeInv'
  BY <1>2 DEF AddLoad
<1>3. CASE AddStore
  BY <1>3 DEF AddStore, StoreActiveQ
<1>4. ASSUME NEW e \in Events, MoveLock(e) PROVE TypeInv'
  <2>1. <<>> \in Seq(Pods)
    BY EmptySeq
  <2>2. lock' \in LockType
    BY <1>4, <2>1 DEF MoveLock
  <2>3. QueueTypeOK'
    BY <1>4, <2>2 DEF MoveLock
  <2>4. LockConsistent'
    BY <1>4 DEF MoveLock
  <2>5. QED
    BY <1>4, <2>3, <2>4 DEF MoveLock
<1>5. ASSUME NEW k \in Keys, MoveSkip(k) PROVE TypeInv'
  BY <1>5 DEF MoveSkip, Moving
<1>6. ASSUME NEW k \in Keys, MoveToBackoff(k) PROVE TypeInv'
  <2>1. unschedulableQ[k] \in Entry
    BY <1>6 DEF MoveToBackoff, Moving
  <2>2. unschedulableQ[k].pod \in Pods
    BY <2>1, EntryIsNotNil
  <2>3. podBackoffQ' \in Seq(Pods)
    BY <1>6, <2>2 DEF MoveToBackoff
  <2>4. QueueTypeOK'
    BY <1>6, <2>2, <2>3 DEF MoveToBackoff
  <2>5. LockConsistent'
    BY <1>6 DEF MoveToBackoff, Moving
  <2>6. QED
    BY <1>6, <2>4, <2>5 DEF MoveToBackoff
<1>7. ASSUME NEW k \in Keys, MoveLoad(k) PROVE TypeInv'
  BY <1>7, EntryIsNotNil DEF MoveLoad, Moving
<1>8. CASE MoveStore
  <2>1. lock.pod \in Pods /\ lock.key \in Keys /\ lock.hdr \in Seq(Pods)
    BY <1>8 DEF MoveStore
  <2>2. Append(lock.hdr, lock.pod) \in Seq(Pods) /\ Append(lock.hdr, lock.pod) # <<>>
    BY <2>1, AppendPod
  <2>3. activeQ' \in Seq(Pods) /\ activeQ' # <<>> /\ races' \in Nat
    <3>1. StoreActiveQ(lock.hdr, Append(lock.hdr, lock.pod)) /\ races \in Nat
      BY <1>8 DEF MoveStore
    <3>2. activeQ' = Append(lock.hdr, lock.pod)
      BY <3>1 DEF StoreActiveQ
    <3>3. QED
      BY <2>2, <3>1, <3>2, StoreType
  <2>4. <<>> \in Seq(Pods)
    BY EmptySeq
  <2>5. lock' \in LockType
    BY <1>8, <2>1, <2>4 DEF MoveStore
  <2>6. QueueTypeOK'
    BY <1>8, <2>1, <2>3, <2>5 DEF MoveStore
  <2>7. LockConsistent'
    BY <1>8, <2>1 DEF MoveStore
  <2>8. NextConsistent'
    BY <1>8, <2>3 DEF MoveStore
  <2>9. QED
    BY <2>6, <2>7, <2>8
<1>9. CASE MoveUnlock
  BY <1>9 DEF MoveUnlock
<1>10. ASSUME NEW p \in Pods, NEW plugins \in PluginSets,
              AddUnschedulable(p, plugins)
       PROVE  TypeInv'
  <2>1. newEntry(p, plugins) \in Entry /\ newEntry(p, plugins) # Nil
    BY NewEntryType, EntryIsNotNil
  <2>2. unschedulableQ' \in [Keys -> Entry \cup {Nil}]
    BY <1>10, <2>1 DEF AddUnschedulable
  <2>3. inflight' \in [Pods -> Nat]
    BY <1>10 DEF AddUnschedulable
  <2>4. place' \in [Pods -> Places]
    BY <1>10 DEF AddUnschedulable
  <2>5. LockConsistent'
    BY <1>10 DEF AddUnschedulable
  <2>6. QED
    BY <1>10, <2>2, <2>3, <2>4, <2>5 DEF AddUnschedulable
<1>11. CASE NextPodHead
  <2>1. Head(activeQ) \in Pods
    BY <1>11, HeadTailProperties DEF NextPodHead
  <2>2. QED
    BY <1>11, <2>1 DEF NextPodHead
<1>12. CASE NextPodSlice
  BY <1>12 DEF NextPodSlice
<1>13. CASE NextPodStore
  BY <1>13 DEF NextPodStore, StoreActiveQ
<1>14. CASE NextPodTorn
  BY <1>14 DEF NextPodTorn
<1>15. ASSUME NEW p \in Pods, Finish(p) PROVE TypeInv'
  BY <1>15 DEF Finish
<1>16. CASE Tick
  <2>1. \A e \in Entry \cup {Nil} : older(e) \in Entry \cup {Nil} /\ (e # Nil => older(e) # Nil /\ older(e).pod = e.pod)
    BY OlderType, EntryIsNotNil DEF older
  <2>2. QueueTypeOK'
    BY <1>16, <2>1 DEF Tick
  <2>3. LockConsistent'
    BY <1>16, <2>1 DEF Tick
  <2>4. QED
    BY <1>16, <2>2, <2>3 DEF Tick
<1>17. QED
  BY <1>1, <1>2, <1>3, <1>4, <1>5, <1>6, <1>7, <1>8, <1>9, <1>10, <1>11,
     <1>12, <1>13, <1>14, <1>15, <1>16
     DEF QueueNext, Holder, NextPod, Calls

(***************************************************************************)
(* The queue's state keeps its shape, whatever the threads interleave.     *)
(***************************************************************************)
THEOREM QueueTypeCorrect == QueueSpec => []QueueTypeOK
<1>1. QueueSpec => []TypeInv
  BY TypeInit, TypeStep, PTL DEF QueueSpec
<1>2. TypeInv => QueueTypeOK
  BY DEF TypeInv
<1>3. QED
  BY <1>1, <1>2, PTL

(***************************************************************************)
(* NextPod never slices an empty queue, even after updates of activeQ were *)
(* overwritten: only NextPod makes the queue shorter.                      *)
(***************************************************************************)
THEOREM NextPodNeverSlicesEmpty == QueueSpec => []NeverSlicesEmpty
<1>1. QueueSpec => []TypeInv
  BY TypeInit, TypeStep, PTL DEF QueueSpec
<1>2. TypeInv => NeverSlicesEmpty
  BY DEF TypeInv, NextConsistent, NeverSlicesEmpty
<1>3. QED
  BY <1>1, <1>2, PTL

----------------------------------------------------------------------------
(* Nothing is lost and nothing is duplicated.                              *)

\* The inductive invariant: the book is right, and the threads' local
\* variables fit the book.
PlaceInv == TypeInv /\ OnePlace /\ UndisturbedConsistent

Agrees == ActiveAgrees /\ BackoffAgrees /\ UnschedulableAgrees /\ InflightAgrees

(***************************************************************************)
(* The initial state satisfies the invariant.                              *)
(***************************************************************************)
LEMMA PlaceInit == QueueInit => PlaceInv
<1> SUFFICES ASSUME QueueInit PROVE PlaceInv
  OBVIOUS
<1>1. TypeInv
  BY TypeInit
<1>2. ActiveAgrees /\ BackoffAgrees
  BY DEF QueueInit, ActiveAgrees, BackoffAgrees, IsInjective, Range
<1>3. UnschedulableAgrees
  BY DEF QueueInit, UnschedulableAgrees, EntriesOf
<1>4. InflightAgrees
  BY DEF QueueInit, InflightAgrees
<1>5. UndisturbedConsistent
  BY DEF QueueInit, UndisturbedConsistent, Free, Idle
<1>6. QED
  BY <1>1, <1>2, <1>3, <1>4, <1>5 DEF PlaceInv, OnePlace

(***************************************************************************)
(* A store after which no update was overwritten found activeQ as it was   *)
(* read.                                                                   *)
(***************************************************************************)
LEMMA UndisturbedStore ==
    ASSUME NEW hdr, NEW value, races \in Nat, StoreActiveQ(hdr, value), races' = 0
    PROVE  races = 0 /\ activeQ = hdr /\ activeQ' = value
BY DEF StoreActiveQ

(***************************************************************************)
(* A step that changes neither a queue nor the book keeps them in          *)
(* agreement.                                                              *)
(***************************************************************************)
LEMMA AgreesUnchanged ==
    ASSUME Agrees,
           UNCHANGED <<activeQ, podBackoffQ, unschedulableQ, inflight, place>>
    PROVE  Agrees'
BY DEF Agrees, ActiveAgrees, BackoffAgrees, UnschedulableAgrees, InflightAgrees,
       EntriesOf

(***************************************************************************)
(* A pod is activated: it was new or unschedulable, its entry, if any, is  *)
(* deleted, and it is now in activeQ.                                      *)
(***************************************************************************)
LEMMA AgreesActivate ==
    ASSUME TypeInv, Agrees, NEW p \in Pods,
           place[p] \in {"new", "unschedulable"},
           activeQ' = Append(activeQ, p),
           place' = [place EXCEPT ![p] = "active"],
           \A k \in Keys : unschedulableQ'[k] =
               IF place[p] = "unschedulable" /\ k = Key[p] THEN Nil ELSE unschedulableQ[k],
           UNCHANGED <<podBackoffQ, inflight>>
    PROVE  Agrees'
<1> USE DEF TypeInv, QueueTypeOK
<1>1. \A q \in Pods : place'[q] = IF q = p THEN "active" ELSE place[q]
  OBVIOUS
<1>2. p \notin Range(activeQ)
  BY DEF Agrees, ActiveAgrees
<1>3. IsInjective(activeQ') /\ Range(activeQ') = Range(activeQ) \cup {p}
  BY <1>2, AppendInjects DEF Agrees, ActiveAgrees
<1>4. ActiveAgrees'
  BY <1>1, <1>3 DEF Agrees, ActiveAgrees
<1>5. BackoffAgrees'
  BY <1>1 DEF Agrees, BackoffAgrees
<1>6. ASSUME NEW q \in Pods
      PROVE  EntriesOf(q)' = IF place'[q] = "unschedulable" THEN {Key[q]} ELSE {}
  <2>1. EntriesOf(q) = IF place[q] = "unschedulable" THEN {Key[q]} ELSE {}
    BY DEF Agrees, UnschedulableAgrees
  <2>2. EntriesOf(p) = IF place[p] = "unschedulable" THEN {Key[p]} ELSE {}
    BY DEF Agrees, UnschedulableAgrees
  <2>3. CASE place[p] = "new"
    <3>1. EntriesOf(q)' = EntriesOf(q)
      BY <2>3 DEF EntriesOf
    <3>2. QED
      BY <1>1, <2>1, <2>3, <3>1
  <2>4. CASE place[p] = "unschedulable"
    <3>1. Key[p] \in Keys /\ unschedulableQ[Key[p]] # Nil /\ unschedulableQ[Key[p]].pod = p
      BY <2>2, <2>4 DEF EntriesOf
    <3>2. EntriesOf(q)' = EntriesOf(q) \ {Key[p]}
      BY <2>4 DEF EntriesOf
    <3>3. CASE q = p
      BY <1>1, <2>2, <2>4, <3>2, <3>3
    <3>4. CASE q # p
      <4>1. Key[p] \notin EntriesOf(q)
        BY <3>1, <3>4 DEF EntriesOf
      <4>2. QED
        BY <1>1, <2>1, <3>2, <3>4, <4>1
    <3>5. QED
      BY <3>3, <3>4
  <2>5. QED
    BY <2>3, <2>4
<1>7. UnschedulableAgrees'
  BY <1>6 DEF UnschedulableAgrees
<1>8. InflightAgrees'
  BY <1>1 DEF Agrees, InflightAgrees
<1>9. QED
  BY <1>4, <1>5, <1>7, <1>8 DEF Agrees

(***************************************************************************)
(* A pod is put off: its entry is deleted and it is now in podBackoffQ.    *)
(***************************************************************************)
LEMMA AgreesDelay ==
    ASSUME TypeInv, Agrees, NEW k \in Keys, unschedulableQ[k] # Nil,
           podBackoffQ' = Append(podBackoffQ, unschedulableQ[k].pod),
           place' = [place EXCEPT ![unschedulableQ[k].pod] = "backoff"],
           unschedulableQ' = [unschedulableQ EXCEPT ![k] = Nil],
           UNCHANGED <<activeQ, inflight>>
    PROVE  Agrees'
<1> DEFINE p == unschedulableQ[k].pod
<1> USE DEF TypeInv, QueueTypeOK
<1>1. p \in Pods
  BY EntryIsNotNil
<1>2. k \in EntriesOf(p)
  BY DEF EntriesOf
<1>3. place[p] = "unschedulable" /\ k = Key[p] /\ EntriesOf(p) = {k}
  BY <1>1, <1>2 DEF Agrees, UnschedulableAgrees
<1>4. \A q \in Pods : place'[q] = IF q = p THEN "backoff" ELSE place[q]
  BY <1>1
<1> HIDE DEF p
<1>5. p \notin Range(podBackoffQ)
  BY <1>1, <1>3 DEF Agrees, BackoffAgrees
<1>6. IsInjective(podBackoffQ') /\ Range(podBackoffQ') = Range(podBackoffQ) \cup {p}
  BY <1>1, <1>5, AppendInjects DEF Agrees, BackoffAgrees, p
<1>7. BackoffAgrees'
  BY <1>4, <1>6 DEF Agrees, BackoffAgrees
<1>8. ActiveAgrees'
  BY <1>3, <1>4 DEF Agrees, ActiveAgrees
<1>9. ASSUME NEW q \in Pods
      PROVE  EntriesOf(q)' = IF place'[q] = "unschedulable" THEN {Key[q]} ELSE {}
  <2>1. EntriesOf(q) = IF place[q] = "unschedulable" THEN {Key[q]} ELSE {}
    BY DEF Agrees, UnschedulableAgrees
  <2>2. EntriesOf(q)' = EntriesOf(q) \ {k}
    BY DEF EntriesOf
  <2>3. q # p => k \notin EntriesOf(q)
    BY DEF EntriesOf, p
  <2>4. QED
    BY <1>3, <1>4, <2>1, <2>2, <2>3
<1>10. UnschedulableAgrees'
  BY <1>9 DEF UnschedulableAgrees
<1>11. InflightAgrees'
  BY <1>3, <1>4 DEF Agrees, InflightAgrees
<1>12. QED
  BY <1>7, <1>8, <1>10, <1>11 DEF Agrees

(***************************************************************************)
(* NextPod takes the head of activeQ.                                      *)
(***************************************************************************)
LEMMA AgreesTake ==
    ASSUME TypeInv, Agrees, activeQ # <<>>, NEW p \in Pods, p = Head(activeQ),
           activeQ' = Tail(activeQ),
           inflight' = [inflight EXCEPT ![p] = @ + 1],
           place' = [place EXCEPT ![p] = "inflight"],
           UNCHANGED <<podBackoffQ, unschedulableQ>>
    PROVE  Agrees'
<1> USE DEF TypeInv, QueueTypeOK
<1>1. \A q \in Pods : place'[q] = IF q = p THEN "inflight" ELSE place[q]
  OBVIOUS
<1>2. /\ IsInjective(activeQ')
      /\ Range(activeQ') = Range(activeQ) \ {p}
      /\ p \in Range(activeQ)
  BY TailRemovesHead DEF Agrees, ActiveAgrees
<1>3. place[p] = "active"
  BY <1>2 DEF Agrees, ActiveAgrees
<1>4. ActiveAgrees'
  BY <1>1, <1>2 DEF Agrees, ActiveAgrees
<1>5. BackoffAgrees'
  BY <1>1, <1>3 DEF Agrees, BackoffAgrees
<1>6. UnschedulableAgrees'
  <2>1. \A q \in Pods : EntriesOf(q)' = EntriesOf(q)
    BY DEF EntriesOf
  <2>2. QED
    BY <1>1, <1>3, <2>1 DEF Agrees, UnschedulableAgrees
<1>7. InflightAgrees'
  BY <1>1, <1>3 DEF Agrees, InflightAgrees
<1>8. QED
  BY <1>4, <1>5, <1>6, <1>7 DEF Agrees

(***************************************************************************)
(* AddUnschedulable gives a pod back; it may replace an entry of the same  *)
(* name, whose pod then has no place.                                      *)
(***************************************************************************)
LEMMA AgreesGiveBack ==
    ASSUME TypeInv, Agrees, NEW p \in Pods, NEW plugins \in PluginSets,
           AddUnschedulable(p, plugins)
    PROVE  Agrees'
<1> DEFINE k == Key[p]
<1> USE QueueAssumption DEF TypeInv, QueueTypeOK
<1>1. k \in Keys
  OBVIOUS
<1>2. /\ newEntry(p, plugins) # Nil
      /\ newEntry(p, plugins).pod = p
  BY NewEntryType, EntryIsNotNil DEF newEntry
<1>3. \A i \in Keys : unschedulableQ'[i] = IF i = k THEN newEntry(p, plugins) ELSE unschedulableQ[i]
  BY DEF AddUnschedulable
<1>4. inflight[p] > 0 /\ place[p] = "inflight"
  BY DEF AddUnschedulable, Agrees, InflightAgrees
<1>5. \A q \in Pods : place'[q] = IF q = p THEN "unschedulable"
                                 ELSE IF k \in EntriesOf(q) THEN "replaced" ELSE place[q]
  BY <1>1 DEF AddUnschedulable, EntriesOf
<1>6. \A q \in Pods : k \in EntriesOf(q) => place[q] = "unschedulable"
  BY DEF Agrees, UnschedulableAgrees
<1>7. ActiveAgrees'
  BY <1>4, <1>5, <1>6 DEF Agrees, ActiveAgrees, AddUnschedulable
<1>8. BackoffAgrees'
  BY <1>4, <1>5, <1>6 DEF Agrees, BackoffAgrees, AddUnschedulable
<1>9. InflightAgrees'
  <2>1. \A q \in Pods : inflight'[q] = IF q = p THEN inflight[q] - 1 ELSE inflight[q]
    BY DEF AddUnschedulable
  <2>2. QED
    BY <1>4, <1>5, <1>6, <2>1 DEF Agrees, InflightAgrees
<1>10. ASSUME NEW q \in Pods
       PROVE  EntriesOf(q)' = IF place'[q] = "unschedulable" THEN {Key[q]} ELSE {}
  <2>1. EntriesOf(q) = IF place[q] = "unschedulable" THEN {Key[q]} ELSE {}
    BY DEF Agrees, UnschedulableAgrees
  <2>2. CASE q = p
    <3>1. EntriesOf(q) = {}
      BY <1>4, <2>1, <2>2
    <3>2. EntriesOf(q)' = {k}
      BY <1>1, <1>2, <1>3, <2>2, <3>1 DEF EntriesOf
    <3>3. QED
      BY <1>5, <2>2, <3>2
  <2>3. CASE q # p
    <3>1. EntriesOf(q)' = EntriesOf(q) \ {k}
      BY <1>1, <1>2, <1>3, <2>3 DEF EntriesOf
    <3>2. QED
      BY <1>5, <2>1, <2>3, <3>1
  <2>4. QED
    BY <2>2, <2>3
<1>11. UnschedulableAgrees'
  BY <1>10 DEF UnschedulableAgrees
<1>12. QED
  BY <1>7, <1>8, <1>9, <1>11 DEF Agrees

(***************************************************************************)
(* A pod is bound.                                                         *)
(***************************************************************************)
LEMMA AgreesFinish ==
    ASSUME TypeInv, Agrees, NEW p \in Pods, Finish(p)
    PROVE  Agrees'
<1> USE DEF TypeInv, QueueTypeOK
<1>1. place[p] = "inflight"
  BY DEF Finish, Agrees, InflightAgrees
<1>2. \A q \in Pods : place'[q] = IF q = p THEN "bound" ELSE place[q]
  BY DEF Finish
<1>3. ActiveAgrees' /\ BackoffAgrees'
  BY <1>1, <1>2 DEF Finish, Agrees, ActiveAgrees, BackoffAgrees
<1>4. UnschedulableAgrees'
  <2>1. \A q \in Pods : EntriesOf(q)' = EntriesOf(q)
    BY DEF Finish, EntriesOf
  <2>2. QED
    BY <1>1, <1>2, <2>1 DEF Agrees, UnschedulableAgrees
<1>5. InflightAgrees'
  <2>1. \A q \in Pods : inflight'[q] = IF q = p THEN inflight[q] - 1 ELSE inflight[q]
    BY DEF Finish
  <2>2. QED
    BY <1>1, <1>2, <2>1 DEF Agrees, InflightAgrees
<1>6. QED
  BY <1>3, <1>4, <1>5 DEF Agrees

(***************************************************************************)
(* Time passes: the entries grow older, and stay entries of their pods.    *)
(***************************************************************************)
LEMMA AgreesTick ==
    ASSUME TypeInv, Agrees, Tick
    PROVE  Agrees'
<1> USE DEF TypeInv, QueueTypeOK
<1>1. \A e \in Entry \cup {Nil} : /\ older(e) = Nil <=> e = Nil
                                  /\ e # Nil => older(e).pod = e.pod
  BY OlderType, EntryIsNotNil DEF older
<1>2. \A k \in Keys : unschedulableQ'[k] = older(unschedulableQ[k])
  BY DEF Tick
<1>3. \A q \in Pods : EntriesOf(q)' = EntriesOf(q)
  BY <1>1, <1>2 DEF EntriesOf
<1>4. QED
  BY <1>3 DEF Tick, Agrees, ActiveAgrees, BackoffAgrees, UnschedulableAgrees,
              InflightAgrees

(***************************************************************************)
(* Every step keeps the invariant.                                         *)
(***************************************************************************)
LEMMA PlaceStep == PlaceInv /\ [QueueNext]_qvars => PlaceInv'
<1> SUFFICES ASSUME PlaceInv, [QueueNext]_qvars PROVE PlaceInv'
  OBVIOUS
<1>1. TypeInv /\ TypeInv'
  BY TypeStep DEF PlaceInv
<1>2. races \in Nat /\ races' \in Nat
  BY <1>1 DEF TypeInv, QueueTypeOK
<1> SUFFICES ASSUME races' = 0
             PROVE  /\ Agrees'
                    /\ lock'.op = "add" => place'[lock'.pod] = "new"
                    /\ next'.pc = "head" => next'.p = Head(activeQ')
                    /\ next'.pc = "slice" => next'.p = Head(next'.hdr)
  BY <1>1 DEF PlaceInv, OnePlace, UndisturbedConsistent, Agrees
<1> DEFINE Goal == /\ Agrees'
                   /\ lock'.op = "add" => place'[lock'.pod] = "new"
                   /\ next'.pc = "head" => next'.p = Head(activeQ')
                   /\ next'.pc = "slice" => next'.p = Head(next'.hdr)
<1>3. races = 0 => /\ Agrees
                   /\ lock.op = "add" => place[lock.pod] = "new"
                   /\ next.pc = "head" => next.p = Head(activeQ)
                   /\ next.pc = "slice" => next.p = Head(next.hdr)
  BY DEF PlaceInv, OnePlace, UndisturbedConsistent, Agrees
<1>4. CASE UNCHANGED qvars
  BY <1>3, <1>4, AgreesUnchanged DEF qvars
<1>5. ASSUME NEW p \in Pods, AddLoad(p) PROVE Goal
  BY <1>3, <1>5, AgreesUnchanged DEF AddLoad, Free
<1>6. CASE AddStore
  <2>1. /\ races = 0
        /\ activeQ = lock.hdr
        /\ activeQ' = Append(activeQ, lock.pod)
    BY <1>2, <1>6, UndisturbedStore DEF AddStore
  <2>2. lock.pod \in Pods /\ place[lock.pod] = "new"
    BY <1>1, <1>3, <1>6, <2>1 DEF AddStore, TypeInv, QueueTypeOK, LockType, LockConsistent
  <2>3. Agrees'
    BY <1>1, <1>3, <1>6, <2>1, <2>2, AgreesActivate DEF AddStore
  <2>4. next.pc = "head" => Head(activeQ') = Head(activeQ)
    BY <1>1, <2>1, <2>2, HeadTailAppend DEF TypeInv, QueueTypeOK, NextConsistent
  <2>5. QED
    BY <1>3, <1>6, <2>1, <2>3, <2>4 DEF AddStore, Free
<1>7. ASSUME NEW e \in Events, MoveLock(e) PROVE Goal
  BY <1>3, <1>7, AgreesUnchanged DEF MoveLock, Free
<1>8. ASSUME NEW k \in Keys, MoveSkip(k) PROVE Goal
  <2>1. lock'.op = "move"
    BY <1>1, <1>8 DEF MoveSkip, Moving, TypeInv, QueueTypeOK, LockType
  <2>2. QED
    BY <1>3, <1>8, <2>1, AgreesUnchanged DEF MoveSkip
<1>9. ASSUME NEW k \in Keys, MoveToBackoff(k) PROVE Goal
  <2>1. lock'.op = "move" /\ unschedulableQ[k] # Nil
    BY <1>1, <1>9 DEF MoveToBackoff, Moving, TypeInv, QueueTypeOK, LockType, LockConsistent
  <2>2. Agrees'
    BY <1>1, <1>3, <1>9, <2>1, AgreesDelay DEF MoveToBackoff
  <2>3. QED
    BY <1>3, <1>9, <2>1, <2>2 DEF MoveToBackoff
<1>10. ASSUME NEW k \in Keys, MoveLoad(k) PROVE Goal
  <2>1. lock'.op = "move"
    BY <1>1, <1>10 DEF MoveLoad, Moving, TypeInv, QueueTypeOK, LockType
  <2>2. QED
    BY <1>3, <1>10, <2>1, AgreesUnchanged DEF MoveLoad
<1>11. CASE MoveStore
  <2>1. /\ races = 0
        /\ activeQ = lock.hdr
        /\ activeQ' = Append(activeQ, lock.pod)
    BY <1>2, <1>11, UndisturbedStore DEF MoveStore
  <2>2. /\ lock.pod \in Pods /\ lock.key \in Keys /\ lock'.op = "move"
        /\ unschedulableQ[lock.key] # Nil
        /\ unschedulableQ[lock.key].pod = lock.pod
    BY <1>1, <1>11 DEF MoveStore, TypeInv, QueueTypeOK, LockType, LockConsistent
  <2>3. place[lock.pod] = "unschedulable" /\ lock.key = Key[lock.pod]
    <3>1. lock.key \in EntriesOf(lock.pod)
      BY <2>2 DEF EntriesOf
    <3>2. QED
      BY <1>3, <2>1, <2>2, <3>1 DEF Agrees, UnschedulableAgrees
  <2>4. \A k \in Keys : unschedulableQ'[k] = IF k = lock.key THEN Nil ELSE unschedulableQ[k]
    BY <1>1, <1>11 DEF MoveStore, TypeInv, QueueTypeOK
  <2>5. Agrees'
    BY <1>1, <1>3, <1>11, <2>1, <2>2, <2>3, <2>4, AgreesActivate DEF MoveStore
  <2>6. next.pc = "head" => Head(activeQ') = Head(activeQ)
    BY <1>1, <2>1, <2>2, HeadTailAppend DEF TypeInv, QueueTypeOK, NextConsistent
  <2>7. QED
    BY <1>3, <1>11, <2>1, <2>2, <2>5, <2>6 DEF MoveStore
<1>12. CASE MoveUnlock
  BY <1>3, <1>12, AgreesUnchanged DEF MoveUnlock, Free
<1>13. ASSUME NEW p \in Pods, NEW plugins \in PluginSets, AddUnschedulable(p, plugins)
       PROVE  Goal
  <2>1. Agrees'
    BY <1>1, <1>3, <1>13, AgreesGiveBack DEF AddUnschedulable
  <2>2. QED
    BY <1>3, <1>13, <2>1 DEF AddUnschedulable
<1>14. CASE NextPodHead
  <2>1. next'.pc = "head" /\ next'.p = Head(activeQ)
    BY <1>1, <1>14 DEF NextPodHead, TypeInv, QueueTypeOK, NextType
  <2>2. QED
    BY <1>3, <1>14, <2>1, AgreesUnchanged DEF NextPodHead
<1>15. CASE NextPodSlice
  <2>1. next'.pc = "slice" /\ next'.p = next.p /\ next'.hdr = activeQ
    BY <1>1, <1>15 DEF NextPodSlice, TypeInv, QueueTypeOK, NextType
  <2>2. QED
    BY <1>3, <1>15, <2>1, AgreesUnchanged DEF NextPodSlice
<1>16. CASE NextPodStore
  <2>1. /\ races = 0
        /\ activeQ = next.hdr
        /\ activeQ' = Tail(activeQ)
    BY <1>2, <1>16, UndisturbedStore DEF NextPodStore
  <2>2. next.p \in Pods /\ activeQ # <<>> /\ next.p = Head(activeQ)
    BY <1>1, <1>3, <1>16, <2>1 DEF NextPodStore, TypeInv, QueueTypeOK, NextType, NextConsistent
  <2>3. Agrees'
    BY <1>1, <1>3, <1>16, <2>1, <2>2, AgreesTake DEF NextPodStore
  <2>4. lock.op = "add" => place'[lock.pod] = "new"
    <3>1. next.p \in Range(activeQ)
      BY <1>1, <1>3, <2>1, <2>2, TailRemovesHead DEF TypeInv, QueueTypeOK, Agrees, ActiveAgrees
    <3>2. place[next.p] = "active"
      BY <1>3, <2>1, <2>2, <3>1 DEF Agrees, ActiveAgrees
    <3>3. QED
      BY <1>1, <1>3, <1>16, <2>1, <2>2, <3>2
         DEF NextPodStore, TypeInv, QueueTypeOK, LockType, LockConsistent
  <2>5. QED
    BY <1>16, <2>3, <2>4 DEF NextPodStore, Idle
<1>17. CASE NextPodTorn
  BY <1>3, <1>17, AgreesUnchanged DEF NextPodTorn
<1>18. ASSUME NEW p \in Pods, Finish(p) PROVE Goal
  <2>1. Agrees'
    BY <1>1, <1>3, <1>18, AgreesFinish DEF Finish
  <2>2. lock.op = "add" => place'[lock.pod] = "new"
    <3>1. place[p] = "inflight"
      BY <1>3, <1>18 DEF Finish, Agrees, InflightAgrees
    <3>2. QED
      BY <1>1, <1>3, <1>18, <3>1 DEF Finish, TypeInv, QueueTypeOK, LockType, LockConsistent
  <2>3. QED
    BY <1>3, <1>18, <2>1, <2>2 DEF Finish
<1>19. CASE Tick
  <2>1. Agrees'
    BY <1>1, <1>3, <1>19, AgreesTick DEF Tick
  <2>2. QED
    BY <1>3, <1>19, <2>1 DEF Tick
<1>20. QED
  BY <1>4, <1>5, <1>6, <1>7, <1>8, <1>9, <1>10, <1>11, <1>12, <1>13, <1>14,
     <1>15, <1>16, <1>17, <1>18, <1>19
     DEF QueueNext, Holder, NextPod, Calls

(***************************************************************************)
(* Add, MoveAllToActiveOrBackoffQueue, NextPod and AddUnschedulable lose   *)
(* and duplicate no pod, for any number of pods and names, until an update *)
(* of activeQ is overwritten.                                              *)
(***************************************************************************)
THEOREM NothingLostOrDuplicated == QueueSpec => []OnePlace
<1>1. QueueSpec => []PlaceInv
  BY PlaceInit, PlaceStep, PTL DEF QueueSpec
<1>2. PlaceInv => OnePlace
  BY DEF PlaceInv
<1>3. QED
  BY <1>1, <1>2, PTL

----------------------------------------------------------------------------
(* What MoveAllToActiveOrBackoffQueue leaves.                              *)

\* The loop passed over the entries that the event does not help, only.
PassedOver ==
    lock.op = "move" =>
        \A k \in Keys \ lock.todo :
            unschedulableQ[k] # Nil => notHelped(unschedulableQ[k], lock.event)

\* Being passed over depends on the plugins that rejected the pod alone.
LEMMA HelpDependsOnPlugins ==
    ASSUME NEW e, NEW f, NEW event, e.plugins = f.plugins
    PROVE  notHelped(e, event) <=> notHelped(f, event)
BY DEF notHelped

(***************************************************************************)
(* Every step keeps what the loop passed over: other operations that write *)
(* unschedulableQ wait for the lock.                                       *)
(***************************************************************************)
LEMMA PassedOverStep ==
    TypeInv /\ PassedOver /\ [QueueNext]_qvars => PassedOver'
<1> SUFFICES ASSUME TypeInv, PassedOver, [QueueNext]_qvars PROVE PassedOver'
  OBVIOUS
<1>1. /\ lock \in LockType /\ unschedulableQ \in [Keys -> Entry \cup {Nil}]
      /\ lock.op = "move" /\ lock.pod # Nil => lock.key \in Keys
  BY DEF TypeInv, QueueTypeOK, LockConsistent, LockType
<1>2. CASE UNCHANGED <<lock, unschedulableQ>>
  BY <1>2 DEF PassedOver
<1>3. ASSUME NEW p \in Pods, AddLoad(p) PROVE PassedOver'
  BY <1>3 DEF AddLoad, Free, PassedOver
<1>4. ASSUME NEW e \in Events, MoveLock(e) PROVE PassedOver'
  <2>1. lock'.todo = {k \in Keys : unschedulableQ[k] # Nil} /\ UNCHANGED unschedulableQ
    BY <1>4 DEF MoveLock, Free
  <2>2. QED
    BY <2>1 DEF PassedOver
<1>5. CASE AddStore \/ MoveUnlock
  BY <1>5 DEF AddStore, MoveUnlock, Free, PassedOver
<1>6. ASSUME NEW k \in Keys, MoveSkip(k) \/ MoveToBackoff(k) \/ MoveLoad(k)
      PROVE  PassedOver'
  <2>1. lock.op = "move" /\ lock'.event = lock.event
    BY <1>1, <1>6 DEF MoveSkip, MoveToBackoff, MoveLoad, Moving, LockType
  <2>2. CASE MoveSkip(k)
    BY <1>1, <2>1, <2>2 DEF MoveSkip, Moving, PassedOver, LockType
  <2>3. CASE MoveToBackoff(k)
    BY <1>1, <2>1, <2>3 DEF MoveToBackoff, Moving, PassedOver, LockType
  <2>4. CASE MoveLoad(k)
    BY <1>1, <2>1, <2>4 DEF MoveLoad, Moving, PassedOver, LockType
  <2>5. QED
    BY <1>6, <2>2, <2>3, <2>4
<1>7. CASE MoveStore
  <2>1. /\ lock.op = "move" /\ lock.key \in Keys /\ lock'.event = lock.event
        /\ lock'.todo = lock.todo \ {lock.key}
        /\ unschedulableQ' = [unschedulableQ EXCEPT ![lock.key] = Nil]
    BY <1>1, <1>7 DEF MoveStore, LockType
  <2>2. QED
    BY <1>1, <2>1 DEF PassedOver
<1>8. ASSUME NEW p \in Pods, NEW plugins \in PluginSets, AddUnschedulable(p, plugins)
      PROVE  PassedOver'
  BY <1>8 DEF AddUnschedulable, PassedOver
<1>9. CASE NextPod
  BY <1>2, <1>9 DEF NextPod, NextPodHead, NextPodSlice, NextPodStore, NextPodTorn
<1>10. ASSUME NEW p \in Pods, Finish(p) PROVE PassedOver'
  BY <1>2, <1>10 DEF Finish
<1>11. CASE Tick
  <2>1. UNCHANGED lock /\ \A k \in Keys : unschedulableQ'[k] = older(unschedulableQ[k])
    BY <1>11 DEF Tick
  <2>2. older(Nil) = Nil
    BY DEF older
  <2>3. ASSUME NEW k \in Keys, unschedulableQ'[k] # Nil
        PROVE  /\ unschedulableQ[k] # Nil
               /\ unschedulableQ'[k].plugins = unschedulableQ[k].plugins
    BY <1>1, <2>1, <2>2, <2>3, OlderType
  <2>4. QED
    BY <2>1, <2>3, HelpDependsOnPlugins DEF PassedOver
<1>12. QED
  BY <1>2, <1>3, <1>4, <1>5, <1>6, <1>7, <1>8, <1>9, <1>10, <1>11
     DEF QueueNext, Holder, Calls, qvars

(***************************************************************************)
(* MoveAllToActiveOrBackoffQueue leaves no pod that the event may help,    *)
(* whatever NextPod does meanwhile and for any registered events: an entry *)
(* that is left names plugins, and none of them registered the event.      *)
(***************************************************************************)
THEOREM NoHelpedPodIsLeft == QueueSpec => MoveLeavesOnlyUnmatched
<1>1. QueueSpec => [](TypeInv /\ PassedOver)
  <2>1. QueueInit => PassedOver
    BY DEF QueueInit, PassedOver, Free
  <2>2. QED
    BY <2>1, TypeInit, TypeStep, PassedOverStep, PTL DEF QueueSpec
<1>2. ASSUME TypeInv, PassedOver, [QueueNext]_qvars, lock.op = "move", lock'.op = "none",
             NEW k \in Keys, unschedulableQ'[k] # Nil
      PROVE  /\ unschedulableQ'[k].plugins # {}
             /\ \A evt \in DOMAIN clusterEventMap :
                   clusterEventMap[evt] \cap unschedulableQ'[k].plugins # {} =>
                      \/ evt.resource # lock.event.resource
                      \/ evt.actions \cap lock.event.actions = {}
  <2>1. MoveUnlock
    <3>1. lock \in LockType
      BY <1>2 DEF TypeInv, QueueTypeOK
    <3>2. /\ ~UNCHANGED lock
          /\ \A p \in Pods : ~AddLoad(p)
          /\ \A e \in Events : ~MoveLock(e)
          /\ ~AddStore /\ ~MoveStore
          /\ \A l \in Keys : ~(MoveSkip(l) \/ MoveToBackoff(l) \/ MoveLoad(l))
      BY <1>2, <3>1 DEF AddLoad, MoveLock, AddStore, MoveStore, MoveSkip, MoveToBackoff,
                        MoveLoad, LockType
    <3>3. QED
      BY <1>2, <3>2 DEF QueueNext, Holder, NextPod, Calls, NextPodHead, NextPodSlice,
                        NextPodStore, NextPodTorn, Finish, AddUnschedulable, Tick, qvars
  <2>2. lock.todo = {} /\ UNCHANGED unschedulableQ
    BY <2>1 DEF MoveUnlock
  <2>3. notHelped(unschedulableQ'[k], lock.event)
    BY <1>2, <2>2 DEF PassedOver
  <2>4. QED
    BY <2>3 DEF notHelped, podMatchesEvent, intersect
<1>3. TypeInv /\ PassedOver /\ [QueueNext]_qvars =>
          [lock.op = "move" /\ lock'.op = "none" =>
              \A k \in Keys : unschedulableQ'[k] # Nil =>
                 /\ unschedulableQ'[k].plugins # {}
                 /\ \A evt \in DOMAIN clusterEventMap :
                       clusterEventMap[evt] \cap unschedulableQ'[k].plugins # {} =>
                          \/ evt.resource # lock.event.resource
                          \/ evt.actions \cap lock.event.actions = {}]_qvars
  BY <1>2
<1>4. QED
  BY <1>1, <1>3, PTL DEF QueueSpec, MoveLeavesOnlyUnmatched

----------------------------------------------------------------------------
(* The queue implements PodLifecycle.                                      *)

(***************************************************************************)
(* Every step of the queue is a step of PodLifecycle or changes nothing    *)
(* there.                                                                  *)
(***************************************************************************)
LEMMA LifecycleStep ==
    PlaceInv /\ PlaceInv' /\ [QueueNext]_qvars =>
        [Lifecycle!Next]_(Lifecycle!vars)
<1> SUFFICES ASSUME PlaceInv, PlaceInv', [QueueNext]_qvars
             PROVE  Lifecycle!Next \/ UNCHANGED <<place, activeQ, races>>
  BY DEF Lifecycle!vars
<1>1. TypeInv /\ races \in Nat /\ races' \in Nat
  BY DEF PlaceInv, TypeInv, QueueTypeOK
<1>2. CASE races' > 0
  BY <1>2 DEF Lifecycle!Next
<1>3. CASE ~(races' > 0)
  <2>1. races' = 0
    BY <1>1, <1>3
  <2>2. SUFFICES ASSUME ~UNCHANGED <<place, activeQ, races>>
                 PROVE  races = 0 /\ Lifecycle!Step
    BY <1>1, <1>3 DEF Lifecycle!Next
  <2>3. races = 0 => /\ Agrees
                     /\ lock.op = "add" => place[lock.pod] = "new"
                     /\ next.pc = "slice" => next.p = Head(next.hdr)
    BY DEF PlaceInv, OnePlace, UndisturbedConsistent, Agrees
  <2>4. CASE AddStore
    <3>1. races = 0 /\ activeQ = lock.hdr /\ activeQ' = Append(activeQ, lock.pod)
      BY <1>1, <2>1, <2>4, UndisturbedStore DEF AddStore
    <3>2. lock.pod \in Pods /\ place[lock.pod] = "new"
      BY <1>1, <2>3, <2>4, <3>1 DEF AddStore, TypeInv, QueueTypeOK, LockType, LockConsistent
    <3>3. Lifecycle!Activate(lock.pod)
      BY <2>4, <3>1, <3>2 DEF AddStore, Lifecycle!Activate
    <3>4. QED
      BY <3>1, <3>2, <3>3 DEF Lifecycle!Step
  <2>5. CASE MoveStore
    <3>1. races = 0 /\ activeQ = lock.hdr /\ activeQ' = Append(activeQ, lock.pod)
      BY <1>1, <2>1, <2>5, UndisturbedStore DEF MoveStore
    <3>2. /\ lock.pod \in Pods /\ lock.key \in Keys
          /\ unschedulableQ[lock.key] # Nil
          /\ unschedulableQ[lock.key].pod = lock.pod
      BY <1>1, <2>5 DEF MoveStore, TypeInv, QueueTypeOK, LockType, LockConsistent
    <3>3. lock.key \in EntriesOf(lock.pod)
      BY <3>2 DEF EntriesOf
    <3>4. place[lock.pod] = "unschedulable"
      BY <2>3, <3>1, <3>2, <3>3 DEF Agrees, UnschedulableAgrees
    <3>5. Lifecycle!Activate(lock.pod)
      BY <2>5, <3>1, <3>4 DEF MoveStore, Lifecycle!Activate
    <3>6. QED
      BY <3>1, <3>2, <3>5 DEF Lifecycle!Step
  <2>6. ASSUME NEW k \in Keys, MoveToBackoff(k)
        PROVE  races = 0 /\ Lifecycle!Step
    <3>1. races = 0 /\ unschedulableQ[k] \in Entry
      BY <1>1, <2>1, <2>6
         DEF MoveToBackoff, Moving, TypeInv, QueueTypeOK, LockType, LockConsistent
    <3>2. unschedulableQ[k].pod \in Pods /\ k \in EntriesOf(unschedulableQ[k].pod)
      BY <3>1, EntryIsNotNil DEF EntriesOf
    <3>3. place[unschedulableQ[k].pod] = "unschedulable"
      BY <2>3, <3>1, <3>2 DEF Agrees, UnschedulableAgrees
    <3>4. Lifecycle!Delay(unschedulableQ[k].pod)
      BY <2>6, <3>3 DEF MoveToBackoff, Lifecycle!Delay
    <3>5. QED
      BY <3>1, <3>2, <3>4 DEF Lifecycle!Step
  <2>7. ASSUME NEW p \in Pods, NEW plugins \in PluginSets, AddUnschedulable(p, plugins)
        PROVE  races = 0 /\ Lifecycle!Step
    <3>1. races = 0 /\ place[p] = "inflight"
      BY <2>1, <2>3, <2>7 DEF AddUnschedulable, Agrees, InflightAgrees
    <3>2. Key[p] \in Keys
      BY QueueAssumption
    <3>3. \A q \in Pods : Key[p] \in EntriesOf(q) <=> place[q] = "unschedulable" /\ Key[q] = Key[p]
      BY <2>3, <3>1 DEF Agrees, UnschedulableAgrees
    <3>4. place' = [q \in Pods |->
                      IF q = p THEN "unschedulable"
                      ELSE IF place[q] = "unschedulable" /\ Key[q] = Key[p]
                           THEN "replaced" ELSE place[q]]
      BY <2>7, <3>2, <3>3 DEF AddUnschedulable, EntriesOf
    <3>5. Lifecycle!GiveBack(p)
      BY <2>7, <3>1, <3>4 DEF AddUnschedulable, Lifecycle!GiveBack
    <3>6. QED
      BY <3>1, <3>5 DEF Lifecycle!Step
  <2>8. CASE NextPodStore
    <3>1. races = 0 /\ activeQ = next.hdr /\ activeQ' = Tail(activeQ)
      BY <1>1, <2>1, <2>8, UndisturbedStore DEF NextPodStore
    <3>2. next.p \in Pods /\ activeQ # <<>> /\ next.p = Head(activeQ)
      BY <1>1, <2>3, <2>8, <3>1 DEF NextPodStore, TypeInv, QueueTypeOK, NextType, NextConsistent
    <3>3. next.p \in Range(activeQ)
      BY <1>1, <2>3, <3>1, <3>2, TailRemovesHead DEF TypeInv, QueueTypeOK, Agrees, ActiveAgrees
    <3>4. place[next.p] = "active"
      BY <2>3, <3>1, <3>2, <3>3 DEF Agrees, ActiveAgrees
    <3>5. Lifecycle!Take
      BY <2>8, <3>1, <3>2, <3>4 DEF NextPodStore, Lifecycle!Take
    <3>6. QED
      BY <3>1, <3>5 DEF Lifecycle!Step
  <2>9. ASSUME NEW p \in Pods, Finish(p)
        PROVE  races = 0 /\ Lifecycle!Step
    <3>1. races = 0 /\ place[p] = "inflight"
      BY <2>1, <2>3, <2>9 DEF Finish, Agrees, InflightAgrees
    <3>2. Lifecycle!Finish(p)
      BY <2>9, <3>1 DEF Finish, Lifecycle!Finish
    <3>3. QED
      BY <3>1, <3>2 DEF Lifecycle!Step
  <2>10. QED
    BY <2>2, <2>4, <2>5, <2>6, <2>7, <2>8, <2>9
       DEF QueueNext, Holder, NextPod, Calls, qvars, AddLoad, MoveLock, MoveSkip,
           MoveLoad, MoveUnlock, NextPodHead, NextPodSlice, NextPodTorn, Tick
<1>4. QED
  BY <1>2, <1>3

(***************************************************************************)
(* The queue, with its threads, implements PodLifecycle: first come first  *)
(* served, one attempt at a time, and nothing lost but a pod whose entry a *)
(* pod of the same name replaces, until an update of activeQ is            *)
(* overwritten.                                                            *)
(***************************************************************************)
THEOREM QueueImplementsLifecycle == QueueSpec => LifecycleSpec
<1>1. QueueInit => Lifecycle!Init
  BY DEF QueueInit, Lifecycle!Init
<1>2. QueueSpec => []PlaceInv
  BY PlaceInit, PlaceStep, PTL DEF QueueSpec
<1>3. PlaceInv /\ PlaceInv' /\ [QueueNext]_qvars => [Lifecycle!Next]_(Lifecycle!vars)
  BY LifecycleStep
<1>4. QED
  BY <1>1, <1>2, <1>3, PTL DEF QueueSpec, LifecycleSpec, Lifecycle!Spec
=============================================================================
