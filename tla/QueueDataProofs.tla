--------------------------- MODULE QueueDataProofs ---------------------------
(***************************************************************************)
(* Lemmas about the scheduling queue's entries and sequences of pods, for  *)
(* the proofs about the queue alone and about the whole scheduler.         *)
(***************************************************************************)
EXTENDS QueueData, Sequences, Functions, SequenceTheorems, TLAPS

(***************************************************************************)
(* An entry of unschedulableQ is told from no entry, and has a pod.        *)
(***************************************************************************)
LEMMA EntryIsNotNil ==
    ASSUME NEW e \in Entry
    PROVE  /\ e # Nil
           /\ e.pod \in Pods
BY QueueAssumption DEF Entry

(***************************************************************************)
(* AddUnschedulable makes an entry.                                        *)
(***************************************************************************)
LEMMA NewEntryType ==
    ASSUME NEW p \in Pods, NEW plugins \in PluginSets
    PROVE  newEntry(p, plugins) \in Entry
BY QueueAssumption DEF newEntry, Entry

(***************************************************************************)
(* The passage of time makes an entry an entry of the same pod, rejected   *)
(* by the same plugins.                                                    *)
(***************************************************************************)
LEMMA OlderType ==
    ASSUME NEW e \in Entry
    PROVE  /\ older(e) \in Entry
           /\ older(e).pod = e.pod
           /\ older(e).plugins = e.plugins
BY EntryIsNotNil, QueueAssumption DEF older, Entry

----------------------------------------------------------------------------
(* Sequences of pods.                                                      *)

(***************************************************************************)
(* Add and MoveAllToActiveOrBackoffQueue write a longer sequence of pods.  *)
(***************************************************************************)
LEMMA AppendPod ==
    ASSUME NEW s \in Seq(Pods), NEW p \in Pods
    PROVE  Append(s, p) \in Seq(Pods) /\ Append(s, p) # <<>>
BY AppendProperties

(***************************************************************************)
(* An appended pod joins the others, and only a pod that was there already *)
(* makes a duplicate.                                                      *)
(***************************************************************************)
LEMMA AppendInjects ==
    ASSUME NEW s \in Seq(Pods), NEW p \in Pods, IsInjective(s), p \notin Range(s)
    PROVE  /\ IsInjective(Append(s, p))
           /\ Range(Append(s, p)) = Range(s) \cup {p}
<1>1. /\ Append(s, p) \in Seq(Pods)
      /\ Len(Append(s, p)) = Len(s) + 1
      /\ \A i \in 1 .. Len(s) : Append(s, p)[i] = s[i]
      /\ Append(s, p)[Len(s) + 1] = p
  BY AppendProperties
<1>2. DOMAIN s = 1 .. Len(s) /\ DOMAIN Append(s, p) = 1 .. (Len(s) + 1) /\ Len(s) \in Nat
  BY <1>1
<1>3. \A i \in 1 .. (Len(s) + 1) : i \in 1 .. Len(s) \/ i = Len(s) + 1
  BY <1>2
<1>4. \A i \in 1 .. Len(s) : s[i] # p
  BY <1>2 DEF Range
<1>5. IsInjective(Append(s, p))
  BY <1>1, <1>2, <1>3, <1>4 DEF IsInjective
<1>6. Range(Append(s, p)) = Range(s) \cup {p}
  BY <1>1, <1>2, <1>3 DEF Range
<1>7. QED
  BY <1>5, <1>6

(***************************************************************************)
(* Taking the head of a queue without duplicates removes that pod and no   *)
(* other.                                                                  *)
(***************************************************************************)
LEMMA TailRemovesHead ==
    ASSUME NEW s \in Seq(Pods), s # <<>>, IsInjective(s)
    PROVE  /\ IsInjective(Tail(s))
           /\ Range(Tail(s)) = Range(s) \ {Head(s)}
           /\ Head(s) \in Range(s)
<1>1. /\ Tail(s) \in Seq(Pods)
      /\ Len(Tail(s)) = Len(s) - 1
      /\ \A i \in 1 .. Len(Tail(s)) : Tail(s)[i] = s[i + 1]
  BY HeadTailProperties
<1>2. Len(s) \in Nat \ {0} /\ DOMAIN s = 1 .. Len(s) /\ Head(s) = s[1]
  BY EmptySeq
<1>3. DOMAIN Tail(s) = 1 .. (Len(s) - 1)
  BY <1>1
<1>4. \A i \in 1 .. (Len(s) - 1) : i + 1 \in 1 .. Len(s) /\ Tail(s)[i] = s[i + 1]
  BY <1>1, <1>2
<1>5. IsInjective(Tail(s))
  BY <1>2, <1>3, <1>4 DEF IsInjective
<1>6. \A i \in 2 .. Len(s) : i - 1 \in 1 .. (Len(s) - 1) /\ Tail(s)[i - 1] = s[i] /\ s[i] # s[1]
  BY <1>1, <1>2 DEF IsInjective
<1>7. Range(Tail(s)) \subseteq Range(s) \ {Head(s)}
  <2>1. \A i \in 1 .. (Len(s) - 1) : s[i + 1] # s[1]
    BY <1>2, <1>4 DEF IsInjective
  <2>2. QED
    BY <1>2, <1>3, <1>4, <2>1 DEF Range
<1>8. Range(s) \ {Head(s)} \subseteq Range(Tail(s))
  <2>1. SUFFICES ASSUME NEW i \in 1 .. Len(s), s[i] # s[1]
                 PROVE  s[i] \in Range(Tail(s))
    BY <1>2 DEF Range
  <2>2. i \in 2 .. Len(s)
    BY <1>2, <2>1
  <2>3. QED
    BY <1>3, <1>6, <2>2 DEF Range
<1>9. QED
  BY <1>2, <1>5, <1>7, <1>8 DEF Range
=============================================================================
