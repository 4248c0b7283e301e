------------------------ MODULE WaitingPodDataProofs ------------------------
(***************************************************************************)
(* Lemmas about what Allow and Reject do to a waiting pod, for the proofs  *)
(* about waiting pods alone and about the whole scheduler.                 *)
(***************************************************************************)
EXTENDS WaitingPodData, TLAPS

(***************************************************************************)
(* No signal is not a signal.                                              *)
(***************************************************************************)
LEMMA SignalIsNotNoSignal ==
    /\ NoSignal \notin Signal
    /\ \A p \in PermitPlugins : Unschedulable(p) # Success
BY SignalAssumption DEF Signal, Success, Unschedulable

(***************************************************************************)
(* Stopping timers leaves timers; one that fired stays fired.              *)
(***************************************************************************)
LEMMA StopType ==
    ASSUME NEW timer \in [PermitPlugins -> {"armed", "fired", "stopped", "done"}],
           NEW ps \in SUBSET PermitPlugins
    PROVE  /\ Stop(timer, ps) \in [PermitPlugins -> {"armed", "fired", "stopped", "done"}]
           /\ \A p \in PermitPlugins \ ps : Stop(timer, ps)[p] = timer[p]
BY DEF Stop

(***************************************************************************)
(* What a send does to a waiting pod.                                      *)
(***************************************************************************)
LEMMA SendEffect ==
    ASSUME NEW v \in WaitingPodType, NEW signal \in Signal
    PROVE  /\ Send(v, signal) \in WaitingPodType
           /\ Send(v, signal).pendingPlugins = v.pendingPlugins
           /\ Send(v, signal).timer = v.timer
           /\ Send(v, signal).s = IF v.s = NoSignal THEN signal ELSE v.s
BY DEF Send, WaitingPodType

(***************************************************************************)
(* What Allow does: the plugin is no longer pending, its timer is stopped, *)
(* and a signal is sent if it was the last.                                *)
(***************************************************************************)
LEMMA AllowEffect ==
    ASSUME NEW v \in WaitingPodType, NEW p \in PermitPlugins
    PROVE  /\ Allow(v, p) \in WaitingPodType
           /\ Allow(v, p).pendingPlugins = v.pendingPlugins \ {p}
           /\ \A q \in PermitPlugins \ {p} : Allow(v, p).timer[q] = v.timer[q]
           /\ Allow(v, p).s = IF v.pendingPlugins \ {p} = {} /\ v.s = NoSignal
                              THEN Success ELSE v.s
<1> DEFINE stopped == [v EXCEPT !.timer = Stop(@, {p} \cap v.pendingPlugins),
                                !.pendingPlugins = @ \ {p}]
<1>1. /\ Stop(v.timer, {p} \cap v.pendingPlugins)
            \in [PermitPlugins -> {"armed", "fired", "stopped", "done"}]
      /\ \A q \in PermitPlugins \ {p} : Stop(v.timer, {p} \cap v.pendingPlugins)[q] = v.timer[q]
  BY StopType DEF WaitingPodType
<1>2. /\ stopped \in WaitingPodType
      /\ stopped.pendingPlugins = v.pendingPlugins \ {p}
      /\ stopped.timer = Stop(v.timer, {p} \cap v.pendingPlugins)
      /\ stopped.s = v.s
  BY <1>1 DEF WaitingPodType
<1>3. Allow(v, p) = IF stopped.pendingPlugins # {} THEN stopped ELSE Send(stopped, Success)
  BY DEF Allow
<1>4. Success \in Signal
  BY DEF Signal
<1> HIDE DEF stopped
<1>5. CASE stopped.pendingPlugins # {}
  BY <1>1, <1>2, <1>3, <1>5
<1>6. CASE stopped.pendingPlugins = {}
  <2>1. Allow(v, p) = Send(stopped, Success)
    BY <1>3, <1>6
  <2>2. /\ Send(stopped, Success) \in WaitingPodType
        /\ Send(stopped, Success).pendingPlugins = stopped.pendingPlugins
        /\ Send(stopped, Success).timer = stopped.timer
        /\ Send(stopped, Success).s = IF stopped.s = NoSignal THEN Success ELSE stopped.s
    BY <1>2, <1>4, SendEffect
  <2>3. \A q \in PermitPlugins \ {p} : Allow(v, p).timer[q] = v.timer[q]
    BY <1>1, <1>2, <2>1, <2>2
  <2>4. QED
    BY <1>2, <1>6, <2>1, <2>2, <2>3
<1>7. QED
  BY <1>5, <1>6

(***************************************************************************)
(* What the first half of Reject does.                                     *)
(***************************************************************************)
LEMMA StopPendingEffect ==
    ASSUME NEW v \in WaitingPodType
    PROVE  /\ StopPending(v) \in WaitingPodType
           /\ StopPending(v).pendingPlugins = v.pendingPlugins
           /\ StopPending(v).s = v.s
BY StopType DEF StopPending, WaitingPodType
=============================================================================
