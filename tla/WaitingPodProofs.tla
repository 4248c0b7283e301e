--------------------------- MODULE WaitingPodProofs ---------------------------
(***************************************************************************)
(* Proofs about WaitingPod, for any set of plugins that ask to wait.       *)
(***************************************************************************)
EXTENDS WaitingPod, WaitingPodDataProofs

----------------------------------------------------------------------------
(* The inductive invariant.  Plugins that are no longer pending have       *)
(* called Allow; a signal was sent exactly when there is a decision; a     *)
(* decision for success was made with no plugin pending.                   *)

WaitInv ==
    /\ WaitingPodTypeOK
    /\ PermitPlugins \ w.pendingPlugins \subseteq allowed
    /\ Success \in {w.s, received, decision} => w.pendingPlugins = {}
    /\ received = NoSignal => w.s = decision
    /\ received # NoSignal => received = decision
    /\ CanStillEnd

(***************************************************************************)
(* The initial state satisfies the invariant.                              *)
(***************************************************************************)
LEMMA WaitInit == WaitingPodInit => WaitInv
BY SomePluginWaits, SignalIsNotNoSignal
   DEF WaitingPodInit, WaitInv, WaitingPodTypeOK, WaitingPodType, NewWaitingPod,
       CanStillEnd, Signal, Success

(***************************************************************************)
(* Every step keeps the invariant.                                         *)
(***************************************************************************)
LEMMA WaitStep == WaitInv /\ [WaitingPodNext]_wvars => WaitInv'
<1> SUFFICES ASSUME WaitInv, [WaitingPodNext]_wvars PROVE WaitInv'
  OBVIOUS
<1>0. /\ w \in WaitingPodType
      /\ w.s \in Signal \cup {NoSignal}
      /\ w.pendingPlugins \subseteq PermitPlugins
      /\ w.timer \in [PermitPlugins -> {"armed", "fired", "stopped", "done"}]
      /\ Success \in Signal
  BY DEF WaitInv, WaitingPodTypeOK, WaitingPodType, Signal
<1>1. CASE UNCHANGED wvars
  BY <1>1 DEF wvars, WaitInv, WaitingPodTypeOK, CanStillEnd
<1>2. ASSUME NEW p \in PermitPlugins, AllowCall(p) PROVE WaitInv'
  <2>1. /\ w' \in WaitingPodType
        /\ w'.pendingPlugins = w.pendingPlugins \ {p}
        /\ \A q \in PermitPlugins \ {p} : w'.timer[q] = w.timer[q]
        /\ w'.s = IF w.pendingPlugins \ {p} = {} /\ w.s = NoSignal
                  THEN Success ELSE w.s
    BY <1>0, <1>2, AllowEffect DEF AllowCall
  <2>2. WaitingPodTypeOK'
    BY <1>0, <1>2, <2>1 DEF AllowCall, Decide, WaitInv, WaitingPodTypeOK
  <2>3. QED
    BY <1>0, <1>2, <2>1, <2>2, SignalIsNotNoSignal
       DEF AllowCall, Decide, WaitInv, CanStillEnd, WaitingPodTypeOK
<1>3. ASSUME NEW p \in PermitPlugins, Fire(p) PROVE WaitInv'
  <2>1. /\ w' \in WaitingPodType
        /\ w'.pendingPlugins = w.pendingPlugins
        /\ \A q \in PermitPlugins : w'.timer[q] = IF q = p THEN "fired" ELSE w.timer[q]
        /\ w'.s = w.s
    BY <1>0, <1>3 DEF Fire, WaitingPodType
  <2>2. QED
    BY <1>0, <1>3, <2>1 DEF Fire, WaitInv, CanStillEnd, WaitingPodTypeOK
<1>4. ASSUME NEW p \in PermitPlugins, RejectStop(p) PROVE WaitInv'
  <2>1. [w EXCEPT !.timer[p] = "done"] \in WaitingPodType
    BY <1>0 DEF WaitingPodType
  <2>2. /\ w' \in WaitingPodType
        /\ w'.pendingPlugins = w.pendingPlugins
        /\ w'.s = w.s
    BY <1>0, <1>4, <2>1, StopPendingEffect DEF RejectStop, WaitingPodType
  <2>3. QED
    BY <1>0, <1>4, <2>2 DEF RejectStop, WaitInv, CanStillEnd, WaitingPodTypeOK
<1>5. ASSUME NEW p \in PermitPlugins, RejectSend(p) PROVE WaitInv'
  <2>1. Unschedulable(p) \in Signal
    BY DEF Signal
  <2>2. /\ w' \in WaitingPodType
        /\ w'.pendingPlugins = w.pendingPlugins
        /\ w'.timer = w.timer
        /\ w'.s = IF w.s = NoSignal THEN Unschedulable(p) ELSE w.s
    BY <1>0, <1>5, <2>1, SendEffect DEF RejectSend
  <2>3. WaitingPodTypeOK'
    BY <1>0, <1>5, <2>1, <2>2 DEF RejectSend, Decide, WaitInv, WaitingPodTypeOK
  <2>4. decision' # NoSignal
    BY <1>0, <1>5, <2>1, <2>2, SignalIsNotNoSignal DEF RejectSend, Decide
  <2>5. QED
    BY <1>0, <1>5, <2>1, <2>2, <2>3, <2>4, SignalIsNotNoSignal
       DEF RejectSend, Decide, WaitInv, CanStillEnd, WaitingPodTypeOK
<1>6. CASE GetSignal
  <2>1. /\ w' \in WaitingPodType
        /\ w'.pendingPlugins = w.pendingPlugins
        /\ w'.timer = w.timer
        /\ w'.s = NoSignal
    BY <1>0, <1>6 DEF GetSignal, WaitingPodType
  <2>2. QED
    BY <1>0, <1>6, <2>1, SignalIsNotNoSignal
       DEF GetSignal, WaitInv, CanStillEnd, WaitingPodTypeOK
<1>7. QED
  BY <1>1, <1>2, <1>3, <1>4, <1>5, <1>6 DEF WaitingPodNext, Timeout

----------------------------------------------------------------------------
(* The theorems.                                                           *)

(***************************************************************************)
(* The invariant holds at every step.                                      *)
(***************************************************************************)
LEMMA WaitInvariant == WaitingPodSpec => []WaitInv
BY WaitInit, WaitStep, PTL DEF WaitingPodSpec

(***************************************************************************)
(* The state of a waiting pod keeps its shape.                             *)
(***************************************************************************)
THEOREM WaitingPodTypeCorrect == WaitingPodSpec => []WaitingPodTypeOK
<1>1. WaitInv => WaitingPodTypeOK
  BY DEF WaitInv
<1>2. QED
  BY <1>1, WaitInvariant, PTL

(***************************************************************************)
(* The binding goroutine is told success only when every plugin that asked *)
(* to wait has called Allow, however Allow and the timers' Reject race.    *)
(***************************************************************************)
THEOREM NoPrematureSuccess == WaitingPodSpec => []SuccessMeansAllAllowed
<1>1. WaitInv => SuccessMeansAllAllowed
  BY DEF WaitInv, WaitingPodTypeOK, SuccessMeansAllAllowed
<1>2. QED
  BY <1>1, WaitInvariant, PTL

(***************************************************************************)
(* The binding goroutine receives the first signal that was sent.          *)
(***************************************************************************)
THEOREM FirstDecisionWins == WaitingPodSpec => []FirstDecisionStands
<1>1. WaitInv => FirstDecisionStands
  BY DEF WaitInv, FirstDecisionStands
<1>2. QED
  BY <1>1, WaitInvariant, PTL

(***************************************************************************)
(* The wait is never stuck: until a signal is sent, a timer is running, or *)
(* a Reject is on its way.                                                 *)
(***************************************************************************)
THEOREM WaitIsNeverStuck == WaitingPodSpec => []CanStillEnd
<1>1. WaitInv => CanStillEnd
  BY DEF WaitInv
<1>2. QED
  BY <1>1, WaitInvariant, PTL
=============================================================================
