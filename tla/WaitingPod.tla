----------------------------- MODULE WaitingPod -----------------------------
(***************************************************************************)
(* One waiting pod and the goroutines that share it: the plugins' calls of *)
(* Allow, the timers' calls of Reject, and the binding goroutine that      *)
(* waits in GetSignal.                                                     *)
(*                                                                         *)
(* Allow holds the mutex as a writer and is one step.  Reject holds it as  *)
(* a reader, so several calls of Reject run side by side: stopping the     *)
(* timers and sending the signal are two steps.  The receiver takes no     *)
(* mutex.                                                                  *)
(***************************************************************************)
EXTENDS WaitingPodData

VARIABLES
    w,              \* the waiting pod
    rejecting,      \* the plugins whose Reject has yet to send
    received,       \* what GetSignal returned
    allowed,        \* history: the plugins that called Allow
    decision        \* history: the first signal that was sent

wvars == <<w, rejecting, received, allowed, decision>>

(***************************************************************************)
(* The state has the right shape.                                          *)
(***************************************************************************)
WaitingPodTypeOK ==
    /\ w \in WaitingPodType
    /\ rejecting \in SUBSET PermitPlugins
    /\ received \in Signal \cup {NoSignal}
    /\ allowed \in SUBSET PermitPlugins
    /\ decision \in Signal \cup {NoSignal}

WaitingPodInit ==
    /\ w = NewWaitingPod
    /\ rejecting = {}
    /\ received = NoSignal
    /\ allowed = {}
    /\ decision = NoSignal

\* The first signal on the channel is the decision.
Decide == decision' = IF decision = NoSignal THEN w'.s ELSE decision

(***************************************************************************)
(* A plugin calls Allow, possibly not for the first time.                  *)
(***************************************************************************)
AllowCall(p) ==
    /\ rejecting = {}
    /\ w' = Allow(w, p)
    /\ allowed' = allowed \cup {p}
    /\ Decide
    /\ UNCHANGED <<rejecting, received>>

(***************************************************************************)
(* The timer of a plugin fires: a goroutine starts that calls Reject.      *)
(***************************************************************************)
Fire(p) ==
    /\ w.timer[p] = "armed"
    /\ w' = [w EXCEPT !.timer[p] = "fired"]
    /\ UNCHANGED <<rejecting, received, allowed, decision>>

RejectStop(p) ==
    /\ w.timer[p] = "fired"
    /\ w' = StopPending([w EXCEPT !.timer[p] = "done"])
    /\ rejecting' = rejecting \cup {p}
    /\ UNCHANGED <<received, allowed, decision>>

RejectSend(p) ==
    /\ p \in rejecting
    /\ w' = Send(w, Unschedulable(p))
    /\ rejecting' = rejecting \ {p}
    /\ Decide
    /\ UNCHANGED <<received, allowed>>

(***************************************************************************)
(* The binding goroutine's one GetSignal returns.                          *)
(***************************************************************************)
GetSignal ==
    /\ received = NoSignal
    /\ w.s # NoSignal
    /\ received' = w.s
    /\ w' = [w EXCEPT !.s = NoSignal]
    /\ UNCHANGED <<rejecting, allowed, decision>>

Timeout(p) == Fire(p) \/ RejectStop(p) \/ RejectSend(p)

WaitingPodNext == \/ GetSignal
                  \/ \E p \in PermitPlugins : AllowCall(p) \/ Timeout(p)

WaitingPodSpec == WaitingPodInit /\ [][WaitingPodNext]_wvars

(***************************************************************************)
(* Timers fire and their goroutines run; so does the binding goroutine.    *)
(* No plugin need ever call Allow.                                         *)
(***************************************************************************)
WaitingPodFairSpec ==
    /\ WaitingPodSpec
    /\ WF_wvars(GetSignal)
    /\ \A p \in PermitPlugins : WF_wvars(Timeout(p))

----------------------------------------------------------------------------
(* Properties.                                                             *)

(***************************************************************************)
(* A success signal, in the channel or received, means that every plugin   *)
(* that asked to wait has called Allow ("only signal success status after  *)
(* all plugins have allowed").                                             *)
(***************************************************************************)
SuccessMeansAllAllowed ==
    Success \in {w.s, received} => allowed = PermitPlugins

(***************************************************************************)
(* The binding goroutine acts on the first decision: later signals, from   *)
(* timers that raced with it, neither replace nor precede it.              *)
(***************************************************************************)
FirstDecisionStands ==
    /\ received = NoSignal => w.s = decision
    /\ received # NoSignal => received = decision

(***************************************************************************)
(* The wait can always end: before a decision, some plugin is pending, and *)
(* its timer is armed or has fired, or a Reject is about to send.  Neither *)
(* Allow nor Reject ever stops the last timer without sending a signal.    *)
(***************************************************************************)
CanStillEnd ==
    decision = NoSignal =>
       \/ rejecting # {}
       \/ /\ w.pendingPlugins # {}
          /\ \A p \in w.pendingPlugins : w.timer[p] \in {"armed", "fired"}

(***************************************************************************)
(* GetSignal returns.                                                      *)
(***************************************************************************)
WaitEnds == <>(received # NoSignal)
=============================================================================
