--------------------------- MODULE WaitingPodData ---------------------------
(***************************************************************************)
(* The object behind a pod that waits for permission                       *)
(* (minisched/waitingpod/waitingpod.go): the plugins that have not allowed *)
(* the pod yet, a timer for each of them, and a channel with room for one  *)
(* signal.                                                                 *)
(***************************************************************************)
CONSTANTS
    PermitPlugins,  \* the plugins that asked the pod to wait
    NoSignal        \* the channel is empty

\* RunPermitPlugins makes a waiting pod only if a plugin asked to wait.
ASSUME SomePluginWaits == PermitPlugins # {}

ASSUME SignalAssumption ==
    NoSignal \notin [code : {"Success", "Unschedulable"},
                     plugin : PermitPlugins \cup {NoSignal}]

Success == [code |-> "Success", plugin |-> NoSignal]

Unschedulable(p) == [code |-> "Unschedulable", plugin |-> p]

Signal == {Success} \cup {Unschedulable(p) : p \in PermitPlugins}

(***************************************************************************)
(* A timer is armed until it fires or is stopped.  A timer that fired has  *)
(* a goroutine that is about to call Reject: Stop comes too late for it.   *)
(***************************************************************************)
WaitingPodType ==
    [pendingPlugins : SUBSET PermitPlugins,
     timer : [PermitPlugins -> {"armed", "fired", "stopped", "done"}],
     s : Signal \cup {NoSignal}]

NewWaitingPod ==
    [pendingPlugins |-> PermitPlugins,
     timer |-> [p \in PermitPlugins |-> "armed"],
     s |-> NoSignal]

\* Mutant: only the stopped timers are kept.
MutStopDropsOthers(timer, ps) ==
    [p \in ps |-> IF timer[p] = "armed" THEN "stopped" ELSE timer[p]]

Stop(timer, ps) ==
    [p \in PermitPlugins |->
        IF p \in ps /\ timer[p] = "armed" THEN "stopped" ELSE timer[p]]

\* Mutant: a send that replaces the signal in the channel.
MutSendReplaces(w, signal) == [w EXCEPT !.s = signal]

\* The non-blocking send: dropped when the channel is full.
Send(w, signal) == IF w.s = NoSignal THEN [w EXCEPT !.s = signal] ELSE w

\* Mutant: the test for remaining plugins is made before the deletion.
MutAllowTestsFirst(w, p) ==
    LET stopped == [w EXCEPT !.timer = Stop(@, {p} \cap w.pendingPlugins),
                             !.pendingPlugins = @ \ {p}]
    IN  IF w.pendingPlugins # {} THEN stopped ELSE Send(stopped, Success)

\* Mutant: the test for remaining plugins is left out.
MutAllowNoTest(w, p) ==
    Send([w EXCEPT !.timer = Stop(@, {p} \cap w.pendingPlugins),
                   !.pendingPlugins = @ \ {p}], Success)

Allow(w, p) ==
    LET stopped == [w EXCEPT !.timer = Stop(@, {p} \cap w.pendingPlugins),
                             !.pendingPlugins = @ \ {p}]
    IN  IF stopped.pendingPlugins # {} THEN stopped ELSE Send(stopped, Success)

\* The first half of Reject: every pending timer is stopped.
StopPending(w) == [w EXCEPT !.timer = Stop(@, w.pendingPlugins)]

\* The whole of Reject.
Reject(w, p) == Send(StopPending(w), Unschedulable(p))
=============================================================================
