---------------------------- MODULE PodLifecycle ----------------------------
(***************************************************************************)
(* What the scheduling queue promises about pods, one pod at a time and    *)
(* without threads: a pod is at exactly one place, the pods to schedule    *)
(* are handed out first come first served, and a pod that could not be     *)
(* scheduled comes back only from where it was put.                        *)
(*                                                                         *)
(* The queue keeps this promise until two of its threads overwrite each    *)
(* other's update of the active queue; broken says that this happened, and *)
(* nothing is promised from then on.                                       *)
(***************************************************************************)
EXTENDS Sequences

CONSTANTS
    Pods,           \* the pods, by UID
    Key             \* Key[p] is the name of p: two UIDs may have one name

VARIABLES
    place,          \* where each pod is
    fifo,           \* the pods to schedule, in the order in which they came
    broken          \* the promise is void

vars == <<place, fifo, broken>>

Places == {"new", "active", "backoff", "unschedulable", "inflight",
           "bound", "replaced"}

Init ==
    /\ place = [p \in Pods |-> "new"]
    /\ fifo = <<>>
    /\ broken = FALSE

(***************************************************************************)
(* A pod joins the pods to schedule, for the first time or again.          *)
(***************************************************************************)
Activate(p) ==
    /\ place[p] \in {"new", "unschedulable"}
    /\ place' = [place EXCEPT ![p] = "active"]
    /\ fifo' = Append(fifo, p)

(***************************************************************************)
(* A pod that failed a moment ago is put off instead.                      *)
(***************************************************************************)
Delay(p) ==
    /\ place[p] = "unschedulable"
    /\ place' = [place EXCEPT ![p] = "backoff"]
    /\ UNCHANGED fifo

(***************************************************************************)
(* The pod that waited longest is handed out.                              *)
(***************************************************************************)
Take ==
    /\ fifo # <<>>
    /\ place[Head(fifo)] = "active"
    /\ place' = [place EXCEPT ![Head(fifo)] = "inflight"]
    /\ fifo' = Tail(fifo)

(***************************************************************************)
(* A pod that could not be scheduled is given back.  It replaces a pod of  *)
(* the same name that was given back earlier.                              *)
(***************************************************************************)
GiveBack(p) ==
    /\ place[p] = "inflight"
    /\ place' = [q \in Pods |->
                   IF q = p THEN "unschedulable"
                   ELSE IF place[q] = "unschedulable" /\ Key[q] = Key[p]
                        THEN "replaced" ELSE place[q]]
    /\ UNCHANGED fifo

Finish(p) ==
    /\ place[p] = "inflight"
    /\ place' = [place EXCEPT ![p] = "bound"]
    /\ UNCHANGED fifo

Step == Take \/ \E p \in Pods : Activate(p) \/ Delay(p) \/ GiveBack(p) \/ Finish(p)

Next ==
    \/ ~broken /\ ~broken' /\ Step
    \/ broken'

Spec == Init /\ [][Next]_vars
=============================================================================
