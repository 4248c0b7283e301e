--------------------------- MODULE SchedulingCycle ---------------------------
(***************************************************************************)
(* The decisions of one scheduling cycle (minisched/minisched.go and the   *)
(* plugin NodeNumber): which of the listed nodes are feasible, what they   *)
(* score, which one is selected, and what the permit plugin asks for.      *)
(*                                                                         *)
(* Of a name only the last character matters: a digit, or NaN for any      *)
(* other character.                                                        *)
(***************************************************************************)
EXTENDS Integers, ClusterEvents

CONSTANTS
    PodSuffix,      \* PodSuffix[p], NodeSuffix[n]: a digit or NaN
    NodeSuffix,
    NaN

ASSUME NaNAssumption == NaN \notin 0 .. 9

(***************************************************************************)
(* A list of nodes is a function from names to Spec.Unschedulable, which   *)
(* is all that the filter plugin NodeUnschedulable looks at.               *)
(***************************************************************************)
Filter(unschedulable) == ~unschedulable

feasibleNodes(nodes) == {n \in DOMAIN nodes : Filter(nodes[n])}

\* Mutant: the failure is put down to the other plugin.
MutUnschedulablePlugins(nodes) ==
    IF feasibleNodes(nodes) = DOMAIN nodes THEN {} ELSE {NodeNumber}

\* Diagnosis.UnschedulablePlugins.
UnschedulablePlugins(nodes) ==
    IF feasibleNodes(nodes) = DOMAIN nodes THEN {} ELSE {NodeUnschedulable}

\* What PreScore leaves in the cycle state; NaN stands for no entry.
PreScore(p) == PodSuffix[p]

ScoreError == -1

Score(state, n) ==
    IF state = NaN THEN ScoreError
    ELSE IF NodeSuffix[n] = state THEN 10 ELSE 0

RunScorePlugins(p, nodes) == [n \in nodes |-> Score(PreScore(p), n)]

\* Any node of maximal score: ties are broken at random.
selectHost(score) ==
    {n \in DOMAIN score : \A m \in DOMAIN score : score[m] <= score[n]}

(***************************************************************************)
(* The outcomes of scheduleOne up to selectHost.  A failure carries the    *)
(* plugins that ErrorFunc hands to the queue: those of a FitError, and     *)
(* none for every other failure.                                           *)
(***************************************************************************)
Failure(plugins) == [ok |-> FALSE, plugins |-> plugins]
Selected(n) == [ok |-> TRUE, node |-> n]

scheduleOutcomes(p, nodes) ==
    LET feasible == feasibleNodes(nodes)
        score == RunScorePlugins(p, feasible)
    IN  IF feasible = {} THEN {Failure(UnschedulablePlugins(nodes))}
        ELSE IF \E n \in feasible : score[n] = ScoreError THEN {Failure({})}
        ELSE {Selected(n) : n \in selectHost(score)}

\* Permit asks the pod to wait, and arms a timer, if the node ends in a digit.
PermitWaits(n) == NodeSuffix[n] # NaN
=============================================================================
