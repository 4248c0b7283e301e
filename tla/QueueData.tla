----------------------------- MODULE QueueData -----------------------------
(***************************************************************************)
(* The entries of the scheduling queue (minisched/queue/queue.go): keys,   *)
(* backoff, and whether an event moves an entry.                           *)
(***************************************************************************)
EXTENDS Integers, ClusterEvents

CONSTANTS
    Pods,           \* the pods, by UID
    Keys,           \* their names with the namespace
    Key,            \* Key[p] is keyFunc of p: a pod that was deleted and
                    \* created again has a new UID and its old key
    Nil,            \* no entry, no pod
    PluginSets,     \* the sets of plugins that may have rejected a pod
    clusterEventMap,
    podInitialBackoffDuration,
    podMaxBackoffDuration

ASSUME QueueAssumption ==
    /\ Key \in [Pods -> Keys]
    /\ Nil \notin Pods
    /\ Nil \notin [pod : Pods, age : Nat, plugins : PluginSets]
    /\ podInitialBackoffDuration \in Nat \ {0}
    /\ podMaxBackoffDuration \in Nat

(***************************************************************************)
(* calculateBackoffDuration(attempts): doubled for every attempt after the *)
(* first, at most podMaxBackoffDuration.                                   *)
(***************************************************************************)
calculateBackoffDuration(attempts) ==
    LET after[i \in Nat] ==
            IF i <= 1 THEN podInitialBackoffDuration
            ELSE IF after[i - 1] > podMaxBackoffDuration - after[i - 1]
                 THEN podMaxBackoffDuration
                 ELSE 2 * after[i - 1]
    IN  after[attempts]

(***************************************************************************)
(* A pod's entry keeps the time since its timestamp instead of the         *)
(* timestamp, counted up to the moment when the backoff is over.  Nothing  *)
(* in the repository sets Attempts, so it is 0.                            *)
(***************************************************************************)
Entry == [pod : Pods, age : 0 .. podInitialBackoffDuration, plugins : PluginSets]

newEntry(p, plugins) == [pod |-> p, age |-> 0, plugins |-> plugins]

isPodBackingoff(entry) == entry.age < calculateBackoffDuration(0)

\* Mutant: a pod that failed with no plugin named is matched like the others.
MutNotHelped(entry, event) ==
    ~podMatchesEvent(clusterEventMap, entry.plugins, event)

\* MoveAllToActiveOrBackoffQueue leaves this entry where it is.
notHelped(entry, event) ==
    /\ entry.plugins # {}
    /\ ~podMatchesEvent(clusterEventMap, entry.plugins, event)

(***************************************************************************)
(* An entry after a unit of time.                                          *)
(***************************************************************************)
older(entry) ==
    IF entry = Nil THEN Nil
    ELSE IF entry.age < podInitialBackoffDuration
         THEN [entry EXCEPT !.age = @ + 1] ELSE entry

=============================================================================
