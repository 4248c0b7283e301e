----------------------------- MODULE ResultStore -----------------------------
(***************************************************************************)
(* The results of one pod's scheduling (scheduler/plugin/resultstore), and *)
(* the simulator's plugins that add to them (scheduler/plugin).  Nested    *)
(* maps are functions of a pair of a node and a plugin.                    *)
(***************************************************************************)
EXTENDS PluginConfig

CONSTANTS
    FilterPlugins,      \* the original plugins that have a Filter method ...
    ScorePlugins        \* ... and those that have a Score method

newData == [filter |-> <<>>, score |-> <<>>, finalscore |-> <<>>]

\* An assignment to an entry of a map.
Put(f, x, v) == [y \in DOMAIN f \cup {x} |-> IF y = x THEN v ELSE f[y]]

OrNew(r) == IF r = Nil THEN newData ELSE r

\* The weights of NewRegistry; a name that is not in the map has weight 0.
applyWeightOnScore(p, s) ==
    LET list == DefaultScorePlugins
    IN  IF \E i \in DOMAIN list : list[i].name = p
        THEN s * list[CHOOSE i \in DOMAIN list : list[i].name = p].weight
        ELSE 0

----------------------------------------------------------------------------
(* The plugins that the scheduler can create by name: those that exist     *)
(* (external) and those of NewRegistry, which wrap the default ones.       *)

Registry == {pluginName(p) : p \in DefaultNames(defaultFilterScorePlugins)}

\* The wrapped plugin, or Nil for a plugin that wraps none.
Original(name) ==
    IF name \in Registry THEN SubSeq(name, 1, Len(name) - 1) ELSE Nil

(***************************************************************************)
(* What a plugin's Filter may decide, and whether its Score does anything. *)
(* A wrapper whose original has no such method succeeds, with a score of 0.*)
(***************************************************************************)
FilterOutcomes(name) ==
    IF name \in Registry /\ Original(name) \notin FilterPlugins THEN {"passed"}
    ELSE {"passed", "blocked"}

HasScore(name) == name \in Registry => Original(name) \in ScorePlugins
=============================================================================
