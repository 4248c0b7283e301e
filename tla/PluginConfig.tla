---------------------------- MODULE PluginConfig ----------------------------
(***************************************************************************)
(* The conversion of a scheduler configuration for the simulator           *)
(* (scheduler/scheduler.go, scheduler/plugin/plugins.go): the default      *)
(* filter and score plugins are replaced by plugins that wrap them and     *)
(* record what they decide.                                                *)
(*                                                                         *)
(* A plugin's name is a sequence of words, so that the name of a wrapping  *)
(* plugin can be built from that of the wrapped one.  The arguments of a   *)
(* plugin are a function of the names of fields.  A disabled list is the   *)
(* set of its names.                                                       *)
(***************************************************************************)
EXTENDS Integers, Sequences, FiniteSets, SequencesExt

CONSTANTS
    DefaultFilterPlugins,   \* the default plugins: sequences of ...
    DefaultScorePlugins,    \* ... records of a name and a weight
    DefaultArgs,            \* the default plugins' arguments, by name
    Nil,
    Malformed               \* raw arguments that are no JSON

pluginSuffix == "ForSimulator"

\* The names of plugins that wrap none.
PlainNames == Seq(STRING \ {pluginSuffix})

(***************************************************************************)
(* Of kube-scheduler's defaults: a name is there once within a list, none  *)
(* has the suffix, and some filter or score plugin has default arguments.  *)
(* A weight that is not set counts as 0.                                   *)
(***************************************************************************)
ASSUME PluginAssumption ==
    /\ \A list \in {DefaultFilterPlugins, DefaultScorePlugins} :
          /\ list \in Seq([name : PlainNames, weight : Nat])
          /\ \A i, j \in DOMAIN list : list[i].name = list[j].name => i = j
    /\ IsFiniteSet(DOMAIN DefaultArgs) /\ DOMAIN DefaultArgs \subseteq PlainNames
    /\ \E list \in {DefaultFilterPlugins, DefaultScorePlugins} :
          \E i \in DOMAIN list : list[i].name \in DOMAIN DefaultArgs

pluginName(name) == Append(name, pluginSuffix)

All == <<"*">>

defaultFilterScorePlugins == DefaultScorePlugins \o DefaultFilterPlugins

DefaultNames(list) == {list[i].name : i \in DOMAIN list}

\* What a loop over a list appends: the elements at these indices, in order.
Rank(I, i) == Cardinality({j \in I : j <= i})

Sublist(list, I) ==
    [k \in 1 .. Cardinality(I) |-> list[CHOOSE i \in I : Rank(I, i) = k]]

----------------------------------------------------------------------------
(* ConvertForSimulator.                                                    *)

Wrapper(dp) == [name |-> pluginName(dp.name), weight |-> dp.weight]

\* Mutant: what the user disabled is enabled all the same.
MutConvertSetKeepsDisabled(pls, defaults) ==
    [enabled |-> IF All \in pls.disabled THEN pls.enabled
                 ELSE [i \in DOMAIN defaults |-> Wrapper(defaults[i])],
     disabled |-> {All}]

(***************************************************************************)
(* One of the two plugin sets.  The user's own enabled list survives only  *)
(* if the user disables all default plugins.                               *)
(***************************************************************************)
ConvertSet(pls, defaults) ==
    LET kept == Sublist(defaults, {i \in DOMAIN defaults :
                                      defaults[i].name \notin pls.disabled})
    IN  [enabled |-> IF All \in pls.disabled THEN pls.enabled
                     ELSE [i \in DOMAIN kept |-> Wrapper(kept[i])],
         disabled |-> {All}]

ConvertForSimulator(pls) ==
    [filter |-> ConvertSet(pls.filter, DefaultFilterPlugins),
     score |-> ConvertSet(pls.score, DefaultScorePlugins)]

----------------------------------------------------------------------------
(* NewPluginConfig.                                                        *)

\* A loop ends with the first of its steps that is not ok.
LoopOutcome(steps) ==
    LET endsWith(o) == \E i \in DOMAIN steps :
                          /\ steps[i] = o
                          /\ \A j \in DOMAIN steps : j < i => steps[j] = "ok"
    IN  CASE endsWith("panic") -> "panic"
          [] endsWith("error") -> "error"
          [] OTHER -> "ok"

(***************************************************************************)
(* An entry of the user overrides the arguments that are there; malformed  *)
(* ones end in an error.  A name that has no arguments to override         *)
(* dereferences nil, unless the entry has no arguments either.             *)
(***************************************************************************)
EntryOutcome(e) ==
    IF e.name \notin DOMAIN DefaultArgs
    THEN IF e.raw = Nil /\ e.object = Nil THEN "ok" ELSE "panic"
    ELSE IF e.raw = Malformed THEN "error" ELSE "ok"

\* Mutant: a name without default arguments is passed over.
MutConfigOutcomeSkipsUnknown(pc) ==
    LoopOutcome([i \in DOMAIN pc |-> IF pc[i].name \in DOMAIN DefaultArgs
                                     THEN EntryOutcome(pc[i]) ELSE "ok"])

(***************************************************************************)
(* The outcome of NewPluginConfig.  A name without arguments that went     *)
(* through is dereferenced when the list is made.                          *)
(***************************************************************************)
ConfigOutcome(pc) ==
    LET loop == LoopOutcome([i \in DOMAIN pc |-> EntryOutcome(pc[i])])
    IN  IF loop = "ok" /\ \E i \in DOMAIN pc : pc[i].name \notin DOMAIN DefaultArgs
        THEN "panic" ELSE loop

\* Raw arguments override field by field, an object as a whole.
Override(args, e) ==
    IF e.object # Nil THEN e.object
    ELSE IF e.raw # Nil THEN e.raw @@ args ELSE args

\* The arguments that the entries of the user leave, for each default plugin.
Arguments(pc) ==
    [n \in DOMAIN DefaultArgs |->
        FoldLeft(Override, DefaultArgs[n], SelectSeq(pc, LAMBDA e : e.name = n))]

\* Mutant: a plugin that filters and scores is listed twice.
MutWithArgsTwice(list) == {i \in DOMAIN list : list[i].name \in DOMAIN DefaultArgs}

\* The plugins whose wrapper gets the arguments of the plugin, once.
WithArgs(list) ==
    {i \in DOMAIN list : /\ list[i].name \in DOMAIN DefaultArgs
                         /\ \A j \in 1 .. i - 1 : list[j].name # list[i].name}

ConfigEntry(name, args) == [name |-> name, raw |-> Nil, object |-> args]

(***************************************************************************)
(* NewPluginConfig when nothing fails.  The list has the default plugins   *)
(* first, in the order of a Go map, that is in any order.                  *)
(***************************************************************************)
NewPluginConfig(pc) ==
    LET args == Arguments(pc)
        names == SetToSeq(DOMAIN DefaultArgs)
        wrapped == Sublist(defaultFilterScorePlugins, WithArgs(defaultFilterScorePlugins))
    IN  [i \in DOMAIN names |-> ConfigEntry(names[i], args[names[i]])]
        \o [i \in DOMAIN wrapped |->
               ConfigEntry(pluginName(wrapped[i].name), args[wrapped[i].name])]

----------------------------------------------------------------------------
(* convertConfigurationForSimulator.                                       *)

NoPlugins == [filter |-> [enabled |-> <<>>, disabled |-> {}],
              score |-> [enabled |-> <<>>, disabled |-> {}]]

(***************************************************************************)
(* One profile.  Plugins are replaced in the caller's object before the    *)
(* plugin configurations are looked at.                                    *)
(***************************************************************************)
ConvertProfile(prof) ==
    [plugins |-> ConvertForSimulator(IF prof.plugins = Nil THEN NoPlugins
                                                           ELSE prof.plugins),
     pluginConfig |-> IF ConfigOutcome(prof.pluginConfig) = "ok"
                      THEN NewPluginConfig(prof.pluginConfig)
                      ELSE prof.pluginConfig]

\* What is converted: without a profile there is a default one.
GivenProfiles(profiles) ==
    IF profiles = <<>> THEN << [plugins |-> NoPlugins, pluginConfig |-> <<>>] >>
    ELSE profiles

(***************************************************************************)
(* What becomes of the profiles of the caller's object, and the outcome.   *)
(* The object is changed in place, profile by profile, up to the one that  *)
(* fails.  Of the result only the profiles are not the default.  At the    *)
(* end SetDefaults fills the same profiles in: it adds no filter and no    *)
(* score plugin, since all default ones are disabled by then, and takes    *)
(* no plugin configuration away.                                           *)
(***************************************************************************)
convertConfigurationForSimulator(profiles) ==
    LET given == GivenProfiles(profiles)
        steps == [i \in DOMAIN given |-> ConfigOutcome(given[i].pluginConfig)]
        reached(i) == \A j \in DOMAIN given : j < i => steps[j] = "ok"
    IN  [outcome |-> LoopOutcome(steps),
         profiles |-> [i \in DOMAIN given |->
                          IF reached(i) THEN ConvertProfile(given[i]) ELSE given[i]]]
=============================================================================
