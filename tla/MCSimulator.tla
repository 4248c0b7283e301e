----------------------------- MODULE MCSimulator -----------------------------
(***************************************************************************)
(* Simulator on a small instance: four default plugins of which one only   *)
(* filters, one only scores, one does both, and one does neither.          *)
(***************************************************************************)
EXTENDS Simulator

Fit == <<"NodeResourcesFit">>
NodeName == <<"NodeName">>
Locality == <<"ImageLocality">>
Preemption == <<"DefaultPreemption">>
Other == <<"OtherPlugin">>

Plugin(name, w) == [name |-> name, weight |-> w]

MCDefaultFilterPlugins == << Plugin(NodeName, 0), Plugin(Fit, 0) >>
MCDefaultScorePlugins == << Plugin(Fit, 2), Plugin(Locality, 1) >>
MCFilterPlugins == {NodeName, Fit}
MCScorePlugins == {Fit, Locality}

MCDefaultArgs == Fit :> [a |-> 0, b |-> 0] @@ Preemption :> [a |-> 0, b |-> 0]

MCNodes == {"node1"}
MCScores == {1}

\* Profiles that differ in their plugins; the two sets are converted alike.
PluginSet(on, off) == [enabled |-> on, disabled |-> off]

FilterSets == << PluginSet(<<>>, {}), PluginSet(<<>>, {Fit}),
                 PluginSet(<<Plugin(Other, 0)>>, {NodeName}),
                 PluginSet(<<Plugin(NodeName, 0), Plugin(pluginName(Locality), 0)>>, {All}) >>

ScoreSets == << PluginSet(<<>>, {}), PluginSet(<<>>, {Locality}),
                PluginSet(<<Plugin(Fit, 3)>>, {Fit}),
                PluginSet(<<Plugin(pluginName(NodeName), 1)>>, {All}) >>

Profile(pls, pc) == [plugins |-> pls, pluginConfig |-> pc]

PluginProfiles ==
    {Profile([filter |-> FilterSets[i], score |-> ScoreSets[j]], <<>>) :
        <<i, j>> \in {<<1, 1>>, <<2, 2>>, <<3, 3>>, <<4, 4>>, <<1, 4>>, <<4, 1>>}}

\* Profiles that differ in their plugins' configurations.
Entry == {e \in [name : {Fit, Preemption, Other},
                 raw : {Nil, [a |-> 1], Malformed}, object : {Nil, [a |-> 2, b |-> 2]}] :
             e.raw # Malformed \/ e.object = Nil}

ConfigProfiles == {Profile(Nil, <<e>>) : e \in Entry}
                  \cup {Profile(Nil, <<e, f>>) : e, f \in Entry}

Bad == Profile(Nil, << [name |-> Fit, raw |-> Malformed, object |-> Nil] >>)

MCUserConfigs == {<<>>} \cup {<<p>> : p \in PluginProfiles \cup ConfigProfiles}
                 \cup {<<p, Bad>> : p \in PluginProfiles}
=============================================================================
