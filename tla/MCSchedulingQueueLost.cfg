SPECIFICATION QueueFairSpec
CONSTANTS
    Pods <- MCTwoPods
    Keys <- MCKeys
    Key <- MCKey
    Nil = Nil
    Events <- MCEvents
    PluginSets <- MCPluginSets
    clusterEventMap <- MCClusterEventMap
    podInitialBackoffDuration = 1
    podMaxBackoffDuration = 10
    MaxRaces = 1
PROPERTY MovedPodsStay
CHECK_DEADLOCK FALSE
