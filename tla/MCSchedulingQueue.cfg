SPECIFICATION QueueFairSpec
CONSTANTS
    Pods <- MCPods
    Keys <- MCKeys
    Key <- MCKey
    Nil = Nil
    Events <- MCOneEvent
    PluginSets <- MCTwoPluginSets
    clusterEventMap <- MCClusterEventMap
    podInitialBackoffDuration = 1
    podMaxBackoffDuration = 10
    MaxRaces = 1
INVARIANTS QueueTypeOK OnePlace NeverSlicesEmpty
PROPERTIES MoveLeavesOnlyUnmatched LifecycleSpec ActiveIsHandedOut LockIsReleased
CHECK_DEADLOCK FALSE
