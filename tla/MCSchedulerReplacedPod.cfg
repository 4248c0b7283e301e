SPECIFICATION SchedulerSpec
CONSTANTS
    Pods <- MCTwoIncarnations
    Keys <- MCKeys
    Key <- MCKey
    Nil = Nil
    PluginSets <- MCPluginSets
    clusterEventMap <- MCClusterEventMap
    podInitialBackoffDuration = 1
    podMaxBackoffDuration = 10
    PodSuffix <- MCPodSuffix
    NodeSuffix <- MCNodeSuffix
    NaN = NaN
    PermitPlugins <- MCPermitPlugins
    NoSignal = NoSignal
    Nodes <- MCNodeOne
    Off = Off
    PermitTimeout = 2
    MaxChanges = 2
INVARIANT LivePodIsKept
CHECK_DEADLOCK FALSE
