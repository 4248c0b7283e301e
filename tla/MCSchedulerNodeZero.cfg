SPECIFICATION SchedulerSpec
CONSTANTS
    Pods <- MCOnePod
    Keys <- MCKeys
    Key <- MCKey
    Nil = Nil
    PluginSets <- MCPluginSets
    clusterEventMap <- MCClusterEventMap
    podInitialBackoffDuration = 1
    podMaxBackoffDuration = 10
    PodSuffix <- MCPodSuffix
    NodeSuffix <- MCNodeSuffix
    NaN = NaN
    PermitPlugins <- MCPermitPlugins
    NoSignal = NoSignal
    Nodes <- MCNodeZero
    Off = Off
    PermitTimeout = 2
    MaxChanges = 2
INVARIANT TimerFindsWaitingPod
CHECK_DEADLOCK FALSE
