SPECIFICATION SchedulerSpec
CONSTANTS
    Pods <- MCTwoIncarnations
    Keys <- MCKeys
    Key <- MCKey
    Nil = Nil
    PluginSets <- MCPluginSets
    clusterEventMap <- MCClusterEventMap
    podInitialBackoffDuration = 1
    podMaxBackoffDuration = 10
    PodSuffix <- MCPodSuffix
    NodeSuffix <- MCNodeSuffix
    NaN = NaN
    PermitPlugins <- MCPermitPlugins
    NoSignal = NoSignal
    Nodes <- MCNodes
    Off = Off
    PermitTimeout = 2
    MaxChanges = 2
INVARIANTS SchedulerTypeOK AtOnePlace WaitingPodHasBinder DelayIsKept
PROPERTIES LifecycleSpec EveryEventReleasesAll
CHECK_DEADLOCK FALSE
