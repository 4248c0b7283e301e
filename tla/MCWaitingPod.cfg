SPECIFICATION WaitingPodFairSpec
CONSTANTS
    PermitPlugins = {NodeNumber, Quota, Gang}
    NoSignal = NoSignal
INVARIANTS WaitingPodTypeOK SuccessMeansAllAllowed FirstDecisionStands CanStillEnd
PROPERTY WaitEnds
