SPECIFICATION ServiceSpec
CONSTANTS
    Pods = {"pod1"}
    MaxGen = 2
    MaxEvents = 0
INVARIANT HandleFindsWaitingPod
CHECK_DEADLOCK FALSE
