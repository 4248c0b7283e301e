SPECIFICATION ServiceFairSpec
CONSTANTS
    Pods = {"pod1"}
    MaxGen = 3
    MaxEvents = 2
INVARIANTS ServiceTypeOK OneLiveScheduler RestartLosesNoPod
           CloseWaitsForRequestsOnly
PROPERTIES MainExits OldGoroutinesEnd PodSettles
CHECK_DEADLOCK FALSE
