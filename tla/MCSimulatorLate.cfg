SPECIFICATION SimulatorSpec
CONSTANTS
    DefaultFilterPlugins <- MCDefaultFilterPlugins
    DefaultScorePlugins <- MCDefaultScorePlugins
    DefaultArgs <- MCDefaultArgs
    Nil = Nil
    Malformed = Malformed
    FilterPlugins <- MCFilterPlugins
    ScorePlugins <- MCScorePlugins
    UserConfigs <- MCUserConfigs
    Nodes <- MCNodes
    Scores <- MCScores
    MaxCycles = 2
    MaxUpdates = 1
PROPERTY DeletedIsOnPod
CHECK_DEADLOCK FALSE
