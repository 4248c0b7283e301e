SPECIFICATION SimulatorFairSpec
CONSTANTS
    DefaultFilterPlugins <- MCDefaultFilterPlugins
    DefaultScorePlugins <- MCDefaultScorePlugins
    DefaultArgs <- MCDefaultArgs
    Nil = Nil
    Malformed = Malformed
    FilterPlugins <- MCFilterPlugins
    ScorePlugins <- MCScorePlugins
    UserConfigs <- MCUserConfigs
    Nodes <- MCNodes
    Scores <- MCScores
    MaxCycles = 2
    MaxUpdates = 1
INVARIANTS SimulatorTypeOK  OneConfigPerPlugin ConvertsOnce
           HandlerFindsResults OneScoreLacksFinalScore
PROPERTIES ReportedResultsLeave OnlyLateResultsAreLost
CHECK_DEADLOCK FALSE
