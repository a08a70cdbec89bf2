SPECIFICATION MCSpec
CONSTANTS
    Bodies = {"x", "y", "p"}
    Empty = ""
    Poor = {"p"}
    Shuffle <- MCShuffle
    Seeds <- MCSeeds
    MaxNum = 2
    Contents = {"a", "b"}
    Blank = " "
    MaxTurns = 3
    Steps = 5
    SaveSteps = 2
    SaveTotalLimit = 1
    MaxRuns = 3
    None = None
    MaxRecords = 3
    MaxIterations = 5
    Rewards <- MCRewards
    Words = {"u", "v"}
    MaxWords = 4
    MaxSamples = 5
    MaxSteps = 3
    Values <- MCValues
    Discounts = {0, 1, 2}
    Ratios = {0, 79, 80, 100, 120, 121, 300}
    Amounts = {0, 1, 2, 3, 4}
    Tradeoffs <- MCTradeoffs
    Tiers <- MCTiers
    Cuts <- MCCuts
    Marker = 1
    TopK = 2
    Sentences <- MCSentences
    MaxBudget = 7
    Models = {"m1", "m2"}
    Names = {"mmlu", "ceval", "gsm8k", "humaneval"}
    Questions = 2
    MaxBenchmarks = 2
    MaxCalls = 2
    NoResult = NoResult
INVARIANTS
    
    
    
    TrainedInTurn
    
    ResultsAttributed
CHECK_DEADLOCK FALSE
