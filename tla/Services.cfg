SPECIFICATION MCSpec
CONSTANTS
    Calls = {c1, c2}
    None = None
    Gamma = 2
    MaxTokens = 5
    MaxDraft = 3
    Keys <- MCKeys
    MaxSize = 2
    MaxUses = 6
    Sentences = {"s1", "s2", "s3"}
    Size <- MCSize
    Hits <- MCHits
    Texts <- MCTexts
    Budgets <- MCBudgets
    DefaultBudget = 5
    TopK = 2
    KeyCount = 1
    Levels <- MCLevels
    Cuts <- MCCuts
    MaxText = 6
    Sizes = {2, 3}
    Overlaps = {0, 1, 3}
    Documents = {"d1", "d2"}
    Editions <- MCEditions
    Matching = {"a"}
    MaxIndexed = 5
INVARIANTS
    OneGeneration
    MetricsLoseOnlyOverlaps
    BudgetKept
    EvictsLeastRecent
    
    RelevantThenNewest
    NothingLost
    
PROPERTIES
    AnswersEnd
    DecoderSpec
    ResultsConsistent
CHECK_DEADLOCK FALSE
