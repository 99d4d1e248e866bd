SPECIFICATION FairSpec
CONSTANTS
    Order <- MCOrder
    Targets <- MCTargets
    Type <- MCType
    Standing <- MCStanding
    Tries <- MCTries
    Docs <- MCDocs
    Merits <- MCMerits
    Unit <- MCUnit
    MaxBatch = 2
    MaxResults = 2
    MaxTargets = 2
INVARIANTS
    TypeOK
    NothingLost
    AgreedFirst
    ResultsWellChosen
    AnswerHonest
PROPERTIES
    SearchEnds
CHECK_DEADLOCK FALSE
