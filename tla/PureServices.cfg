\* Batches of two and three, pools of up to three, sessions of up to four edits; one or two
\* jobs, searches and requests in a row.
CONSTANTS
    Batches <- MCBatches
    Checks <- MCChecks
    AstWeight = 6
    EmbeddingWeight = 4
    Threshold = 8000
    Scale = 10000
    Sessions <- MCSessions
    Jobs <- MCJobs
    Languages = {"python", "go"}
    Cosines <- MCCosines
    Vanishing <- MCVanishing
    Full = 100000
    Searches <- MCSearches
    Blank = " "
    CacheCap = 2
    Asks <- MCAsks
    Orientations <- Catalogue
    Domains = {"code", "design", "game", "security"}
    Tones = {"serious", "fun", "absurd"}
    Variants <- MCVariants
    ModelAnswers <- MCAnswers
    Profiles <- MCProfiles
    Advice <- MCAdvice
SPECIFICATION ServicesSpec
INVARIANTS
    ServicesTypeOK
    RankingIsComplete BetterNeverBehind
     FlagCoversPlagiarism VerdictCitesItsMatch
    FramesShowTheEdits ReplayLengthBounded
    CopiesScoreFull ScoredAlike
    SameKeySamePrompt VariantMovesItsDimension CareerStaysInCatalogue
PROPERTIES
    PaidVariantsCome
\* A job is over when its result is there.
CHECK_DEADLOCK FALSE
