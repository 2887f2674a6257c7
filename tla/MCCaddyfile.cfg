CONSTANTS
    Inputs <- MCTexts
    Programs <- MCPrograms
    ParenName <- MCParenName
    BlocksKey <- MCBlocksKey
    Globs <- MCGlobs
    MAX_ITERS = 9
    FileWords <- MCFileWords
    MaxTokens = 6
    Jobs <- JobsByTable
    Files <- MCFiles
    DirectiveOrder <- MCDirectiveOrder
SPECIFICATION Spec
INVARIANTS ReadAsWritten DirectivesRead RightSite RoutesInOrder
