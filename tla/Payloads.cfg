CONSTANTS
    k1 = k1
    k2 = k2
    Limit = 5
    Half = 128
    NoId = NoId
    Keys = {k1, k2}
    Letters = {"a"}
    Texts <- MCTexts
    Markdowns <- MCMarkdowns
    Uploads <- MCUploads
    Downloads <- MCDownloads
    Quotes <- MCQuotes
    Answers <- MCAnswers
    Agents <- MCAgents
    MaxAgent = 13
    MaxComment = 4
SPECIFICATION Spec
CHECK_DEADLOCK FALSE
INVARIANTS
    TypeOK
    ChunksTile
    ChunksFit
    LettersKept
    PanicsOnlyAtEmptyRows
    MediaRoundTrip
    NoCiphertextHandedOut
    QuotesResolve
    ErrorsTold
    AgentStable
PROPERTY
    LinesStreamAsOne
