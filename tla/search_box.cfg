SPECIFICATION SearchSpec
CONSTANTS
    Queries = {q1, q2}
    TooShort = short
    Filters = {"event"}
    Cities = {c1, c2}
    LastPage = 3
    Calls = {call1, call2}
    Nothing = Nothing
INVARIANTS
    ResultsAnswerQuestion
    LoadingIsACall
    PagesFollow
PROPERTIES
    RestIsAnswered
CHECK_DEADLOCK FALSE
