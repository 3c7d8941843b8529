SPECIFICATION FairSpec
CONSTANTS
    Requests = {r1, r2, r3}
    Transports = {"blocking", "stream", "cli"}
    MaxFaults = 1
    NoRequest = NoRequest
INVARIANTS
    TypeOK
    HistoryIsDense
    QuestionAnsweredOnce
    AnswerIsInHistory
PROPERTIES
    RequestsEnd
CHECK_DEADLOCK FALSE
