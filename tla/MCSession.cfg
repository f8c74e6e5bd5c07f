\* A terminal and a program, sockets that are cut, a server that stops.
\* Both may have said all they may say: nothing is left to do then.
CHECK_DEADLOCK FALSE
SPECIFICATION MCSpec
CONSTANTS
    cli = cli
    app = app
    Client = {cli, app}
    Terminal = {cli}
    Socket = {s1, s2}
    NoSocket = NoSocket
    MaxCalls = 2
    MaxInt = 9
    Number <- MCNumber
    ColumnName = {}
    Digit <- MCDigit
    Letter <- MCLetter
    Upper <- MCUpper
    Session <- MCSession
    Asks <- MCAsks
    Size <- MCSize
    Answers <- MCAnswers
    Encoded <- Json
    ErrorFlag <- Status
    Decoded <- MCDecoded
    Expected <- ShownResult
    Tokens <- MCTokens
    Meant <- MCMeant
    Responses <- MCResponses
    Misread <- MCMisread
INVARIANTS
    ConnectionsInStep
    StatementsAsTyped
    StatementsAsWritten
PROPERTIES
    ImplementsRpc
    EveryCallReturns
    ThreadsEnd
