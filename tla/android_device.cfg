SPECIFICATION Spec
CONSTANTS
    hb1 = hb1
    hb2 = hb2
    data1 = data1
    push1 = push1
    None = None
    Requests = {hb1, hb2, data1}
    Answered = {hb1, hb2}
    Pushes = {push1}
    Priority <- MCPriority
    PromptWaiter = TRUE
INVARIANTS
    TypeOK
    AnswersInOrder
    WritesAreAwaited
PROPERTIES
    RequestsAreAnswered
    DisconnectEnds
CHECK_DEADLOCK FALSE
