SPECIFICATION Spec
CONSTANTS
    root = root
    middle = middle
    leaf = leaf
    Gateways = {root, middle, leaf}
    Parent <- Chain
    Providers = {middle, leaf}
    Places = {root, leaf}
    MaxRequests = 2
    MaxEvents = 5
INVARIANTS
    TypeOK
    InterestsAreHandled
    NoneReturns
    AnswersReturn
CHECK_DEADLOCK FALSE
