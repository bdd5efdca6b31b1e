SPECIFICATION Spec
CONSTANTS
    Workers = {w1}
    Clients = {c1, c2}
    ThreadCounts = {1, 2}
    MaxRequests = 2
    Kinds = {"get", "method", "garbage"}
    MayLeave = TRUE
    None = None
INVARIANTS AnswersOwn DownOnlyLate
PROPERTIES OnlyOverdueClosed EveryoneServed
CHECK_DEADLOCK FALSE
