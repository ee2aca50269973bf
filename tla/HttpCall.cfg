SPECIFICATION Spec
CONSTANTS
    Reqs = {h1}
    Calls = {1, 2}
    Svcs = {"s1", "s2"}
    Aliases <- MCAliases
    Targets = {"x"}
    Scenarios <- MCScenarios
    LowerCase <- MCLowerCase
    Messages <- MCMessages
    None = None
    ReqId = ReqId
INVARIANTS
    OkHasReply
    PanicContained
    ContextScoped
    RouteIsRight
    AnswerTells
PROPERTY Returns
CHECK_DEADLOCK FALSE
