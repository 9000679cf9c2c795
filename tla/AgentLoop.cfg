SPECIFICATION Spec
CONSTANTS
    p = p
    m1 = m1
    m2 = m2
    Prompt = p
    Msgs = {p, m1, m2}
    Text <- AllDiffer
    SteeringMode = "one-at-a-time"
    FollowUpMode = "all"
    MaxRestores = 1
    MaxTurns = 1
    MaxCalls = 2
INVARIANTS
    QueuesExact
    RequestIsPersisted
    RequestIsComplete
    ToolsInOrder
    FollowUpsWhenDone
