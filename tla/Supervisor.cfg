SPECIFICATION FairServerSpec
CONSTANTS
    prompt = prompt
    abort = abort
    stopper = stopper
    Spawner = Spawner
    Commands = {prompt, abort}
    Refreshing = {prompt}
    Stops = {stopper}
    InCap = 4
    Id <- MCId
INVARIANTS
    OneAnswer
PROPERTIES
    StopKills
    RequestsReturn
\* the instance ends
CHECK_DEADLOCK FALSE
