\* "so the panel isn't left waiting for ever".
SPECIFICATION FairSpec
CONSTANTS
    Jobs = {transcript}
    HealthChecks = {}
    Pages = {w1}
    Loop = Loop
    MaxFailures = 1
    None = None
PROPERTY NeverLeftWaiting
