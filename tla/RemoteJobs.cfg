\* A health check and a transcript; the owner may decide on two pages at once.
SPECIFICATION FairSpec
CONSTANTS
    Jobs = {diagnose, transcript}
    HealthChecks = {diagnose}
    Pages = {w1, w2}
    Loop = Loop
    MaxFailures = 2
    None = None
INVARIANTS TypeOK RunsOnce TrustedHoldsNothing
PROPERTIES AnswerKept HeldRequestIsAnswered
