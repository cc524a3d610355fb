\* Three transports; an attempt is short compared with the retry period.
CONSTANTS
    N = 3
    RetryPeriod = 2
    AttemptTime = 1
SPECIFICATION FairSpec
INVARIANTS TypeOK NoStarvation CodeIsLifted CloseReleases
PROPERTIES FailureMeansAllDead StickyAfterSuccess SendReturns
