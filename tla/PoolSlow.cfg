\* Attempts that take longer than the retry period.
CONSTANTS
    N = 2
    RetryPeriod = 2
    AttemptTime = 3
SPECIFICATION FairSpec
PROPERTY SendReturns
