\* Three callers, intervals of up to three ticks.
CONSTANTS
    Callers = {c1, c2, c3}
    Nobody = Nobody
    MaxInterval = 3
SPECIFICATION FairSpec
PROPERTIES RateLimit ClockMovesWhenDue SendReturns
