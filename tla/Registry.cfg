\* All DSNs of up to five tokens, and every composite of depth two with at most
\* one token mistyped; 51 seconds are the longest period that fits.
CONSTANTS
    MaxLength = 5
    Trees <- SmallTrees
    Half = 512
    Second = 10
    DefaultRetryPeriod = 60
SPECIFICATION Spec
INVARIANTS NothingIgnored Resolves
CHECK_DEADLOCK FALSE
