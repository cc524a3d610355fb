\* Messages built in up to three calls, sent through sendmail and SES.
CONSTANTS
    a = a
    b = b
    bad = bad
    high = high
    broken = broken
    Nowhere = Nowhere
    Address <- Addresses
    Author = a
    Invalid = {broken}
    AddressLists <- Lists
    AddressLength = 40
    HeaderName <- SmallNames
    Subject <- SmallSubjects
    Value <- SmallValues
    Text <- SmallTexts
    Attachment <- SmallAttachments
    MaxCalls = 3
    Unencodable = {bad}
    UnicodeLocal = {high}
    ParseAddress <- SmallParse
    Envelopes <- SmallEnvelopes
    Commands <- SmallCommands
SPECIFICATION Spec
INVARIANTS HeaderArrives PartsArrive RecipientsExact LineLimitKept
CHECK_DEADLOCK FALSE
