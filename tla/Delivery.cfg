\* Two senders of one message, four stacks, two attempts per composite.
CONSTANTS
    Senders = {s1, s2}
    Nobody = Nobody
    Names = {"main", "backup"}
    Default = "main"
    NoName = "none"
    Headers = {"none", "backup", "unknown"}
    Stacks <- SmallStacks
    Attempts = 2
SPECIFICATION FairSpec
INVARIANTS CallerObjectsKept RoutedAsAddressed EditedOnce SeenIDIsSent
           ReportIsTrue NothingHeld
PROPERTY SendReturns
