\* Two senders whose contexts may end at any point, a server that may never answer.
CONSTANTS
    Senders = {s1, s2}
    Nobody = Nobody
    RestartThreshold = 1
    RetryAttempts = 1
    Recipients = 1
    IOTimeout = TRUE
    CtxKinds = {"cancellable"}
    Messages = {"good"}
SPECIFICATION FairSpec
PROPERTY CallsReturn
