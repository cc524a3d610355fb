\* A second sender between a failed conversation and its RSET.
CONSTANTS
    Senders = {s1, s2}
    Nobody = Nobody
    RestartThreshold = 2
    RetryAttempts = 0
    Recipients = 1
    IOTimeout = TRUE
    CtxKinds = {"background"}
    Messages = {"good"}
SPECIFICATION Spec
INVARIANT NoNestedMail
