\* Two senders share the transport, under contexts with a deadline and without one,
\* which may end at any point; one retry.
CONSTANTS
    Senders = {s1, s2}
    Nobody = Nobody
    RestartThreshold = 1
    RetryAttempts = 1
    Recipients = 1
    IOTimeout = TRUE
    CtxKinds = {"cancellable", "deadline"}
    Messages = {"good", "badSender"}
SPECIFICATION Spec
SYMMETRY SenderSymmetry
INVARIANTS TypeOK AcceptedAtMostOnce OutcomeIsTruthful ConnectionBudget
           OpenTransactionIsReset WaitObeysContext
