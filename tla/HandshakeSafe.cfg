\* Every configuration against any server.
CONSTANTS
    Authenticators <- DefaultAuthenticators
    IOTimeout = TRUE
    Configs <- AllConfigs
SPECIFICATION FairSpec
INVARIANTS TypeOK CredentialsProtected CapabilitiesAreCurrent
           EsmtpRequiresTLS EveryWaitIsBounded
PROPERTY ImplementsContract
