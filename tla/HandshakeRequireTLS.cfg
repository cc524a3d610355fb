\* require_tls and a server that only speaks HELO.
CONSTANTS
    Authenticators <- DefaultAuthenticators
    IOTimeout = TRUE
    Configs <- RequireTLSConfig
SPECIFICATION Spec
INVARIANT MailRequiresTLS
