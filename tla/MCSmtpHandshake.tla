--------------------------- MODULE MCSmtpHandshake ---------------------------
(* Model checking of SmtpHandshake: the configurations worth telling apart. *)
EXTENDS SmtpHandshake

\* NewTransport's order.
DefaultAuthenticators == <<"PLAIN", "LOGIN", "CRAM-MD5">>

\* Every configuration with a user; without one the options on credentials do
\* not matter.
AllConfigs == {c \in Config : c.user \/ (~c.secret /\ ~c.allowPlaintextAuth)}

\* The configuration that asks for TLS and nothing else.
RequireTLSConfig ==
    {c \in Config : ~c.tls /\ c.autoTLS /\ c.requireTLS
                    /\ ~c.user /\ ~c.secret /\ ~c.allowPlaintextAuth}
==============================================================================
