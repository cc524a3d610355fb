--------------------------- MODULE MCSmtpTransport ---------------------------
(* Model checking of SmtpTransport: senders are interchangeable.            *)
EXTENDS SmtpTransport, TLC

SenderSymmetry == Permutations(Senders)
==============================================================================
