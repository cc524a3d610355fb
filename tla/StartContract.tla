---------------------------- MODULE StartContract ----------------------------
(***************************************************************************)
(* What Transport.start promises doSend: it returns, either with a         *)
(* connection that is ready for MAIL, or with an error and no connection   *)
(* left behind.  SmtpTransport takes start as such a step; SmtpHandshake   *)
(* shows that the conversation implements it.                              *)
(***************************************************************************)

VARIABLES
    session,    \* "closed", "opening" (start is running) or "ready"
    connected,  \* t.conn is not nil
    done,       \* the context of the send was cancelled or has expired
    result      \* what the last call of start returned

vars == <<session, connected, done, result>>

Coded == {"4xx", "5xx", "other"}

Init == session = "closed" /\ connected = FALSE /\ done = FALSE
        /\ result = "none"

Begin ==
    /\ session = "closed"
    /\ session' = "opening" /\ result' = "none" /\ done' = FALSE
    /\ UNCHANGED connected

Work == session = "opening" /\ connected' \in BOOLEAN
        /\ UNCHANGED <<session, done, result>>

Open ==
    /\ session = "opening"
    /\ session' = "ready" /\ connected' = TRUE /\ result' = "ok"
    /\ UNCHANGED done

\* An error without a reply code gives way to the context's own error.
Fail ==
    /\ session = "opening"
    /\ session' = "closed" /\ connected' = FALSE
    /\ result' \in Coded \cup (IF done THEN {"ctx"} ELSE {"odd", "io"})
    /\ UNCHANGED done

Lose ==
    /\ session = "ready"
    /\ session' = "closed" /\ connected' = FALSE
    /\ UNCHANGED <<done, result>>

CtxDone == session = "opening" /\ done' = TRUE
           /\ UNCHANGED <<session, connected, result>>

Next == Begin \/ Work \/ Open \/ Fail \/ Lose \/ CtxDone

\* What start may do, and that it returns.
Safety == Init /\ [][Next]_vars

Spec == Safety /\ WF_vars(Open \/ Fail)
==============================================================================
