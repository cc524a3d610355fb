---------------------------- MODULE SmtpTransport ----------------------------
(***************************************************************************)
(* The pooled SMTP transport of src/transport/smtp/smtp.go: any number of  *)
(* goroutines call Send and Close on one Transport, which owns one         *)
(* connection and one mutex.                                               *)
(*                                                                         *)
(* Send is a sequence of separate critical sections: doSend (the whole     *)
(* SMTP conversation), then either the restart-threshold check or the      *)
(* cleanup (RSET or terminate) after a failure.  Between two of them the   *)
(* mutex is free and another goroutine may use the connection.             *)
(*                                                                         *)
(* A command is issued in one step (Issue) and its reply handled in        *)
(* another, so contexts end, close hooks run and the server stalls while   *)
(* a reply is awaited.  Opening a connection (start) is one step here; its *)
(* conversation is the subject of SmtpHandshake.                           *)
(***************************************************************************)
EXTENDS Naturals, FiniteSets

CONSTANTS
    Senders,            \* goroutines that share the transport
    Nobody,             \* holder of a free mutex, not a sender
    RestartThreshold,   \* messages before the connection is replaced; 0: never
    RetryAttempts,      \* retries after a transient (4xx) reply
    Recipients,         \* recipients of each message
    IOTimeout,          \* TRUE: ioTimeout > 0
    CtxKinds,           \* contexts callers pass, a subset of ContextKinds
    Messages            \* messages callers pass, a subset of MessageKinds

\* A context that never ends, one that may be cancelled, one with a deadline.
ContextKinds == {"background", "cancellable", "deadline"}

\* A message whose addresses encode, one whose sender does not encode (or needs
\* SMTPUTF8 from a server without it), one whose last recipient does not encode.
MessageKinds == {"good", "badSender", "badRcpt"}

ASSUME SendersAssumption == IsFiniteSet(Senders) /\ Nobody \notin Senders
ASSUME ThresholdAssumption == RestartThreshold \in Nat
ASSUME RetryAssumption == RetryAttempts \in Nat
ASSUME RecipientsAssumption == Recipients \in Nat \ {0}
ASSUME IOTimeoutAssumption == IOTimeout \in BOOLEAN
ASSUME KindsAssumption == CtxKinds \subseteq ContextKinds
                          /\ Messages \subseteq MessageKinds

\* What executing a command may come to: the expected code, a 4xx or a 5xx
\* reply, a reply with another code, one without a code, a failed write or read.
Outcome == {"ok", "4xx", "5xx", "other", "odd", "io"}

\* The error of an attempt.  "invalid" wraps ErrInvalidArgument, "ctx" is the
\* context's own error; "odd" and "io" carry code 0.
Error == {"none", "4xx", "5xx", "other", "odd", "io", "invalid", "ctx"}
Coded == {"4xx", "5xx", "other"}

\* The command issued at each control point that waits for a reply.
CommandAt == [ping |-> "NOOP", pingQuit |-> "QUIT", mail |-> "MAIL",
              rcpt |-> "RCPT", data |-> "DATA", dot |-> "DOT",
              rset |-> "RSET", checkQuit |-> "QUIT", closeQuit |-> "QUIT"]

\* Control points inside doSend, and all those that hold the mutex.
Conversation == {"ping", "pingQuit", "start", "mail", "rcpt", "data", "body",
                 "dot"}
Critical == Conversation \cup {"rset", "checkQuit", "closeQuit"}
ControlPoint == Critical \cup {"idle", "base", "enter", "failed", "retryWait",
                               "check", "close"}

VARIABLES
    mu,                 \* holder of t.mu, or Nobody
    conn,               \* t.conn: "none" (nil), "open", "dead" (closed by a hook)
    started,            \* t.started
    ctxHasDeadline,     \* t.ctxHasDeadline
    armed,              \* socket deadline: "none", "io" (ioTimeout), "ctx"
    hook,               \* whose context's AfterFunc is registered on t.conn
    closing,            \* an AfterFunc goroutine is about to close t.conn
    restartCounter,     \* t.restartCounter
    lastMessageTime,    \* t.lastMessageTime: "zero", "recent", "stale"
    wire,               \* command whose reply is awaited, or "none"
    txn,                \* the server's mail transaction on this connection
    sentOnConn,         \* messages sent successfully on this connection
    pc,                 \* control point of each sender
    call                \* the current call of each sender, a record of Call

sessionVars == <<conn, started, closing, txn, sentOnConn>>
boundVars == <<armed, hook>>
poolVars == <<ctxHasDeadline, restartCounter>>
vars == <<mu, sessionVars, boundVars, poolVars, lastMessageTime, wire, pc, call>>

Call == [ctx : CtxKinds,        \* kind of its context
         done : BOOLEAN,        \* the context was cancelled or has expired
         msg : Messages,        \* kind of its message
         attempt : Nat,         \* loop variable of Send
         err : Error,           \* of the last attempt ("none": no failure)
         rcptsLeft : Nat,       \* recipients not yet accepted
         accepted : Nat]        \* times the server accepted the message

NewCall(c, m) == [ctx |-> c, done |-> FALSE, msg |-> m, attempt |-> 0,
                  err |-> "none", rcptsLeft |-> 0, accepted |-> 0]

Init ==
    /\ mu = Nobody /\ conn = "none" /\ started = FALSE
    /\ ctxHasDeadline = FALSE /\ armed = "none" /\ hook = Nobody
    /\ closing = FALSE /\ restartCounter = 0 /\ lastMessageTime = "zero"
    /\ wire = "none" /\ txn = "none" /\ sentOnConn = 0
    /\ pc = [p \in Senders |-> "idle"]
    /\ call \in [Senders -> {NewCall(c, m) : c \in CtxKinds, m \in Messages}]

------------------------------------------------------------------------------
(* Helpers: the mutex, the connection, the context binding.                *)

Goto(p, next) == pc' = [pc EXCEPT ![p] = next]

\* The connection is forgotten; whatever was bound to it concerns nobody.
Terminate ==
    /\ conn' = "none" /\ started' = FALSE /\ closing' = FALSE
    /\ txn' = "none" /\ sentOnConn' = 0

HasDeadline(p) == call[p].ctx = "deadline"

\* The cleanup function bindConnectionContext returns.  A close hook that has
\* already been started is not waited for: closing is left as it is.
Unbind == armed' = "none" /\ hook' = Nobody

\* bindConnectionContext on the current connection.  AfterFunc runs the hook at
\* once when the context is already done.
Bind(p) ==
    /\ armed' = IF HasDeadline(p) THEN "ctx"
                ELSE IF IOTimeout THEN "io" ELSE "none"
    /\ hook' = IF call[p].done THEN Nobody ELSE p
    /\ closing' = (closing \/ call[p].done)

\* Mutation: the deadline is not renewed.
NeverRefreshIOTimeout == armed

\* refreshIOTimeout: the deadline of the socket once a command is issued.
RefreshIOTimeout == IF IOTimeout /\ ~ctxHasDeadline THEN "io" ELSE armed

\* contextErr: a failure without a reply code becomes the context's error once
\* the context is done.
ContextErr(p, e) == IF e \notin Coded /\ call[p].done THEN "ctx" ELSE e

\* Mutation: a lost reply counts as transient.
RetriesLostReplies(e) == e \in {"4xx", "io"}

\* isTransientSMTPError
IsTransientSMTPError(e) == e = "4xx"

\* EXTERNAL: the server's mail transaction after command cmd got reply r.
TxnAfter(cmd, r) ==
    IF cmd = "DOT" THEN "none"
    ELSE IF r # "ok" THEN txn
    ELSE CASE cmd = "MAIL" -> "mail" [] cmd = "RCPT" -> "rcpt"
           [] cmd = "DATA" -> "data" [] cmd = "RSET" -> "none"
           [] OTHER -> txn

\* The holder p gets the outcome of its command.  A connection closed by a hook
\* fails the write (wire = "none") or the read; the server may also drop the
\* connection, and the socket deadline may expire, at any time.
Answer(p, r) ==
    /\ mu = p
    /\ wire # "none" \/ conn = "dead"
    /\ r = "io" \/ conn = "open"
    /\ wire' = "none"

\* execute tears the connection down when the write or the read fails.
SessionAfter(r) ==
    IF r = "io" THEN Terminate
    ELSE /\ txn' = TxnAfter(wire, r)
         /\ UNCHANGED <<conn, started, closing, sentOnConn>>

------------------------------------------------------------------------------
(* Callers.                                                                 *)

CallSend(p) ==
    /\ pc[p] = "idle"
    /\ \E c \in CtxKinds, m \in Messages :
          call' = [call EXCEPT ![p] = NewCall(c, m)]
    /\ Goto(p, "base")
    /\ UNCHANGED <<mu, sessionVars, boundVars, lastMessageTime, poolVars, wire>>

CallClose(p) ==
    /\ pc[p] = "idle"
    /\ Goto(p, "close")
    /\ UNCHANGED <<mu, sessionVars, boundVars, lastMessageTime, poolVars, wire,
                   call>>

\* The caller cancels the context, or its deadline passes, during the call.
CtxDone(p) ==
    /\ pc[p] \notin {"idle", "close", "closeQuit"}
    /\ call[p].ctx # "background" /\ ~call[p].done
    /\ call' = [call EXCEPT ![p].done = TRUE]
    /\ closing' = (closing \/ hook = p)
    /\ hook' = IF hook = p THEN Nobody ELSE hook
    /\ UNCHANGED <<mu, conn, started, txn, sentOnConn, armed, lastMessageTime,
                   poolVars, wire, pc>>

\* The AfterFunc goroutine runs conn.Close(), whoever holds the mutex by then.
AsyncClose ==
    /\ closing
    /\ conn' = "dead" /\ closing' = FALSE
    /\ UNCHANGED <<mu, started, txn, sentOnConn, boundVars, lastMessageTime,
                   poolVars, wire, pc, call>>

\* More than pingThreshold passes without a message.
Age ==
    /\ mu = Nobody /\ lastMessageTime = "recent"
    /\ lastMessageTime' = "stale"
    /\ UNCHANGED <<mu, sessionVars, boundVars, poolVars, wire, pc, call>>

------------------------------------------------------------------------------
(* doSend.                                                                  *)

\* BaseTransport.Send up to DoSend: a context that is done ends the attempt.
BaseSend(p) ==
    /\ pc[p] = "base"
    /\ IF call[p].done
       THEN Goto(p, "failed") /\ call' = [call EXCEPT ![p].err = "ctx"]
       ELSE Goto(p, "enter") /\ UNCHANGED call
    /\ UNCHANGED <<mu, sessionVars, boundVars, lastMessageTime, poolVars, wire>>

\* Mutation: the flag is set only where a connection is opened.
DoSendBeginStale(p) ==
    /\ pc[p] = "enter" /\ mu = Nobody
    /\ mu' = p
    /\ ctxHasDeadline' = IF conn = "none" THEN HasDeadline(p) ELSE ctxHasDeadline
    /\ IF conn = "none" THEN UNCHANGED <<boundVars, closing>> ELSE Bind(p)
    /\ call' = [call EXCEPT ![p].rcptsLeft = Recipients]
    /\ Goto(p, IF lastMessageTime = "stale" /\ started THEN "ping" ELSE "start")
    /\ UNCHANGED <<conn, started, txn, sentOnConn, lastMessageTime, restartCounter,
                   wire>>

\* Lock, bind the context to a connection that is kept, ping if it was idle.
DoSendBegin(p) ==
    /\ pc[p] = "enter" /\ mu = Nobody
    /\ mu' = p
    /\ ctxHasDeadline' = HasDeadline(p)
    /\ IF conn = "none" THEN UNCHANGED <<boundVars, closing>> ELSE Bind(p)
    /\ call' = [call EXCEPT ![p].rcptsLeft = Recipients]
    /\ Goto(p, IF lastMessageTime = "stale" /\ started THEN "ping" ELSE "start")
    /\ UNCHANGED <<conn, started, txn, sentOnConn, lastMessageTime, restartCounter,
                   wire>>

\* encodeSMTPAddress on the address the next command names.
Encodes(p) ==
    /\ ~(pc[p] = "mail" /\ call[p].msg = "badSender")
    /\ ~(pc[p] = "rcpt" /\ call[p].msg = "badRcpt" /\ call[p].rcptsLeft = 1)

\* executeCommand up to the point where the reply is awaited.
Issue(p) ==
    /\ mu = p /\ pc[p] \in DOMAIN CommandAt
    /\ wire = "none" /\ conn = "open"
    /\ Encodes(p)
    /\ wire' = CommandAt[pc[p]]
    /\ armed' = RefreshIOTimeout
    /\ UNCHANGED <<mu, sessionVars, hook, lastMessageTime, poolVars, pc, call>>

\* ping: a NOOP that fails on a live connection is followed by QUIT (stop).
PingReply(p, r) ==
    /\ pc[p] = "ping" /\ Answer(p, r)
    /\ SessionAfter(r)
    /\ IF r = "io" THEN Unbind ELSE UNCHANGED boundVars
    /\ Goto(p, IF r \in {"ok", "io"} THEN "start" ELSE "pingQuit")
    /\ UNCHANGED <<mu, lastMessageTime, poolVars, call>>

\* start on a connection that is kept; doSend binds the context again.
StartReused(p) ==
    /\ pc[p] = "start" /\ mu = p /\ started
    /\ Bind(p)
    /\ Goto(p, "mail")
    /\ UNCHANGED <<mu, conn, started, txn, sentOnConn, lastMessageTime, poolVars,
                   wire, call>>

\* start opens a connection, greeted and authenticated (see SmtpHandshake).
StartConnects(p) ==
    /\ pc[p] = "start" /\ mu = p /\ ~started
    /\ conn' = "open" /\ started' = TRUE /\ txn' = "none" /\ sentOnConn' = 0
    /\ lastMessageTime' = "zero"
    /\ Bind(p)
    /\ Goto(p, "mail")
    /\ UNCHANGED <<mu, poolVars, wire, call>>

\* start fails and leaves no connection behind; doSend returns the error.
StartFails(p) ==
    /\ pc[p] = "start" /\ mu = p /\ ~started
    /\ \E e \in Coded \cup {"odd", "io"} :
          call' = [call EXCEPT ![p].err = ContextErr(p, e)]
    /\ Terminate /\ Unbind
    /\ mu' = Nobody /\ Goto(p, "failed")
    /\ UNCHANGED <<lastMessageTime, poolVars, wire>>

\* Call c once its attempt has ended with error e, the server having accepted n
\* messages.
Ended(c, e, n) == [c EXCEPT !.err = e, !.accepted = c.accepted + n]

EndAttempt(p, e, n) == call' = [call EXCEPT ![p] = Ended(call[p], e, n)]

\* doSend returns error e once it has a connection: unbind and unlock.  The
\* server accepted the message n times although the reply did not say so.
ReturnError(p, e, n) ==
    /\ EndAttempt(p, ContextErr(p, e), n)
    /\ lastMessageTime' = "zero"
    /\ Unbind
    /\ mu' = Nobody /\ Goto(p, "failed")
    /\ UNCHANGED poolVars

\* mailFrom or rcptTo rejects an address before anything is written for it.
AddressInvalid(p) ==
    /\ mu = p /\ ~Encodes(p)
    /\ ReturnError(p, "invalid", 0)
    /\ UNCHANGED <<sessionVars, wire>>

MailAccepted(p) ==
    /\ pc[p] = "mail" /\ Answer(p, "ok")
    /\ SessionAfter("ok")
    /\ Goto(p, "rcpt")
    /\ UNCHANGED <<mu, boundVars, lastMessageTime, poolVars, call>>

\* Mutation: the loop runs once too often.
RcptAcceptedOffByOne(p) ==
    /\ pc[p] = "rcpt" /\ Answer(p, "ok")
    /\ SessionAfter("ok")
    /\ call' = [call EXCEPT ![p].rcptsLeft = @ - 1]
    /\ Goto(p, IF call[p].rcptsLeft = 0 THEN "data" ELSE "rcpt")
    /\ UNCHANGED <<mu, boundVars, lastMessageTime, poolVars>>

RcptAccepted(p) ==
    /\ pc[p] = "rcpt" /\ Answer(p, "ok")
    /\ SessionAfter("ok")
    /\ call' = [call EXCEPT ![p].rcptsLeft = @ - 1]
    /\ Goto(p, IF call[p].rcptsLeft = 1 THEN "data" ELSE "rcpt")
    /\ UNCHANGED <<mu, boundVars, lastMessageTime, poolVars>>

DataAccepted(p) ==
    /\ pc[p] = "data" /\ Answer(p, "ok")
    /\ SessionAfter("ok")
    /\ Goto(p, "body")
    /\ UNCHANGED <<mu, boundVars, lastMessageTime, poolVars, call>>

\* Mutation: the transport is told of success before the server has answered.
BodyWrittenIsDelivered(p) ==
    /\ pc[p] = "body" /\ mu = p /\ conn = "open"
    /\ lastMessageTime' = "recent" /\ Unbind
    /\ mu' = Nobody /\ Goto(p, "check")
    /\ UNCHANGED <<sessionVars, poolVars, wire, call>>

\* writeData
BodyWritten(p) ==
    /\ pc[p] = "body" /\ mu = p /\ conn = "open"
    /\ Goto(p, "dot")
    /\ UNCHANGED <<mu, sessionVars, boundVars, lastMessageTime, poolVars, wire,
                   call>>

BodyFails(p) ==
    /\ pc[p] = "body" /\ mu = p
    /\ Terminate
    /\ ReturnError(p, "io", 0)
    /\ UNCHANGED wire

\* MAIL, RCPT, DATA or the terminator fails.  The server may have accepted the
\* message although the reply to the terminator was lost or is not 250.
ConversationFails(p, r) ==
    /\ pc[p] \in {"mail", "rcpt", "data", "dot"} /\ r # "ok" /\ Encodes(p)
    /\ Answer(p, r)
    /\ SessionAfter(r)
    /\ \/ ReturnError(p, r, 0)
       \/ wire = "DOT" /\ r \in {"io", "odd", "other"} /\ ReturnError(p, r, 1)

DotAccepted(p) ==
    /\ pc[p] = "dot" /\ Answer(p, "ok")
    /\ txn' = "none" /\ sentOnConn' = sentOnConn + 1
    /\ EndAttempt(p, "none", 1)
    /\ lastMessageTime' = "recent"
    /\ Unbind
    /\ mu' = Nobody /\ Goto(p, "check")
    /\ UNCHANGED <<conn, started, closing, poolVars>>

------------------------------------------------------------------------------
(* The critical sections of Send after doSend, and Close.                  *)

\* Send returns a local validation failure without touching the connection.
SkipReset(p) ==
    /\ pc[p] = "failed" /\ call[p].err = "invalid"
    /\ Goto(p, "idle")
    /\ UNCHANGED <<mu, sessionVars, boundVars, lastMessageTime, poolVars, wire,
                   call>>

Retry(p) == IsTransientSMTPError(call[p].err) /\ call[p].attempt < RetryAttempts

\* A transient failure is retried on a fresh connection.
TerminateForRetry(p) ==
    /\ pc[p] = "failed" /\ call[p].err # "invalid" /\ mu = Nobody
    /\ Retry(p)
    /\ Terminate /\ Unbind
    /\ Goto(p, "retryWait")
    /\ UNCHANGED <<mu, lastMessageTime, poolVars, wire, call>>

\* Any other failure resets the connection if there is one.
ResetBegin(p) ==
    /\ pc[p] = "failed" /\ call[p].err # "invalid" /\ mu = Nobody
    /\ ~Retry(p)
    /\ mu' = IF started THEN p ELSE Nobody
    /\ Goto(p, IF started THEN "rset" ELSE "idle")
    /\ UNCHANGED <<sessionVars, boundVars, lastMessageTime, poolVars, wire, call>>

\* Mutation: a connection whose RSET failed is kept.
RsetReplyIgnored(p, r) ==
    /\ pc[p] = "rset" /\ Answer(p, r)
    /\ SessionAfter(r)
    /\ IF r = "io" THEN Unbind ELSE UNCHANGED boundVars
    /\ mu' = Nobody /\ Goto(p, "idle")
    /\ UNCHANGED <<lastMessageTime, poolVars, call>>

RsetReply(p, r) ==
    /\ pc[p] = "rset" /\ Answer(p, r)
    /\ IF r = "ok" THEN SessionAfter(r) /\ UNCHANGED boundVars
       ELSE Terminate /\ Unbind
    /\ mu' = Nobody /\ Goto(p, "idle")
    /\ UNCHANGED <<lastMessageTime, poolVars, call>>

\* waitForRetry, then the next round of the loop.
WaitForRetry(p) ==
    /\ pc[p] = "retryWait"
    /\ IF call[p].done
       THEN Goto(p, "idle") /\ call' = [call EXCEPT ![p].err = "ctx"]
       ELSE Goto(p, "base") /\ call' = [call EXCEPT ![p].attempt = @ + 1]
    /\ UNCHANGED <<mu, sessionVars, boundVars, lastMessageTime, poolVars, wire>>

\* Mutation: off by one.
RestartDueLate == started /\ RestartThreshold # 0
                  /\ restartCounter >= RestartThreshold

RestartDue == started /\ RestartThreshold # 0
              /\ restartCounter + 1 >= RestartThreshold

\* checkRestartThreshold up to the decision to stop.
CheckRestartThreshold(p) ==
    /\ pc[p] = "check" /\ mu = Nobody
    /\ restartCounter' = IF started /\ RestartThreshold # 0
                         THEN restartCounter + 1 ELSE restartCounter
    /\ mu' = IF RestartDue THEN p ELSE Nobody
    /\ Goto(p, IF RestartDue THEN "checkQuit" ELSE "idle")
    /\ UNCHANGED <<sessionVars, boundVars, lastMessageTime, ctxHasDeadline, wire,
                   call>>

CloseBegin(p) ==
    /\ pc[p] = "close" /\ mu = Nobody
    /\ mu' = IF started THEN p ELSE Nobody
    /\ Goto(p, IF started THEN "closeQuit" ELSE "idle")
    /\ UNCHANGED <<sessionVars, boundVars, lastMessageTime, poolVars, wire, call>>

\* stop: whatever QUIT comes to, the connection is torn down.  The restart
\* counter starts over only when the threshold caused the stop.
QuitReply(p, r) ==
    /\ pc[p] \in {"pingQuit", "checkQuit", "closeQuit"} /\ Answer(p, r)
    /\ Terminate /\ Unbind
    /\ restartCounter' = IF pc[p] = "checkQuit" THEN 0 ELSE restartCounter
    /\ mu' = IF pc[p] = "pingQuit" THEN mu ELSE Nobody
    /\ Goto(p, IF pc[p] = "pingQuit" THEN "start" ELSE "idle")
    /\ UNCHANGED <<lastMessageTime, ctxHasDeadline, call>>

------------------------------------------------------------------------------

\* Steps that wait for the mutex.
Acquire(p) ==
    DoSendBegin(p) \/ TerminateForRetry(p) \/ ResetBegin(p)
    \/ CheckRestartThreshold(p) \/ CloseBegin(p)

\* Steps a sender takes by itself.  Dialling and the greeting are bounded, so
\* start returns.
Run(p) ==
    BaseSend(p) \/ Issue(p) \/ StartReused(p) \/ StartConnects(p)
    \/ StartFails(p) \/ AddressInvalid(p) \/ BodyWritten(p) \/ BodyFails(p)
    \/ SkipReset(p) \/ WaitForRetry(p)

\* Outcomes of the command in flight.
Handle(p, r) ==
    PingReply(p, r) \/ ConversationFails(p, r) \/ RsetReply(p, r)
    \/ QuitReply(p, r)

Proceed(p) ==
    MailAccepted(p) \/ RcptAccepted(p) \/ DataAccepted(p) \/ DotAccepted(p)

Next ==
    \/ AsyncClose \/ Age
    \/ \E p \in Senders :
          \/ CallSend(p) \/ CallClose(p) \/ CtxDone(p)
          \/ Acquire(p) \/ Run(p) \/ Proceed(p)
          \/ \E r \in Outcome : Handle(p, r)

Spec == Init /\ [][Next]_vars

\* A read ends by itself once the socket deadline or the context deadline has
\* passed, or a close hook has run.
TimesOut(p) ==
    /\ conn = "dead" \/ armed = "io" \/ (armed = "ctx" /\ call[p].done)
    /\ Handle(p, "io")

\* Scheduling: goroutines run, sync.Mutex does not starve a waiter, timers
\* fire, deadlines pass.  Nothing is assumed of the server.
Fairness ==
    /\ WF_vars(AsyncClose)
    /\ \A p \in Senders :
          /\ WF_vars(Run(p)) /\ WF_vars(TimesOut(p)) /\ SF_vars(Acquire(p))
          /\ WF_vars(CtxDone(p) /\ HasDeadline(p))

FairSpec == Spec /\ Fairness

------------------------------------------------------------------------------
(* Properties.                                                              *)

TypeOK ==
    /\ mu \in Senders \cup {Nobody}
    /\ conn \in {"none", "open", "dead"}
    /\ started \in BOOLEAN /\ ctxHasDeadline \in BOOLEAN
    /\ closing \in BOOLEAN
    /\ armed \in {"none", "io", "ctx"}
    /\ hook \in Senders \cup {Nobody}
    /\ restartCounter \in Nat /\ sentOnConn \in Nat
    /\ lastMessageTime \in {"zero", "recent", "stale"}
    /\ wire \in {CommandAt[c] : c \in DOMAIN CommandAt} \cup {"none"}
    /\ txn \in {"none", "mail", "rcpt", "data"}
    /\ pc \in [Senders -> ControlPoint]
    /\ call \in [Senders -> Call]

\* Whenever the mutex is free and the server still has a transaction open, a
\* sender whose conversation failed is about to reset or drop the connection:
\* no transaction is forgotten on a connection that is kept.
OpenTransactionIsReset ==
    mu = Nobody /\ conn # "none" /\ txn # "none"
       => \E p \in Senders : pc[p] = "failed"

\* A reused connection is clean: MAIL is never sent while the server still has
\* a transaction open.  Send resets the connection after a failed conversation
\* for exactly this reason.
NoNestedMail == wire = "MAIL" => txn = "none"

\* One Send hands its message to the server at most once, however many attempts
\* it makes: only an explicit 4xx reply is retried.
AcceptedAtMostOnce == \A p \in Senders : call[p].accepted <= 1

\* What Send reports agrees with what the server did: success means the message
\* was accepted, a 4xx or 5xx code or a validation error means it was not.
OutcomeIsTruthful ==
    \A p \in Senders :
       /\ pc[p] \in {"check", "checkQuit"} => call[p].accepted = 1
       /\ call[p].err \in {"4xx", "5xx", "invalid"} => call[p].accepted = 0

\* The restart threshold is checked in a critical section of its own, so the
\* other senders may each slip in one more message; no connection ever carries
\* more than that.
ConnectionBudget ==
    RestartThreshold # 0 =>
       sentOnConn <= RestartThreshold + Cardinality(Senders) - 1

\* A conversation waits under the context of the Send that holds the mutex, never
\* under what an earlier Send on the same connection left: the socket carries that
\* context's deadline if it has one and the I/O timeout if not, through every
\* command, the flag that says whether the next command renews the timeout is that
\* context's, and the end of that context closes the connection.
WaitObeysContext ==
    wire # "none" /\ pc[mu] \in Conversation =>
       /\ ctxHasDeadline = HasDeadline(mu)
       /\ armed = IF HasDeadline(mu) THEN "ctx"
                  ELSE IF IOTimeout THEN "io" ELSE "none"
       /\ hook = mu \/ (call[mu].done /\ (closing \/ conn = "dead"))

\* Every Send and every Close returns, although the server may never answer and
\* the close hook of one Send may meet the connection of another.
CallsReturn == \A p \in Senders : pc[p] # "idle" ~> pc[p] = "idle"
==============================================================================
