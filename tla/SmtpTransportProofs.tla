------------------------- MODULE SmtpTransportProofs -------------------------
(***************************************************************************)
(* Proofs about SmtpTransport for every number of senders, restart         *)
(* threshold, number of retries and kind of context.                       *)
(***************************************************************************)
EXTENDS SmtpTransport, FiniteSetTheorems, TLAPS

------------------------------------------------------------------------------
(* Type correctness.                                                       *)

\* The recipient loop never runs past the last recipient.
RcptLoop == \A p \in Senders :
               pc[p] \in {"ping", "pingQuit", "start", "mail", "rcpt"}
                  => call[p].rcptsLeft > 0

\* A new call is a well-formed call.
LEMMA NewCallType ==
  ASSUME NEW c \in CtxKinds, NEW m \in Messages
  PROVE  NewCall(c, m) \in Call
BY DEF NewCall, Call, Error

\* contextErr returns an error of the model.
LEMMA ContextErrType ==
  ASSUME NEW p, NEW e \in Error
  PROVE  ContextErr(p, e) \in Error
BY DEF ContextErr, Error

\* The end of its context keeps a call well-formed, too.
LEMMA ContextEnds ==
  \A c \in Call : /\ [c EXCEPT !.done = TRUE] \in Call
                  /\ [c EXCEPT !.done = TRUE].rcptsLeft = c.rcptsLeft
<1> TAKE c \in Call
<1>1. [c EXCEPT !.done = TRUE] \in Call
  BY Zenon DEF Call
<1>2. [c EXCEPT !.done = TRUE].rcptsLeft = c.rcptsLeft
  BY DEF Call
<1> QED BY <1>1, <1>2

\* Recording the end of an attempt keeps a call well-formed, and leaves the
\* recipient loop alone.
LEMMA EndOfAttempt ==
  ASSUME call \in [Senders -> Call], NEW p \in Senders, NEW e \in Error,
         NEW n \in Nat, EndAttempt(p, e, n)
  PROVE  /\ call' \in [Senders -> Call]
         /\ \A q \in Senders : call'[q].rcptsLeft = call[q].rcptsLeft
<1>1. \A c \in Call : /\ Ended(c, e, n) \in Call
                      /\ Ended(c, e, n).rcptsLeft = c.rcptsLeft
  <2> TAKE c \in Call
  <2>1. c.accepted + n \in Nat
    BY DEF Call
  <2>2. Ended(c, e, n) \in Call
    BY <2>1, Zenon DEF Ended, Call
  <2>3. Ended(c, e, n).rcptsLeft = c.rcptsLeft
    BY DEF Ended, Call
  <2> QED BY <2>2, <2>3
<1> QED BY <1>1 DEF EndAttempt

\* Executing a command keeps the state of the connection within its range.
LEMMA SessionType ==
  ASSUME TypeOK, NEW r, SessionAfter(r)
  PROVE  /\ conn' \in {"none", "open", "dead"} /\ started' \in BOOLEAN
         /\ closing' \in BOOLEAN /\ sentOnConn' \in Nat
         /\ txn' \in {"none", "mail", "rcpt", "data"}
<1>1. CASE r = "io"
  <2>1. Terminate
    BY <1>1 DEF SessionAfter
  <2> QED BY <2>1 DEF Terminate
<1>2. CASE r # "io"
  BY <1>2 DEF SessionAfter, TxnAfter, TypeOK
<1> QED BY <1>1, <1>2

\* Type correctness of the state of Transport and of the calls in progress.
THEOREM TypeCorrect == Spec => [](TypeOK /\ RcptLoop)
<1> USE SendersAssumption, RecipientsAssumption, KindsAssumption
<1>1. Init => TypeOK /\ RcptLoop
  <2> SUFFICES ASSUME Init PROVE TypeOK /\ RcptLoop
    OBVIOUS
  <2>1. call \in [Senders -> Call]
    BY NewCallType DEF Init
  <2> QED BY <2>1 DEF Init, TypeOK, RcptLoop, ControlPoint, CommandAt
<1>2. TypeOK /\ RcptLoop /\ [Next]_vars => TypeOK' /\ RcptLoop'
  <2> SUFFICES ASSUME TypeOK, RcptLoop, [Next]_vars
               PROVE  TypeOK' /\ RcptLoop'
    OBVIOUS
  <2> USE DEF TypeOK, RcptLoop, ControlPoint, Critical, Conversation, Goto,
              sessionVars, boundVars, poolVars
  <2>1. CASE AsyncClose
    <3>1. conn' \in {"none", "open", "dead"} /\ closing' \in BOOLEAN
      BY <2>1 DEF AsyncClose
    <3>2. UNCHANGED <<mu, started, txn, sentOnConn, boundVars, lastMessageTime,
                      poolVars, wire, pc, call>>
      BY <2>1 DEF AsyncClose
    <3> QED BY <3>1, <3>2
  <2>2. CASE Age
    BY <2>2 DEF Age
  <2>3. ASSUME NEW p \in Senders, CallSend(p)
       PROVE  TypeOK' /\ RcptLoop'
    BY <2>3, NewCallType DEF CallSend, NewCall
  <2>4. ASSUME NEW p \in Senders, CallClose(p)
       PROVE  TypeOK' /\ RcptLoop'
    BY <2>4 DEF CallClose
  <2>5. ASSUME NEW p \in Senders, CtxDone(p)
       PROVE  TypeOK' /\ RcptLoop'
    <3>1. /\ call' \in [Senders -> Call]
          /\ \A q \in Senders : call'[q].rcptsLeft = call[q].rcptsLeft
      <4> DEFINE c == [call[p] EXCEPT !.done = TRUE]
      <4>1. call' = [call EXCEPT ![p] = c]
        BY <2>5 DEF CtxDone
      <4>2. c \in Call /\ c.rcptsLeft = call[p].rcptsLeft
        BY ContextEnds
      <4> HIDE DEF c
      <4> QED BY <4>1, <4>2
    <3>2. closing' \in BOOLEAN /\ hook' \in Senders \cup {Nobody}
      BY <2>5 DEF CtxDone
    <3> QED BY <2>5, <3>1, <3>2 DEF CtxDone
  <2>6. ASSUME NEW p \in Senders, DoSendBegin(p)
       PROVE  TypeOK' /\ RcptLoop'
    BY <2>6 DEF DoSendBegin, Bind, HasDeadline, Call, Error
  <2>7. ASSUME NEW p \in Senders, TerminateForRetry(p)
       PROVE  TypeOK' /\ RcptLoop'
    BY <2>7 DEF TerminateForRetry, Terminate, Unbind
  <2>8. ASSUME NEW p \in Senders, ResetBegin(p)
       PROVE  TypeOK' /\ RcptLoop'
    BY <2>8 DEF ResetBegin
  <2>9. ASSUME NEW p \in Senders, CheckRestartThreshold(p)
       PROVE  TypeOK' /\ RcptLoop'
    BY <2>9 DEF CheckRestartThreshold, RestartDue
  <2>10. ASSUME NEW p \in Senders, CloseBegin(p)
        PROVE  TypeOK' /\ RcptLoop'
    BY <2>10 DEF CloseBegin
  <2>11. ASSUME NEW p \in Senders, BaseSend(p)
        PROVE  TypeOK' /\ RcptLoop'
    BY <2>11 DEF BaseSend, Call, Error
  <2>12. ASSUME NEW p \in Senders, Issue(p)
        PROVE  TypeOK' /\ RcptLoop'
    BY <2>12 DEF Issue, RefreshIOTimeout, CommandAt
  <2>13. ASSUME NEW p \in Senders, StartReused(p)
        PROVE  TypeOK' /\ RcptLoop'
    BY <2>13 DEF StartReused, Bind, HasDeadline
  <2>14. ASSUME NEW p \in Senders, StartConnects(p)
        PROVE  TypeOK' /\ RcptLoop'
    BY <2>14 DEF StartConnects, Bind, HasDeadline
  <2>15. ASSUME NEW p \in Senders, StartFails(p)
        PROVE  TypeOK' /\ RcptLoop'
    <3>1. PICK e \in Error : call' = [call EXCEPT ![p].err = e]
      <4>1. PICK e \in Coded \cup {"odd", "io"} :
               call' = [call EXCEPT ![p].err = ContextErr(p, e)]
        BY <2>15 DEF StartFails
      <4>2. e \in Error
        BY DEF Error, Coded
      <4>3. ContextErr(p, e) \in Error
        BY <4>2, ContextErrType
      <4> QED BY <4>1, <4>3
    <3>2. /\ call' \in [Senders -> Call]
          /\ \A q \in Senders : call'[q].rcptsLeft = call[q].rcptsLeft
      BY <3>1 DEF Call
    <3> QED BY <2>15, <3>2 DEF StartFails, Terminate, Unbind
  <2>16. ASSUME NEW p \in Senders, AddressInvalid(p)
        PROVE  TypeOK' /\ RcptLoop'
    <3>1. /\ call' \in [Senders -> Call]
          /\ \A q \in Senders : call'[q].rcptsLeft = call[q].rcptsLeft
      <4>1. ContextErr(p, "invalid") \in Error
        BY ContextErrType DEF Error
      <4> QED BY <2>16, <4>1, EndOfAttempt DEF AddressInvalid, ReturnError
    <3> QED BY <2>16, <3>1 DEF AddressInvalid, ReturnError, Unbind
  <2>17. ASSUME NEW p \in Senders, BodyWritten(p)
        PROVE  TypeOK' /\ RcptLoop'
    BY <2>17 DEF BodyWritten
  <2>18. ASSUME NEW p \in Senders, BodyFails(p)
        PROVE  TypeOK' /\ RcptLoop'
    <3>1. /\ call' \in [Senders -> Call]
          /\ \A q \in Senders : call'[q].rcptsLeft = call[q].rcptsLeft
      <4>1. ContextErr(p, "io") \in Error
        BY ContextErrType DEF Error
      <4> QED BY <2>18, <4>1, EndOfAttempt DEF BodyFails, ReturnError
    <3> QED BY <2>18, <3>1 DEF BodyFails, ReturnError, Terminate, Unbind
  <2>19. ASSUME NEW p \in Senders, SkipReset(p)
        PROVE  TypeOK' /\ RcptLoop'
    BY <2>19 DEF SkipReset
  <2>20. ASSUME NEW p \in Senders, WaitForRetry(p)
        PROVE  TypeOK' /\ RcptLoop'
    BY <2>20 DEF WaitForRetry, Call, Error
  <2>21. ASSUME NEW p \in Senders, MailAccepted(p)
        PROVE  TypeOK' /\ RcptLoop'
    BY <2>21, SessionType DEF MailAccepted, Answer
  <2>22. ASSUME NEW p \in Senders, RcptAccepted(p)
        PROVE  TypeOK' /\ RcptLoop'
    BY <2>22, SessionType DEF RcptAccepted, Answer, Call, Error
  <2>23. ASSUME NEW p \in Senders, DataAccepted(p)
        PROVE  TypeOK' /\ RcptLoop'
    BY <2>23, SessionType DEF DataAccepted, Answer
  <2>24. ASSUME NEW p \in Senders, DotAccepted(p)
        PROVE  TypeOK' /\ RcptLoop'
    <3>1. /\ call' \in [Senders -> Call]
          /\ \A q \in Senders : call'[q].rcptsLeft = call[q].rcptsLeft
      BY <2>24, EndOfAttempt DEF DotAccepted, Error
    <3>2. /\ txn' = "none" /\ sentOnConn' \in Nat
          /\ armed' = "none" /\ hook' = Nobody
          /\ mu' = Nobody /\ wire' = "none" /\ lastMessageTime' = "recent"
      BY <2>24 DEF DotAccepted, Answer, Unbind
    <3>3. /\ started' \in BOOLEAN /\ closing' \in BOOLEAN
          /\ ctxHasDeadline' \in BOOLEAN
      BY <2>24 DEF DotAccepted
    <3>4. conn' \in {"none", "open", "dead"} /\ restartCounter' \in Nat
      BY <2>24 DEF DotAccepted
    <3>5. pc' = [pc EXCEPT ![p] = "check"]
      BY <2>24 DEF DotAccepted
    <3> QED BY <3>1, <3>2, <3>3, <3>4, <3>5
  <2>25. ASSUME NEW p \in Senders, NEW r \in Outcome, PingReply(p, r)
        PROVE  TypeOK' /\ RcptLoop'
    <3>1. /\ conn' \in {"none", "open", "dead"} /\ started' \in BOOLEAN
          /\ closing' \in BOOLEAN /\ sentOnConn' \in Nat
          /\ txn' \in {"none", "mail", "rcpt", "data"}
      BY <2>25, SessionType DEF PingReply
    <3>2. armed' \in {"none", "io", "ctx"} /\ hook' \in Senders \cup {Nobody}
      BY <2>25 DEF PingReply, Unbind
    <3> QED BY <2>25, <3>1, <3>2 DEF PingReply, Answer
  <2>26. ASSUME NEW p \in Senders, NEW r \in Outcome, ConversationFails(p, r)
        PROVE  TypeOK' /\ RcptLoop'
    <3>1. PICK n \in Nat : ReturnError(p, r, n)
      BY <2>26 DEF ConversationFails
    <3>2. /\ call' \in [Senders -> Call]
          /\ \A q \in Senders : call'[q].rcptsLeft = call[q].rcptsLeft
      <4>1. ContextErr(p, r) \in Error
        BY <2>26, ContextErrType DEF ConversationFails, Outcome, Error
      <4> QED BY <3>1, <4>1, EndOfAttempt DEF ReturnError
    <3>3. /\ conn' \in {"none", "open", "dead"} /\ started' \in BOOLEAN
          /\ closing' \in BOOLEAN /\ sentOnConn' \in Nat
          /\ txn' \in {"none", "mail", "rcpt", "data"}
      BY <2>26, SessionType DEF ConversationFails
    <3>4. wire' = "none"
      BY <2>26 DEF ConversationFails, Answer
    <3> QED BY <3>1, <3>2, <3>3, <3>4 DEF ReturnError, Unbind
  <2>27. ASSUME NEW p \in Senders, NEW r \in Outcome, RsetReply(p, r)
        PROVE  TypeOK' /\ RcptLoop'
    <3>1. /\ conn' \in {"none", "open", "dead"} /\ started' \in BOOLEAN
          /\ closing' \in BOOLEAN /\ sentOnConn' \in Nat
          /\ txn' \in {"none", "mail", "rcpt", "data"}
      <4>1. CASE r = "ok"
        BY <2>27, <4>1, SessionType DEF RsetReply
      <4>2. CASE r # "ok"
        <5>1. Terminate
          BY <2>27, <4>2 DEF RsetReply
        <5> QED BY <5>1 DEF Terminate
      <4> QED BY <4>1, <4>2
    <3>2. armed' \in {"none", "io", "ctx"} /\ hook' \in Senders \cup {Nobody}
      BY <2>27 DEF RsetReply, Unbind
    <3> QED BY <2>27, <3>1, <3>2 DEF RsetReply, Answer
  <2>28. ASSUME NEW p \in Senders, NEW r \in Outcome, QuitReply(p, r)
        PROVE  TypeOK' /\ RcptLoop'
    BY <2>28 DEF QuitReply, Answer, Terminate, Unbind
  <2>29. CASE UNCHANGED vars
    BY <2>29 DEF vars
  <2> QED
    BY <2>1, <2>2, <2>3, <2>4, <2>5, <2>6, <2>7, <2>8, <2>9, <2>10, <2>11,
       <2>12, <2>13, <2>14, <2>15, <2>16, <2>17, <2>18, <2>19, <2>20, <2>21,
       <2>22, <2>23, <2>24, <2>25, <2>26, <2>27, <2>28, <2>29
       DEF Next, Acquire, Run, Proceed, Handle
<1> QED BY <1>1, <1>2, PTL DEF Spec

------------------------------------------------------------------------------
(* The critical sections of the mutex.                                     *)

\* t.mu is held by the sender that is inside a critical section.
Holder == \A p \in Senders : pc[p] \in Critical <=> mu = p

\* A command is only issued, and its reply only handled, by the goroutine that
\* holds t.mu; the sections of Send between which it is released never overlap.
THEOREM MutualExclusion == Spec => []Holder
<1> USE SendersAssumption
<1>1. Init => Holder
  BY DEF Init, Holder, Critical, Conversation
<1>2. Holder /\ TypeOK /\ [Next]_vars => Holder'
  <2> SUFFICES ASSUME Holder, TypeOK, [Next]_vars
               PROVE  Holder'
    OBVIOUS
  <2> USE DEF Holder, TypeOK, Critical, Conversation, ControlPoint, Goto,
       sessionVars, boundVars, poolVars
  <2>1. CASE AsyncClose
    BY <2>1 DEF AsyncClose
  <2>2. CASE Age
    BY <2>2 DEF Age
  <2>3. ASSUME NEW p \in Senders, CallSend(p)
        PROVE  Holder'
    BY <2>3 DEF CallSend
  <2>4. ASSUME NEW p \in Senders, CallClose(p)
        PROVE  Holder'
    BY <2>4 DEF CallClose
  <2>5. ASSUME NEW p \in Senders, CtxDone(p)
        PROVE  Holder'
    BY <2>5 DEF CtxDone
  <2>6. ASSUME NEW p \in Senders, DoSendBegin(p)
        PROVE  Holder'
    BY <2>6 DEF DoSendBegin
  <2>7. ASSUME NEW p \in Senders, TerminateForRetry(p)
        PROVE  Holder'
    BY <2>7 DEF TerminateForRetry
  <2>8. ASSUME NEW p \in Senders, ResetBegin(p)
        PROVE  Holder'
    BY <2>8 DEF ResetBegin
  <2>9. ASSUME NEW p \in Senders, CheckRestartThreshold(p)
        PROVE  Holder'
    BY <2>9 DEF CheckRestartThreshold
  <2>10. ASSUME NEW p \in Senders, CloseBegin(p)
         PROVE  Holder'
    BY <2>10 DEF CloseBegin
  <2>11. ASSUME NEW p \in Senders, BaseSend(p)
         PROVE  Holder'
    BY <2>11 DEF BaseSend
  <2>12. ASSUME NEW p \in Senders, Issue(p)
         PROVE  Holder'
    BY <2>12 DEF Issue
  <2>13. ASSUME NEW p \in Senders, StartReused(p)
         PROVE  Holder'
    BY <2>13 DEF StartReused
  <2>14. ASSUME NEW p \in Senders, StartConnects(p)
         PROVE  Holder'
    BY <2>14 DEF StartConnects
  <2>15. ASSUME NEW p \in Senders, StartFails(p)
         PROVE  Holder'
    BY <2>15 DEF StartFails
  <2>16. ASSUME NEW p \in Senders, AddressInvalid(p)
         PROVE  Holder'
    BY <2>16 DEF AddressInvalid, ReturnError, Encodes
  <2>17. ASSUME NEW p \in Senders, BodyWritten(p)
         PROVE  Holder'
    BY <2>17 DEF BodyWritten
  <2>18. ASSUME NEW p \in Senders, BodyFails(p)
         PROVE  Holder'
    BY <2>18 DEF BodyFails, ReturnError
  <2>19. ASSUME NEW p \in Senders, SkipReset(p)
         PROVE  Holder'
    BY <2>19 DEF SkipReset
  <2>20. ASSUME NEW p \in Senders, WaitForRetry(p)
         PROVE  Holder'
    BY <2>20 DEF WaitForRetry
  <2>21. ASSUME NEW p \in Senders, MailAccepted(p)
         PROVE  Holder'
    BY <2>21 DEF MailAccepted, Answer
  <2>22. ASSUME NEW p \in Senders, RcptAccepted(p)
         PROVE  Holder'
    BY <2>22 DEF RcptAccepted, Answer
  <2>23. ASSUME NEW p \in Senders, DataAccepted(p)
         PROVE  Holder'
    BY <2>23 DEF DataAccepted, Answer
  <2>24. ASSUME NEW p \in Senders, DotAccepted(p)
         PROVE  Holder'
    BY <2>24 DEF DotAccepted, Answer
  <2>25. ASSUME NEW p \in Senders, NEW r \in Outcome, PingReply(p, r)
         PROVE  Holder'
    BY <2>25 DEF PingReply, Answer
  <2>26. ASSUME NEW p \in Senders, NEW r \in Outcome, ConversationFails(p, r)
         PROVE  Holder'
    BY <2>26 DEF ConversationFails, Answer, ReturnError
  <2>27. ASSUME NEW p \in Senders, NEW r \in Outcome, RsetReply(p, r)
         PROVE  Holder'
    BY <2>27 DEF RsetReply, Answer
  <2>28. ASSUME NEW p \in Senders, NEW r \in Outcome, QuitReply(p, r)
         PROVE  Holder'
    BY <2>28 DEF QuitReply, Answer
  <2>29. CASE UNCHANGED vars
    BY <2>29 DEF vars
  <2> QED
    BY <2>1, <2>2, <2>3, <2>4, <2>5, <2>6, <2>7, <2>8, <2>9, <2>10, <2>11,
       <2>12, <2>13, <2>14, <2>15, <2>16, <2>17, <2>18, <2>19, <2>20, <2>21,
       <2>22, <2>23, <2>24, <2>25, <2>26, <2>27, <2>28, <2>29
       DEF Next, Acquire, Run, Proceed, Handle
<1> QED BY <1>1, <1>2, TypeCorrect, PTL DEF Spec

------------------------------------------------------------------------------
(* What Send reports and what the server did.                              *)

\* Inductive: nothing was accepted while an attempt is still to be made or in
\* progress, and a failure that is retried or reported with a code means that
\* nothing was accepted.
DeliveryInv ==
    \A p \in Senders :
       /\ call[p].accepted \in {0, 1}
       /\ pc[p] \in Conversation \cup {"base", "enter", "retryWait"}
             => call[p].accepted = 0
       /\ pc[p] \in {"check", "checkQuit"} => call[p].accepted = 1
       /\ call[p].err \in {"4xx", "5xx", "invalid"} => call[p].accepted = 0

\* The end of an attempt of p concerns no other call.
LEMMA EndOfAttemptAccepted ==
  ASSUME call \in [Senders -> Call], NEW p \in Senders, NEW e, NEW n \in Nat,
         EndAttempt(p, e, n)
  PROVE  /\ call'[p].err = e /\ call'[p].accepted = call[p].accepted + n
         /\ \A q \in Senders \ {p} : call'[q] = call[q]
<1>1. \A c \in Call : /\ Ended(c, e, n).err = e
                      /\ Ended(c, e, n).accepted = c.accepted + n
  BY DEF Ended, Call
<1> QED BY <1>1 DEF EndAttempt

\* contextErr never invents a reply code.
LEMMA ContextErrReply ==
  ASSUME NEW p, NEW e
  PROVE  ContextErr(p, e) \in {e, "ctx"}
BY DEF ContextErr

\* The retry loop of Send, contextErr and the interleavings of the senders keep
\* the inductive invariant.
THEOREM DeliveryInvariant == Spec => []DeliveryInv
<1> USE SendersAssumption
<1>1. Init => DeliveryInv
  BY DEF Init, DeliveryInv, NewCall, Conversation
<1>2. DeliveryInv /\ TypeOK /\ [Next]_vars => DeliveryInv'
  <2> SUFFICES ASSUME DeliveryInv, TypeOK, [Next]_vars
               PROVE  DeliveryInv'
    OBVIOUS
  <2> USE DEF DeliveryInv, TypeOK, Critical, Conversation, ControlPoint, Goto,
       sessionVars, boundVars, poolVars
  <2>1. CASE AsyncClose
    BY <2>1 DEF AsyncClose
  <2>2. CASE Age
    BY <2>2 DEF Age
  <2>3. ASSUME NEW p \in Senders, CallSend(p)
        PROVE  DeliveryInv'
    BY <2>3 DEF CallSend, NewCall
  <2>4. ASSUME NEW p \in Senders, CallClose(p)
        PROVE  DeliveryInv'
    BY <2>4 DEF CallClose
  <2>5. ASSUME NEW p \in Senders, CtxDone(p)
        PROVE  DeliveryInv'
    BY <2>5 DEF CtxDone, Call
  <2>6. ASSUME NEW p \in Senders, DoSendBegin(p)
        PROVE  DeliveryInv'
    BY <2>6 DEF DoSendBegin, Call
  <2>7. ASSUME NEW p \in Senders, TerminateForRetry(p)
        PROVE  DeliveryInv'
    BY <2>7 DEF TerminateForRetry, Retry, IsTransientSMTPError
  <2>8. ASSUME NEW p \in Senders, ResetBegin(p)
        PROVE  DeliveryInv'
    BY <2>8 DEF ResetBegin
  <2>9. ASSUME NEW p \in Senders, CheckRestartThreshold(p)
        PROVE  DeliveryInv'
    BY <2>9 DEF CheckRestartThreshold
  <2>10. ASSUME NEW p \in Senders, CloseBegin(p)
         PROVE  DeliveryInv'
    BY <2>10 DEF CloseBegin
  <2>11. ASSUME NEW p \in Senders, BaseSend(p)
         PROVE  DeliveryInv'
    BY <2>11 DEF BaseSend, Call
  <2>12. ASSUME NEW p \in Senders, Issue(p)
         PROVE  DeliveryInv'
    BY <2>12 DEF Issue
  <2>13. ASSUME NEW p \in Senders, StartReused(p)
         PROVE  DeliveryInv'
    BY <2>13 DEF StartReused
  <2>14. ASSUME NEW p \in Senders, StartConnects(p)
         PROVE  DeliveryInv'
    BY <2>14 DEF StartConnects
  <2>15. ASSUME NEW p \in Senders, StartFails(p)
         PROVE  DeliveryInv'
    <3>1. PICK e : call' = [call EXCEPT ![p].err = e]
      BY <2>15 DEF StartFails
    <3> QED BY <2>15, <3>1 DEF StartFails, Call
  <2>16. ASSUME NEW p \in Senders, AddressInvalid(p)
         PROVE  DeliveryInv'
    BY <2>16, EndOfAttemptAccepted, ContextErrReply
       DEF AddressInvalid, ReturnError, Encodes
  <2>17. ASSUME NEW p \in Senders, BodyWritten(p)
         PROVE  DeliveryInv'
    BY <2>17 DEF BodyWritten
  <2>18. ASSUME NEW p \in Senders, BodyFails(p)
         PROVE  DeliveryInv'
    BY <2>18, EndOfAttemptAccepted, ContextErrReply DEF BodyFails, ReturnError
  <2>19. ASSUME NEW p \in Senders, SkipReset(p)
         PROVE  DeliveryInv'
    BY <2>19 DEF SkipReset
  <2>20. ASSUME NEW p \in Senders, WaitForRetry(p)
         PROVE  DeliveryInv'
    BY <2>20 DEF WaitForRetry, Call
  <2>21. ASSUME NEW p \in Senders, MailAccepted(p)
         PROVE  DeliveryInv'
    BY <2>21 DEF MailAccepted, Answer
  <2>22. ASSUME NEW p \in Senders, RcptAccepted(p)
         PROVE  DeliveryInv'
    BY <2>22 DEF RcptAccepted, Answer, Call
  <2>23. ASSUME NEW p \in Senders, DataAccepted(p)
         PROVE  DeliveryInv'
    BY <2>23 DEF DataAccepted, Answer
  <2>24. ASSUME NEW p \in Senders, DotAccepted(p)
         PROVE  DeliveryInv'
    BY <2>24, EndOfAttemptAccepted DEF DotAccepted
  <2>25. ASSUME NEW p \in Senders, NEW r \in Outcome, PingReply(p, r)
         PROVE  DeliveryInv'
    BY <2>25 DEF PingReply, Answer
  <2>26. ASSUME NEW p \in Senders, NEW r \in Outcome, ConversationFails(p, r)
         PROVE  DeliveryInv'
    <3>1. PICK n \in {0, 1} : /\ ReturnError(p, r, n)
                              /\ n = 1 => r \in {"io", "odd", "other"}
      BY <2>26 DEF ConversationFails
    <3>2. call[p].accepted = 0
      BY <2>26 DEF ConversationFails
    <3> QED
      BY <3>1, <3>2, EndOfAttemptAccepted, ContextErrReply DEF ReturnError
  <2>27. ASSUME NEW p \in Senders, NEW r \in Outcome, RsetReply(p, r)
         PROVE  DeliveryInv'
    BY <2>27 DEF RsetReply, Answer
  <2>28. ASSUME NEW p \in Senders, NEW r \in Outcome, QuitReply(p, r)
         PROVE  DeliveryInv'
    BY <2>28 DEF QuitReply, Answer
  <2>29. CASE UNCHANGED vars
    BY <2>29 DEF vars
  <2> QED
    BY <2>1, <2>2, <2>3, <2>4, <2>5, <2>6, <2>7, <2>8, <2>9, <2>10, <2>11,
       <2>12, <2>13, <2>14, <2>15, <2>16, <2>17, <2>18, <2>19, <2>20, <2>21,
       <2>22, <2>23, <2>24, <2>25, <2>26, <2>27, <2>28, <2>29
       DEF Next, Acquire, Run, Proceed, Handle
<1> QED BY <1>1, <1>2, TypeCorrect, PTL DEF Spec

\* One Send hands its message to the server at most once, however many attempts
\* it makes and whatever the other senders do.
THEOREM DeliveredAtMostOnce == Spec => []AcceptedAtMostOnce
<1>1. DeliveryInv => AcceptedAtMostOnce
  BY DEF DeliveryInv, AcceptedAtMostOnce
<1> QED BY <1>1, DeliveryInvariant, PTL

\* What Send reports agrees with what the server did: success means accepted,
\* a 4xx or 5xx code and a validation error mean not accepted.
THEOREM DeliveryIsTruthful == Spec => []OutcomeIsTruthful
<1>1. DeliveryInv => OutcomeIsTruthful
  BY DEF DeliveryInv, OutcomeIsTruthful
<1> QED BY <1>1, DeliveryInvariant, PTL

------------------------------------------------------------------------------
(* The restart threshold.                                                  *)

\* Senders whose message is sent but not yet counted by checkRestartThreshold.
Waiting == {p \in Senders : pc[p] = "check"}

\* Inductive: every message sent on the connection has been counted or is about
\* to be, and the counter reaches the threshold only while the sender that made
\* it do so is stopping the connection.
BudgetInv ==
    /\ conn = "open" => started
    /\ ~started => sentOnConn = 0
    /\ RestartThreshold # 0 =>
          /\ sentOnConn <= restartCounter + Cardinality(Waiting)
          /\ \/ restartCounter < RestartThreshold
             \/ /\ restartCounter <= RestartThreshold
                /\ \E p \in Senders : pc[p] = "checkQuit"

\* A step that counts nothing: it neither sends a message nor enters or leaves
\* the two control points of checkRestartThreshold.
Quiet ==
    /\ \A q \in Senders :
          \/ pc'[q] = pc[q]
          \/ pc[q] \notin {"check", "checkQuit"} /\ pc'[q] # "check"
    /\ restartCounter' = restartCounter
    /\ \/ /\ sentOnConn' = sentOnConn /\ started' = started
          /\ conn' \in {conn, "dead"}
       \/ sentOnConn' = 0 /\ (conn' = "open" => started')

\* The senders about to count are finitely many.
LEMMA WaitingCount == IsFiniteSet(Waiting) /\ Cardinality(Waiting) \in Nat
<1>1. IsFiniteSet(Waiting)
  BY SendersAssumption, FS_Subset DEF Waiting
<1> QED BY <1>1, FS_CardinalityType

\* One more sender is about to count.
LEMMA WaitingJoin ==
  ASSUME TypeOK, NEW p \in Senders, pc[p] # "check",
         pc' = [pc EXCEPT ![p] = "check"]
  PROVE  Cardinality(Waiting') = Cardinality(Waiting) + 1
<1>1. Waiting' = Waiting \cup {p} /\ p \notin Waiting
  BY DEF Waiting, TypeOK
<1> QED BY <1>1, WaitingCount, FS_AddElement

\* A sender has counted.
LEMMA WaitingLeave ==
  ASSUME TypeOK, NEW p \in Senders, pc[p] = "check", pc'[p] # "check",
         \A q \in Senders \ {p} : pc'[q] = pc[q]
  PROVE  /\ Cardinality(Waiting') \in Nat
         /\ Cardinality(Waiting) = Cardinality(Waiting') + 1
<1>1. Waiting' = Waiting \ {p} /\ p \in Waiting
  BY DEF Waiting
<1>2. Cardinality(Waiting \ {p}) = Cardinality(Waiting) - 1
  BY <1>1, WaitingCount, FS_RemoveElement
<1>3. IsFiniteSet(Waiting \ {p})
  BY WaitingCount, FS_RemoveElement
<1>4. Cardinality(Waiting \ {p}) \in Nat
  BY <1>3, FS_CardinalityType
<1> QED BY <1>1, <1>2, <1>4, WaitingCount

\* A step that counts nothing keeps the invariant.
LEMMA QuietStep ==
  ASSUME TypeOK, BudgetInv, Quiet
  PROVE  BudgetInv'
<1>1. Waiting' = Waiting
  BY DEF Waiting, Quiet
<1>2. \A q \in Senders : pc[q] = "checkQuit" => pc'[q] = "checkQuit"
  BY DEF Quiet
<1>3. RestartThreshold # 0 =>
         sentOnConn' <= restartCounter' + Cardinality(Waiting')
  BY <1>1, WaitingCount DEF Quiet, BudgetInv, TypeOK
<1>4. (conn' = "open" => started') /\ (~started' => sentOnConn' = 0)
  BY DEF Quiet, BudgetInv
<1> QED BY <1>2, <1>3, <1>4 DEF Quiet, BudgetInv

\* At most all senders but the one that stops the connection are about to count.
LEMMA BudgetSuffices ==
  ASSUME TypeOK, BudgetInv
  PROVE  ConnectionBudget
<1> SUFFICES ASSUME RestartThreshold # 0
             PROVE  sentOnConn <= RestartThreshold + Cardinality(Senders) - 1
  BY DEF ConnectionBudget
<1>1. Cardinality(Senders) \in Nat
  BY SendersAssumption, FS_CardinalityType
<1>2. CASE restartCounter < RestartThreshold
  <2>1. Cardinality(Waiting) <= Cardinality(Senders)
    BY SendersAssumption, FS_Subset DEF Waiting
  <2> QED BY <1>1, <1>2, <2>1, WaitingCount, ThresholdAssumption
          DEF BudgetInv, TypeOK
<1>3. ASSUME NEW p \in Senders, pc[p] = "checkQuit",
             restartCounter <= RestartThreshold
      PROVE  sentOnConn <= RestartThreshold + Cardinality(Senders) - 1
  <2>1. Waiting \subseteq Senders \ {p}
    BY <1>3 DEF Waiting
  <2>2. /\ IsFiniteSet(Senders \ {p})
        /\ Cardinality(Senders \ {p}) = Cardinality(Senders) - 1
    BY SendersAssumption, FS_RemoveElement
  <2>3. Cardinality(Waiting) <= Cardinality(Senders \ {p})
    BY <2>1, <2>2, FS_Subset
  <2> QED BY <1>1, <1>3, <2>2, <2>3, WaitingCount, ThresholdAssumption
          DEF BudgetInv, TypeOK
<1> QED BY <1>2, <1>3 DEF BudgetInv

\* No connection carries more than the restart threshold and one message of
\* every other sender, however the critical sections of Send interleave.
THEOREM BudgetIsKept == Spec => []ConnectionBudget
<1> USE SendersAssumption
<1>1. Init => BudgetInv
  <2>1. ASSUME Init PROVE BudgetInv
    <3>1. Waiting = {}
      BY <2>1 DEF Init, Waiting
    <3> QED BY <2>1, <3>1, FS_EmptySet, ThresholdAssumption DEF Init, BudgetInv
  <2> QED BY <2>1
<1>2. BudgetInv /\ TypeOK /\ Holder /\ [Next]_vars => BudgetInv'
  <2> SUFFICES ASSUME BudgetInv, TypeOK, Holder, [Next]_vars
               PROVE  BudgetInv'
    OBVIOUS
  <2> USE DEF TypeOK, ControlPoint, Goto, sessionVars, boundVars, poolVars
  <2>1. CASE AsyncClose
    <3>1. Quiet
      BY <2>1 DEF Quiet, AsyncClose
    <3> QED BY <3>1, QuietStep
  <2>2. CASE Age
    <3>1. Quiet
      BY <2>2 DEF Quiet, Age
    <3> QED BY <3>1, QuietStep
  <2>3. ASSUME NEW p \in Senders, CallSend(p)
        PROVE  BudgetInv'
    <3>1. Quiet
      BY <2>3 DEF Quiet, CallSend
    <3> QED BY <3>1, QuietStep
  <2>4. ASSUME NEW p \in Senders, CallClose(p)
        PROVE  BudgetInv'
    <3>1. Quiet
      BY <2>4 DEF Quiet, CallClose
    <3> QED BY <3>1, QuietStep
  <2>5. ASSUME NEW p \in Senders, CtxDone(p)
        PROVE  BudgetInv'
    <3>1. Quiet
      BY <2>5 DEF Quiet, CtxDone
    <3> QED BY <3>1, QuietStep
  <2>6. ASSUME NEW p \in Senders, DoSendBegin(p)
        PROVE  BudgetInv'
    <3>1. Quiet
      BY <2>6 DEF Quiet, DoSendBegin
    <3> QED BY <3>1, QuietStep
  <2>7. ASSUME NEW p \in Senders, TerminateForRetry(p)
        PROVE  BudgetInv'
    <3>1. Quiet
      BY <2>7 DEF Quiet, TerminateForRetry, Terminate
    <3> QED BY <3>1, QuietStep
  <2>8. ASSUME NEW p \in Senders, ResetBegin(p)
        PROVE  BudgetInv'
    <3>1. Quiet
      BY <2>8 DEF Quiet, ResetBegin
    <3> QED BY <3>1, QuietStep
  <2>9. ASSUME NEW p \in Senders, CheckRestartThreshold(p)
        PROVE  BudgetInv'
    <3>1. /\ pc[p] = "check" /\ pc'[p] # "check"
          /\ \A q \in Senders \ {p} : pc'[q] = pc[q]
      BY <2>9 DEF CheckRestartThreshold
    <3>2. Cardinality(Waiting) = Cardinality(Waiting') + 1
      BY <3>1, WaitingLeave
    <3>3. RestartThreshold # 0 => restartCounter < RestartThreshold
      BY <2>9 DEF CheckRestartThreshold, Holder, Critical, BudgetInv
    <3>4. RestartThreshold # 0 =>
             \/ restartCounter' < RestartThreshold
             \/ restartCounter' <= RestartThreshold /\ pc'[p] = "checkQuit"
      BY <2>9, <3>3, ThresholdAssumption DEF CheckRestartThreshold, RestartDue
    <3>5. RestartThreshold # 0 /\ started => restartCounter' = restartCounter + 1
      BY <2>9 DEF CheckRestartThreshold
    <3>6. restartCounter' \in Nat /\ Cardinality(Waiting') \in Nat
      BY <2>9, <3>1, WaitingLeave DEF CheckRestartThreshold
    <3>7. RestartThreshold # 0 =>
             sentOnConn' <= restartCounter' + Cardinality(Waiting')
      <4>1. CASE started
        BY <2>9, <3>2, <3>5, <3>6, <4>1 DEF CheckRestartThreshold, BudgetInv
      <4>2. CASE ~started
        BY <2>9, <3>6, <4>2 DEF CheckRestartThreshold, BudgetInv
      <4> QED BY <4>1, <4>2
    <3> QED BY <2>9, <3>4, <3>7 DEF CheckRestartThreshold, BudgetInv
  <2>10. ASSUME NEW p \in Senders, CloseBegin(p)
         PROVE  BudgetInv'
    <3>1. Quiet
      BY <2>10 DEF Quiet, CloseBegin
    <3> QED BY <3>1, QuietStep
  <2>11. ASSUME NEW p \in Senders, BaseSend(p)
         PROVE  BudgetInv'
    <3>1. Quiet
      BY <2>11 DEF Quiet, BaseSend
    <3> QED BY <3>1, QuietStep
  <2>12. ASSUME NEW p \in Senders, Issue(p)
         PROVE  BudgetInv'
    <3>1. Quiet
      BY <2>12 DEF Quiet, Issue
    <3> QED BY <3>1, QuietStep
  <2>13. ASSUME NEW p \in Senders, StartReused(p)
         PROVE  BudgetInv'
    <3>1. Quiet
      BY <2>13 DEF Quiet, StartReused
    <3> QED BY <3>1, QuietStep
  <2>14. ASSUME NEW p \in Senders, StartConnects(p)
         PROVE  BudgetInv'
    <3>1. Quiet
      BY <2>14 DEF Quiet, StartConnects
    <3> QED BY <3>1, QuietStep
  <2>15. ASSUME NEW p \in Senders, StartFails(p)
         PROVE  BudgetInv'
    <3>1. Quiet
      BY <2>15 DEF Quiet, StartFails, Terminate
    <3> QED BY <3>1, QuietStep
  <2>16. ASSUME NEW p \in Senders, AddressInvalid(p)
         PROVE  BudgetInv'
    <3>1. Quiet
      BY <2>16 DEF Quiet, AddressInvalid, ReturnError, Encodes
    <3> QED BY <3>1, QuietStep
  <2>17. ASSUME NEW p \in Senders, BodyWritten(p)
         PROVE  BudgetInv'
    <3>1. Quiet
      BY <2>17 DEF Quiet, BodyWritten
    <3> QED BY <3>1, QuietStep
  <2>18. ASSUME NEW p \in Senders, BodyFails(p)
         PROVE  BudgetInv'
    <3>1. Quiet
      BY <2>18 DEF Quiet, BodyFails, ReturnError, Terminate
    <3> QED BY <3>1, QuietStep
  <2>19. ASSUME NEW p \in Senders, SkipReset(p)
         PROVE  BudgetInv'
    <3>1. Quiet
      BY <2>19 DEF Quiet, SkipReset
    <3> QED BY <3>1, QuietStep
  <2>20. ASSUME NEW p \in Senders, WaitForRetry(p)
         PROVE  BudgetInv'
    <3>1. Quiet
      BY <2>20 DEF Quiet, WaitForRetry
    <3> QED BY <3>1, QuietStep
  <2>21. ASSUME NEW p \in Senders, MailAccepted(p)
         PROVE  BudgetInv'
    <3>1. Quiet
      BY <2>21 DEF Quiet, MailAccepted, SessionAfter
    <3> QED BY <3>1, QuietStep
  <2>22. ASSUME NEW p \in Senders, RcptAccepted(p)
         PROVE  BudgetInv'
    <3>1. Quiet
      BY <2>22 DEF Quiet, RcptAccepted, SessionAfter
    <3> QED BY <3>1, QuietStep
  <2>23. ASSUME NEW p \in Senders, DataAccepted(p)
         PROVE  BudgetInv'
    <3>1. Quiet
      BY <2>23 DEF Quiet, DataAccepted, SessionAfter
    <3> QED BY <3>1, QuietStep
  <2>24. ASSUME NEW p \in Senders, DotAccepted(p)
         PROVE  BudgetInv'
    <3>1. /\ pc[p] = "dot" /\ pc' = [pc EXCEPT ![p] = "check"]
          /\ started /\ started' = started /\ conn' = conn
          /\ sentOnConn' = sentOnConn + 1 /\ restartCounter' = restartCounter
      BY <2>24 DEF DotAccepted, Answer, BudgetInv
    <3>2. Cardinality(Waiting') = Cardinality(Waiting) + 1
      BY <3>1, WaitingJoin
    <3>3. \A q \in Senders : pc[q] = "checkQuit" => pc'[q] = "checkQuit"
      BY <3>1
    <3> QED BY <3>1, <3>2, <3>3, WaitingCount DEF BudgetInv
  <2>25. ASSUME NEW p \in Senders, NEW r \in Outcome, PingReply(p, r)
         PROVE  BudgetInv'
    <3>1. Quiet
      BY <2>25 DEF Quiet, PingReply, SessionAfter, Terminate
    <3> QED BY <3>1, QuietStep
  <2>26. ASSUME NEW p \in Senders, NEW r \in Outcome, ConversationFails(p, r)
         PROVE  BudgetInv'
    <3>1. Quiet
      BY <2>26 DEF Quiet, ConversationFails, SessionAfter, ReturnError, Terminate
    <3> QED BY <3>1, QuietStep
  <2>27. ASSUME NEW p \in Senders, NEW r \in Outcome, RsetReply(p, r)
         PROVE  BudgetInv'
    <3>1. Quiet
      BY <2>27 DEF Quiet, RsetReply, SessionAfter, Terminate
    <3> QED BY <3>1, QuietStep
  <2>28. ASSUME NEW p \in Senders, NEW r \in Outcome, QuitReply(p, r)
         PROVE  BudgetInv'
    <3>1. sentOnConn' = 0 /\ conn' = "none"
      BY <2>28 DEF QuitReply, Terminate
    <3>2. RestartThreshold # 0 => restartCounter' < RestartThreshold
      BY <2>28, ThresholdAssumption
         DEF QuitReply, Answer, Holder, Critical, Conversation, BudgetInv
    <3>3. Waiting' = Waiting /\ restartCounter' \in Nat
      BY <2>28 DEF QuitReply, Waiting
    <3> QED BY <3>1, <3>2, <3>3, WaitingCount DEF BudgetInv
  <2>29. CASE UNCHANGED vars
    <3>1. Quiet
      BY <2>29 DEF Quiet, vars
    <3> QED BY <3>1, QuietStep
  <2> QED
    BY <2>1, <2>2, <2>3, <2>4, <2>5, <2>6, <2>7, <2>8, <2>9, <2>10, <2>11,
       <2>12, <2>13, <2>14, <2>15, <2>16, <2>17, <2>18, <2>19, <2>20, <2>21,
       <2>22, <2>23, <2>24, <2>25, <2>26, <2>27, <2>28, <2>29
       DEF Next, Acquire, Run, Proceed, Handle
<1>3. TypeOK /\ BudgetInv => ConnectionBudget
  BY BudgetSuffices
<1> QED BY <1>1, <1>2, <1>3, TypeCorrect, MutualExclusion, PTL DEF Spec

------------------------------------------------------------------------------
(* The connection: what bounds the wait for a reply, and who cleans up      *)
(* after a conversation that failed.                                        *)

\* A connection is started or gone, and a close hook belongs to one that is not.
ConnInv ==
    /\ started <=> conn # "none"
    /\ closing \/ hook # Nobody => conn # "none"

\* The command in flight is the one its sender's control point stands for, and
\* its address was encoded.
WireInv ==
    wire # "none" =>
       /\ mu \in Senders /\ pc[mu] \in DOMAIN CommandAt
       /\ wire = CommandAt[pc[mu]] /\ Encodes(mu)

\* The socket and the close hook are those of p's context.
BoundTo(p) ==
    /\ armed = IF HasDeadline(p) THEN "ctx" ELSE IF IOTimeout THEN "io" ELSE "none"
    /\ hook = p \/ (call[p].done /\ (closing \/ conn = "dead"))

\* From the first bind of doSend to its return the connection, if there is one,
\* is bound to its context, and ctxHasDeadline describes that context.
WaitInv ==
    \A p \in Senders :
       /\ pc[p] \in Conversation => ctxHasDeadline = HasDeadline(p)
       /\ pc[p] \in Conversation \ {"start"} => BoundTo(p)

\* Somebody is inside the transaction the server has open, or is about to reset
\* or drop the connection.
TxnInv ==
    conn # "none" /\ txn # "none" =>
       \E p \in Senders :
          \/ pc[p] \in {"rcpt", "data", "body", "dot", "rset"}
          \/ pc[p] = "failed" /\ call[p].err # "invalid"

------------------------------------------------------------------------------
(* The connection and the command in flight.                               *)

\* terminate, bindConnectionContext and the close hooks keep started, the
\* connection and the hooks on it together.
THEOREM ConnectionIsCoherent == Spec => []ConnInv
<1> USE SendersAssumption
<1>1. Init => ConnInv
  BY DEF Init, ConnInv
<1>2. ConnInv /\ TypeOK /\ [Next]_vars => ConnInv'
  <2> SUFFICES ASSUME ConnInv, TypeOK, [Next]_vars
               PROVE  ConnInv'
    OBVIOUS
  <2> USE DEF ConnInv, TypeOK, sessionVars, boundVars
  <2>1. CASE AsyncClose
    BY <2>1 DEF AsyncClose
  <2>2. CASE Age
    BY <2>2 DEF Age
  <2>3. ASSUME NEW p \in Senders, CallSend(p)
        PROVE  ConnInv'
    BY <2>3 DEF CallSend
  <2>4. ASSUME NEW p \in Senders, CallClose(p)
        PROVE  ConnInv'
    BY <2>4 DEF CallClose
  <2>5. ASSUME NEW p \in Senders, CtxDone(p)
        PROVE  ConnInv'
    BY <2>5 DEF CtxDone
  <2>6. ASSUME NEW p \in Senders, DoSendBegin(p)
        PROVE  ConnInv'
    BY <2>6 DEF DoSendBegin, Bind
  <2>7. ASSUME NEW p \in Senders, TerminateForRetry(p)
        PROVE  ConnInv'
    BY <2>7 DEF TerminateForRetry, Terminate, Unbind
  <2>8. ASSUME NEW p \in Senders, ResetBegin(p)
        PROVE  ConnInv'
    BY <2>8 DEF ResetBegin
  <2>9. ASSUME NEW p \in Senders, CheckRestartThreshold(p)
        PROVE  ConnInv'
    BY <2>9 DEF CheckRestartThreshold
  <2>10. ASSUME NEW p \in Senders, CloseBegin(p)
         PROVE  ConnInv'
    BY <2>10 DEF CloseBegin
  <2>11. ASSUME NEW p \in Senders, BaseSend(p)
         PROVE  ConnInv'
    BY <2>11 DEF BaseSend
  <2>12. ASSUME NEW p \in Senders, Issue(p)
         PROVE  ConnInv'
    BY <2>12 DEF Issue
  <2>13. ASSUME NEW p \in Senders, StartReused(p)
         PROVE  ConnInv'
    BY <2>13 DEF StartReused, Bind
  <2>14. ASSUME NEW p \in Senders, StartConnects(p)
         PROVE  ConnInv'
    BY <2>14 DEF StartConnects, Bind
  <2>15. ASSUME NEW p \in Senders, StartFails(p)
         PROVE  ConnInv'
    BY <2>15 DEF StartFails, Terminate, Unbind
  <2>16. ASSUME NEW p \in Senders, AddressInvalid(p)
         PROVE  ConnInv'
    BY <2>16 DEF AddressInvalid, ReturnError, Unbind
  <2>17. ASSUME NEW p \in Senders, BodyWritten(p)
         PROVE  ConnInv'
    BY <2>17 DEF BodyWritten
  <2>18. ASSUME NEW p \in Senders, BodyFails(p)
         PROVE  ConnInv'
    BY <2>18 DEF BodyFails, ReturnError, Terminate, Unbind
  <2>19. ASSUME NEW p \in Senders, SkipReset(p)
         PROVE  ConnInv'
    BY <2>19 DEF SkipReset
  <2>20. ASSUME NEW p \in Senders, WaitForRetry(p)
         PROVE  ConnInv'
    BY <2>20 DEF WaitForRetry
  <2>21. ASSUME NEW p \in Senders, MailAccepted(p)
         PROVE  ConnInv'
    BY <2>21 DEF MailAccepted, SessionAfter
  <2>22. ASSUME NEW p \in Senders, RcptAccepted(p)
         PROVE  ConnInv'
    BY <2>22 DEF RcptAccepted, SessionAfter
  <2>23. ASSUME NEW p \in Senders, DataAccepted(p)
         PROVE  ConnInv'
    BY <2>23 DEF DataAccepted, SessionAfter
  <2>24. ASSUME NEW p \in Senders, DotAccepted(p)
         PROVE  ConnInv'
    BY <2>24 DEF DotAccepted, Unbind
  <2>25. ASSUME NEW p \in Senders, NEW r \in Outcome, PingReply(p, r)
         PROVE  ConnInv'
    BY <2>25 DEF PingReply, SessionAfter, Terminate, Unbind
  <2>26. ASSUME NEW p \in Senders, NEW r \in Outcome, ConversationFails(p, r)
         PROVE  ConnInv'
    BY <2>26 DEF ConversationFails, ReturnError, SessionAfter,
             Terminate, Unbind
  <2>27. ASSUME NEW p \in Senders, NEW r \in Outcome, RsetReply(p, r)
         PROVE  ConnInv'
    BY <2>27 DEF RsetReply, SessionAfter, Terminate, Unbind
  <2>28. ASSUME NEW p \in Senders, NEW r \in Outcome, QuitReply(p, r)
         PROVE  ConnInv'
    BY <2>28 DEF QuitReply, Terminate, Unbind
  <2>29. CASE UNCHANGED vars
    BY <2>29 DEF vars
  <2> QED
    BY <2>1, <2>2, <2>3, <2>4, <2>5, <2>6, <2>7, <2>8, <2>9, <2>10, <2>11,
       <2>12, <2>13, <2>14, <2>15, <2>16, <2>17, <2>18, <2>19, <2>20,
       <2>21, <2>22, <2>23, <2>24, <2>25, <2>26, <2>27, <2>28, <2>29
       DEF Next, Acquire, Run, Proceed, Handle
<1> QED BY <1>1, <1>2, TypeCorrect, PTL DEF Spec

\* Only the holder of the mutex has a command in flight, and the reply it reads
\* is handled at the control point that issued the command.
THEOREM CommandMatchesControl == Spec => []WireInv
<1> USE SendersAssumption
<1>1. Init => WireInv
  BY DEF Init, WireInv
<1>2. WireInv /\ TypeOK /\ Holder /\ [Next]_vars => WireInv'
  <2> SUFFICES ASSUME WireInv, TypeOK, Holder, [Next]_vars
               PROVE  WireInv'
    OBVIOUS
  \* A step of a sender that does not hold the mutex leaves its holder alone.
  <2>other. ASSUME NEW p \in Senders, p # mu, UNCHANGED <<mu, wire>>,
                   \A q \in Senders \ {p} :
                      pc'[q] = pc[q] /\ call'[q].msg = call[q].msg
                      /\ call'[q].rcptsLeft = call[q].rcptsLeft
            PROVE  WireInv'
    BY <2>other DEF WireInv, Encodes
  <2> USE DEF sessionVars, boundVars, poolVars, Goto
  <2>1. CASE AsyncClose
    BY <2>1 DEF AsyncClose, WireInv, Encodes
  <2>2. CASE Age
    BY <2>2 DEF Age, WireInv, Encodes
  <2>3. ASSUME NEW p \in Senders, CallSend(p)
        PROVE  WireInv'
    <3>1. p # mu
      BY <2>3 DEF CallSend, Holder, Critical, Conversation
    <3> QED BY <2>3, <2>other, <3>1 DEF CallSend, TypeOK
  <2>4. ASSUME NEW p \in Senders, CallClose(p)
        PROVE  WireInv'
    <3>1. p # mu
      BY <2>4 DEF CallClose, Holder, Critical, Conversation
    <3> QED BY <2>4, <2>other, <3>1 DEF CallClose, TypeOK
  <2>5. ASSUME NEW p \in Senders, CtxDone(p)
        PROVE  WireInv'
    BY <2>5 DEF CtxDone, WireInv, Encodes, TypeOK, Call
  <2>6. ASSUME NEW p \in Senders, DoSendBegin(p)
        PROVE  WireInv'
    <3>1. wire = "none"
      BY <2>6, SendersAssumption DEF WireInv, DoSendBegin, TypeOK
    <3> QED BY <2>6, <3>1 DEF WireInv, DoSendBegin
  <2>7. ASSUME NEW p \in Senders, TerminateForRetry(p)
        PROVE  WireInv'
    <3>1. wire = "none"
      BY <2>7, SendersAssumption DEF WireInv, TerminateForRetry, TypeOK
    <3> QED BY <2>7, <3>1 DEF WireInv, TerminateForRetry
  <2>8. ASSUME NEW p \in Senders, ResetBegin(p)
        PROVE  WireInv'
    <3>1. wire = "none"
      BY <2>8, SendersAssumption DEF WireInv, ResetBegin, TypeOK
    <3> QED BY <2>8, <3>1 DEF WireInv, ResetBegin
  <2>9. ASSUME NEW p \in Senders, CheckRestartThreshold(p)
        PROVE  WireInv'
    <3>1. wire = "none"
      BY <2>9, SendersAssumption DEF WireInv, CheckRestartThreshold, TypeOK
    <3> QED BY <2>9, <3>1 DEF WireInv, CheckRestartThreshold
  <2>10. ASSUME NEW p \in Senders, CloseBegin(p)
         PROVE  WireInv'
    <3>1. wire = "none"
      BY <2>10, SendersAssumption DEF WireInv, CloseBegin, TypeOK
    <3> QED BY <2>10, <3>1 DEF WireInv, CloseBegin
  <2>11. ASSUME NEW p \in Senders, BaseSend(p)
         PROVE  WireInv'
    <3>1. p # mu
      BY <2>11 DEF BaseSend, Holder, Critical, Conversation
    <3> QED BY <2>11, <2>other, <3>1 DEF BaseSend, TypeOK
  <2>12. ASSUME NEW p \in Senders, Issue(p)
         PROVE  WireInv'
    BY <2>12 DEF Issue, WireInv, Encodes
  <2>13. ASSUME NEW p \in Senders, StartReused(p)
         PROVE  WireInv'
    <3>1. wire = "none"
      BY <2>13 DEF StartReused, WireInv, CommandAt
    <3> QED BY <2>13, <3>1 DEF StartReused, WireInv
  <2>14. ASSUME NEW p \in Senders, StartConnects(p)
         PROVE  WireInv'
    <3>1. wire = "none"
      BY <2>14 DEF StartConnects, WireInv, CommandAt
    <3> QED BY <2>14, <3>1 DEF StartConnects, WireInv
  <2>15. ASSUME NEW p \in Senders, StartFails(p)
         PROVE  WireInv'
    <3>1. wire = "none"
      BY <2>15 DEF StartFails, WireInv, CommandAt
    <3> QED BY <2>15, <3>1 DEF StartFails, WireInv
  <2>16. ASSUME NEW p \in Senders, AddressInvalid(p)
         PROVE  WireInv'
    <3>1. wire = "none"
      BY <2>16 DEF AddressInvalid, WireInv
    <3> QED BY <2>16, <3>1 DEF AddressInvalid, WireInv
  <2>17. ASSUME NEW p \in Senders, BodyWritten(p)
         PROVE  WireInv'
    <3>1. wire = "none"
      BY <2>17 DEF BodyWritten, WireInv, CommandAt
    <3> QED BY <2>17, <3>1 DEF BodyWritten, WireInv
  <2>18. ASSUME NEW p \in Senders, BodyFails(p)
         PROVE  WireInv'
    <3>1. wire = "none"
      BY <2>18 DEF BodyFails, WireInv, CommandAt
    <3> QED BY <2>18, <3>1 DEF BodyFails, WireInv
  <2>19. ASSUME NEW p \in Senders, SkipReset(p)
         PROVE  WireInv'
    <3>1. p # mu
      BY <2>19 DEF SkipReset, Holder, Critical, Conversation
    <3> QED BY <2>19, <2>other, <3>1 DEF SkipReset, TypeOK
  <2>20. ASSUME NEW p \in Senders, WaitForRetry(p)
         PROVE  WireInv'
    <3>1. p # mu
      BY <2>20 DEF WaitForRetry, Holder, Critical, Conversation
    <3> QED BY <2>20, <2>other, <3>1 DEF WaitForRetry, TypeOK
  <2>21. ASSUME NEW p \in Senders, MailAccepted(p)
         PROVE  WireInv'
    BY <2>21 DEF MailAccepted, Answer, WireInv
  <2>22. ASSUME NEW p \in Senders, RcptAccepted(p)
         PROVE  WireInv'
    BY <2>22 DEF RcptAccepted, Answer, WireInv
  <2>23. ASSUME NEW p \in Senders, DataAccepted(p)
         PROVE  WireInv'
    BY <2>23 DEF DataAccepted, Answer, WireInv
  <2>24. ASSUME NEW p \in Senders, DotAccepted(p)
         PROVE  WireInv'
    BY <2>24 DEF DotAccepted, Answer, WireInv
  <2>25. ASSUME NEW p \in Senders, NEW r \in Outcome, PingReply(p, r)
         PROVE  WireInv'
    BY <2>25 DEF PingReply, Answer, WireInv
  <2>26. ASSUME NEW p \in Senders, NEW r \in Outcome, ConversationFails(p, r)
         PROVE  WireInv'
    BY <2>26 DEF ConversationFails, Answer, WireInv
  <2>27. ASSUME NEW p \in Senders, NEW r \in Outcome, RsetReply(p, r)
         PROVE  WireInv'
    BY <2>27 DEF RsetReply, Answer, WireInv
  <2>28. ASSUME NEW p \in Senders, NEW r \in Outcome, QuitReply(p, r)
         PROVE  WireInv'
    BY <2>28 DEF QuitReply, Answer, WireInv
  <2>29. CASE UNCHANGED vars
    BY <2>29 DEF vars, WireInv, Encodes
  <2> QED
    BY <2>1, <2>2, <2>3, <2>4, <2>5, <2>6, <2>7, <2>8, <2>9, <2>10, <2>11,
       <2>12, <2>13, <2>14, <2>15, <2>16, <2>17, <2>18, <2>19, <2>20,
       <2>21, <2>22, <2>23, <2>24, <2>25, <2>26, <2>27, <2>28, <2>29
       DEF Next, Acquire, Run, Proceed, Handle
<1> QED BY <1>1, <1>2, TypeCorrect, MutualExclusion, PTL DEF Spec

------------------------------------------------------------------------------
(* What bounds a wait.                                                     *)

\* bindConnectionContext and refreshIOTimeout keep the socket under the context of
\* the doSend that is running, whatever ran on the connection before.
THEOREM WaitInvariant == Spec => []WaitInv
<1> USE SendersAssumption
<1>1. Init => WaitInv
  BY DEF Init, WaitInv, Conversation
<1>2. WaitInv /\ ConnInv /\ Holder /\ TypeOK /\ [Next]_vars => WaitInv'
  <2> SUFFICES ASSUME WaitInv, ConnInv, Holder, TypeOK, [Next]_vars
               PROVE  WaitInv'
    OBVIOUS
  \* What a sender is bound to, when the connection and its call stay.
  <2>same. ASSUME NEW q \in Senders, UNCHANGED <<armed, hook, closing, conn>>,
                  call'[q].ctx = call[q].ctx, call'[q].done = call[q].done
           PROVE  HasDeadline(q)' = HasDeadline(q) /\ BoundTo(q)' = BoundTo(q)
    BY <2>same DEF BoundTo, HasDeadline
  \* A step by one that is not in the conversation, before or after it.
  <2>other. ASSUME NEW p \in Senders,
                   UNCHANGED <<armed, hook, closing, conn, ctxHasDeadline>>,
                   pc'[p] \notin Conversation,
                   \A q \in Senders \ {p} : pc'[q] = pc[q] /\ call'[q] = call[q]
            PROVE  WaitInv'
    BY <2>other, <2>same DEF WaitInv
  \* The holder goes on with the conversation.
  <2>holder. ASSUME NEW p \in Senders, pc[p] \in Conversation \ {"start"},
                    UNCHANGED <<armed, hook, closing, conn, ctxHasDeadline>>,
                    \A q \in Senders \ {p} : pc'[q] = pc[q],
                    \A q \in Senders : /\ call'[q].ctx = call[q].ctx
                                       /\ call'[q].done = call[q].done
             PROVE  WaitInv'
    BY <2>holder, <2>same DEF WaitInv
  \* The holder goes on to start.
  <2>start. ASSUME NEW p \in Senders, pc[p] \in Conversation, pc'[p] = "start",
                   UNCHANGED <<ctxHasDeadline, call>>,
                   \A q \in Senders \ {p} : pc'[q] \notin Conversation
            PROVE  WaitInv'
    BY <2>start DEF WaitInv, HasDeadline
  \* Nobody is left in the conversation.
  <2>nobody. ASSUME \A q \in Senders : pc'[q] \notin Conversation
             PROVE  WaitInv'
    BY <2>nobody DEF WaitInv
  \* The holder is the only one in the conversation.
  <2>alone. ASSUME NEW p \in Senders, mu = p
            PROVE  \A q \in Senders \ {p} : pc[q] \notin Conversation
    BY <2>alone DEF Holder, Critical
  <2> USE DEF sessionVars, boundVars, poolVars, Goto
  <2>1. CASE AsyncClose
    <3>1. ASSUME NEW q \in Senders
          PROVE  HasDeadline(q)' = HasDeadline(q) /\ (BoundTo(q) => BoundTo(q)')
      BY <2>1 DEF AsyncClose, BoundTo, HasDeadline
    <3> QED BY <2>1, <3>1 DEF AsyncClose, WaitInv
  <2>2. CASE Age
    BY <2>2, <2>same DEF Age, WaitInv
  <2>3. ASSUME NEW p \in Senders, CallSend(p)
         PROVE  WaitInv'
    BY <2>3, <2>other DEF CallSend, TypeOK, ControlPoint, Conversation
  <2>4. ASSUME NEW p \in Senders, CallClose(p)
         PROVE  WaitInv'
    BY <2>4, <2>other DEF CallClose, TypeOK, ControlPoint, Conversation
  <2>5. ASSUME NEW p \in Senders, CtxDone(p)
         PROVE  WaitInv'
    <3>1. /\ UNCHANGED <<armed, conn, ctxHasDeadline, pc>>
          /\ call' = [call EXCEPT ![p].done = TRUE]
          /\ closing' = (closing \/ hook = p)
          /\ hook' = IF hook = p THEN Nobody ELSE hook
      BY <2>5 DEF CtxDone
    <3>2. ASSUME NEW q \in Senders
          PROVE  HasDeadline(q)' = HasDeadline(q) /\ (BoundTo(q) => BoundTo(q)')
      <4>1. /\ call'[q].ctx = call[q].ctx
            /\ call'[q].done = (call[q].done \/ q = p)
        BY <3>1 DEF TypeOK, Call
      <4>2. hook = q => hook' = q \/ (call'[q].done /\ closing')
        BY <3>1, <4>1
      <4>3. closing => closing'
        BY <3>1
      <4> QED BY <3>1, <4>1, <4>2, <4>3 DEF BoundTo, HasDeadline
    <3> QED BY <3>1, <3>2 DEF WaitInv
  <2>6. ASSUME NEW p \in Senders, DoSendBegin(p)
         PROVE  WaitInv'
    <3>1. \A q \in Senders : pc[q] \notin Conversation
      BY <2>6 DEF DoSendBegin, Holder, TypeOK, Critical
    <3>2. \A q \in Senders \ {p} : pc'[q] \notin Conversation
      BY <2>6, <3>1 DEF DoSendBegin, TypeOK
    <3>3. /\ ctxHasDeadline' = HasDeadline(p) /\ HasDeadline(p)' = HasDeadline(p)
          /\ call'[p].done = call[p].done
      BY <2>6 DEF DoSendBegin, HasDeadline, TypeOK, Call
    <3>4. pc'[p] = "ping" \/ pc'[p] = "start"
      BY <2>6 DEF DoSendBegin, TypeOK
    <3>5. CASE pc'[p] = "ping"
      <4>1. conn # "none" /\ Bind(p)
        BY <2>6, <3>5 DEF DoSendBegin, ConnInv, TypeOK
      <4>2. BoundTo(p)'
        BY <3>3, <4>1 DEF Bind, BoundTo
      <4> QED BY <3>2, <3>3, <4>2 DEF WaitInv
    <3>6. CASE pc'[p] = "start"
      BY <3>2, <3>3, <3>6 DEF WaitInv
    <3> QED BY <3>4, <3>5, <3>6
  <2>7. ASSUME NEW p \in Senders, TerminateForRetry(p)
         PROVE  WaitInv'
    <3>1. \A q \in Senders : pc[q] \notin Conversation
      BY <2>7 DEF TerminateForRetry, Holder, TypeOK, Critical
    <3> QED BY <2>7, <2>nobody, <3>1 DEF TerminateForRetry, TypeOK, Conversation
  <2>8. ASSUME NEW p \in Senders, ResetBegin(p)
         PROVE  WaitInv'
    <3>1. \A q \in Senders : pc[q] \notin Conversation
      BY <2>8 DEF ResetBegin, Holder, TypeOK, Critical
    <3> QED BY <2>8, <2>nobody, <3>1 DEF ResetBegin, TypeOK, Conversation
  <2>9. ASSUME NEW p \in Senders, CheckRestartThreshold(p)
         PROVE  WaitInv'
    <3>1. \A q \in Senders : pc[q] \notin Conversation
      BY <2>9 DEF CheckRestartThreshold, Holder, TypeOK, Critical
    <3> QED BY <2>9, <2>nobody, <3>1 DEF CheckRestartThreshold, TypeOK, Conversation
  <2>10. ASSUME NEW p \in Senders, CloseBegin(p)
         PROVE  WaitInv'
    <3>1. \A q \in Senders : pc[q] \notin Conversation
      BY <2>10 DEF CloseBegin, Holder, TypeOK, Critical
    <3> QED BY <2>10, <2>nobody, <3>1 DEF CloseBegin, TypeOK, Conversation
  <2>11. ASSUME NEW p \in Senders, BaseSend(p)
         PROVE  WaitInv'
    BY <2>11, <2>other DEF BaseSend, TypeOK, ControlPoint, Conversation
  <2>12. ASSUME NEW p \in Senders, Issue(p)
         PROVE  WaitInv'
    <3>1. CASE pc[p] \in Conversation \ {"start"}
      <4>1. BoundTo(p) /\ ctxHasDeadline = HasDeadline(p)
        BY <3>1 DEF WaitInv
      <4>2. armed' = armed
        BY <2>12, <4>1, IOTimeoutAssumption DEF Issue, RefreshIOTimeout, BoundTo
      <4> QED BY <2>12, <2>holder, <3>1, <4>2 DEF Issue
    <3>2. CASE pc[p] \notin Conversation
      BY <2>12, <2>nobody, <2>alone, <3>2 DEF Issue
    <3>3. pc[p] # "start"
      BY <2>12 DEF Issue, CommandAt
    <3> QED BY <3>1, <3>2, <3>3
  <2>13. ASSUME NEW p \in Senders, StartReused(p)
         PROVE  WaitInv'
    <3>1. \A q \in Senders \ {p} : pc'[q] \notin Conversation
      BY <2>13, <2>alone DEF StartReused
    <3>2. /\ ctxHasDeadline' = HasDeadline(p)' /\ Bind(p) /\ UNCHANGED call
          /\ HasDeadline(p)' = HasDeadline(p)
      BY <2>13 DEF StartReused, WaitInv, HasDeadline, Conversation
    <3>3. BoundTo(p)'
      BY <3>2 DEF Bind, BoundTo
    <3> QED BY <3>1, <3>2, <3>3 DEF WaitInv
  <2>14. ASSUME NEW p \in Senders, StartConnects(p)
         PROVE  WaitInv'
    <3>1. \A q \in Senders \ {p} : pc'[q] \notin Conversation
      BY <2>14, <2>alone DEF StartConnects
    <3>2. /\ ctxHasDeadline' = HasDeadline(p)' /\ Bind(p) /\ UNCHANGED call
          /\ HasDeadline(p)' = HasDeadline(p)
      BY <2>14 DEF StartConnects, WaitInv, HasDeadline, Conversation
    <3>3. BoundTo(p)'
      BY <3>2 DEF Bind, BoundTo
    <3> QED BY <3>1, <3>2, <3>3 DEF WaitInv
  <2>15. ASSUME NEW p \in Senders, StartFails(p)
         PROVE  WaitInv'
    <3>1. \A q \in Senders \ {p} : pc[q] \notin Conversation
      BY <2>15, <2>alone DEF StartFails
    <3>2. \E c \in ControlPoint \ Conversation : pc' = [pc EXCEPT ![p] = c]
      BY <2>15 DEF StartFails, ControlPoint, Critical, Conversation
    <3> QED BY <2>nobody, <3>1, <3>2 DEF TypeOK
  <2>16. ASSUME NEW p \in Senders, AddressInvalid(p)
         PROVE  WaitInv'
    <3>1. \A q \in Senders \ {p} : pc[q] \notin Conversation
      BY <2>16, <2>alone DEF AddressInvalid, ReturnError
    <3>2. \E c \in ControlPoint \ Conversation : pc' = [pc EXCEPT ![p] = c]
      BY <2>16 DEF AddressInvalid, ReturnError, ControlPoint, Critical, Conversation
    <3> QED BY <2>nobody, <3>1, <3>2 DEF TypeOK
  <2>17. ASSUME NEW p \in Senders, BodyWritten(p)
         PROVE  WaitInv'
    BY <2>17, <2>holder DEF BodyWritten, TypeOK, Conversation
  <2>18. ASSUME NEW p \in Senders, BodyFails(p)
         PROVE  WaitInv'
    <3>1. \A q \in Senders \ {p} : pc[q] \notin Conversation
      BY <2>18, <2>alone DEF BodyFails, ReturnError
    <3>2. \E c \in ControlPoint \ Conversation : pc' = [pc EXCEPT ![p] = c]
      BY <2>18 DEF BodyFails, ReturnError, ControlPoint, Critical, Conversation
    <3> QED BY <2>nobody, <3>1, <3>2 DEF TypeOK
  <2>19. ASSUME NEW p \in Senders, SkipReset(p)
         PROVE  WaitInv'
    BY <2>19, <2>other DEF SkipReset, TypeOK, ControlPoint, Conversation
  <2>20. ASSUME NEW p \in Senders, WaitForRetry(p)
         PROVE  WaitInv'
    BY <2>20, <2>other DEF WaitForRetry, TypeOK, ControlPoint, Conversation
  <2>21. ASSUME NEW p \in Senders, MailAccepted(p)
         PROVE  WaitInv'
    BY <2>21, <2>holder DEF MailAccepted, Answer, SessionAfter, TypeOK, Conversation
  <2>22. ASSUME NEW p \in Senders, RcptAccepted(p)
         PROVE  WaitInv'
    <3>1. \A q \in Senders : /\ call'[q].ctx = call[q].ctx
                             /\ call'[q].done = call[q].done
      BY <2>22 DEF RcptAccepted, TypeOK, Call
    <3> QED BY <2>22, <2>holder, <3>1 DEF RcptAccepted, Answer, SessionAfter, TypeOK,
                                      Conversation
  <2>23. ASSUME NEW p \in Senders, DataAccepted(p)
         PROVE  WaitInv'
    BY <2>23, <2>holder DEF DataAccepted, Answer, SessionAfter, TypeOK, Conversation
  <2>24. ASSUME NEW p \in Senders, DotAccepted(p)
         PROVE  WaitInv'
    <3>1. \A q \in Senders \ {p} : pc[q] \notin Conversation
      BY <2>24, <2>alone DEF DotAccepted, Answer
    <3>2. \E c \in ControlPoint \ Conversation : pc' = [pc EXCEPT ![p] = c]
      BY <2>24 DEF DotAccepted, Answer, ControlPoint, Critical, Conversation
    <3> QED BY <2>nobody, <3>1, <3>2 DEF TypeOK
  <2>25. ASSUME NEW p \in Senders, NEW r \in Outcome, PingReply(p, r)
         PROVE  WaitInv'
    <3>1. CASE r = "io"
      <4>1. pc'[p] = "start" /\ UNCHANGED <<ctxHasDeadline, call>>
        BY <2>25, <3>1 DEF PingReply, TypeOK
      <4>2. pc[p] = "ping" /\ \A q \in Senders \ {p} : pc'[q] = pc[q]
        BY <2>25 DEF PingReply
      <4> QED BY <2>25, <2>start, <2>alone, <4>1, <4>2 DEF PingReply, Answer, Conversation
    <3>2. CASE r # "io"
      BY <2>25, <2>holder, <3>2 DEF PingReply, Answer, SessionAfter, TypeOK, Conversation
    <3> QED BY <3>1, <3>2
  <2>26. ASSUME NEW p \in Senders, NEW r \in Outcome, ConversationFails(p, r)
         PROVE  WaitInv'
    <3>1. \A q \in Senders \ {p} : pc[q] \notin Conversation
      BY <2>26, <2>alone DEF ConversationFails, Answer, ReturnError
    <3>2. \E c \in ControlPoint \ Conversation : pc' = [pc EXCEPT ![p] = c]
      BY <2>26 DEF ConversationFails, Answer, ReturnError, ControlPoint, Critical, Conversation
    <3> QED BY <2>nobody, <3>1, <3>2 DEF TypeOK
  <2>27. ASSUME NEW p \in Senders, NEW r \in Outcome, RsetReply(p, r)
         PROVE  WaitInv'
    <3>1. \A q \in Senders \ {p} : pc[q] \notin Conversation
      BY <2>27, <2>alone DEF RsetReply, Answer
    <3>2. \E c \in ControlPoint \ Conversation : pc' = [pc EXCEPT ![p] = c]
      BY <2>27 DEF RsetReply, Answer, ControlPoint, Critical, Conversation
    <3> QED BY <2>nobody, <3>1, <3>2 DEF TypeOK
  <2>28. ASSUME NEW p \in Senders, NEW r \in Outcome, QuitReply(p, r)
         PROVE  WaitInv'
    <3>1. \A q \in Senders \ {p} : pc'[q] \notin Conversation
      BY <2>28, <2>alone DEF QuitReply, Answer
    <3>2. CASE pc[p] = "pingQuit"
      BY <2>28, <2>start, <3>1, <3>2 DEF QuitReply, TypeOK, Conversation
    <3>3. CASE pc[p] # "pingQuit"
      <4>1. pc'[p] = "idle"
        BY <2>28, <3>3 DEF QuitReply, TypeOK
      <4> QED BY <2>nobody, <3>1, <4>1 DEF Conversation
    <3> QED BY <3>2, <3>3
  <2>29. CASE UNCHANGED vars
    BY <2>29, <2>same DEF vars, WaitInv
  <2> QED
    BY <2>1, <2>2, <2>3, <2>4, <2>5, <2>6, <2>7, <2>8, <2>9, <2>10, <2>11,
       <2>12, <2>13, <2>14, <2>15, <2>16, <2>17, <2>18, <2>19, <2>20,
       <2>21, <2>22, <2>23, <2>24, <2>25, <2>26, <2>27, <2>28, <2>29
       DEF Next, Acquire, Run, Proceed, Handle
<1> QED
  BY <1>1, <1>2, TypeCorrect, MutualExclusion, ConnectionIsCoherent, PTL DEF Spec

\* Every reply doSend waits for is waited for under the context of that Send
\* (WaitObeysContext), for any number of senders and any mix of contexts.
THEOREM ContextIsObeyed == Spec => []WaitObeysContext
<1>1. WaitInv /\ WireInv => WaitObeysContext
  <2> SUFFICES ASSUME WaitInv, WireInv, wire # "none", pc[mu] \in Conversation
               PROVE  ctxHasDeadline = HasDeadline(mu) /\ BoundTo(mu)
    BY DEF WaitObeysContext, BoundTo
  <2>1. mu \in Senders /\ pc[mu] # "start"
    BY DEF WireInv, CommandAt
  <2> QED BY <2>1 DEF WaitInv
<1> QED BY <1>1, WaitInvariant, CommandMatchesControl, PTL

------------------------------------------------------------------------------
(* The server's transaction.                                               *)

\* Send cleans up after a conversation that failed: whoever leaves a transaction
\* open on a connection that is kept resets or drops that connection, unless an
\* address after the first command was invalid.
THEOREM TransactionIsReset ==
  ASSUME "badRcpt" \notin Messages
  PROVE  Spec => []OpenTransactionIsReset
<1> USE SendersAssumption
<1>1. Init => TxnInv
  BY DEF Init, TxnInv
<1>2. TxnInv /\ WireInv /\ ConnInv /\ TypeOK /\ [Next]_vars => TxnInv'
  <2> SUFFICES ASSUME TxnInv, WireInv, ConnInv, TypeOK, [Next]_vars
               PROVE  TxnInv'
    OBVIOUS
  \* A step of p that opens no transaction, of one who owes no cleanup.
  <2>other. ASSUME NEW p \in Senders,
                   pc[p] \notin {"rcpt", "data", "body", "dot", "rset"},
                   pc[p] = "failed" => call[p].err = "invalid",
                   txn' \in {"none", txn}, conn' # "none" => conn # "none",
                   \A q \in Senders \ {p} :
                      pc'[q] = pc[q] /\ call'[q].err = call[q].err
            PROVE  TxnInv'
    BY <2>other DEF TxnInv
  \* A step of p that leaves it to p.
  <2>owes. ASSUME NEW p \in Senders,
                  \/ pc'[p] \in {"rcpt", "data", "body", "dot", "rset"}
                  \/ pc'[p] = "failed" /\ call'[p].err # "invalid"
           PROVE  TxnInv'
    BY <2>owes DEF TxnInv
  <2>none. ASSUME conn' = "none" \/ txn' = "none"
           PROVE  TxnInv'
    BY <2>none DEF TxnInv
  <2> USE DEF sessionVars, boundVars, poolVars, Goto
  <2>1. CASE AsyncClose
    BY <2>1 DEF AsyncClose, ConnInv, TxnInv
  <2>2. CASE Age
    BY <2>2 DEF Age, TxnInv
  <2>3. ASSUME NEW p \in Senders, CallSend(p)
        PROVE  TxnInv'
    BY <2>3, <2>other DEF CallSend, TypeOK
  <2>4. ASSUME NEW p \in Senders, CallClose(p)
        PROVE  TxnInv'
    BY <2>4, <2>other DEF CallClose, TypeOK
  <2>5. ASSUME NEW p \in Senders, CtxDone(p)
        PROVE  TxnInv'
    <3>1. \A q \in Senders : call'[q].err = call[q].err
      BY <2>5 DEF CtxDone, TypeOK, Call
    <3> QED BY <2>5, <3>1 DEF CtxDone, TxnInv
  <2>6. ASSUME NEW p \in Senders, DoSendBegin(p)
        PROVE  TxnInv'
    BY <2>6, <2>other DEF DoSendBegin, TypeOK
  <2>7. ASSUME NEW p \in Senders, TerminateForRetry(p)
        PROVE  TxnInv'
    BY <2>7, <2>none DEF TerminateForRetry, Terminate
  <2>8. ASSUME NEW p \in Senders, ResetBegin(p)
        PROVE  TxnInv'
    <3>1. CASE started
      BY <2>8, <2>owes, <3>1 DEF ResetBegin, TypeOK
    <3>2. CASE ~started
      BY <2>8, <2>none, <3>2 DEF ResetBegin, ConnInv
    <3> QED BY <3>1, <3>2
  <2>9. ASSUME NEW p \in Senders, CheckRestartThreshold(p)
        PROVE  TxnInv'
    BY <2>9, <2>other DEF CheckRestartThreshold, TypeOK
  <2>10. ASSUME NEW p \in Senders, CloseBegin(p)
         PROVE  TxnInv'
    BY <2>10, <2>other DEF CloseBegin, TypeOK
  <2>11. ASSUME NEW p \in Senders, BaseSend(p)
         PROVE  TxnInv'
    BY <2>11, <2>other DEF BaseSend, TypeOK
  <2>12. ASSUME NEW p \in Senders, Issue(p)
         PROVE  TxnInv'
    BY <2>12 DEF Issue, TxnInv
  <2>13. ASSUME NEW p \in Senders, StartReused(p)
         PROVE  TxnInv'
    BY <2>13, <2>other DEF StartReused, TypeOK
  <2>14. ASSUME NEW p \in Senders, StartConnects(p)
         PROVE  TxnInv'
    BY <2>14, <2>none DEF StartConnects
  <2>15. ASSUME NEW p \in Senders, StartFails(p)
         PROVE  TxnInv'
    BY <2>15, <2>none DEF StartFails, Terminate
  <2>16. ASSUME NEW p \in Senders, AddressInvalid(p)
         PROVE  TxnInv'
    <3>1. pc[p] = "mail"
      BY <2>16 DEF AddressInvalid, Encodes, TypeOK, Call
    <3>2. \A q \in Senders \ {p} : pc'[q] = pc[q] /\ call'[q] = call[q]
      BY <2>16 DEF AddressInvalid, ReturnError, EndAttempt, TypeOK
    <3> QED BY <2>16, <2>other, <3>1, <3>2 DEF AddressInvalid
  <2>17. ASSUME NEW p \in Senders, BodyWritten(p)
         PROVE  TxnInv'
    BY <2>17, <2>owes DEF BodyWritten, TypeOK
  <2>18. ASSUME NEW p \in Senders, BodyFails(p)
         PROVE  TxnInv'
    BY <2>18, <2>none DEF BodyFails, Terminate
  <2>19. ASSUME NEW p \in Senders, SkipReset(p)
         PROVE  TxnInv'
    BY <2>19, <2>other DEF SkipReset, TypeOK
  <2>20. ASSUME NEW p \in Senders, WaitForRetry(p)
         PROVE  TxnInv'
    BY <2>20, <2>other DEF WaitForRetry, TypeOK
  <2>21. ASSUME NEW p \in Senders, MailAccepted(p)
         PROVE  TxnInv'
    BY <2>21, <2>owes DEF MailAccepted, TypeOK
  <2>22. ASSUME NEW p \in Senders, RcptAccepted(p)
         PROVE  TxnInv'
    BY <2>22, <2>owes DEF RcptAccepted, TypeOK
  <2>23. ASSUME NEW p \in Senders, DataAccepted(p)
         PROVE  TxnInv'
    BY <2>23, <2>owes DEF DataAccepted, TypeOK
  <2>24. ASSUME NEW p \in Senders, DotAccepted(p)
         PROVE  TxnInv'
    BY <2>24, <2>none DEF DotAccepted
  <2>25. ASSUME NEW p \in Senders, NEW r \in Outcome, PingReply(p, r)
         PROVE  TxnInv'
    <3>1. CASE r = "io"
      BY <2>25, <2>none, <3>1 DEF PingReply, SessionAfter, Terminate
    <3>2. CASE r # "io"
      <4>1. wire = "NOOP" /\ pc[p] = "ping"
        BY <2>25, <3>2 DEF PingReply, Answer, WireInv, CommandAt, TypeOK
      <4>2. txn' = txn /\ conn' = conn
        BY <2>25, <3>2, <4>1 DEF PingReply, SessionAfter, TxnAfter
      <4> QED BY <2>25, <2>other, <4>1, <4>2 DEF PingReply, TypeOK
    <3> QED BY <3>1, <3>2
  <2>26. ASSUME NEW p \in Senders, NEW r \in Outcome, ConversationFails(p, r)
         PROVE  TxnInv'
    <3>1. PICK n \in {0, 1} : ReturnError(p, r, n)
      BY <2>26 DEF ConversationFails
    <3>2. call'[p].err \in {r, "ctx"} /\ r # "invalid"
      BY <3>1, EndOfAttemptAccepted, ContextErrReply
         DEF ReturnError, TypeOK, Outcome
    <3> QED BY <2>owes, <3>1, <3>2 DEF ReturnError, TypeOK
  <2>27. ASSUME NEW p \in Senders, NEW r \in Outcome, RsetReply(p, r)
         PROVE  TxnInv'
    <3>1. CASE r = "ok"
      <4>1. wire = "RSET"
        BY <2>27, <3>1 DEF RsetReply, Answer, WireInv, CommandAt
      <4> QED BY <2>27, <2>none, <3>1, <4>1
              DEF RsetReply, SessionAfter, TxnAfter
    <3>2. CASE r # "ok"
      BY <2>27, <2>none, <3>2 DEF RsetReply, Terminate
    <3> QED BY <3>1, <3>2
  <2>28. ASSUME NEW p \in Senders, NEW r \in Outcome, QuitReply(p, r)
         PROVE  TxnInv'
    BY <2>28, <2>none DEF QuitReply, Terminate
  <2>29. CASE UNCHANGED vars
    BY <2>29 DEF vars, TxnInv
  <2> QED
    BY <2>1, <2>2, <2>3, <2>4, <2>5, <2>6, <2>7, <2>8, <2>9, <2>10, <2>11,
       <2>12, <2>13, <2>14, <2>15, <2>16, <2>17, <2>18, <2>19, <2>20,
       <2>21, <2>22, <2>23, <2>24, <2>25, <2>26, <2>27, <2>28, <2>29
       DEF Next, Acquire, Run, Proceed, Handle
<1>3. TxnInv /\ Holder /\ TypeOK => OpenTransactionIsReset
  BY
     DEF TxnInv, Holder, TypeOK, Critical, Conversation, OpenTransactionIsReset
<1> QED
  BY <1>1, <1>2, <1>3, TypeCorrect, MutualExclusion, ConnectionIsCoherent,
     CommandMatchesControl, PTL DEF Spec
==============================================================================
