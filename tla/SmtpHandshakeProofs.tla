------------------------- MODULE SmtpHandshakeProofs --------------------------
(***************************************************************************)
(* Theorems about SmtpHandshake, for every list of authenticators and      *)
(* every set of configurations.                                            *)
(***************************************************************************)
EXTENDS SmtpHandshake, TLAPS

\* handleAuth works on an authenticator of the list while an exchange, or the
\* RSET after it, is in flight.
AuthLoop == pc \in {"auth", "authRset"} => mech \in 1 .. Len(Authenticators)

\* The list of authenticators is a sequence of mechanisms.
LEMMA LenType == Len(Authenticators) \in Nat
                 /\ \A k \in 1 .. Len(Authenticators) :
                       Authenticators[k] \in Mechanisms
  BY AuthenticatorsAssumption

\* The commands of the exchange of each mechanism.
LEMMA ExchangeType == \A m \in Mechanisms : Exchange[m] \in 1 .. 3
  BY DEF Exchange, Mechanisms

\* No capabilities at all: what a transport has before its first EHLO.
LEMMA NoCapabilitiesType == NoCapabilities \in Capabilities
  BY DEF NoCapabilities, Capabilities

\* Every variable keeps its type: an exchange ends at its last command, and the
\* loop over the authenticators stays within the list.
THEOREM TypeCorrect == Spec => [](TypeOK /\ AuthLoop)
<1> DEFINE Inv == TypeOK /\ AuthLoop
<1> USE DEF Waiting
<1>1. Init => Inv
  <2> SUFFICES ASSUME Init PROVE Inv
    OBVIOUS
  <2>1. mech \in 1 .. Len(Authenticators) + 1 /\ stage \in 1 .. 3
    BY LenType DEF Init
  <2>2. capabilities \in Capabilities /\ cfg \in Configs
    BY NoCapabilitiesType DEF Init
  <2>3. QED
    BY <2>1, <2>2 DEF Init, TypeOK, AuthLoop, Outcome
<1>2. Inv /\ [Next]_vars => Inv'
  <2> SUFFICES ASSUME Inv, [Next]_vars PROVE Inv'
    OBVIOUS
  <2> USE DEF TypeOK, AuthLoop, ctxVars, linkVars, capVars, authVars
  <2>0. ASSUME NEW e \in (Outcome \ {"ok"}), FailWith(e),
               UNCHANGED <<ctxVars, authVars, lastErr>>
        PROVE  Inv'
    BY <2>0 DEF FailWith, Terminate, Outcome, Coded
  <2>1. CASE Begin
    BY <2>1 DEF Begin, Outcome
  <2>2. CASE CtxDone
    BY <2>2 DEF CtxDone
  <2>3. CASE AsyncClose
    BY <2>3 DEF AsyncClose
  <2>4. CASE Lose
    BY <2>4 DEF Lose, Terminate
  <2>5. CASE DialFails
    BY <2>0, <2>5 DEF DialFails, Outcome, Coded
  <2>6. CASE DialSucceeds
    BY <2>6 DEF DialSucceeds, BindDeadline
  <2>7. CASE HeloRest
    <3>1. CASE FailWith("odd") /\ UNCHANGED <<mech, lastErr>>
      BY <2>0, <2>7, <3>1 DEF HeloRest, Outcome, Coded
    <3>2. CASE Ready /\ UNCHANGED <<linkVars, capVars, mech, lastErr>>
      BY <2>7, <3>2 DEF HeloRest, Ready, Outcome
    <3>3. CASE /\ pc' = "authPick" /\ mech' = 1 /\ lastErr' = "none"
               /\ UNCHANGED <<linkVars, capVars, armed, result>>
      BY <2>7, <3>3, LenType DEF HeloRest
    <3>4. QED
      BY <2>7, <3>1, <3>2, <3>3 DEF HeloRest
  <2>8. CASE AuthPick
    <3>1. PICK i \in Candidates :
             IF Authenticators[i] = "CRAM-MD5" /\ ~cfg.secret
             THEN AuthFails(i, "odd")
             ELSE AuthCommand(i, 1) /\ UNCHANGED lastErr
      BY <2>8 DEF AuthPick
    <3>2. i \in 1 .. Len(Authenticators)
      BY <3>1, LenType DEF Candidates
    <3>3. UNCHANGED <<ctxVars, linkVars, capVars>>
      BY <2>8 DEF AuthPick
    <3>4. CASE AuthFails(i, "odd")
      BY <3>2, <3>3, <3>4, LenType
         DEF AuthFails, Await, RefreshIOTimeout, Outcome, Coded
    <3>5. CASE AuthCommand(i, 1) /\ UNCHANGED lastErr
      BY <3>2, <3>3, <3>5, LenType DEF AuthCommand, Await, RefreshIOTimeout
    <3>6. QED
      BY <3>1, <3>4, <3>5
  <2>9. CASE AuthExhausted
    BY <2>0, <2>9 DEF AuthExhausted, Outcome, Coded
  <2>10. ASSUME NEW r \in Outcome, Handle(r)
         PROVE  Inv'
    <3>1. CASE ImplicitTLS(r)
      <4>1. CASE r = "ok"
        BY <3>1, <4>1 DEF ImplicitTLS, BindDeadline
      <4>2. CASE r # "ok"
        BY <2>0, <3>1, <4>2 DEF ImplicitTLS
      <4>3. QED
        BY <4>1, <4>2
    <3>2. CASE Greeting(r)
      <4>1. CASE r = "ok"
        BY <3>2, <4>1 DEF Greeting, Await, RefreshIOTimeout
      <4>2. CASE r # "ok"
        BY <2>0, <3>2, <4>2 DEF Greeting
      <4>3. QED
        BY <4>1, <4>2
    <3>3. CASE EhloFails(r)
      <4>1. /\ conn' \in {"none", "open", "dead"} /\ usingTLS' \in BOOLEAN
            /\ capabilities' \in Capabilities
            /\ capsFrom' \in {"none", "clear", "tls", "old"}
        BY <3>3 DEF EhloFails, Terminate
      <4>2. /\ pc' = "helo" /\ lastErr' = r /\ r # "ok"
            /\ armed' \in {"none", "io", "ctx"}
            /\ UNCHANGED <<ctxVars, authVars, result>>
        BY <3>3 DEF EhloFails, Await, RefreshIOTimeout
      <4>3. QED
        BY <4>1, <4>2
    <3>4. CASE Helo(r)
      <4>1. CASE r = "ok"
        BY <3>4, <4>1, NoCapabilitiesType DEF Helo, Ready, ClearCapabilities, Outcome
      <4>2. CASE r # "ok"
        <5>1. FailWith(IF r \in Coded THEN r ELSE lastErr)
              /\ UNCHANGED <<ctxVars, authVars, lastErr>>
          BY <3>4, <4>2 DEF Helo
        <5>2. CASE r \in Coded \/ lastErr # "none"
          BY <2>0, <5>1, <5>2, <4>2 DEF Coded, Outcome
        <5>3. CASE r \notin Coded /\ lastErr = "none"
          BY <5>1, <5>3 DEF FailWith, Terminate, Coded
        <5>4. QED
          BY <5>2, <5>3
      <4>3. QED
        BY <4>1, <4>2
    <3>5. CASE StartTLS(r)
      <4>1. CASE r = "ok"
        BY <3>5, <4>1 DEF StartTLS, BindDeadline
      <4>2. CASE r # "ok"
        BY <2>0, <3>5, <4>2 DEF StartTLS
      <4>3. QED
        BY <4>1, <4>2
    <3>6. CASE UpgradeTLS(r)
      <4>1. CASE r = "ok"
        BY <3>6, <4>1 DEF UpgradeTLS
      <4>2. CASE r # "ok"
        BY <2>0, <3>6, <4>2 DEF UpgradeTLS
      <4>3. QED
        BY <4>1, <4>2
    <3>7. CASE Ehlo2Fails(r)
      BY <2>0, <3>7 DEF Ehlo2Fails
    <3>8. CASE AuthReply(r)
      <4>1. mech \in 1 .. Len(Authenticators)
            /\ Authenticators[mech] \in Mechanisms
            /\ Exchange[Authenticators[mech]] \in 1 .. 3
        BY <3>8, LenType, ExchangeType DEF AuthReply
      <4>2. CASE /\ r = "ok" /\ stage < Exchange[Authenticators[mech]]
                 /\ AuthCommand(mech, stage + 1)
                 /\ UNCHANGED <<linkVars, capVars, lastErr>>
        BY <3>8, <4>1, <4>2, LenType
           DEF AuthReply, AuthCommand, Await, RefreshIOTimeout
      <4>3. CASE Ready /\ UNCHANGED <<linkVars, capVars, authVars, lastErr>>
        BY <3>8, <4>3 DEF AuthReply, Ready, Outcome
      <4>4. CASE AuthFails(mech, "odd") /\ UNCHANGED <<linkVars, capVars>>
        BY <3>8, <4>1, <4>4, LenType
           DEF AuthReply, AuthFails, Await, RefreshIOTimeout, Outcome, Coded
      <4>5. CASE /\ r # "ok" /\ AuthFails(mech, r)
                 /\ IF r = "io" THEN Terminate ELSE UNCHANGED <<linkVars, capVars>>
        BY <3>8, <4>1, <4>5, LenType
           DEF AuthReply, AuthFails, Await, RefreshIOTimeout, Terminate
      <4>6. QED
        BY <3>8, <4>2, <4>3, <4>4, <4>5 DEF AuthReply
    <3>9. CASE AuthReset(r)
      <4>1. mech' \in 1 .. Len(Authenticators) + 1
        BY <3>9, LenType DEF AuthReset
      <4>2. /\ conn' \in {"none", "open", "dead"} /\ usingTLS' \in BOOLEAN
            /\ capabilities' \in Capabilities
            /\ capsFrom' \in {"none", "clear", "tls", "old"}
        BY <3>9 DEF AuthReset, Terminate
      <4>3. pc' = "authPick" /\ UNCHANGED <<ctxVars, armed, stage, exposed, lastErr, result>>
        BY <3>9 DEF AuthReset
      <4>4. QED
        BY <4>1, <4>2, <4>3
    <3>10. QED
      BY <2>10, <3>1, <3>2, <3>3, <3>4, <3>5, <3>6, <3>7, <3>8, <3>9 DEF Handle
  <2>11. ASSUME NEW c \in Capabilities, Ehlo(c)
         PROVE  Inv'
    <3>1. capabilities' \in Capabilities /\ capsFrom' \in {"tls", "clear"}
      BY <2>11 DEF Ehlo, Learn
    <3>2. UNCHANGED <<ctxVars, linkVars, authVars, lastErr>>
      BY <2>11 DEF Ehlo
    <3>3. CASE Await("starttls")
      BY <3>1, <3>2, <3>3 DEF Await, RefreshIOTimeout
    <3>4. CASE pc' = "heloRest" /\ UNCHANGED <<armed, result>>
      BY <3>1, <3>2, <3>4
    <3>5. QED
      BY <2>11, <3>3, <3>4 DEF Ehlo
  <2>12. ASSUME NEW c \in Capabilities, Ehlo2(c)
         PROVE  Inv'
    BY <2>12 DEF Ehlo2, Learn
  <2>13. CASE UNCHANGED vars
    BY <2>13 DEF vars
  <2>14. QED
    BY <2>1, <2>2, <2>3, <2>4, <2>5, <2>6, <2>7, <2>8, <2>9, <2>10, <2>11,
       <2>12, <2>13 DEF Next, Local
<1>3. QED
  BY <1>1, <1>2, PTL DEF Spec

------------------------------------------------------------------------------
(* Credentials, capabilities and TLS.                                       *)

\* There is no connection before the dial has succeeded, and one from the
\* reply to EHLO to the end of helo.
LinkInv ==
    /\ pc \in {"idle", "dial"} => conn = "none"
    /\ pc \in {"heloRest", "ready"} => conn # "none"

\* handleAuth runs under TLS, or on a connection in the clear that both options
\* allow; a connection it has lost is gone for good.
AuthInv ==
    pc \in {"authPick", "auth", "authRset"} /\ conn # "none" =>
       usingTLS \/ (cfg.allowPlaintextAuth /\ ~cfg.requireTLS)

\* CapabilitiesAreCurrent, in the RSET between two authenticators as well.
CapsInv ==
    pc \in {"heloRest", "ready", "authPick", "auth", "authRset"}
    /\ conn # "none" =>
       \/ capsFrom = IF usingTLS THEN "tls" ELSE "clear"
       \/ capabilities = NoCapabilities /\ capsFrom = "none"

\* HELO is only tried after EHLO has failed.
HeloInv == pc = "helo" => lastErr # "none"

HandshakeInv ==
    /\ LinkInv /\ AuthInv /\ CapsInv /\ HeloInv
    /\ CredentialsProtected /\ EsmtpRequiresTLS

\* The inductive invariant of start: every reply, error, timeout and close hook
\* keeps it.
THEOREM HandshakeInvariant == Spec => []HandshakeInv
<1> USE DEF HandshakeInv, LinkInv, AuthInv, CapsInv, HeloInv,
            CredentialsProtected, EsmtpRequiresTLS
<1>1. Init => HandshakeInv
  BY DEF Init
<1>2. HandshakeInv /\ [Next]_vars => HandshakeInv'
  <2> SUFFICES ASSUME HandshakeInv, [Next]_vars PROVE HandshakeInv'
    OBVIOUS
  <2> USE DEF ctxVars, linkVars, capVars, authVars
  <2>0. ASSUME NEW e, FailWith(e), UNCHANGED <<ctxVars, stage, exposed>>
        PROVE  HandshakeInv'
    BY <2>0 DEF FailWith, Terminate
  <2>1. CASE Begin
    BY <2>1 DEF Begin
  <2>2. CASE CtxDone
    BY <2>2 DEF CtxDone
  <2>3. CASE AsyncClose
    BY <2>3 DEF AsyncClose
  <2>4. CASE Lose
    BY <2>4 DEF Lose, Terminate
  <2>5. CASE DialFails
    BY <2>0, <2>5 DEF DialFails
  <2>6. CASE DialSucceeds
    BY <2>6 DEF DialSucceeds
  <2>7. CASE HeloRest
    <3>1. CASE FailWith("odd")
      BY <2>0, <2>7, <3>1 DEF HeloRest
    <3>2. CASE /\ ~TLSMissing /\ Ready
               /\ UNCHANGED <<linkVars, capVars, mech, lastErr>>
      BY <2>7, <3>2 DEF HeloRest, Ready, TLSMissing
    <3>3. CASE /\ ~TLSMissing /\ cfg.user /\ ~AuthRefused
               /\ pc' = "authPick"
               /\ UNCHANGED <<linkVars, capVars, armed, result>>
      BY <2>7, <3>3 DEF HeloRest, TLSMissing, AuthRefused
    <3>4. QED
      BY <2>7, <3>1, <3>2, <3>3 DEF HeloRest
  <2>8. CASE AuthPick
    <3>1. PICK i \in Candidates :
             IF Authenticators[i] = "CRAM-MD5" /\ ~cfg.secret
             THEN AuthFails(i, "odd")
             ELSE AuthCommand(i, 1) /\ UNCHANGED lastErr
      BY <2>8 DEF AuthPick
    <3>2. pc = "authPick" /\ UNCHANGED <<ctxVars, linkVars, capVars>>
      BY <2>8 DEF AuthPick
    <3>3. CASE AuthFails(i, "odd")
      BY <3>2, <3>3 DEF AuthFails, Await
    <3>4. CASE AuthCommand(i, 1) /\ UNCHANGED lastErr
      BY <3>2, <3>4 DEF AuthCommand, Await
    <3>5. QED
      BY <3>1, <3>3, <3>4
  <2>9. CASE AuthExhausted
    BY <2>0, <2>9 DEF AuthExhausted
  <2>10. ASSUME NEW r \in Outcome, Handle(r)
         PROVE  HandshakeInv'
    <3>1. CASE ImplicitTLS(r)
      BY <2>0, <3>1 DEF ImplicitTLS
    <3>2. CASE Greeting(r)
      BY <2>0, <3>2 DEF Greeting, Await
    <3>3. CASE EhloFails(r)
      BY <3>3 DEF EhloFails, Await, Terminate, Outcome, Coded
    <3>4. CASE Helo(r)
      <4>1. CASE r = "ok"
        BY <3>4, <4>1 DEF Helo, Ready, ClearCapabilities, Answer
      <4>2. CASE r # "ok"
        BY <2>0, <3>4, <4>2 DEF Helo
      <4>3. QED
        BY <4>1, <4>2
    <3>5. CASE StartTLS(r)
      BY <2>0, <3>5 DEF StartTLS
    <3>6. CASE UpgradeTLS(r)
      BY <2>0, <3>6 DEF UpgradeTLS
    <3>7. CASE Ehlo2Fails(r)
      BY <2>0, <3>7 DEF Ehlo2Fails
    <3>8. CASE AuthReply(r)
      <4>1. pc = "auth" /\ Answer(r) /\ UNCHANGED ctxVars
        BY <3>8 DEF AuthReply
      <4>2. CASE /\ AuthCommand(mech, stage + 1)
                 /\ UNCHANGED <<linkVars, capVars, lastErr>>
        BY <4>1, <4>2 DEF AuthCommand, Await
      <4>3. CASE /\ r = "ok" /\ Ready
                 /\ UNCHANGED <<linkVars, capVars, authVars, lastErr>>
        BY <4>1, <4>3 DEF Ready, Answer
      <4>4. CASE AuthFails(mech, "odd") /\ UNCHANGED <<linkVars, capVars>>
        BY <4>1, <4>4 DEF AuthFails, Await
      <4>5. CASE /\ AuthFails(mech, r)
                 /\ IF r = "io" THEN Terminate ELSE UNCHANGED <<linkVars, capVars>>
        BY <4>1, <4>5 DEF AuthFails, Await, Terminate
      <4>6. QED
        BY <3>8, <4>2, <4>3, <4>4, <4>5 DEF AuthReply
    <3>9. CASE AuthReset(r)
      BY <3>9 DEF AuthReset, Terminate
    <3>10. QED
      BY <2>10, <3>1, <3>2, <3>3, <3>4, <3>5, <3>6, <3>7, <3>8, <3>9 DEF Handle
  <2>11. ASSUME NEW c \in Capabilities, Ehlo(c)
         PROVE  HandshakeInv'
    BY <2>11 DEF Ehlo, Learn, Answer, Await
  <2>12. ASSUME NEW c \in Capabilities, Ehlo2(c)
         PROVE  HandshakeInv'
    BY <2>12 DEF Ehlo2, Learn, Answer
  <2>13. CASE UNCHANGED vars
    BY <2>13 DEF vars
  <2>14. QED
    BY <2>1, <2>2, <2>3, <2>4, <2>5, <2>6, <2>7, <2>8, <2>9, <2>10, <2>11,
       <2>12, <2>13 DEF Next, Local
<1>3. QED
  BY <1>1, <1>2, PTL DEF Spec

\* Whatever the server answers, loses or advertises, PLAIN, LOGIN and CRAM-MD5
\* only put credentials on a connection without TLS when the caller opted in.
THEOREM CredentialsStayProtected == Spec => []CredentialsProtected
  BY HandshakeInvariant, PTL DEF HandshakeInv

\* No conversation relies on the capabilities of an earlier connection, or on
\* those that were announced before STARTTLS.
THEOREM CapabilitiesStayCurrent == Spec => []CapabilitiesAreCurrent
<1>1. CapsInv => CapabilitiesAreCurrent
  BY DEF CapsInv, CapabilitiesAreCurrent
<1>2. QED
  BY <1>1, HandshakeInvariant, PTL DEF HandshakeInv

\* SetRequireTLS holds for every ESMTP session, AUTH or not.
THEOREM EsmtpKeepsTLS == Spec => []EsmtpRequiresTLS
  BY HandshakeInvariant, PTL DEF HandshakeInv

------------------------------------------------------------------------------
(* Bounded waits.                                                           *)

\* With an I/O timeout no wait of start is unbounded: bindConnectionContext and
\* refreshIOTimeout between them arm a deadline before every command, and the
\* commands after STARTTLS, which run without one when the context has a
\* deadline, are covered by its close hook.
THEOREM HandshakeWaitsAreBounded ==
    ASSUME IOTimeout
    PROVE  Spec => []EveryWaitIsBounded
<1> DEFINE Inv == pc \in Waiting => armed # "none" \/ deadline
<1> USE IOTimeout DEF Waiting
<1>1. Init => Inv
  BY DEF Init
<1>2. Inv /\ [Next]_vars => Inv'
  <2> SUFFICES ASSUME Inv, [Next]_vars PROVE Inv'
    OBVIOUS
  <2> USE DEF ctxVars, linkVars, capVars, authVars
  <2>1. ASSUME NEW w, Await(w), UNCHANGED ctxVars
        PROVE  Inv'
    BY <2>1 DEF Await, RefreshIOTimeout
  <2>2. ASSUME NEW e, FailWith(e)
        PROVE  Inv'
    BY <2>2 DEF FailWith
  <2>3. CASE Begin \/ CtxDone \/ AsyncClose \/ Lose
    BY <2>3 DEF Begin, CtxDone, AsyncClose, Lose
  <2>4. CASE Local
    BY <2>1, <2>2, <2>4 DEF Local, DialFails, DialSucceeds, BindDeadline,
         HeloRest, Ready, AuthPick, AuthCommand, AuthFails, AuthExhausted
  <2>5. ASSUME NEW r \in Outcome, Handle(r)
        PROVE  Inv'
    <3>1. CASE ImplicitTLS(r) \/ StartTLS(r) \/ UpgradeTLS(r)
      BY <2>2, <3>1 DEF ImplicitTLS, StartTLS, UpgradeTLS, BindDeadline
    <3>2. CASE Greeting(r) \/ EhloFails(r) \/ Ehlo2Fails(r)
      BY <2>1, <2>2, <3>2 DEF Greeting, EhloFails, Ehlo2Fails
    <3>3. CASE Helo(r)
      BY <2>2, <3>3 DEF Helo, Ready
    <3>4. CASE AuthReply(r)
      BY <2>1, <3>4 DEF AuthReply, AuthCommand, AuthFails, Ready
    <3>5. CASE AuthReset(r)
      BY <3>5 DEF AuthReset
    <3>6. QED
      BY <2>5, <3>1, <3>2, <3>3, <3>4, <3>5 DEF Handle
  <2>6. ASSUME NEW c \in Capabilities, Ehlo(c) \/ Ehlo2(c)
        PROVE  Inv'
    BY <2>1, <2>6 DEF Ehlo, Ehlo2
  <2>7. CASE UNCHANGED vars
    BY <2>7 DEF vars
  <2>8. QED
    BY <2>3, <2>4, <2>5, <2>6, <2>7 DEF Next
<1>3. Inv => EveryWaitIsBounded
  BY DEF EveryWaitIsBounded
<1>4. QED
  BY <1>1, <1>2, <1>3, PTL DEF Spec

------------------------------------------------------------------------------
(* The refinement of StartContract.                                         *)

\* Every step of the conversation is a step of the contract or none: start ends
\* with a connection and "ok", or without one and with an error that is never
\* "ok", never missing, and the context's own once the context has ended.
THEOREM StartKeepsContract == Spec => Contract!Safety
<1>1. Init => Contract!Init
  BY DEF Init, Contract!Init
<1>2. TypeOK /\ HandshakeInv /\ [Next]_vars => [Contract!Next]_(Contract!vars)
  <2> SUFFICES ASSUME TypeOK, HandshakeInv, [Next]_vars
               PROVE  Contract!Next \/ UNCHANGED Contract!vars
    OBVIOUS
  <2> USE DEF Contract!vars, Contract!Next, ctxVars, linkVars
  \* A step inside start.
  <2>1. ASSUME pc \notin {"idle", "ready"}, pc' \notin {"idle", "ready"},
               UNCHANGED <<done, result>>
        PROVE  Contract!Next
    BY <2>1 DEF Contract!Work
  \* start returns an error.
  <2>2. ASSUME NEW e \in Outcome \ {"ok"}, pc \notin {"idle", "ready"},
               FailWith(e), UNCHANGED done
        PROVE  Contract!Next
    BY <2>2 DEF FailWith, Terminate, Contract!Fail, Contract!Coded, Coded, Outcome
  \* start returns a connection.
  <2>3. ASSUME pc \notin {"idle", "ready"}, conn' # "none", Ready, UNCHANGED done
        PROVE  Contract!Next
    BY <2>3 DEF Ready, Contract!Open
  <2>4. CASE Begin
    BY <2>4 DEF Begin, Contract!Begin
  <2>5. CASE CtxDone
    BY <2>5 DEF CtxDone, Contract!CtxDone
  <2>6. CASE AsyncClose
    BY <2>1, <2>6 DEF AsyncClose, Waiting
  <2>7. CASE Lose
    BY <2>7 DEF Lose, Terminate, Contract!Lose
  <2>8. CASE DialFails \/ DialSucceeds
    BY <2>1, <2>2, <2>8 DEF DialFails, DialSucceeds, Outcome, Coded
  <2>9. CASE HeloRest
    BY <2>1, <2>2, <2>3, <2>9 DEF HeloRest, HandshakeInv, LinkInv, Outcome, Coded
  <2>10. CASE AuthPick
    BY <2>1, <2>10 DEF AuthPick, AuthFails, AuthCommand, Await
  <2>11. CASE AuthExhausted
    BY <2>2, <2>11 DEF AuthExhausted, Outcome, Coded
  <2>12. ASSUME NEW r \in Outcome, Handle(r)
         PROVE  Contract!Next
    <3>1. CASE ImplicitTLS(r) \/ StartTLS(r) \/ UpgradeTLS(r)
      BY <2>1, <2>2, <3>1 DEF ImplicitTLS, StartTLS, UpgradeTLS
    <3>2. CASE Greeting(r) \/ EhloFails(r) \/ Ehlo2Fails(r)
      BY <2>1, <2>2, <3>2 DEF Greeting, EhloFails, Ehlo2Fails, Await
    <3>3. CASE Helo(r)
      <4>1. CASE r = "ok"
        BY <2>3, <3>3, <4>1 DEF Helo, Answer
      <4>2. CASE r # "ok"
        <5>1. (IF r \in Coded THEN r ELSE lastErr) \in Outcome \ {"ok"}
          BY <3>3, <4>2 DEF Helo, HandshakeInv, HeloInv, TypeOK
        <5>2. QED
          BY <2>2, <3>3, <4>2, <5>1 DEF Helo
      <4>3. QED
        BY <4>1, <4>2
    <3>4. CASE AuthReply(r)
      BY <2>1, <2>3, <3>4
         DEF AuthReply, AuthCommand, AuthFails, Await, Answer
    <3>5. CASE AuthReset(r)
      BY <2>1, <3>5 DEF AuthReset
    <3>6. QED
      BY <2>12, <3>1, <3>2, <3>3, <3>4, <3>5 DEF Handle
  <2>13. ASSUME NEW c \in Capabilities, Ehlo(c) \/ Ehlo2(c)
         PROVE  Contract!Next
    BY <2>1, <2>13 DEF Ehlo, Ehlo2, Await
  <2>14. CASE UNCHANGED vars
    BY <2>14 DEF vars
  <2>15. QED
    BY <2>4, <2>5, <2>6, <2>7, <2>8, <2>9, <2>10, <2>11, <2>12, <2>13, <2>14
       DEF Next, Local
<1>3. QED
  BY <1>1, <1>2, TypeCorrect, HandshakeInvariant, PTL DEF Spec, Contract!Safety
==============================================================================
