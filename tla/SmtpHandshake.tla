---------------------------- MODULE SmtpHandshake ----------------------------
(***************************************************************************)
(* Transport.start of src/transport/smtp/smtp.go: dialling, implicit TLS,  *)
(* the greeting, EHLO with its HELO fallback, STARTTLS, the second EHLO    *)
(* and the AUTH exchanges, against a server that may answer anything,      *)
(* drop the connection or never answer.  The same transport starts again   *)
(* and again: t.capabilities outlives the connection it was learnt on.     *)
(*                                                                         *)
(* A control point in Waiting means that the command has been issued and   *)
(* its reply (or the peer's part of a TLS handshake) is awaited.           *)
(***************************************************************************)
EXTENDS Naturals, Sequences, FiniteSets

CONSTANTS
    Authenticators,     \* t.authenticators, in configured order
    IOTimeout,          \* TRUE: ioTimeout > 0
    Configs             \* configurations considered, a subset of Config

Mechanisms == {"PLAIN", "LOGIN", "CRAM-MD5"}

\* Options of the transport; user and secret: username and password not empty.
Config == [tls : BOOLEAN, autoTLS : BOOLEAN, requireTLS : BOOLEAN,
           user : BOOLEAN, secret : BOOLEAN, allowPlaintextAuth : BOOLEAN]

ASSUME AuthenticatorsAssumption == Authenticators \in Seq(Mechanisms)
ASSUME HandshakeAssumption == IOTimeout \in BOOLEAN /\ Configs \subseteq Config

\* parseCapabilities, as far as helo looks at it: is STARTTLS advertised, is
\* AUTH advertised and with which mechanisms.
Capabilities ==
    {c \in [starttls : BOOLEAN, auth : BOOLEAN, modes : SUBSET Mechanisms] :
        c.auth \/ c.modes = {}}
NoCapabilities == [starttls |-> FALSE, auth |-> FALSE, modes |-> {}]

\* The expected code, another one, a reply without a code, a failed write or read.
Coded == {"4xx", "5xx", "other"}
Outcome == Coded \cup {"ok", "odd", "io"}

\* Commands of each exchange, and those among them that carry credentials.
Exchange == [m \in Mechanisms |->
                CASE m = "PLAIN" -> 1 [] m = "LOGIN" -> 3 [] OTHER -> 2]
Carries(m, k) == m = "PLAIN" \/ k > 1

Waiting == {"implicitTLS", "greeting", "ehlo", "helo", "starttls",
            "upgradeTLS", "ehlo2", "auth", "authRset"}

VARIABLES
    cfg,            \* options of the transport
    deadline,       \* the context of this send carries a deadline
    done,           \* that context was cancelled or has expired
    pc,             \* control point of start
    conn,           \* t.conn: "none", "open", "dead" (closed by the hook)
    usingTLS,       \* t.usingTLS
    capabilities,   \* t.capabilities
    capsFrom,       \* where they were learnt: "none", "clear", "tls", "old"
    armed,          \* socket deadline: "none", "io" or "ctx"
    mech,           \* position in Authenticators
    stage,          \* command of the exchange that is in flight
    lastErr,        \* error kept by helo (EHLO) or handleAuth (lastCode)
    result,         \* what start returned last
    exposed         \* credentials were sent on a connection without TLS

linkVars == <<conn, usingTLS>>
capVars == <<capabilities, capsFrom>>
ctxVars == <<cfg, deadline, done>>
authVars == <<mech, stage, exposed>>
vars == <<ctxVars, pc, linkVars, capVars, armed, authVars, lastErr, result>>

Init ==
    /\ cfg \in Configs
    /\ deadline = FALSE /\ done = FALSE
    /\ pc = "idle" /\ conn = "none" /\ usingTLS = FALSE
    /\ capabilities = NoCapabilities /\ capsFrom = "none"
    /\ armed = "none" /\ mech = 1 /\ stage = 1
    /\ lastErr = "none" /\ result = "none" /\ exposed = FALSE

------------------------------------------------------------------------------

\* bindConnectionContext's deadline, and its renewal before each command.

\* Mutation: the fallback deadline is left out.
BindContextDeadline == IF deadline THEN "ctx" ELSE "none"

BindDeadline == IF deadline THEN "ctx" ELSE IF IOTimeout THEN "io" ELSE "none"
RefreshIOTimeout == IF IOTimeout /\ ~deadline THEN "io" ELSE armed

\* terminate: t.capabilities is kept.
Terminate ==
    /\ conn' = "none" /\ usingTLS' = FALSE
    /\ capsFrom' = IF capsFrom = "none" THEN "none" ELSE "old"
    /\ UNCHANGED capabilities

\* Mutation: a failed start keeps its connection.
FailKeepingConnection(e) ==
    /\ result' = IF e \notin Coded /\ done THEN "ctx" ELSE e
    /\ pc' = "idle" /\ armed' = "none"
    /\ UNCHANGED <<linkVars, capVars>>

\* contextErr and the return of start with an error.
FailWith(e) ==
    /\ result' = IF e \notin Coded /\ done THEN "ctx" ELSE e
    /\ pc' = "idle" /\ armed' = "none"
    /\ Terminate

\* start succeeds: t.started is set, the context is unbound.
Ready == pc' = "ready" /\ result' = "ok" /\ armed' = "none"

\* Go on to control point w and issue its command.
Await(w) == pc' = w /\ armed' = RefreshIOTimeout /\ UNCHANGED result

\* The awaited reply.  A connection closed by the hook or already torn down
\* only fails.
Answer(r) == r = "io" \/ conn = "open"

------------------------------------------------------------------------------
(* The caller and the context.                                             *)

Begin ==
    /\ pc = "idle"
    /\ deadline' \in BOOLEAN /\ done' = FALSE
    /\ pc' = "dial" /\ result' = "none" /\ lastErr' = "none"
    /\ UNCHANGED <<cfg, linkVars, capVars, armed, authVars>>

CtxDone ==
    /\ pc \notin {"idle", "ready"} /\ ~done
    /\ done' = TRUE
    /\ UNCHANGED <<cfg, deadline, pc, linkVars, capVars, armed, authVars,
                   lastErr, result>>

\* The close hook; one is registered from the dial to the end of start.
AsyncClose ==
    /\ pc \in Waiting /\ done /\ conn = "open"
    /\ conn' = "dead"
    /\ UNCHANGED <<ctxVars, pc, usingTLS, capVars, armed, authVars, lastErr,
                   result>>

\* The connection is given up later (stop, terminate, a failed command).
Lose ==
    /\ pc = "ready"
    /\ pc' = "idle" /\ Terminate
    /\ UNCHANGED <<ctxVars, armed, authVars, lastErr, result>>

------------------------------------------------------------------------------
(* connect, the greeting, EHLO and HELO.                                   *)

DialFails ==
    /\ pc = "dial" /\ FailWith("io")
    /\ UNCHANGED <<ctxVars, authVars, lastErr>>

DialSucceeds ==
    /\ pc = "dial"
    /\ conn' = "open" /\ armed' = BindDeadline
    /\ pc' = IF cfg.tls THEN "implicitTLS" ELSE "greeting"
    /\ UNCHANGED <<ctxVars, usingTLS, capVars, authVars, lastErr, result>>

\* connect's TLS handshake; start then binds the connection afresh.
ImplicitTLS(r) ==
    /\ pc = "implicitTLS" /\ r \in {"ok", "io"} /\ Answer(r)
    /\ IF r = "ok"
       THEN /\ usingTLS' = TRUE /\ pc' = "greeting" /\ armed' = BindDeadline
            /\ UNCHANGED <<conn, capVars, result>>
       ELSE FailWith(r)
    /\ UNCHANGED <<ctxVars, authVars, lastErr>>

Greeting(r) ==
    /\ pc = "greeting" /\ Answer(r)
    /\ IF r = "ok" THEN Await("ehlo") /\ UNCHANGED <<linkVars, capVars>>
       ELSE FailWith(r)
    /\ UNCHANGED <<ctxVars, authVars, lastErr>>

\* parseCapabilities of the reply c to EHLO, then STARTTLS or the end of helo.
Learn(c) == capabilities' = c /\ capsFrom' = IF usingTLS THEN "tls" ELSE "clear"

UpgradeWanted(c) == cfg.autoTLS /\ ~usingTLS /\ c.starttls

Ehlo(c) ==
    /\ pc = "ehlo" /\ Answer("ok")
    /\ Learn(c)
    /\ IF UpgradeWanted(c) THEN Await("starttls")
       ELSE pc' = "heloRest" /\ UNCHANGED <<armed, result>>
    /\ UNCHANGED <<ctxVars, linkVars, authVars, lastErr>>

\* EHLO fails, even for want of a connection: HELO is tried.
EhloFails(r) ==
    /\ pc = "ehlo" /\ r # "ok" /\ Answer(r)
    /\ Await("helo") /\ lastErr' = r
    /\ IF r = "io" THEN Terminate ELSE UNCHANGED <<linkVars, capVars>>
    /\ UNCHANGED <<ctxVars, authVars>>

\* Mutation: the capabilities of an earlier EHLO survive the fallback.
KeepCapabilities == UNCHANGED capVars

\* A HELO session has no capabilities.
ClearCapabilities == capabilities' = NoCapabilities /\ capsFrom' = "none"

\* A HELO session is ready at once; its failure without a code reports EHLO's.
Helo(r) ==
    /\ pc = "helo" /\ Answer(r)
    /\ IF r = "ok" THEN Ready /\ ClearCapabilities /\ UNCHANGED linkVars
       ELSE FailWith(IF r \in Coded THEN r ELSE lastErr)
    /\ UNCHANGED <<ctxVars, authVars, lastErr>>

------------------------------------------------------------------------------
(* STARTTLS, and the rest of helo.                                         *)

StartTLS(r) ==
    /\ pc = "starttls" /\ Answer(r)
    /\ IF r = "ok"
       THEN /\ pc' = "upgradeTLS" /\ armed' = BindDeadline
            /\ UNCHANGED <<linkVars, capVars, result>>
       ELSE FailWith(r)
    /\ UNCHANGED <<ctxVars, authVars, lastErr>>

\* startTLS's cleanup clears the deadline that start had set; the next command
\* renews it only when the context has none.
UpgradeTLS(r) ==
    /\ pc = "upgradeTLS" /\ r \in {"ok", "io"} /\ Answer(r)
    /\ IF r = "ok"
       THEN /\ usingTLS' = TRUE /\ pc' = "ehlo2"
            /\ armed' = IF IOTimeout /\ ~deadline THEN "io" ELSE "none"
            /\ UNCHANGED <<conn, capVars, result>>
       ELSE FailWith(r)
    /\ UNCHANGED <<ctxVars, authVars, lastErr>>

Ehlo2(c) ==
    /\ pc = "ehlo2" /\ Answer("ok")
    /\ Learn(c)
    /\ pc' = "heloRest"
    /\ UNCHANGED <<ctxVars, linkVars, armed, authVars, lastErr, result>>

Ehlo2Fails(r) ==
    /\ pc = "ehlo2" /\ r # "ok" /\ Answer(r)
    /\ FailWith(r)
    /\ UNCHANGED <<ctxVars, authVars, lastErr>>

\* Mutation: opportunistic TLS is taken to satisfy the requirement.
TLSMissingUnlessAuto == cfg.requireTLS /\ ~usingTLS /\ ~cfg.autoTLS

TLSMissing == cfg.requireTLS /\ ~usingTLS

\* Mutation: the guard against AUTH in the clear is dropped.
AuthNeverRefused == FALSE

AuthRefused == cfg.user /\ ~usingTLS /\ ~cfg.allowPlaintextAuth

HeloRest ==
    /\ pc = "heloRest"
    /\ \/ /\ TLSMissing \/ (capabilities.auth /\ AuthRefused)
          /\ FailWith("odd") /\ UNCHANGED <<mech, lastErr>>
       \/ /\ ~TLSMissing /\ ~(capabilities.auth /\ cfg.user)
          /\ Ready /\ UNCHANGED <<linkVars, capVars, mech, lastErr>>
       \/ /\ ~TLSMissing /\ capabilities.auth /\ cfg.user /\ ~AuthRefused
          /\ pc' = "authPick" /\ mech' = 1 /\ lastErr' = "none"
          /\ UNCHANGED <<linkVars, capVars, armed, result>>
    /\ UNCHANGED <<ctxVars, stage, exposed>>

------------------------------------------------------------------------------
(* handleAuth: advertised authenticators in order, RSET after each failure. *)

Candidates == {i \in mech .. Len(Authenticators) :
                  Authenticators[i] \in capabilities.modes}

\* Issue command k of the exchange of authenticator i.
AuthCommand(i, k) ==
    /\ Await("auth") /\ mech' = i /\ stage' = k
    /\ exposed' = (exposed \/ (conn # "none" /\ ~usingTLS
                               /\ Carries(Authenticators[i], k)))

\* Authenticate failed with error e; the connection is reset.
AuthFails(i, e) ==
    /\ lastErr' = e /\ mech' = i /\ Await("authRset")
    /\ UNCHANGED <<stage, exposed>>

AuthPick ==
    /\ pc = "authPick"
    /\ \E i \in Candidates :
          /\ \A j \in Candidates : i <= j
          /\ IF Authenticators[i] = "CRAM-MD5" /\ ~cfg.secret
             THEN AuthFails(i, "odd")
             ELSE AuthCommand(i, 1) /\ UNCHANGED lastErr
    /\ UNCHANGED <<ctxVars, linkVars, capVars>>

\* Every candidate failed: the last one's code, or 535 (504 if there was none).
AuthExhausted ==
    /\ pc = "authPick" /\ Candidates = {}
    /\ FailWith(IF lastErr \in Coded THEN lastErr ELSE "5xx")
    /\ UNCHANGED <<ctxVars, authVars, lastErr>>

\* CRAM-MD5 gives up, without a code, on a challenge it cannot decode.
AuthReply(r) ==
    /\ pc = "auth" /\ Answer(r)
    /\ LET m == Authenticators[mech] IN
       \/ /\ r = "ok" /\ stage < Exchange[m]
          /\ AuthCommand(mech, stage + 1)
          /\ UNCHANGED <<linkVars, capVars, lastErr>>
       \/ /\ r = "ok" /\ stage = Exchange[m]
          /\ Ready /\ UNCHANGED <<linkVars, capVars, authVars, lastErr>>
       \/ /\ r = "ok" /\ m = "CRAM-MD5" /\ stage = 1
          /\ AuthFails(mech, "odd") /\ UNCHANGED <<linkVars, capVars>>
       \/ /\ r # "ok" /\ AuthFails(mech, r)
          /\ IF r = "io" THEN Terminate ELSE UNCHANGED <<linkVars, capVars>>
    /\ UNCHANGED ctxVars

\* Mutation: the authenticator after a failed one is skipped.
AuthResetSkips(r) ==
    /\ pc = "authRset" /\ Answer(r)
    /\ pc' = "authPick" /\ mech' = mech + 2
    /\ IF r = "io" THEN Terminate ELSE UNCHANGED <<linkVars, capVars>>
    /\ UNCHANGED <<ctxVars, armed, stage, exposed, lastErr, result>>

AuthReset(r) ==
    /\ pc = "authRset" /\ Answer(r)
    /\ pc' = "authPick" /\ mech' = mech + 1
    /\ IF r = "io" THEN Terminate ELSE UNCHANGED <<linkVars, capVars>>
    /\ UNCHANGED <<ctxVars, armed, stage, exposed, lastErr, result>>

------------------------------------------------------------------------------

Handle(r) ==
    ImplicitTLS(r) \/ Greeting(r) \/ EhloFails(r) \/ Helo(r) \/ StartTLS(r)
    \/ UpgradeTLS(r) \/ Ehlo2Fails(r) \/ AuthReply(r) \/ AuthReset(r)

Local == DialFails \/ DialSucceeds \/ HeloRest \/ AuthPick \/ AuthExhausted

Next ==
    \/ Begin \/ CtxDone \/ AsyncClose \/ Lose \/ Local
    \/ \E r \in Outcome : Handle(r)
    \/ \E c \in Capabilities : Ehlo(c) \/ Ehlo2(c)

Spec == Init /\ [][Next]_vars

\* A wait ends by itself when the connection is gone or its deadline has passed.
TimesOut ==
    /\ conn # "open" \/ armed = "io" \/ (armed = "ctx" /\ done)
    /\ Handle("io")

\* Dialling is bounded by dialTimeout, timers fire, deadlines pass; nothing is
\* assumed of the server.
FairSpec ==
    /\ Spec /\ WF_vars(Local) /\ WF_vars(TimesOut) /\ WF_vars(AsyncClose)
    /\ WF_vars(CtxDone /\ deadline)

------------------------------------------------------------------------------
(* Properties.                                                              *)

TypeOK ==
    /\ cfg \in Configs /\ deadline \in BOOLEAN /\ done \in BOOLEAN
    /\ pc \in Waiting \cup {"idle", "dial", "heloRest", "authPick", "ready"}
    /\ conn \in {"none", "open", "dead"} /\ usingTLS \in BOOLEAN
    /\ capabilities \in Capabilities
    /\ capsFrom \in {"none", "clear", "tls", "old"}
    /\ armed \in {"none", "io", "ctx"}
    /\ mech \in 1 .. Len(Authenticators) + 1 /\ stage \in 1 .. 3
    /\ lastErr \in (Outcome \ {"ok"}) \cup {"none"}
    /\ result \in Outcome \cup {"none", "ctx"}
    /\ exposed \in BOOLEAN

\* Credentials leave the process only under TLS, unless the caller opted in
\* with SetAllowPlaintextAuth.
CredentialsProtected == exposed => cfg.allowPlaintextAuth

\* The capabilities a conversation relies on (SMTPUTF8, AUTH) were learnt on
\* this connection and under its present security layer; never those of an
\* earlier connection, nor those announced before STARTTLS.
CapabilitiesAreCurrent ==
    pc \in {"heloRest", "ready", "authPick", "auth"} /\ conn # "none" =>
       \/ capsFrom = IF usingTLS THEN "tls" ELSE "clear"
       \/ capabilities = NoCapabilities /\ capsFrom = "none"

\* SetRequireTLS holds for every session that speaks ESMTP.
EsmtpRequiresTLS ==
    pc = "ready" /\ cfg.requireTLS /\ capsFrom # "none" => usingTLS

\* SetRequireTLS at its word: no mail without TLS.
MailRequiresTLS == pc = "ready" /\ cfg.requireTLS => usingTLS

\* While the server is awaited, a socket deadline or the close hook of a
\* context with a deadline bounds the wait, also after STARTTLS has cleared
\* the socket deadline.
EveryWaitIsBounded ==
    pc \in Waiting /\ conn # "none" => armed # "none" \/ deadline

Contract == INSTANCE StartContract WITH
    session <- IF pc = "idle" THEN "closed"
               ELSE IF pc = "ready" THEN "ready" ELSE "opening",
    connected <- conn # "none"

\* start returns, with a ready connection or with an error and no connection:
\* the step SmtpTransport takes it for.
ImplementsContract == Contract!Spec
==============================================================================
