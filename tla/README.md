# A verification project for go-mailer

TLA+ models of go-mailer's sending machinery: the pooled SMTP transport, the
opening of its connections, the composite transports, the throttled pipeline,
the way of a message through middleware and routers, the building and
serialization of messages, the sendmail and SES leaves, the byte streams of a
connection and the DSN parser. TLC checks each model on small instances; TLAPS
proves the safety properties of all but the parser for every value of their
constants. `PROJECT.json` holds the machine-readable side: the
definition-to-source map, the runs, one mutation per checked property, the
hazards, findings and theorems.

Run a model check with `tlc -config Pool.cfg TransportPool`, a proof with
`tlapm TransportPoolProofs.tla`.

## 1. Inventory

| Component (source) | State | Operations | What makes it correct |
|---|---|---|---|
| SMTP transport (`transport/smtp/smtp.go`) | one connection, one mutex, `started`, `ctxHasDeadline`, restart counter, last message time, close hooks of contexts | `Send`, `doSend`, `ping`, `checkRestartThreshold`, `Close` | a message is accepted at most once per `Send`; the result is true; a kept connection is clean; a conversation waits under its own context; calls return |
| Opening a connection (same file) | `capabilities`, `usingTLS`, socket deadline | `start`: `connect`, `helo`, `startTLS`, `handleAuth` | credentials only under TLS; capabilities of this session; no half-open connection after a failure |
| DATA stream and replies (same file) | the bytes under way in either direction | `writeData`, `normalizeCRLF`, `dotStuff`, `execute`, `readResponse` | the server reads the text back and sees the end where it is; a reply is whole and answers the command just written |
| RoundRobin, Failover (`transport/roundrobin.go`, `failover.go`, `close.go`) | cursor, dead transports with their times, sticky index, two mutexes | `Send`, `nextTransport`, `markDead`, `Close` | load is spread; failover sticks; a failure is exhaustive and carries a code; `Close` beside `Send` releases connections; `Send` ends |
| BaseTransport (`transport.go`) | rate, `lastSent`, `throttleMu` | `Send`, `checkThrottling`, `SetMaxPerSecond` | messages an interval apart; an interrupted wait costs nobody a slot |
| Mailer, middleware, Transports router, Message, Envelope, SentMessage | who shares which object; lazily sealed Message-ID; spans | `Send`, hooks, `Clone`, `seal`, routing | the caller's objects are not touched; hooks apply once; routing by header; nothing is left behind |
| DSN parser (`transport/registry.go`, `dsn.go`) | none | `FromString`, `parseDSN`, `parseRetryPeriod` | what is written resolves, with the period it says; nothing is ignored |
| Message and MIME (`message.go`, `mime.go`) | addresses, subject, custom headers, bodies, attachments | setters, `SetHeader`, `RemoveHeader`, `Attach`, `Bytes` | what was set is what a reader finds: header fields, nesting of parts, line limits |
| Sendmail, SES (`transport/sendmail`, `transport/ses`) | none | `doSend` | the message arrives whole, at the envelope's recipients and nobody else |
| SMTP factory, suppression list, Null, mailertest, otelmw, `ParseDSN`, address syntax | options; AWS calls | | not modelled, see section 7 |

How the parts interact. `Mailer.Send` calls the outermost transport. Decorators
(`middleware.Wrap`), the router and the composites call the next one and pass the
result up. A leaf embeds `BaseTransport`, whose `Send` copies, validates,
throttles and calls the leaf's `DoSend`. The SMTP transport wraps this `Send` in
its retry loop, so that one call is a sequence of critical sections on the
transport's mutex. Contexts act from outside: a done context closes the
connection from a goroutine of its own (`context.AfterFunc`).

What is hard here: the gap between the critical sections of one `Send`; the
close hook of a finished call; deadlines that outlive or predecease the call
they belong to; capabilities kept across connections; transports that revive
while a `Send` is still looking for one; `Close` beside a `Send` in flight;
sleeping with a mutex held; sharing one message between goroutines, attempts and
hooks; replies that come late or in part; limits that meet in one header line;
dots and containers whose meaning depends on their neighbours. `PROJECT.json` lists these
under `hazards`, each at its line.

## 2. Modules and the code

**`SmtpTransport`** (with `MCSmtpTransport`). Each goroutine has a control point
`pc` and a record `call` of its Send (context, error, attempts, recipients
acknowledged, how often the server accepted the message). `conn`, `started`,
`ctxHasDeadline`, `armed` (socket deadline), `restartCounter` and
`lastMessageTime` are the transport's fields; `hook` and `closing` are the
registered `AfterFunc` and its goroutine; `txn` is the server's mail transaction.
A command is issued in one step and its reply handled in another, so that
contexts end and connections die in between. The reply is any of: expected,
4xx, 5xx, another code, no code, I/O failure; a late I/O failure may follow an
accepted message. `start` is one step.

**`SmtpHandshake`** (with `MCSmtpHandshake`) opens that step: dialling, implicit
TLS, greeting, EHLO or HELO, STARTTLS, second EHLO, the exchanges of PLAIN, LOGIN
and CRAM-MD5 in order, with every configuration, against a server that answers
anything. **`StartContract`** is the abstract specification: a start ends with a
ready connection, or with an error and none. `SmtpHandshake` is shown to
implement it, liveness included.

**`TransportPool`** models both composites. `sticky` tells them apart: a failover
transport asks for the current transport first and falls back on the rotation it
embeds. That rotation is `nextTransportLocked`'s loop, one transport per step: it
starts at the cursor (`ScanBegins`), takes a live transport or one that is due
(`ScanTakes`), goes on (`ScanMoves`), and gives up when it is back at its start
(`ScanEnds`). No time passes in a scan, which waits for nothing; `Close` may run
beside it. `dead[i]` is the age of the mark. One `Send` is in flight at a time because
`sendMu` serialises it; `Close` does not take that mutex, so `closeAll` passes the
members one per step (`closer`) while the transport in use opens and loses its
connection (`open`). `codes` and `spared` are history: the codes returned to this
`Send`, and the members that may have an open connection although they were closed.

**`BaseTransport`** models the pipeline and the throttle: callers prepare, take
their slot or sleep with `throttleMu` held, wake or are interrupted, deliver.

**`Delivery`** (with `MCDelivery`) composes the layers between caller and leaf. A
sender has a stack of frames, one per layer, going down with arguments and up
with a result. Addresses make sharing visible: 0 is the caller's message or
envelope, k the copy of layer k. A hook that edits writes through its address;
the router strips the header through its own. Which member of a composite is
tried is `TransportPool`'s subject; here a composite has up to `Attempts`
attempts, or none.

**`SmtpData`** is the encoder of the DATA stream step by step, with a server that
reads it back. **`SmtpExchange`** adds the other direction: the end of the data is
a command to `execute`, the server answers line by line, `readResponse` collects
the lines of a reply, and a timeout, the end of the stream, half a line or too many
lines end it, and the connection with it. Each line carries the number of the
command it answers, which the code cannot see and the property `InStep` can.

**`MimeMessage`** is the `Message`: one action per builder method, then the whole
of `writeHeaders` and `writeBody` as functions of it. A header value is a sequence
of words with the white space before each, counted in octets with the code's own
limits (78, 900, 998, 45 per encoded-word), so that folding and encoding are the
code's arithmetic; the body is a sequence of lines, with `Content-Type` and
boundary lines for the containers. `want` keeps the custom headers as a map from
names, which is how a caller thinks of them. A reader (external) unfolds fields and
follows boundaries. Which addresses are malformed (`Invalid`), and what a header value
parses to as an address, are constants; that a message with a malformed address is
refused, and whether an envelope can be derived (from `Sender`, `Return-Path` or `From`,
in this order) and is valid, is the code's. **`Leaves`** (with `MCLeaves`) extends the
message by the envelope and the two transports that hand the message to somebody else: the
command line and standard input of sendmail, the call of SES, and what each of
them takes, including a failure after it was taken.

**`Registry`** (with `MCRegistry`) is the parser as recursive operators over
tokens, with `Render` as the reference: the way the documentation writes a
composite. Digits have values: `Accumulated` and `NewRetryPeriod` are the integer, its
conversion to nanoseconds and the default, with the wrap-around of both (`Wrap`), and
`Meant` is the number of seconds a reader takes the digits for. `ParseDSN` of a single
DSN is external (`LeafResolves`).

The theorems are in modules of their own: **`SmtpTransportProofs`**,
**`SmtpHandshakeProofs`**, **`SmtpExchangeProofs`** (about `SmtpData`, too),
**`TransportPoolProofs`**, **`BaseTransportProofs`**, **`DeliveryProofs`**,
**`MimeMessageProofs`** (lemmas about the folds and the header) and
**`LeavesProofs`**, which builds on it.

## 3. Runs

| Run | Instance | Shows |
|---|---|---|
| SmtpPool | 2 senders, threshold 1, 1 retry, contexts with and without a deadline that end at any point, a sender address that does not encode | a message is accepted at most once; outcomes are true; the connection budget; no transaction is forgotten; a conversation waits under the deadline and the close hook of its own context |
| SmtpLive | 2 senders, contexts that end at any point, 1 retry, server that may stall forever | `Send` and `Close` return, also when a Send is cancelled between attempts or loses its connection to the close hook of another |
| HandshakeSafe | every configuration, default authenticators | credentials, capabilities, TLS in ESMTP sessions, bounded waits, refinement of `StartContract` |
| Pool | 3 transports, both composites, attempts shorter than the retry period | no starvation, stickiness, exhaustive failure, the code of the aggregate, `Close` beside `Send`, termination |
| Throttle | 3 callers, intervals up to 3 ticks | the rate limit, free slots after interruption, termination |
| Delivery | 2 senders of one message, 4 stacks, 2 attempts, raw and built messages, with and without envelope | nobody writes to the caller's objects; routing, edits, Message-ID, reports; no span or mutex is left; termination |
| SmtpWire | every message of up to 6 bytes over CR, LF, dot, other; 2 commands, replies of up to 3 lines of which 2 fit | text intact, end exactly at the terminator; replies in step with commands; the data is answered or given up |
| Leaves | up to 3 builder calls on a message with or without each body; 3 sendmail commands, one unsupported; derived and explicit envelopes; addresses that are malformed, not ASCII or do not encode | header and parts arrive as set, recipients are the envelope's, header lines are within the limit |
| Registry | every DSN of up to 5 tokens, composites of depth 2 with periods inside and outside and up to one token mistyped; a Duration holds 51 seconds | composites resolve to what they spell out, except that a period inside is refused and one too long becomes another; nothing accepted is ignored |
| SmtpNested | 2 senders | *violated*: MAIL inside another sender's open transaction |
| HandshakeRequireTLS | `require_tls` | *violated*: the HELO fallback skips the check |
| PoolSlow | attempts longer than the retry period | *violated*: `Send` never returns |

### Bounds

*Two senders* suffice for SMTP: the mutex admits one at a time, and what one
goroutine can find is what another has left behind; the connection budget, which
counts senders, is proved for any number. With two senders a
threshold of 1 lets a connection be reused, exceed its budget and be replaced; one retry
exercises the loop once each way. *Three transports* distinguish the next transport, the one after and
the current one in a rotation; a retry period of two ticks separates dead, due
and revived. *Three callers* give one that sleeps, one that waits behind it and
one that comes when the first is interrupted. *Stacks of two and three layers*
put each kind of layer above and below a copy, and composites above hooks,
routers and observers, where retries repeat them. *Six bytes* hold a dot
between two line ends at either border; *two commands* let the second one meet
what the first has left behind. *Three builder calls* set, replace and remove a
header, or add a regular and an inline attachment to a message with two bodies, so
that mixed, related and alternative nest; subjects have up to three words around
the limits, and the body has lines with one and two leading dots and a line that
is a dot. *Five tokens* hold one nested group;
composites of depth two reach a member after a nested group, and one after a nested
group's period when the separator is mistyped as `&`. Words of 10 bits with ten ticks to
a second let periods of two to four digits overflow as a Duration only, or as an
integer, too.

Deadlock checking is off where the model is one call or one message (`SmtpWire`, `Leaves`, `Registry`).

### Fairness

Weak fairness of a goroutine's own steps: the Go scheduler runs goroutines.
Strong fairness of taking a mutex: `sync.Mutex` hands over to a waiter after a
millisecond of starvation. Weak fairness of timers, deadlines and `AfterFunc`
goroutines. Nothing is assumed of a server: in `SmtpTransport` and
`SmtpHandshake` only a deadline or a close hook ends a wait. In `TransportPool`,
`BaseTransport` and `Delivery` the next `Send` (or hook) is taken to return; for
the SMTP leaf this is what SmtpLive shows.

## 4. What is proved

The assumptions are the named `ASSUME`s of the modules: sets of senders without
`Nobody` (finite where they are counted), natural numbers as bounds.

*SmtpTransport.* `TypeCorrect` carries `RcptLoop`, the bound of the recipient loop,
without which the count of recipients could leave its type. `MutualExclusion`
shows that exactly the holder of `mu` is in a critical section (`Holder`); it is
the basis of the next two. `DeliveredAtMostOnce` and `DeliveryIsTruthful` prove
`AcceptedAtMostOnce` and `OutcomeIsTruthful` from `DeliveryInv`: while an attempt is running, and after an
error that may be retried, the message has not been accepted; an error after an
acceptance is neither 4xx, 5xx nor a validation error, and only 4xx is retried. `BudgetIsKept`
proves `ConnectionBudget` for every threshold and number of senders. The bound
alone is not inductive: `BudgetInv` relates messages on the connection to the
counter and to the set of senders that have delivered but not yet run the
check. `QuietStep` disposes of the many steps that touch none of these.

The second part of `SmtpTransportProofs` goes on from there. `ConnInv` (a connection is started or
gone) and `WireInv` (the command in flight is the one its sender's control point
stands for) are the ground for two more results. `ContextIsObeyed` proves
`WaitObeysContext` for any number of senders and contexts of every kind, with an I/O
timeout or without: through all commands of a conversation the socket has the deadline of
the context of this Send, and the end of that context closes the connection. The
property speaks of moments when a command is in flight and is not inductive:
`refreshIOTimeout` relies on a flag that was set when the context was bound. `WaitInv`
says that from the first bind to the return of `doSend` this flag and the socket are
those of the sender inside (`BoundTo`), whatever the Send before it has left, and that
its hook can be missing only because it has fired. Nothing of the kind holds for RSET
and QUIT (section 6). `TransactionIsReset` proves `OpenTransactionIsReset` where every
recipient encodes; the hypothesis leaves out a gap of the code (section 6). Its
invariant `TxnInv` names who is responsible for an open transaction at every control
point.

*SmtpHandshake.* `HandshakeInv` says, per control point, which connection there is,
what its capabilities come from and under which security layer; from it follow
`CredentialsProtected`, `CapabilitiesAreCurrent`, `EsmtpRequiresTLS` and, with an I/O
timeout, `EveryWaitIsBounded`, for every list of authenticators and every
configuration. `StartKeepsContract` is the safety part of the refinement: under the
mapping of `Contract`, every step of `start` is a step of `StartContract` or changes
nothing.

*SmtpExchange, SmtpData.* `RepliesStayInStep` proves `InStep` for any number of
commands and lines: `ExchangeInv` says that the lines read and the lines under way
are one numbered run of the reply to the command being read, and that the server owes
the rest of it. `MessageIsIntact` proves `Intact` for messages of any length. The
argument follows the bytes: a function f says for each byte of the stream how much
of the text it completes. `Aligned` requires that a byte either is the next one of
the text and no dot that begins a line, or is a dot `dotStuff` has added, which
begins a line and has a dot after it; `StuffByte` shows that an iteration of
`dotStuff` extends f, `WholeEnds` that the stuffed text ends in CRLF exactly when the
text does, which is what `doSend` relies on for the terminator. `SentInv` then
follows the server: the line it is reading began at a line boundary of the stream
(`LineInv`), and what it has received is the text the bytes it has read stand
for (`MailInv`); a line that is a single dot before the terminator would be an added
dot without a dot after it (`NoEarlyEnd`). `TextInv` connects `normalizeCRLF` with
`Text`: it has written the pieces of the bytes it has consumed, and never stops
between the CR and the LF of one break. That the recursion inside `FlattenSeq` has a
solution is an induction on the number of pieces (`FlatExists`), done as an argument
about a least counterexample (`Least`, from the well-foundedness of the naturals).

*TransportPool.* `LoadIsSpread` proves `NoStarvation` for every number of
transports, from `Turn`: the selections a transport has waited plus its distance
from the cursor never exceed N - 1. Both this theorem and `FailureIsExhaustive`, which
proves `FailureMeansAllDead`, rest on the loop invariant of the scan (`ScanInvariant`):
every transport from the start of the scan to its present position is dead and not due
(`Scanned`). That the scan is back at its start then means that it has seen them all,
which is a fact about distances on a ring (`MovingPast`, `DistanceInjective`).
`FailoverIsSticky` proves the action property `StickyAfterSuccess` from `Stays`: after a
success the current transport is the one that delivered, and it is alive.
`CodeReachesCaller` proves `CodeIsLifted` from `Lifted`, its counterpart while `Send` runs. `CloseIsComplete` proves
`CloseReleases`; alone it is not inductive, because the transport in use may
connect at any time: `InUseIsSpared` says that this one is spared if `closeAll` has
passed it. `ReleaseKeepsSend` separates `Close` from the state of `Send`.

*BaseTransport.* `ThrottleIsKept` proves `RateLimit` and `ClockMovesWhenDue` for any
number of callers and any intervals. The invariant needs `Sleeper`: whoever sleeps
holds `throttleMu`, and its timer covers what is left of the interval, so that a
change of the rate or a cancelled neighbour cannot let it through early.

*Delivery.* Everything is for any set of stacks, any number of senders and attempts.
The actions fall into three shapes: a sender starts a call, a layer calls the next
one, or a layer returns (`Starts`, `Calls`, `Returns`; `StepShape` shows that a step is
one of them and what it leaves alone), and each invariant is proved once per
shape. `TypeCorrect` carries `FramesAbove`: what a layer is handed is the caller's
object or a copy made by a layer above it. `CallerIsLeftAlone` proves `CallerObjectsKept`; `ReportsAreTrue`, `NothingStaysHeld`,
`HooksEditOnce` and `SeenIDReachesWire` prove `ReportIsTrue`, `NothingHeld`, `EditedOnce` and
`SeenIDIsSent`, each from an invariant over all frames of a call (`ReportInv`, `HeldInv`,
`EditInv`, `SealInv`): what a copy at layer k has been through is a function of the
layers above k, not of the attempts made before. `MessagesAreRouted` proves
`RoutedAsAddressed` for stacks with at most one router (`OneRouter`): a router removes
the header it reads, so a second one behind it sends to its own default.

*Leaves.* `RecipientsAreExact` proves `RecipientsExact` for every command and
envelope, from `HandedInv`: `-t` is left on the command line exactly when the envelope
has no recipients. `DotsCancelOut` shows that stuffing and the binary's unstuffing
cancel out for every message whose first line is not a line of content
(`WellFormed`), and `MessageArrives` that every message is taken line by line: the
lines of a sealed message are always of that shape (`SealedLines`).

*MimeMessage.* The constants are any addresses, any header values (`HeaderText`: runs
as `foldHeaderLine` splits a string), any names, bodies and attachments whose ids are
not names of containers, and any number of builder calls. What the code writes as
a loop, the model writes as a fold, and nothing can be said of a fold without an
induction. It is made once: `SolutionExists` shows that the recursion behind
`FoldLeft` has a solution, `SolutionIterates` that the solution is reached one
iteration at a time, `IteratesOnce` that there is only one; `SumSteps`, `LineSteps`,
`KeepSteps`, `ReadSteps` and `RawSteps` say so for the five loops. On these rest:

- `LinesAreShort` (`LineLimitKept`). `LineInv` says what `foldHeaderLine` has written
  after k runs: the same words, `curLen` octets on the last line, no line over the
  limit. `FieldFits` is the converse, that a field is refused only for lack of room:
  `Bounded` names the runs that can stand on one line. Words are short because long
  ones are encoded (`EncodedShort`), addresses excepted.
- `HeaderIsRead` (`HeaderArrives`). `HeadersInv` is the invariant of the list of custom
  headers: one entry per name, with the value the caller has last set; `SetHeaderKeeps`
  and `RemoveHeaderKeeps` preserve it. `FieldsAre` says which fields `writeHeaders`
  writes, each once; `FieldFound` that a reader finds them among the lines, and
  `ValueReads` that unfolding and decoding return the value (`RawIsWhole`: the
  chunks of an encoded value add up to it).
- `PartsAreRead` (`PartsArrive`). `Delivers` is what holds of a piece of a body in any
  context: a reader that comes to it with containers o open leaves it with o open and
  exactly its parts added. A part delivers, a container of pieces that deliver does
  (`ContainerDelivers`), and so do the bodies, related and mixed (`BodyDelivers`).

All three need `MessageInvariant`: the message is typed, its headers are what the
caller has asked for, and what is sealed is the serialization of it.

## 5. What is only model-checked

- Liveness: `SendReturns`, `CallsReturn`, `DataIsAnswered` and the fairness of
  `StartContract` in `ImplementsContract`. The prover does not treat fairness.
- `NothingIgnored` and `Resolves`: the parser of `Registry` is a pair of RECURSIVE
  operators, which the prover does not take.
- `OpenTransactionIsReset` beyond the hypothesis of its theorem, where it does not hold.

## 6. Where code and documents disagree

Three disagreements have a run and an entry under `findings`:
RSET in a critical section of its own (SmtpNested), required TLS and HELO
(HandshakeRequireTLS), and the endless loop of a composite whose members all time
out (PoolSlow). The following are visible in the models and have no run of their
own:

- `smtp.go:811` and `docs/guides/production.md:83` ("A hung server cannot block
  forever"): RSET and QUIT run after `doSend` has cleared the socket deadline and
  unregistered the close hook, and `refreshIOTimeout` sets no deadline while
  `ctxHasDeadline` describes the finished Send: after a rejected message whose context
  had a deadline, a server that does not answer RSET keeps `Send`, and the mutex, for
  ever. (Set `CtxKinds = {"deadline"}` in `SmtpLive.cfg`: `CallsReturn` is violated.)
- `smtp.go:262`: RSET is skipped after every validation error, also when a recipient
  fails after MAIL was accepted; the transaction stays open on the kept connection. The
  comment at line 259 says that such an error "did not put the connection in a state
  needing teardown". (Add `"badRcpt"` to `Messages` in `SmtpPool.cfg`:
  `OpenTransactionIsReset` is violated.)
- `registry.go:255`: the value of `retry_period` reaches to the next `&` or the end of
  the DSN, so a nested composite with a period is refused, although
  `docs/reference/dsn-options.md:112` says of composites "They nest recursively" and
  line 119 gives them the suffix. (`Resolves` says so: its case `PeriodInside`.)
- `ses.go:90` and `docs/guides/ses.md:175` say that the raw message carries its own Bcc
  header. `writeHeaders` writes none, for any transport, which keeps the blind copies
  blind; the documents are wrong. (`HeaderArrives` says that there is no Bcc field.)
- `mime.go:163`: the comment above it folds "after a non-empty value fragment has
  been emitted on the current line", but `curLen` is compared with the length of
  `Name: ` on continuation lines, too: after a short word on a continuation line
  a long word is not folded, and the line exceeds the soft limit of 78 octets. The
  hard limit is kept (`LineLimitKept`). (In `FoldRun`, see `acc.curLen > prefix`.)
- `mime.go:134`: the hard limit is tested inside the loop over the value only. A
  header without a value is not measured, and its name is written on one line however
  long it is. The proof of `LineLimitKept` showed this; the property excepts it. White
  space at both ends of a value, or an address longer than any
  encoded word, can make a field too long that has nothing else to fold; it is refused.
- `sendmail.go:104`: "Dot-stuff leading dots" leaves out the first line, which has
  no line end before it. For a `Message` it is a header field; a `RawMessage` may
  begin with a dot.
- `envelope.go:10`: the zero `Envelope` can be passed to `Send`. With sendmail the
  recipients then come from the header (`-t`), and Bcc recipients, which are not
  written there, get nothing.
- `registry.go:267`: the period is accumulated without a bound and converted to
  nanoseconds without one; from 2^63 nanoseconds on it wraps to another period, or to
  the default if that is not positive, without an error. `docs/reference/dsn-options.md:120`
  gives the default as `0`; what 0 selects is 60 seconds (`roundrobin.go:74`).
- `registry.go:172`: the character after a nested group is taken for the separator
  ("space or closing ')'") whatever it is: `failover(failover(a)&b)` is accepted, and with `&` as the
  separator a nested composite may have a period: `failover(failover(a)?retry_period=7&b)`.
- `smtp.go:320`: after a failed message `lastMessageTime` is zero, which switches
  off the idle check for the next message on the kept connection.
- `smtp.go:757`: the close hook of a finished Send can close the connection the
  next sender uses; that sender sees an I/O error.
- `docs/reference/dsn-options.md:58`: the restart threshold can be exceeded by one
  message of every other sender (`ConnectionBudget` is the bound that holds).
- `smtp.go:611` and `docs/reference/errors.md:56`: a failed authentication carries
  535 although no server may have sent it.
- `roundrobin.go:149` and `errors.md:116`: the aggregate of a 4xx followed by a 5xx
  reads as permanent.
- `roundrobin.go:135` and `docs/concepts/transports.md:108`: a validation error from
  `DoSend` is wrapped as a transport error and causes failover.
- `message.go:51` and `docs/guides/production.md:181`: repeated `Bytes()` of a
  multipart message differ in their random boundaries.
- `transport.go:76`: `Send` seals a copy, so `MessageID()` asked for after `Send`
  differs from the one sent; asked for before, it is the one (`SeenIDIsSent`).

## 7. Not modelled

- *Options of DSNs, the SMTP factory and the sendmail and SES factories*: tables
  from option names to setters, without state or order.
- *`ParseDSN`* (`dsn.go`): a function of one string; the model knows texts that resolve
  and texts that do not.
- *Address syntax and its encodings* (`address.go`): a function of one string,
  abstracted to whether an address is valid, has an ASCII local part and encodes, and to
  its length in a header.
- *Part headers*: RFC 2231 parameters, their folding and its failure (`LineLimitKept` is
  about the header of the message), content sniffing, and the line breaks inside
  quoted-printable and base64 text; Date and Message-ID fields in `MimeMessage`
  (the Message-ID is `Delivery`'s subject).
- *The quoting of the sendmail command string* (`splitCommand`).
- *Replies nobody asked for*, such as 421 before a server closes: `execute` takes
  them for the reply to the next command and fails with their code.
- *`Close` of the router, the decorators and the Mailer*: the first is `closeAll`
  again, the others forward.
- *The suppression list*: single calls to the AWS SDK without state between them.
- The debug transcript, logging, metrics, the sleep after a restart, the mailertest
  recorder, the null transport and the OpenTelemetry adapter.

## 8. Plan

Done, in this order: `SmtpTransport`; its proofs; `SmtpHandshake` with
`StartContract`; `TransportPool` and its proofs; `BaseTransport` and its proofs;
`SmtpData`; `Delivery`; `Registry`; `MimeMessage` and `Leaves`; `Close` and the
aggregate's code in `TransportPool`, with their proofs; `SmtpExchange`; the proofs
about `SmtpHandshake` and its contract, the waits and transactions of
`SmtpTransport`, `SmtpExchange` and `SmtpData`, `Delivery`, the recipients of
`Leaves`, and the header and the body of a message.

What is left is the parser of `Registry` (section 5).
