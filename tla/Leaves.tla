------------------------------- MODULE Leaves --------------------------------
(***************************************************************************)
(* The leaf transports that hand a message to somebody else: the sendmail  *)
(* binary (src/transport/sendmail/sendmail.go) and Amazon SES              *)
(* (src/transport/ses/ses.go).  A message is built and sealed as           *)
(* MimeMessage says, doSend turns envelope and bytes into arguments and    *)
(* input, the child process or the service takes them or fails.            *)
(***************************************************************************)
EXTENDS MimeMessage

CONSTANTS
    Unencodable,    \* addresses whose domain has no ASCII form
    UnicodeLocal,   \* addresses with a local part that is not ASCII
    ParseAddress,   \* the address a header value parses to, or Nowhere
    Nowhere,        \* the address of the zero Envelope's sender
    Envelopes,      \* explicit envelopes, the zero Envelope among them
    Commands        \* arguments of sendmail commands

Envelope == [from : Address \cup {Nowhere}, to : Seq(Address)]
Zero == [from |-> Nowhere, to |-> <<>>]

ASSUME EnvelopesAssumption == Envelopes \subseteq Envelope
ASSUME ParseAssumption == ParseAddress \in [Value -> Address \cup {Nowhere}]

VARIABLES
    via,        \* "none", "sendmail" or "ses"
    envelope,   \* the SentMessage's envelope
    args,       \* flags on the command line
    to,         \* recipients handed over
    input,      \* lines handed over
    mail        \* what the binary or SES has taken: lines and recipients

leafVars == <<via, envelope, args, to, input, mail>>
vars == <<messageVars, leafVars>>

NoMail == [lines |-> <<>>, to |-> {}]

Init ==
    /\ InitMessage
    /\ via = "none" /\ envelope = Zero /\ args = {} /\ to = <<>> /\ input = <<>>
    /\ mail = NoMail

\* Message.Recipients
Recipients(m) == m.addr["To"] \o m.addr["Cc"] \o m.addr["Bcc"]

\* Message.Header and ParseAddress: Nowhere if there is none or it does not parse.
HeaderAddress(m, canon) ==
    LET at == {k \in DOMAIN m.headers : m.headers[k].name.canon = canon}
    IN  IF at = {} THEN Nowhere
        ELSE ParseAddress[m.headers[CHOOSE k \in at : \A j \in at : k <= j].value]

\* senderFromMessageHeaders: the first of the three there is.
SenderFromMessageHeaders(m) ==
    IF HeaderAddress(m, "Sender") # Nowhere THEN HeaderAddress(m, "Sender")
    ELSE IF HeaderAddress(m, "Return-Path") # Nowhere
    THEN HeaderAddress(m, "Return-Path")
    ELSE IF m.addr["From"] # <<>> THEN m.addr["From"][1] ELSE Nowhere

EnvelopeFromMessage(m) == [from |-> SenderFromMessageHeaders(m), to |-> Recipients(m)]

\* NewEnvelope and EnvelopeFromMessage return no error.
ValidEnvelope(e) ==
    /\ e.from \notin {Nowhere} \cup Invalid \cup UnicodeLocal
    /\ e.to # <<>> /\ Range(e.to) \cap Invalid = {}

\* BaseTransport.Send: an envelope is derived or copied, and the message sealed.
Prepare ==
    /\ phase = "build"
    /\ \/ /\ ValidEnvelope(EnvelopeFromMessage(msg))
          /\ envelope' = EnvelopeFromMessage(msg)
          /\ Seal
       \/ /\ ~ValidEnvelope(EnvelopeFromMessage(msg)) /\ phase' = "refused"
          /\ UNCHANGED <<envelope, msg, want, calls, wire>>
       \/ /\ envelope' \in Envelopes
          /\ Seal
    /\ UNCHANGED <<via, args, to, input, mail>>

\* The SentMessage line by line.
Lines ==
    FlattenSeq([k \in DOMAIN wire.fields |->
                  [j \in DOMAIN wire.fields[k].lines |->
                     [t |-> "field", of |-> k, runs |-> wire.fields[k].lines[j]]]])
    \o wire.body

RecipientsEncode == Range(envelope.to) \cap Unencodable = {}
SenderEncodes == envelope.from \notin Unencodable

------------------------------------------------------------------------------
(* Sendmail.                                                               *)

\* NewSendmailTransport
Supported(command) == "-t" \in command /\ "-bs" \notin command

\* Mutation: -t stays on the command line.
KeepT(command) == command \cup {"--", "-fsender"}

\* doSend's flags: recipients on the command line take the place of -t, the
\* sender is added unless there is one.
Flags(command) ==
    (IF envelope.to = <<>> THEN command ELSE (command \ {"-t"}) \cup {"--"})
    \cup IF "-f" \in command THEN {} ELSE {"-fsender"}

\* Mutation: a dot is doubled only if it is alone.
StuffLoneDot(l) == IF l.t = "line" /\ l.dots = 1 /\ ~l.rest
                   THEN [l EXCEPT !.dots = 2] ELSE l

\* bytes.ReplaceAll of "\n." by "\n.." on one line.
StuffLine(l) == IF l.t = "line" /\ l.dots > 0 THEN [l EXCEPT !.dots = @ + 1]
                ELSE l

\* The first line has no line end before it.
Stuff(lines) ==
    [k \in DOMAIN lines |-> IF k = 1 THEN lines[k] ELSE StuffLine(lines[k])]

IgnoresDots(flags) == flags \cap {"-i", "-oi"} # {}

\* SendmailTransport.doSend up to the start of the process.
SendmailRun ==
    /\ phase = "ready"
    /\ \E command \in Commands :
          /\ Supported(command)
          /\ args' = Flags(command)
          /\ IF RecipientsEncode /\ ("-f" \in command \/ SenderEncodes)
             THEN /\ phase' = "handed" /\ via' = "sendmail" /\ to' = envelope.to
                  /\ input' = IF IgnoresDots(args') THEN Lines ELSE Stuff(Lines)
             ELSE phase' = "failed" /\ UNCHANGED <<via, to, input>>
    /\ UNCHANGED <<msg, want, calls, wire, envelope, mail>>

LoneDot(l) == l.t = "line" /\ l.dots = 1 /\ ~l.rest

\* EXTERNAL: without -i the binary stops at a line that is a single dot and
\* drops the first of two leading dots.
Undot(lines) ==
    LET ends == {k \in DOMAIN lines : LoneDot(lines[k])}
        n == IF ends = {} THEN Len(lines)
             ELSE (CHOOSE k \in ends : \A j \in ends : k <= j) - 1
    IN  [k \in 1 .. n |->
           IF lines[k].t = "line" /\ lines[k].dots > 1
           THEN [lines[k] EXCEPT !.dots = @ - 1] ELSE lines[k]]

\* EXTERNAL: with -t the binary sends to the addresses in the header as well.
InHeader(h) == Range(msg.addr[h])

TakenBySendmail ==
    [lines |-> IF IgnoresDots(args) THEN input ELSE Undot(input),
     to |-> Range(to) \cup IF "-t" \in args THEN InHeader("To") \cup InHeader("Cc")
                           ELSE {}]

------------------------------------------------------------------------------
(* SES.                                                                    *)

\* Transport.doSend up to the call.
SesSend ==
    /\ phase = "ready"
    /\ IF RecipientsEncode /\ SenderEncodes
       THEN phase' = "handed" /\ via' = "ses" /\ to' = envelope.to /\ input' = Lines
       ELSE phase' = "failed" /\ UNCHANGED <<via, to, input>>
    /\ UNCHANGED <<msg, want, calls, wire, envelope, args, mail>>

------------------------------------------------------------------------------
(* The other side.                                                         *)

\* EXTERNAL: what the binary or the service takes.
Taken == IF via = "sendmail" THEN TakenBySendmail
         ELSE [lines |-> input, to |-> Range(to)]

\* cmd.Run or SendEmail returns without an error; the id or the output it
\* returns only goes to the SentMessage.
DoSendSucceeds ==
    /\ phase = "handed" /\ phase' = "sent" /\ mail' = Taken
    /\ UNCHANGED <<msg, want, calls, wire, via, envelope, args, to, input>>

\* It returns an error, or the context ends, before or after the message was
\* taken.
DoSendFails ==
    /\ phase = "handed" /\ phase' = "failed" /\ mail' \in {NoMail, Taken}
    /\ UNCHANGED <<msg, want, calls, wire, via, envelope, args, to, input>>

Next ==
    \/ Builder /\ UNCHANGED leafVars
    \/ Prepare \/ SendmailRun \/ SesSend \/ DoSendSucceeds \/ DoSendFails

Spec == Init /\ [][Next]_vars

------------------------------------------------------------------------------

\* The lines of one field: its physical lines are numbered by the field.
FieldLines(lines, k) ==
    LET own == Kept(lines, {i \in DOMAIN lines :
                              lines[i].t = "field" /\ lines[i].of = k})
    IN  [j \in DOMAIN own |-> own[j].runs]

\* The numbers of the fields called c.
FieldsNamed(c) == {k \in DOMAIN wire.fields : wire.fields[k].name.canon = c}

HasField(lines, c, v) ==
    \E k \in FieldsNamed(c) : FieldsNamed(c) = {k} /\ Reads(FieldLines(lines, k), v)

\* What a reader finds in the header is what the caller has set, however often
\* headers were set, replaced under another spelling or removed: one field per
\* name with the last value, folded or encoded, no field the caller cannot set,
\* and no Bcc, through SES either (against the comment on ses.go's doSend).
HeaderArrives ==
    phase = "sent" =>
       /\ \A c \in DOMAIN want \ Structural : HasField(mail.lines, c, want[c])
       /\ \A k \in DOMAIN wire.fields :
             wire.fields[k].name.canon \in
                DOMAIN want \cup {"Subject", "From", "Reply-To", "To", "Cc"}
       /\ msg.subject.runs # <<>> => HasField(mail.lines, "Subject", msg.subject)
       /\ \A h \in AddressHeaders \ {"Bcc"} : msg.addr[h] # <<>> =>
             HasField(mail.lines, h, [runs |-> EncodeAddressList(msg.addr[h])])
       /\ FieldsNamed("Bcc") = {} /\ FieldsNamed("Content-Type") = {}

\* Where the parts of a message belong: the body inside related inside mixed,
\* in alternatives when there are two; inline parts beside the body, regular
\* ones outside.
Part(of, in, body) == [of |-> of, in |-> in, body |-> body]

ExpectedParts ==
    LET mixed == IF Regular(msg) = <<>> THEN <<>> ELSE <<"mixed">>
        related == mixed \o IF Inline(msg) = <<>> THEN <<>> ELSE <<"related">>
        both == msg.text # <<>> /\ msg.html # <<>>
        body == related \o IF both THEN <<"alternative">> ELSE <<>>
        File(a, in) == Part(a.id, in, IF a.empty THEN <<>> ELSE <<DataLine>>)
    IN  (IF msg.text # <<>> \/ msg.html = <<>>
         THEN <<Part("text", body, msg.text)>> ELSE <<>>)
        \o (IF msg.html # <<>> THEN <<Part("html", body, msg.html)>> ELSE <<>>)
        \o [k \in DOMAIN Inline(msg) |-> File(Inline(msg)[k], related)]
        \o [k \in DOMAIN Regular(msg) |-> File(Regular(msg)[k], mixed)]

BodyLines(lines) == Kept(lines, {i \in DOMAIN lines : lines[i].t # "field"})

\* A reader of what sendmail or SES has taken finds every part of the message,
\* once, whole, in its place and in order, and every container closed.
PartsArrive ==
    phase = "sent" =>
       LET r == ReadBody(BodyLines(mail.lines))
       IN  r.ok /\ r.open = <<>> /\ r.parts = ExpectedParts

\* The message goes to the recipients of the envelope and to nobody else; the
\* addresses in the header count only when the envelope has none.
RecipientsExact ==
    phase = "sent" =>
       mail.to = IF via = "ses" \/ envelope.to # <<>> THEN Range(envelope.to)
                 ELSE InHeader("To") \cup InHeader("Cc")

\* The white space of one or two runs of f leaves no room for a word.
NoRoom(f) ==
    \E i, j \in DOMAIN f.runs :
       f.name.prefix + f.runs[i].ws + (IF i = j THEN 0 ELSE f.runs[j].ws) + TokenLimit
          > HardLimit

\* Every line of the message's header fields is within the limit of RFC 5322, but
\* for a name without a value, which foldHeaderLine does not measure.  A field of
\* a message that has an envelope and valid addresses is refused
\* only when its name and white space, which may stand on one line with a word
\* at either side of it, leave no room for the longest word.
LineLimitKept ==
    /\ \A k \in DOMAIN wire.fields : \A j \in DOMAIN wire.fields[k].lines :
          \/ Octets(wire.fields[k].lines[j])
                + (IF j = 1 THEN wire.fields[k].name.prefix ELSE 0) <= HardLimit
          \/ wire.fields[k].lines = << <<>> >>
    /\ phase = "refused" =>
          \/ ~EnsureValidity(msg) \/ ~ValidEnvelope(EnvelopeFromMessage(msg))
          \/ \E k \in DOMAIN msg.attachments : Broken(msg.attachments[k])
          \/ AddressLength >= TokenLimit
          \/ \E k \in DOMAIN Fields(msg) : NoRoom(Fields(msg)[k])
==============================================================================
