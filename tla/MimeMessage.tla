---------------------------- MODULE MimeMessage ------------------------------
(***************************************************************************)
(* A Message and its serialization (src/message.go, src/mime.go): the      *)
(* builder methods, the folding and encoding of header fields, and the     *)
(* nesting of MIME parts that writeBody chooses.                           *)
(*                                                                         *)
(* Text counts by its length: a header value is a sequence of runs, a run  *)
(* is a word and the white space before it.  The body is a sequence of     *)
(* lines; a boundary is called after the container it delimits, of which   *)
(* a message has at most one each (generateBoundary makes fresh ones).     *)
(***************************************************************************)
EXTENDS Integers, Sequences, SequencesExt

CONSTANTS
    Address,        \* addresses
    Invalid,        \* malformed ones among them (Address.valid)
    Author,         \* the address a message is from and to at first
    AddressLists,   \* lists of them the setters are called with
    AddressLength,  \* octets of an address in a header
    HeaderName,     \* names custom headers are set and removed by
    Subject,        \* values the subject is set to
    Value,          \* values custom headers are set to
    Text,           \* bodies, as sequences of lines
    Attachment,     \* attachments
    MaxCalls        \* calls of builder methods

\* A header value as foldHeaderLine splits it: only the first run may begin
\* without white space, only the last may have no word.
TextRun == [ws : Nat, len : Nat]
HeaderText ==
    {r \in Seq(TextRun) : \A k \in DOMAIN r :
       /\ r[k].ws + r[k].len > 0
       /\ k > 1 => r[k].ws > 0
       /\ k < Len(r) => r[k].len > 0}

\* Printable ASCII, with other characters, or with a line break.
HeaderValue == [runs : HeaderText, kind : {"plain", "high", "crlf"}]

\* isStructuralHeader, the names that occur here.
Structural == {"Content-Type", "Subject", "From", "To", "Cc", "Bcc", "Reply-To"}

\* A name as it is spelled: its canonical form, a spelling, whether it is a
\* field-name, and the octets of "Name: ".
FieldName ==
    [canon : Structural \cup {n.canon : n \in HeaderName}, form : Nat,
     valid : BOOLEAN, prefix : Nat \ {0, 1}]

\* A line of a body: its leading dots, and whether anything follows them.
BodyLine == [t : {"line"}, dots : Nat, rest : BOOLEAN]

Containers == {"mixed", "related", "alternative"}

AttachedFile ==
    [id : {a.id : a \in Attachment} \ Containers, inline : BOOLEAN, empty : BOOLEAN,
     badType : BOOLEAN, cid : {"none", "auto", "set", "bad"}]

ASSUME CallsAssumption == MaxCalls \in Nat /\ AddressLength \in Nat
ASSUME AuthorAssumption == Author \in Address
ASSUME ListsAssumption == AddressLists \subseteq Seq(Address)
ASSUME NamesAssumption == HeaderName \subseteq FieldName
ASSUME ValuesAssumption == Subject \cup Value \subseteq HeaderValue
ASSUME BodiesAssumption == Text \subseteq Seq(BodyLine)
ASSUME FilesAssumption == Attachment \subseteq AttachedFile

\* Octets of a line and of a word: maxHeaderLineLength, hardHeaderLineLength,
\* maxHeaderTokenLength; octets of text in an encoded-word and around it.
SoftLimit == 78
HardLimit == 998
TokenLimit == 900
RawChunk == 45
WordOverhead == 12

\* The name of a field the message writes itself.
Field(canon, prefix) ==
    [canon |-> canon, form |-> 0, valid |-> TRUE, prefix |-> prefix]

\* Where a message may be: being built, sealed in a SentMessage, refused by its
\* validation or serialization, or gone to a transport.
VARIABLES
    msg,        \* the Message
    want,       \* custom headers by canonical name, as the caller sees them
    calls,      \* builder calls so far
    phase,      \* "build", "ready", "refused", "handed", "sent", "failed"
    wire        \* SentMessage.Bytes: header fields and lines of the body

messageVars == <<msg, want, calls, phase, wire>>

AddressHeaders == {"From", "Reply-To", "To", "Cc", "Bcc"}
NoWire == [fields |-> <<>>, body |-> <<>>]

\* NewMessage, addressed and with or without bodies.
InitMessage ==
    /\ \E t, w \in Text \cup {<<>>} :
       msg = [addr |-> [h \in AddressHeaders |->
                          IF h \in {"From", "To"} THEN <<Author>> ELSE <<>>],
              subject |-> [runs |-> <<>>, kind |-> "plain"],
              headers |-> <<>>, text |-> t, html |-> w,
              attachments |-> <<>>]
    /\ want = [n \in {} |-> 0] /\ calls = 0 /\ phase = "build" /\ wire = NoWire

------------------------------------------------------------------------------
(* The builder.                                                            *)

Build(m) ==
    /\ phase = "build" /\ calls < MaxCalls
    /\ msg' = m /\ calls' = calls + 1
    /\ UNCHANGED <<phase, wire>>

\* SetFrom, SetReplyTo, SetTo, SetCc, SetBcc
SetAddresses(h, list) ==
    Build([msg EXCEPT !.addr[h] = list]) /\ UNCHANGED want

SetSubject(s) == Build([msg EXCEPT !.subject = s]) /\ UNCHANGED want

SetText(body) == Build([msg EXCEPT !.text = body]) /\ UNCHANGED want

SetHTML(body) == Build([msg EXCEPT !.html = body]) /\ UNCHANGED want

Attach(a) ==
    /\ Build([msg EXCEPT !.attachments =
                Append(@, [a EXCEPT !.cid = IF a.inline /\ a.cid = "none"
                                            THEN "auto" ELSE @])])
    /\ UNCHANGED want

\* Mutation: names are compared as they are spelled.
SameSpelling(n, o) == n = o

\* canonicalHeaderName(n) == canonicalHeaderName(o)
SameName(n, o) == n.canon = o.canon

\* SetHeader: an invalid name or value is ignored, a name that is there keeps
\* its place and spelling.
HeadersWith(hs, n, v) ==
    LET at == {k \in DOMAIN hs : SameName(hs[k].name, n)}
        first == CHOOSE k \in at : \A j \in at : k <= j
    IN  IF at = {} THEN Append(hs, [name |-> n, value |-> v])
        ELSE [hs EXCEPT ![first].value = v]

Accepted(n, v) == n.valid /\ v.kind # "crlf"

SetHeader(n, v) ==
    /\ Build([msg EXCEPT !.headers =
                IF Accepted(n, v) THEN HeadersWith(@, n, v) ELSE @])
    /\ want' = IF Accepted(n, v)
               THEN [c \in DOMAIN want \cup {n.canon} |->
                       IF c = n.canon THEN v ELSE want[c]]
               ELSE want

\* What is appended to out in a loop over s that passes over the other places.
Kept(s, places) ==
    FoldLeftDomain(LAMBDA out, k : IF k \in places THEN Append(out, s[k]) ELSE out,
                   <<>>, s)

HeadersWithout(hs, n) == Kept(hs, {k \in DOMAIN hs : ~SameName(hs[k].name, n)})

RemoveHeader(n) ==
    /\ Build([msg EXCEPT !.headers = HeadersWithout(@, n)])
    /\ want' = [c \in DOMAIN want \ {n.canon} |-> want[c]]

Builder ==
    \/ \E h \in AddressHeaders, list \in AddressLists : SetAddresses(h, list)
    \/ \E s \in Subject : SetSubject(s)
    \/ \E b \in Text : SetText(b) \/ SetHTML(b)
    \/ \E a \in Attachment : Attach(a)
    \/ \E n \in HeaderName : RemoveHeader(n) \/ \E v \in Value : SetHeader(n, v)

------------------------------------------------------------------------------
(* Header fields.                                                          *)

\* Octets of a run, and of a sequence of runs.
Size(r) == r.ws + r.len
Octets(runs) == FoldLeft(LAMBDA n, r : n + Size(r), 0, runs)

\* Mutation: long tokens are left as they are.
NeverOverlong(runs) == FALSE

\* hasOverlongHeaderToken: a long word, or nothing but long white space.
Overlong(runs) ==
    \/ \E k \in DOMAIN runs : runs[k].len > TokenLimit
    \/ Octets(runs) > TokenLimit /\ \A k \in DOMAIN runs : runs[k].len = 0

Chunks(octets) == (octets + RawChunk - 1) \div RawChunk

\* encodeASCIIEncodedWords.  Values that are not printable ASCII are cut by
\* mime.QEncoding, in other places but also into words within the limit.
EncodedWords(octets) ==
    [k \in 1 .. Chunks(octets) |->
       LET raw == IF k * RawChunk <= octets THEN RawChunk ELSE octets % RawChunk
       IN  [ws |-> IF k = 1 THEN 0 ELSE 1, raw |-> raw,
            len |-> WordOverhead + 4 * ((raw + 2) \div 3)]]

Plain(runs) == [k \in DOMAIN runs |->
                  [ws |-> runs[k].ws, raw |-> 0, len |-> runs[k].len]]

\* encodeHeaderWord
EncodeHeaderWord(v) ==
    IF v.kind = "plain" /\ ~Overlong(v.runs) THEN Plain(v.runs)
    ELSE EncodedWords(Octets(v.runs))

\* encodeAddressList: the comma belongs to the word before it.
EncodeAddressList(list) ==
    [k \in DOMAIN list |->
       [ws |-> IF k = 1 THEN 0 ELSE 1, raw |-> 0,
        len |-> AddressLength + IF k = Len(list) THEN 0 ELSE 1]]

WithinLimit(octets) == octets <= HardLimit

\* The lines after a fold: the new one begins with a space.
Folded(acc, run) == Append(acc.lines, <<[run EXCEPT !.ws = 1]>>)

\* One iteration of foldHeaderLine.  curLen is compared with the prefix of the
\* field on continuation lines, too.
FoldRun(prefix, acc, run) ==
    LET fold == /\ acc.lines # << <<>> >> /\ run.len > 0
                /\ acc.curLen + run.ws + run.len > SoftLimit
                /\ acc.curLen > prefix
        curLen == (IF fold THEN 1 ELSE acc.curLen + run.ws) + run.len
        last == Len(acc.lines)
    IN  IF ~acc.ok \/ ~WithinLimit(curLen) THEN [acc EXCEPT !.ok = FALSE]
        ELSE [ok |-> TRUE, curLen |-> curLen,
              lines |-> IF fold THEN Folded(acc, run)
                        ELSE [acc.lines EXCEPT ![last] = Append(@, run)]]

\* "Name: " has been written.
FoldStart(prefix) == [ok |-> TRUE, curLen |-> prefix, lines |-> << <<>> >>]

\* foldHeaderLine: the physical lines of a field, without "Name: ".
FoldHeaderLine(prefix, runs) ==
    FoldLeft(LAMBDA acc, run : FoldRun(prefix, acc, run),
             FoldStart(prefix), runs)

AddressField(m, h, prefix) ==
    IF m.addr[h] = <<>> THEN <<>>
    ELSE <<[name |-> Field(h, prefix), runs |-> EncodeAddressList(m.addr[h])]>>

IsStructural(name) == name.canon \in Structural

CustomHeaders(m) ==
    Kept(m.headers, {k \in DOMAIN m.headers : ~IsStructural(m.headers[k].name)})

\* The fields writeHeaders writes, in order; Date and Message-ID, which every
\* message has, are left out.  Bcc is not among them.
Fields(m) ==
    (IF m.subject.runs = <<>> THEN <<>>
     ELSE <<[name |-> Field("Subject", 9), runs |-> EncodeHeaderWord(m.subject)]>>)
    \o AddressField(m, "From", 6) \o AddressField(m, "Reply-To", 10)
    \o AddressField(m, "To", 4) \o AddressField(m, "Cc", 4)
    \o [k \in DOMAIN CustomHeaders(m) |->
          [name |-> CustomHeaders(m)[k].name,
           runs |-> EncodeHeaderWord(CustomHeaders(m)[k].value)]]

FoldedField(f) == FoldHeaderLine(f.name.prefix, f.runs)

\* writeHeaders
WriteHeaders(m) ==
    [k \in DOMAIN Fields(m) |->
       [name |-> Fields(m)[k].name, lines |-> FoldedField(Fields(m)[k]).lines]]

HeadersFit(m) == \A k \in DOMAIN Fields(m) : FoldedField(Fields(m)[k]).ok

------------------------------------------------------------------------------
(* The body: Content-Type lines, delimiters and lines of content.          *)

TypeLine(of) == [t |-> "type", of |-> of]
Open(b) == [t |-> "open", of |-> b]
CloseLine(b) == [t |-> "close", of |-> b]
DataLine == [t |-> "line", dots |-> 0, rest |-> TRUE]

\* Each part after the delimiter of its container; then the end of it.
Container(b, parts) ==
    <<TypeLine(b)>>
    \o FlattenSeq([k \in DOMAIN parts |-> <<Open(b)>> \o parts[k]])
    \o <<CloseLine(b)>>

\* writeTextPart: quoted-printable keeps lines and leading dots.
WriteTextPart(of, body) == <<TypeLine(of)>> \o body

\* writeAttachmentPart: base64, no line at all for an empty file.
WriteAttachmentPart(a) ==
    <<TypeLine(a.id)>> \o IF a.empty THEN <<>> ELSE <<DataLine>>

AttachmentParts(as) == [k \in DOMAIN as |-> WriteAttachmentPart(as[k])]

WriteAlternative(m) ==
    Container("alternative", <<WriteTextPart("text", m.text),
                               WriteTextPart("html", m.html)>>)

WriteContentBody(m) ==
    IF m.text # <<>> /\ m.html # <<>> THEN WriteAlternative(m)
    ELSE IF m.html # <<>> THEN WriteTextPart("html", m.html)
    ELSE WriteTextPart("text", m.text)

\* partitionAttachments
InlineAt(as) == {k \in DOMAIN as : as[k].inline}
Inline(m) == Kept(m.attachments, InlineAt(m.attachments))
Regular(m) == Kept(m.attachments, DOMAIN m.attachments \ InlineAt(m.attachments))

WriteRelated(m) ==
    Container("related", <<WriteContentBody(m)>> \o AttachmentParts(Inline(m)))

WriteMixed(m) ==
    LET body == IF Inline(m) # <<>> THEN WriteRelated(m) ELSE WriteContentBody(m)
    IN  IF Regular(m) = <<>> THEN body
        ELSE Container("mixed", <<body>> \o AttachmentParts(Regular(m)))

\* writeBody
WriteBody(m) ==
    IF m.attachments = <<>> THEN WriteContentBody(m) ELSE WriteMixed(m)

\* writeAttachmentPart fails: the content type does not parse, or the Content-ID
\* of an inline part does not.
Broken(a) == a.badType \/ (a.inline /\ a.cid = "bad")

\* EnsureValidity: a sender, a recipient, and no malformed address.
EnsureValidity(m) ==
    /\ m.addr["From"] # <<>> /\ \E h \in {"To", "Cc", "Bcc"} : m.addr[h] # <<>>
    /\ \A h \in AddressHeaders : Range(m.addr[h]) \cap Invalid = {}

\* Bytes: all of it or an error.
Serializable(m) ==
    HeadersFit(m) /\ \A k \in DOMAIN m.attachments : ~Broken(m.attachments[k])

Bytes(m) == [fields |-> WriteHeaders(m), body |-> WriteBody(m)]

\* NewSentMessage
Seal ==
    /\ phase = "build"
    /\ IF EnsureValidity(msg) /\ Serializable(msg)
       THEN phase' = "ready" /\ wire' = Bytes(msg)
       ELSE phase' = "refused" /\ UNCHANGED wire
    /\ UNCHANGED <<msg, want, calls>>

------------------------------------------------------------------------------
(* EXTERNAL: how a mail reader reads fields and parts.                     *)

Unfold(lines) == FlattenSeq(lines)

\* The octets encoded-words stand for.
RawOctets(runs) == FoldLeft(LAMBDA n, r : n + r.raw, 0, runs)

\* Two values have the same words, separated where the other is.
SameText(r, s) ==
    /\ DOMAIN r = DOMAIN s
    /\ \A k \in DOMAIN r : r[k].len = s[k].len /\ (r[k].ws = 0) = (s[k].ws = 0)

\* The value of a field is v: word by word, or as the text of encoded-words.
Reads(lines, v) ==
    LET runs == Unfold(lines)
    IN  IF \E k \in DOMAIN runs : runs[k].raw > 0
        THEN RawOctets(runs) = Octets(v.runs)
        ELSE SameText(runs, v.runs)

\* The containers up to and including b.
UpTo(open, b) == SubSeq(open, 1, SelectInSeq(open, LAMBDA c : c = b))

ReadLine(s, l) ==
    CASE l.t = "type" /\ s.at = "header" /\ l.of \in Containers ->
           [s EXCEPT !.open = Append(@, l.of), !.at = "between"]
      [] l.t = "type" /\ s.at = "header" /\ l.of \notin Containers ->
           [s EXCEPT !.at = "content",
              !.parts = Append(@, [of |-> l.of, in |-> s.open, body |-> <<>>])]
      [] l.t = "open" /\ l.of \in Range(s.open) ->
           [s EXCEPT !.open = UpTo(s.open, l.of), !.at = "header"]
      [] l.t = "close" /\ l.of \in Range(s.open) ->
           [s EXCEPT !.open = Front(UpTo(s.open, l.of)), !.at = "between"]
      [] l.t = "line" /\ s.at = "content" ->
           [s EXCEPT !.parts[Len(s.parts)].body = Append(@, l)]
      [] OTHER -> [s EXCEPT !.ok = FALSE]

ReadFrom(s, lines) == FoldLeft(ReadLine, s, lines)

ReadBody(lines) ==
    ReadFrom([ok |-> TRUE, at |-> "header", open |-> <<>>, parts |-> <<>>], lines)
==============================================================================
