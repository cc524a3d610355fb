----------------------------- MODULE LeavesProofs ------------------------------
(***************************************************************************)
(* Proofs about Leaves, for every set of addresses, bodies, headers,       *)
(* envelopes and sendmail commands, and any number of builder calls.       *)
(***************************************************************************)
EXTENDS Leaves, MimeMessageProofs

------------------------------------------------------------------------------
(* Who the message goes to.                                                *)

\* Where a message may be.
Phase == {"build", "ready", "refused", "handed", "sent", "failed"}

\* From the moment doSend hands the message over, the recipients are those of
\* the envelope, and -t is left on the command line only if there are none.
HandedInv ==
    /\ phase \in Phase
    /\ phase \in {"handed", "sent"} =>
          /\ via \in {"sendmail", "ses"} /\ to = envelope.to
          /\ via = "sendmail" => ("-t" \in args <=> envelope.to = <<>>)
    /\ RecipientsExact

\* -t stays exactly when the envelope has no recipients.
LEMMA FlagsKeepT ==
  ASSUME NEW command, Supported(command)
  PROVE  "-t" \in Flags(command) <=> envelope.to = <<>>
BY DEF Supported, Flags

\* What sendmail or SES has taken is for the recipients of the envelope, or, if
\* it has none, for those of the header.
THEOREM HandedInvariant == Spec => []HandedInv
<1>1. Init => HandedInv
  BY DEF Init, InitMessage, HandedInv, Phase, RecipientsExact
<1>2. HandedInv /\ [Next]_vars => HandedInv'
  <2> SUFFICES ASSUME HandedInv, [Next]_vars PROVE HandedInv'
    OBVIOUS
  <2>1. CASE Builder /\ UNCHANGED leafVars
    <3>1. phase = "build" /\ phase' = "build"
      BY <2>1 DEF Builder, Build, SetAddresses, SetSubject, SetText, SetHTML, Attach,
         SetHeader, RemoveHeader
    <3> QED BY <3>1 DEF HandedInv, Phase, RecipientsExact
  <2>2. CASE Prepare
    <3>1. phase' \in {"ready", "refused"}
      BY <2>2 DEF Prepare, Seal
    <3> QED BY <3>1 DEF HandedInv, Phase, RecipientsExact
  <2>3. CASE SendmailRun
    <3>1. PICK command \in Commands :
             /\ Supported(command) /\ args' = Flags(command)
             /\ \/ phase' = "handed" /\ via' = "sendmail" /\ to' = envelope.to
                \/ phase' = "failed"
      BY <2>3 DEF SendmailRun
    <3>2. envelope' = envelope
      BY <2>3 DEF SendmailRun
    <3> QED BY <3>1, <3>2, FlagsKeepT DEF HandedInv, Phase, RecipientsExact
  <2>4. CASE SesSend
    <3>1. /\ \/ phase' = "handed" /\ via' = "ses" /\ to' = envelope.to
             \/ phase' = "failed"
          /\ envelope' = envelope
      BY <2>4 DEF SesSend
    <3> QED BY <3>1 DEF HandedInv, Phase, RecipientsExact
  <2>5. CASE DoSendSucceeds
    <3>1. /\ phase = "handed" /\ phase' = "sent" /\ mail' = Taken
          /\ UNCHANGED <<msg, via, envelope, args, to>>
      BY <2>5 DEF DoSendSucceeds
    <3>2. /\ via \in {"sendmail", "ses"} /\ to = envelope.to
          /\ via = "sendmail" => ("-t" \in args <=> envelope.to = <<>>)
      BY <3>1 DEF HandedInv
    <3>3. mail'.to = IF via = "ses" \/ envelope.to # <<>> THEN Range(envelope.to)
                     ELSE InHeader("To") \cup InHeader("Cc")
      <4>1. CASE via = "ses"
        BY <3>1, <3>2, <4>1 DEF Taken
      <4>2. CASE via = "sendmail" /\ envelope.to # <<>>
        <5>1. mail'.to = Range(envelope.to) \cup {}
          BY <3>1, <3>2, <4>2 DEF Taken, TakenBySendmail
        <5> QED BY <4>2, <5>1
      <4>3. CASE via = "sendmail" /\ envelope.to = <<>>
        <5>1. mail'.to = Range(<<>>) \cup (InHeader("To") \cup InHeader("Cc"))
          BY <3>1, <3>2, <4>3 DEF Taken, TakenBySendmail
        <5>2. Range(<<>>) = {}
          BY DEF Range
        <5> QED BY <4>3, <5>1, <5>2
      <4> QED BY <3>2, <4>1, <4>2, <4>3
    <3>4. RecipientsExact'
      BY <3>1, <3>3 DEF RecipientsExact, InHeader
    <3> QED BY <3>1, <3>2, <3>4 DEF HandedInv, Phase
  <2>6. CASE DoSendFails
    BY <2>6 DEF DoSendFails, HandedInv, Phase, RecipientsExact
  <2>7. CASE UNCHANGED vars
    BY <2>7 DEF vars, messageVars, leafVars, HandedInv, RecipientsExact, InHeader
  <2> QED BY <2>1, <2>2, <2>3, <2>4, <2>5, <2>6, <2>7 DEF Next
<1> QED BY <1>1, <1>2, PTL DEF Spec

\* A message goes to the recipients of its envelope and to nobody else, whatever
\* flags the sendmail command has; the header counts only if there are none.
THEOREM RecipientsAreExact == Spec => []RecipientsExact
<1>1. HandedInv => RecipientsExact
  BY DEF HandedInv
<1> QED BY <1>1, HandedInvariant, PTL

------------------------------------------------------------------------------
(* The lines of a message.                                                 *)

\* Lines of the header and of the body, and a field on the wire.
FieldLine == [t : {"field"}, of : Nat, runs : Seq(Word)]
PartName == Containers \cup {"text", "html"} \cup {a.id : a \in Attachment}
OtherLine == [t : {"type", "open", "close"}, of : PartName] \cup BodyLine
WireField == [name : FieldName, lines : Seq(Seq(Word))]

\* The header, field by field.
Block(f, k) == [j \in DOMAIN f.lines |-> [t |-> "field", of |-> k, runs |-> f.lines[j]]]
Blocks(fields) == [k \in DOMAIN fields |-> Block(fields[k], k)]

\* Every line of the header knows its field.
LEMMA BlocksType ==
  ASSUME NEW fields \in Seq(WireField)
  PROVE  /\ Blocks(fields) \in Seq(Seq(FieldLine)) /\ Len(Blocks(fields)) = Len(fields)
         /\ \A k \in 1 .. Len(fields) :
               /\ Blocks(fields)[k] = Block(fields[k], k)
               /\ Block(fields[k], k) \in Seq(FieldLine)
               /\ Len(Block(fields[k], k)) = Len(fields[k].lines)
               /\ \A j \in 1 .. Len(fields[k].lines) :
                     /\ Block(fields[k], k)[j].of = k
                     /\ Block(fields[k], k)[j].runs = fields[k].lines[j]
<1> DEFINE n == Len(fields)
<1>1. n \in Nat /\ DOMAIN fields = 1 .. n /\ \A k \in 1 .. n : fields[k] \in WireField
  OBVIOUS
<1>2. ASSUME NEW k \in 1 .. n
      PROVE  /\ Block(fields[k], k) \in Seq(FieldLine)
             /\ Len(Block(fields[k], k)) = Len(fields[k].lines)
             /\ \A j \in 1 .. Len(fields[k].lines) :
                   /\ Block(fields[k], k)[j].of = k
                   /\ Block(fields[k], k)[j].runs = fields[k].lines[j]
  <2> DEFINE l == fields[k].lines
             W(j) == [t |-> "field", of |-> k, runs |-> l[j]]
  <2>1. l \in Seq(Seq(Word)) /\ k \in Nat
    BY <1>1 DEF WireField
  <2>2. Block(fields[k], k) = [j \in DOMAIN l |-> W(j)]
    BY DEF Block
  <2> HIDE DEF l
  <2>3. Len(l) \in Nat /\ DOMAIN l = 1 .. Len(l)
        /\ \A j \in 1 .. Len(l) : l[j] \in Seq(Word)
    BY <2>1
  <2>4. \A j \in 1 .. Len(l) : W(j) \in FieldLine /\ W(j).of = k /\ W(j).runs = l[j]
    BY <2>1, <2>3 DEF FieldLine
  <2> HIDE DEF W
  <2>5. /\ Block(fields[k], k) \in Seq(FieldLine) /\ Len(Block(fields[k], k)) = Len(l)
        /\ \A j \in 1 .. Len(l) : Block(fields[k], k)[j] = W(j)
    BY <2>2, <2>3, <2>4
  <2> QED BY <2>4, <2>5 DEF l
<1>3. /\ Blocks(fields) \in Seq(Seq(FieldLine)) /\ Len(Blocks(fields)) = n
      /\ \A k \in 1 .. n : Blocks(fields)[k] = Block(fields[k], k)
  <2>1. Blocks(fields) = [k \in 1 .. n |-> Block(fields[k], k)]
    BY <1>1 DEF Blocks
  <2> HIDE DEF n
  <2> QED BY <1>1, <1>2, <2>1
<1> QED BY <1>2, <1>3

\* The lines of a field are found among the lines of the header.
LEMMA OwnLines ==
  ASSUME NEW fields \in Seq(WireField), NEW k \in 1 .. Len(fields)
  PROVE  /\ FlattenSeq(Blocks(fields)) \in Seq(FieldLine)
         /\ Those(FlattenSeq(Blocks(fields)), {x \in FieldLine : x.of = k}) =
               Block(fields[k], k)
<1> DEFINE n == Len(fields)
           E == {x \in FieldLine : x.of = k}
           B == Blocks(fields)
<1>1. /\ B \in Seq(Seq(FieldLine)) /\ Len(B) = n /\ n \in Nat
      /\ \A i \in 1 .. n : B[i] = Block(fields[i], i) /\ B[i] \in Seq(FieldLine)
  BY BlocksType
<1>2. PICK g \in [0 .. n -> Seq(FieldLine)] : FlatRun(g, B) /\ FlattenSeq(B) = g[n]
  BY <1>1, FlatSteps
<1>3. ASSUME NEW i \in 1 .. n PROVE Those(B[i], E) = IF i = k THEN B[k] ELSE <<>>
  <2>1. /\ Len(B[i]) \in Nat
        /\ \A j \in 1 .. Len(B[i]) : B[i][j] \in FieldLine /\ B[i][j].of = i
    <3>1. /\ B[i] = Block(fields[i], i) /\ B[i] \in Seq(FieldLine)
          /\ Len(B[i]) = Len(fields[i].lines)
          /\ \A j \in 1 .. Len(fields[i].lines) : Block(fields[i], i)[j].of = i
      BY BlocksType
    <3> HIDE DEF B
    <3> QED BY <3>1
  <2>2. CASE i = k
    <3>1. \A j \in 1 .. Len(B[i]) : B[i][j] \in E
      BY <2>1, <2>2
    <3> HIDE DEF B, E
    <3> QED BY <1>1, <2>2, <3>1, KeepAll
  <2>3. CASE i # k
    <3>1. \A j \in 1 .. Len(B[i]) : B[i][j] \notin E
      BY <2>1, <2>3
    <3> HIDE DEF B, E
    <3> QED BY <1>1, <2>3, <3>1, KeepNone
  <2> QED BY <2>2, <2>3
<1> HIDE DEF B, E, n
<1> DEFINE T == {i \in 0 .. n : Those(g[i], E) = IF i < k THEN <<>> ELSE B[k]}
<1>4. k \in 1 .. n /\ k \in Nat
  BY <1>1 DEF n
<1>5. 0 \in T
  <2>1. g[0] = <<>> /\ 0 \in 0 .. n /\ 0 < k
    BY <1>1, <1>2, <1>4 DEF FlatRun
  <2>2. Those(<<>>, E) = <<>>
    <3>1. <<>> \in Seq(FieldLine) /\ \A i \in 1 .. Len(<<>>) : <<>>[i] \notin E
      OBVIOUS
    <3> QED BY <3>1, KeepNone
  <2> QED BY <2>1, <2>2
<1>6. ASSUME NEW i \in 1 .. n, i - 1 \in T PROVE i \in T
  <2>1. g[i] = g[i - 1] \o B[i] /\ i - 1 \in 0 .. n /\ i \in 0 .. n
    <3>1. i \in 1 .. Len(B)
      BY <1>1
    <3>2. i - 1 \in 0 .. n /\ i \in 0 .. n
      BY <1>1
    <3> QED BY <1>2, <3>1, <3>2 DEF FlatRun
  <2>2. Those(g[i], E) = Those(g[i - 1], E) \o Those(B[i], E)
    <3>1. g[i - 1] \in Seq(FieldLine) /\ B[i] \in Seq(FieldLine)
      BY <1>1, <2>1
    <3>2. Those(g[i - 1] \o B[i], E) = Those(g[i - 1], E) \o Those(B[i], E)
      <4> DEFINE a == g[i - 1]
                 b == B[i]
      <4>1. a \in Seq(FieldLine) /\ b \in Seq(FieldLine)
        BY <3>1
      <4> HIDE DEF a, b
      <4>2. Those(a \o b, E) = Those(a, E) \o Those(b, E)
        BY <4>1, KeepConcat
      <4> QED BY <4>2 DEF a, b
    <3> QED BY <2>1, <3>2
  <2>3. B[k] \in Seq(FieldLine) /\ <<>> \o B[k] = B[k] /\ B[k] \o <<>> = B[k]
        /\ <<>> \o <<>> = <<>>
    BY <1>1, <1>4
  <2>4. Those(g[i - 1], E) = IF i - 1 < k THEN <<>> ELSE B[k]
    BY <1>6
  <2>5. CASE i < k
    <3>1. i - 1 < k /\ i # k
      BY <1>4, <2>5
    <3> QED BY <1>3, <2>1, <2>2, <2>3, <2>4, <2>5, <3>1
  <2>6. CASE i = k
    <3>1. i - 1 < k /\ ~(i < k)
      BY <1>4, <2>6
    <3> QED BY <1>3, <2>1, <2>2, <2>3, <2>4, <2>6, <3>1
  <2>7. CASE i > k
    <3>1. ~(i - 1 < k) /\ i # k /\ ~(i < k)
      BY <1>4, <2>7
    <3> QED BY <1>3, <2>1, <2>2, <2>3, <2>4, <2>7, <3>1
  <2> QED BY <1>4, <2>5, <2>6, <2>7
<1>7. \A i \in 0 .. n : i \in T
  <2> HIDE DEF T
  <2> QED BY <1>1, <1>5, <1>6, UpTo_n
<1>8. n \in T /\ ~(n < k) /\ n \in 0 .. n
  BY <1>1, <1>4, <1>7
<1>9. FlattenSeq(B) \in Seq(FieldLine) /\ Those(FlattenSeq(B), E) = B[k]
  BY <1>2, <1>8
<1> QED BY <1>1, <1>4, <1>9 DEF B, E

\* The header is a sequence of such lines.
LEMMA HeaderType ==
  ASSUME NEW fields \in Seq(WireField)
  PROVE  FlattenSeq(Blocks(fields)) \in Seq(FieldLine)
<1>1. Blocks(fields) \in Seq(Seq(FieldLine))
  BY BlocksType
<1>2. <<>> \in Seq(FieldLine)
  OBVIOUS
<1> QED BY <1>1, <1>2, FlatAppend

\* What a reader of the lines finds: the lines of each field and of the body.
LEMMA LinesRead ==
  ASSUME NEW fields \in Seq(WireField), NEW body \in Seq(OtherLine), NEW lines,
         lines = FlattenSeq(Blocks(fields)) \o body
  PROVE  /\ lines \in Seq(FieldLine \cup OtherLine)
         /\ BodyLines(lines) = body
         /\ \A k \in 1 .. Len(fields) : FieldLines(lines, k) = fields[k].lines
<1> DEFINE h == FlattenSeq(Blocks(fields))
           X == FieldLine \cup OtherLine
<1>1. h \in Seq(FieldLine) /\ lines = h \o body
  BY HeaderType
<1>2. \A x \in FieldLine : x.t = "field" /\ x \in X
  BY DEF FieldLine
<1>3. \A x \in OtherLine : x.t # "field" /\ x \in X
  BY DEF OtherLine, BodyLine
<1> HIDE DEF h, X
<1>4. h \in Seq(X) /\ body \in Seq(X)
  <2>1. FieldLine \subseteq X /\ OtherLine \subseteq X
    BY DEF X
  <2> QED BY <1>1, <2>1, SeqMonotonic
<1>5. lines \in Seq(X) /\ \A i \in DOMAIN lines : lines[i] \in X
  BY <1>1, <1>4
<1>6. BodyLines(lines) = body
  <2>1. \A x \in X : x.t # "field" <=> x \in OtherLine
    BY <1>2, <1>3 DEF X
  <2>2. {i \in DOMAIN lines : lines[i].t # "field"}
           = {i \in DOMAIN lines : lines[i] \in OtherLine}
    BY <1>5, <2>1
  <2>3. BodyLines(lines) = Those(lines, OtherLine)
    BY <2>2 DEF BodyLines, Those
  <2>4. Those(lines, OtherLine) = Those(h, OtherLine) \o Those(body, OtherLine)
    BY <1>1, <1>4, KeepConcat
  <2>5. Those(h, OtherLine) = <<>>
    <3>1. \A i \in 1 .. Len(h) : h[i] \notin OtherLine
      BY <1>1, <1>2, <1>3
    <3> QED BY <1>1, <3>1, KeepNone
  <2>6. Those(body, OtherLine) = body
    <3>1. \A i \in 1 .. Len(body) : body[i] \in OtherLine
      OBVIOUS
    <3> QED BY <3>1, KeepAll
  <2> QED BY <2>3, <2>4, <2>5, <2>6
<1>7. ASSUME NEW k \in 1 .. Len(fields) PROVE FieldLines(lines, k) = fields[k].lines
  <2> DEFINE E == {x \in FieldLine : x.of = k}
             own == Those(lines, E)
  <2>1. \A x \in X : x.t = "field" /\ x.of = k <=> x \in E
    BY <1>2, <1>3 DEF X
  <2>2. {i \in DOMAIN lines : lines[i].t = "field" /\ lines[i].of = k}
           = {i \in DOMAIN lines : lines[i] \in E}
    <3> HIDE DEF E
    <3> QED BY <1>5, <2>1
  <2>3. FieldLines(lines, k) = [j \in DOMAIN own |-> own[j].runs]
    BY <2>2 DEF FieldLines, Those
  <2>4. own = Those(h, E) \o Those(body, E)
    <3> HIDE DEF E
    <3> QED BY <1>1, <1>4, KeepConcat
  <2>5. Those(body, E) = <<>>
    <3>1. \A i \in 1 .. Len(body) : body[i] \notin E
      <4>1. \A i \in 1 .. Len(body) : body[i] \in OtherLine
        OBVIOUS
      <4> QED BY <1>2, <1>3, <4>1
    <3> HIDE DEF E
    <3> QED BY <3>1, KeepNone
  <2>6. Those(h, E) = Block(fields[k], k)
    BY OwnLines DEF h
  <2>7. /\ Block(fields[k], k) \in Seq(FieldLine)
        /\ Len(Block(fields[k], k)) = Len(fields[k].lines)
        /\ \A j \in 1 .. Len(fields[k].lines) :
              Block(fields[k], k)[j].runs = fields[k].lines[j]
    BY BlocksType
  <2>8. own = Block(fields[k], k)
    <3> HIDE DEF own, E
    <3> QED BY <2>4, <2>5, <2>6, <2>7
  <2>9. fields[k].lines \in Seq(Seq(Word))
    <3>1. fields[k] \in WireField
      OBVIOUS
    <3> QED BY <3>1 DEF WireField
  <2> HIDE DEF own
  <2>10. /\ DOMAIN own = 1 .. Len(fields[k].lines)
         /\ fields[k].lines = [j \in 1 .. Len(fields[k].lines) |-> fields[k].lines[j]]
    BY <2>7, <2>8, <2>9
  <2>11. FieldLines(lines, k) = [j \in 1 .. Len(fields[k].lines) |-> fields[k].lines[j]]
    BY <2>3, <2>7, <2>8, <2>10
  <2> QED BY <2>10, <2>11
<1> QED BY <1>5, <1>6, <1>7 DEF X

\* What writeHeaders writes of a field, if it does not fail.
LEMMA FieldIsWritten ==
  ASSUME NEW f \in FieldToWrite
  PROVE  /\ f.name \in FieldName /\ FoldedField(f).lines \in Seq(Seq(Word))
         /\ FoldedField(f).ok =>
               /\ SameWords(FlattenSeq(FoldedField(f).lines), f.runs, Len(f.runs))
               /\ \/ FoldedField(f).lines = << <<>> >>
                  \/ \A j \in 1 .. Len(FoldedField(f).lines) :
                        LineOctets(f.name.prefix, FoldedField(f).lines, j) <= HardLimit
         /\ AddressLength < TokenLimit /\ ~FoldedField(f).ok => NoRoom(f)
<1> DEFINE prefix == f.name.prefix
           r == f.runs
           acc == FoldHeaderLine(prefix, r)
<1>1. /\ f.name \in FieldName /\ r \in Seq(Word) /\ Written(r)
      /\ (AddressLength < TokenLimit => Short(r))
  BY DEF FieldToWrite
<1>2. prefix \in Nat /\ prefix > 1
  BY <1>1 DEF FieldName
<1>3. FoldedField(f) = acc
  BY DEF FoldedField
<1>4. LineInv(prefix, r, Len(r), acc)
  BY <1>1, <1>2, FoldedLines
<1>5. Len(r) \in Nat /\ DOMAIN r = 1 .. Len(r) /\ \A k \in 1 .. Len(r) : r[k].ws \in Nat
  <2>1. \A k \in 1 .. Len(r) : r[k] \in Word
    BY <1>1
  <2> QED BY <1>1, <2>1 DEF Word
<1>6. /\ acc.lines \in Seq(Seq(Word))
      /\ acc.ok => /\ SameWords(FlattenSeq(acc.lines), r, Len(r))
                   /\ Len(r) = 0 => acc.lines = << <<>> >>
                   /\ Len(r) > 0 => \A j \in 1 .. Len(acc.lines) :
                                       LineOctets(prefix, acc.lines, j) <= HardLimit
  BY <1>4 DEF LineInv, FoldState
<1>7. ASSUME AddressLength < TokenLimit, ~acc.ok, ~NoRoom(f) PROVE FALSE
  <2>1. Room(prefix, r)
    <3> SUFFICES ASSUME NEW i \in 1 .. Len(r), NEW j \in 1 .. Len(r)
                 PROVE  prefix + r[i].ws + (IF i = j THEN 0 ELSE r[j].ws) + TokenLimit
                           <= HardLimit
      BY DEF Room
    <3>1. ~(prefix + r[i].ws + (IF i = j THEN 0 ELSE r[j].ws) + TokenLimit > HardLimit)
      BY <1>5, <1>7 DEF NoRoom
    <3> HIDE DEF prefix, r
    <3> QED BY <1>2, <1>5, <3>1 DEF TokenLimit, HardLimit
  <2> QED BY <1>1, <1>2, <1>7, <2>1, FieldFits
<1> HIDE DEF r, acc
<1>8. Len(r) = 0 \/ Len(r) > 0
  BY <1>5
<1> QED BY <1>1, <1>3, <1>6, <1>7, <1>8 DEF r

\* The fields of the header, as they are on the wire.
LEMMA WireFields ==
  ASSUME NEW m \in MessageType, NEW w, HeadersInv(m.headers, w)
  PROVE  /\ WriteHeaders(m) \in Seq(WireField) /\ Len(WriteHeaders(m)) = Len(Fields(m))
         /\ DOMAIN WriteHeaders(m) = 1 .. Len(Fields(m))
         /\ DOMAIN Fields(m) = 1 .. Len(Fields(m))
         /\ \A k \in 1 .. Len(Fields(m)) :
               /\ Fields(m)[k] \in FieldToWrite
               /\ WriteHeaders(m)[k].name = Fields(m)[k].name
               /\ WriteHeaders(m)[k].lines = FoldedField(Fields(m)[k]).lines
<1> DEFINE F == Fields(m)
           n == Len(F)
           W(k) == [name |-> F[k].name, lines |-> FoldedField(F[k]).lines]
<1>1. F \in Seq(FieldToWrite)
  BY FieldsAre
<1>2. WriteHeaders(m) = [k \in DOMAIN F |-> W(k)]
  BY DEF WriteHeaders
<1> HIDE DEF F
<1>3. n \in Nat /\ DOMAIN F = 1 .. n /\ \A k \in 1 .. n : F[k] \in FieldToWrite
  BY <1>1
<1>4. \A k \in 1 .. n : /\ W(k) \in WireField /\ W(k).name = F[k].name
                        /\ W(k).lines = FoldedField(F[k]).lines
  <2>1. \A k \in 1 .. n : F[k].name \in FieldName
                             /\ FoldedField(F[k]).lines \in Seq(Seq(Word))
    BY <1>3, FieldIsWritten
  <2> QED BY <2>1 DEF WireField
<1> HIDE DEF W, n
<1>5. /\ WriteHeaders(m) \in Seq(WireField) /\ Len(WriteHeaders(m)) = n
      /\ DOMAIN WriteHeaders(m) = 1 .. n
      /\ \A k \in 1 .. n : WriteHeaders(m)[k] = W(k)
  BY <1>2, <1>3, <1>4
<1> QED BY <1>3, <1>4, <1>5 DEF F, n

\* A field that is written once is the field a reader finds.
LEMMA FieldFound ==
  ASSUME NEW m \in MessageType, NEW w, HeadersInv(m.headers, w), HeadersFit(m),
         wire.fields = WriteHeaders(m), NEW lines,
         \A k \in 1 .. Len(wire.fields) : FieldLines(lines, k) = wire.fields[k].lines,
         NEW c, NEW x \in FieldToWrite, Once(Fields(m), c, x)
  PROVE  \E k \in FieldsNamed(c) :
            /\ FieldsNamed(c) = {k}
            /\ SameWords(FlattenSeq(FieldLines(lines, k)), x.runs, Len(x.runs))
<1> DEFINE F == Fields(m)
           n == Len(F)
<1>1. /\ Len(wire.fields) = n /\ DOMAIN wire.fields = 1 .. n /\ DOMAIN F = 1 .. n
      /\ \A k \in 1 .. n : /\ wire.fields[k].name = F[k].name
                           /\ wire.fields[k].lines = FoldedField(F[k]).lines
  BY WireFields
<1>2. \A k \in 1 .. n : FoldedField(F[k]).ok
  BY <1>1 DEF HeadersFit
<1> HIDE DEF F, n
<1>3. PICK k \in 1 .. n : F[k] = x /\ \A j \in 1 .. n : F[j].name.canon = c <=> j = k
  BY DEF Once, F, n
<1>4. FieldsNamed(c) = {k}
  <2>1. FieldsNamed(c) = {j \in 1 .. n : wire.fields[j].name.canon = c}
    BY <1>1 DEF FieldsNamed
  <2> QED BY <1>1, <1>3, <2>1
<1>5. FieldLines(lines, k) = FoldedField(x).lines
  BY <1>1, <1>3
<1>6. FoldedField(x).ok
  BY <1>2, <1>3
<1>7. SameWords(FlattenSeq(FoldedField(x).lines), x.runs, Len(x.runs))
  BY <1>6, FieldIsWritten
<1> QED BY <1>4, <1>5, <1>7

\* What a reader finds in the header.
LEMMA HeaderRead ==
  ASSUME NEW m \in MessageType, NEW w, HeadersInv(m.headers, w), HeadersFit(m),
         wire.fields = WriteHeaders(m), NEW lines,
         \A k \in 1 .. Len(wire.fields) : FieldLines(lines, k) = wire.fields[k].lines
  PROVE  /\ \A c \in DOMAIN w \ Structural : HasField(lines, c, w[c])
         /\ \A k \in DOMAIN wire.fields :
               wire.fields[k].name.canon \in
                  DOMAIN w \cup {"Subject", "From", "Reply-To", "To", "Cc"}
         /\ m.subject.runs # <<>> => HasField(lines, "Subject", m.subject)
         /\ \A h \in AddressHeaders \ {"Bcc"} : m.addr[h] # <<>> =>
               HasField(lines, h, [runs |-> EncodeAddressList(m.addr[h])])
         /\ FieldsNamed("Bcc") = {} /\ FieldsNamed("Content-Type") = {}
<1>1. /\ m.subject \in HeaderValue /\ \A h \in AddressHeaders : m.addr[h] \in Seq(Address)
      /\ \A c \in DOMAIN w : w[c] \in HeaderValue
  BY CustomFieldsAre DEF MessageType
<1>2. ASSUME NEW c, NEW x \in FieldToWrite, Once(Fields(m), c, x)
      PROVE  \E k \in FieldsNamed(c) :
                /\ FieldsNamed(c) = {k}
                /\ SameWords(FlattenSeq(FieldLines(lines, k)), x.runs, Len(x.runs))
  BY <1>2, FieldFound
<1>3. ASSUME NEW c, NEW x \in FieldToWrite, Once(Fields(m), c, x),
             NEW v \in HeaderValue, x.runs = EncodeHeaderWord(v)
      PROVE  HasField(lines, c, v)
  <2>1. PICK k \in FieldsNamed(c) :
                /\ FieldsNamed(c) = {k}
                /\ SameWords(FlattenSeq(FieldLines(lines, k)), x.runs, Len(x.runs))
    BY <1>2, <1>3
  <2>2. Reads(FieldLines(lines, k), v)
    BY <1>3, <2>1, ValueReads
  <2> QED BY <2>1, <2>2 DEF HasField
<1>4. ASSUME NEW h \in AddressHeaders \ {"Bcc"}, m.addr[h] # <<>>
      PROVE  HasField(lines, h, [runs |-> EncodeAddressList(m.addr[h])])
  <2>1. PICK x \in FieldToWrite :
           x.runs = EncodeAddressList(m.addr[h]) /\ Once(Fields(m), h, x)
    BY <1>4, FieldsAre
  <2>2. PICK k \in FieldsNamed(h) :
                /\ FieldsNamed(h) = {k}
                /\ SameWords(FlattenSeq(FieldLines(lines, k)), x.runs, Len(x.runs))
    BY <1>2, <2>1
  <2>3. Reads(FieldLines(lines, k), [runs |-> EncodeAddressList(m.addr[h])])
    BY <1>1, <2>1, <2>2, AddressesRead
  <2> QED BY <2>2, <2>3 DEF HasField
<1>5. ASSUME NEW c \in DOMAIN w \ Structural PROVE HasField(lines, c, w[c])
  <2>1. PICK x \in FieldToWrite :
           x.runs = EncodeHeaderWord(w[c]) /\ Once(Fields(m), c, x)
    BY FieldsAre
  <2> QED BY <1>1, <1>3, <2>1
<1>6. ASSUME m.subject.runs # <<>> PROVE HasField(lines, "Subject", m.subject)
  <2>1. Once(Fields(m), "Subject", SubjectField(m)) /\ SubjectField(m) \in FieldToWrite
    BY <1>6, FieldsAre, SubjectFieldIs
  <2>2. SubjectField(m).runs = EncodeHeaderWord(m.subject)
    BY DEF SubjectField
  <2> QED BY <1>1, <1>3, <2>1, <2>2
<1>7. ASSUME NEW c, Never(Fields(m), c)
      PROVE  \A k \in DOMAIN wire.fields : wire.fields[k].name.canon # c
  BY <1>7, WireFields DEF Never
<1>8. FieldsNamed("Bcc") = {} /\ FieldsNamed("Content-Type") = {}
  BY <1>7, FieldsAre DEF FieldsNamed
<1>9. ASSUME NEW k \in DOMAIN wire.fields
      PROVE  wire.fields[k].name.canon \in
                DOMAIN w \cup {"Subject", "From", "Reply-To", "To", "Cc"}
  BY <1>7, FieldsAre
<1> QED BY <1>4, <1>5, <1>6, <1>8, <1>9

------------------------------------------------------------------------------
(* The body.                                                               *)

\* A reader in the middle of a body.
Reader(at, open, parts) == [ok |-> TRUE, at |-> at, open |-> open, parts |-> parts]
PartType == [of : PartName, in : Seq(Containers), body : Seq(BodyLine)]

\* The container that was opened last is found where it is.
LEMMA InnermostIsLast ==
  ASSUME NEW o \in Seq(Containers), NEW b \in Containers, b \notin Range(o)
  PROVE  /\ Append(o, b) \in Seq(Containers) /\ b \in Range(Append(o, b))
         /\ UpTo(Append(o, b), b) = Append(o, b) /\ Front(Append(o, b)) = o
<1> DEFINE n == Len(o)
           a == Append(o, b)
           I == {i \in 1 .. Len(a) : a[i] = b}
<1>1. n \in Nat /\ DOMAIN o = 1 .. n /\ \A j \in 1 .. n : o[j] # b
  BY DEF Range
<1>2. /\ a \in Seq(Containers) /\ Len(a) = n + 1
      /\ \A j \in 1 .. n + 1 : a[j] = IF j = n + 1 THEN b ELSE o[j]
  BY AppendOf
<1> HIDE DEF n, a
<1>3. n + 1 \in 1 .. n + 1 /\ \A j \in 1 .. n + 1 : j # n + 1 => j \in 1 .. n
  BY <1>1
<1>4. I = {n + 1}
  BY <1>1, <1>2, <1>3
<1>5. SelectInSeq(a, LAMBDA c : c = b) = n + 1
  <2>1. SelectInSeq(a, LAMBDA c : c = b) = IF I # {} THEN Min(I) ELSE 0
    BY DEF SelectInSeq
  <2>2. Min({n + 1}) = n + 1
    <3>1. n + 1 \in Nat
      BY <1>1
    <3> QED BY <3>1 DEF Min
  <2> HIDE DEF I
  <2> QED BY <1>4, <2>1, <2>2
<1>6. UpTo(a, b) = SubSeq(a, 1, n + 1)
  BY <1>5 DEF UpTo
<1>7. SubSeq(a, 1, Len(a)) = a
  BY <1>2
<1>8. b \in Range(a)
  <2>1. n + 1 \in DOMAIN a /\ a[n + 1] = b
    BY <1>2, <1>3
  <2> QED BY <2>1 DEF Range
<1>9. Front(a) = o
  <2>1. Front(a) = SubSeq(a, 1, Len(a) - 1)
    BY DEF Front
  <2>2. SubSeq(Append(o, b), 1, Len(Append(o, b)) - 1) = o
    OBVIOUS
  <2> QED BY <2>1, <2>2 DEF a
<1> QED BY <1>2, <1>6, <1>7, <1>8, <1>9 DEF a

\* How a line is read.
LEMMA ReadContainerType ==
  ASSUME NEW b \in Containers, NEW o, NEW p
  PROVE  ReadLine(Reader("header", o, p), TypeLine(b)) = Reader("between", Append(o, b), p)
BY DEF ReadLine, Reader, TypeLine

\* A Content-Type begins a part.
LEMMA ReadPartType ==
  ASSUME NEW of, of \notin Containers, NEW o, NEW p
  PROVE  ReadLine(Reader("header", o, p), TypeLine(of)) =
            Reader("content", o, Append(p, Part(of, o, <<>>)))
BY DEF ReadLine, Reader, TypeLine, Part

\* A delimiter closes what is open inside its container.
LEMMA ReadOpen ==
  ASSUME NEW at \in {"between", "content"}, NEW o, NEW b \in Range(o), NEW p
  PROVE  ReadLine(Reader(at, o, p), Open(b)) = Reader("header", UpTo(o, b), p)
BY DEF ReadLine, Reader, Open

\* The last delimiter closes the container.
LEMMA ReadClose ==
  ASSUME NEW at \in {"between", "content"}, NEW o, NEW b \in Range(o), NEW p
  PROVE  ReadLine(Reader(at, o, p), CloseLine(b)) = Reader("between", Front(UpTo(o, b)), p)
BY DEF ReadLine, Reader, CloseLine

\* A line belongs to the part that was begun last.
LEMMA ReadBodyLine ==
  ASSUME NEW l \in BodyLine, NEW o, NEW X, NEW p \in Seq(X), NEW of, NEW in,
         NEW body, Part(of, in, body) \in X
  PROVE  ReadLine(Reader("content", o, Append(p, Part(of, in, body))), l) =
            Reader("content", o, Append(p, Part(of, in, Append(body, l))))
<1> DEFINE q == Append(p, Part(of, in, body))
           s == Reader("content", o, q)
<1>1. l.t = "line"
  BY DEF BodyLine
<1>2. ReadLine(s, l) = [s EXCEPT !.parts[Len(s.parts)].body = Append(@, l)]
  BY <1>1 DEF ReadLine, Reader
<1>3. Len(q) = Len(p) + 1 /\ q[Len(p) + 1] = Part(of, in, body)
  OBVIOUS
<1>4. ReadLine(s, l) = Reader("content", o, [q EXCEPT ![Len(q)].body = Append(@, l)])
  BY <1>2 DEF Reader
<1> DEFINE y == Part(of, in, Append(body, l))
           Y == X \cup {y}
<1>5. [Part(of, in, body) EXCEPT !.body = Append(@, l)] = y
  <2>1. \A z : [Part(of, in, body) EXCEPT !.body = z] = Part(of, in, z)
    BY DEF Part
  <2>2. Part(of, in, body).body = body
    BY DEF Part
  <2> QED BY <2>1, <2>2
<1>6. [q EXCEPT ![Len(q)].body = Append(@, l)] = SetLast(q, y)
  <2> HIDE DEF q, y
  <2> QED BY <1>3, <1>5 DEF SetLast
<1>7. q \in Seq(X) /\ q # <<>> /\ Front(q) = p
  <2>1. SubSeq(q, 1, Len(q) - 1) = p
    OBVIOUS
  <2> QED BY <2>1 DEF Front
<1>8. q \in Seq(Y) /\ y \in Y
  <2>1. X \subseteq Y
    OBVIOUS
  <2> HIDE DEF Y
  <2>2. q \in Seq(Y)
    BY <1>7, <2>1, SeqMonotonic
  <2> QED BY <2>2 DEF Y
<1>9. SetLast(q, y) = Append(Front(q), y)
  <2> HIDE DEF q, y, Y
  <2> QED BY <1>7, <1>8, SplitLast
<1> QED BY <1>4, <1>6, <1>7, <1>9

\* Reading some lines, and then some more.
LEMMA ReadConcat ==
  ASSUME NEW X, NEW a \in Seq(X), NEW b \in Seq(X), NEW s
  PROVE  ReadFrom(s, a \o b) = ReadFrom(ReadFrom(s, a), b)
<1> DEFINE n == Len(a)
           m == Len(b)
           c == a \o b
<1>1. n \in Nat /\ DOMAIN a = 1 .. n /\ m \in Nat /\ DOMAIN b = 1 .. m /\ n + m \in Nat
  OBVIOUS
<1>2. /\ DOMAIN c = 1 .. n + m
      /\ \A k \in 1 .. n + m : c[k] = IF k <= n THEN a[k] ELSE b[k - n]
  OBVIOUS
<1>3. PICK g : DOMAIN g = 0 .. n /\ ReadRun(g, s, a, n) /\ ReadFrom(s, a) = g[n]
  BY <1>1, ReadSteps
<1>4. PICK h : DOMAIN h = 0 .. m /\ ReadRun(h, g[n], b, m) /\ ReadFrom(g[n], b) = h[m]
  BY <1>1, ReadSteps
<1> HIDE DEF c, n, m
<1> DEFINE f == [k \in 0 .. n + m |-> IF k <= n THEN g[k] ELSE h[k - n]]
<1>5. h[0] = g[n] /\ g[0] = s
  BY <1>3, <1>4 DEF ReadRun
<1>6. /\ 0 \in 0 .. n + m /\ 0 <= n /\ n + m \in 0 .. n + m
      /\ (n + m <= n <=> m = 0) /\ (n + m) - n = m /\ (m = 0 => n + m = n)
      /\ \A k \in 1 .. n + m : /\ k \in 0 .. n + m /\ k - 1 \in 0 .. n + m
                               /\ k <= n => k - 1 <= n /\ k \in 1 .. n
                               /\ ~(k <= n) => /\ k - n \in 1 .. m
                                               /\ (k - 1) - n = (k - n) - 1
                               /\ ~(k <= n) /\ k - 1 <= n => k - 1 = n /\ (k - n) - 1 = 0
  BY <1>1
<1>7. f[0] = s /\ f[n + m] = h[m]
  BY <1>5, <1>6
<1>8. ASSUME NEW k \in 1 .. n + m PROVE f[k] = ReadLine(f[k - 1], c[k])
  <2>1. CASE k <= n
    <3>1. f[k] = g[k] /\ f[k - 1] = g[k - 1] /\ c[k] = a[k] /\ k \in 1 .. n
      BY <1>2, <1>6, <2>1
    <3> HIDE DEF f
    <3> QED BY <1>3, <3>1 DEF ReadRun
  <2>2. CASE ~(k <= n)
    <3>1. f[k] = h[k - n] /\ c[k] = b[k - n] /\ k - n \in 1 .. m
      BY <1>2, <1>6, <2>2
    <3>2. f[k - 1] = h[(k - n) - 1]
      BY <1>5, <1>6, <2>2
    <3>3. h[k - n] = ReadLine(h[(k - n) - 1], b[k - n])
      BY <1>4, <3>1 DEF ReadRun
    <3> HIDE DEF f
    <3> QED BY <3>1, <3>2, <3>3
  <2> QED BY <2>1, <2>2
<1> HIDE DEF f
<1>9. ReadRun(f, s, c, n + m)
  BY <1>7, <1>8 DEF ReadRun
<1>10. ReadFrom(s, c) = f[n + m]
  BY <1>1, <1>2, <1>9, ReadSteps
<1> QED BY <1>3, <1>4, <1>7, <1>10 DEF c

\* Reading one line, and none.
LEMMA ReadOne ==
  ASSUME NEW s, NEW l
  PROVE  ReadFrom(s, <<l>>) = ReadLine(s, l)
<1> DEFINE g == [k \in 0 .. 1 |-> IF k = 0 THEN s ELSE ReadLine(s, l)]
           lines == <<l>>
<1>1. g[0] = s /\ g[1] = ReadLine(s, l) /\ lines[1] = l /\ DOMAIN lines = 1 .. 1
  OBVIOUS
<1> HIDE DEF g, lines
<1>2. ASSUME NEW k \in 1 .. 1 PROVE g[k] = ReadLine(g[k - 1], lines[k])
  <2>1. k = 1 /\ k - 1 = 0
    OBVIOUS
  <2> QED BY <1>1, <2>1
<1>3. ReadRun(g, s, lines, 1)
  BY <1>1, <1>2 DEF ReadRun
<1>4. ReadFrom(s, lines) = g[1]
  <2> DEFINE n == 1
  <2>1. n \in Nat /\ DOMAIN lines = 1 .. n /\ ReadRun(g, s, lines, n)
    BY <1>1, <1>3
  <2> HIDE DEF n
  <2>2. ReadFrom(s, lines) = g[n]
    BY <2>1, ReadSteps
  <2> QED BY <2>2 DEF n
<1> QED BY <1>1, <1>4 DEF lines

\* Reading nothing changes nothing.
LEMMA ReadNone == \A s : ReadFrom(s, <<>>) = s
<1> SUFFICES ASSUME NEW s PROVE ReadFrom(s, <<>>) = s
  OBVIOUS
<1> DEFINE g == [k \in 0 .. 0 |-> s]
<1>1. g[0] = s /\ DOMAIN <<>> = 1 .. 0
  OBVIOUS
<1> HIDE DEF g
<1>2. ReadRun(g, s, <<>>, 0)
  BY <1>1 DEF ReadRun
<1> QED BY <1>1, <1>2, ReadSteps

\* A part is read whole, in the containers that are open.
LEMMA ReadTextPart ==
  ASSUME NEW of \in PartName \ Containers, NEW body \in Seq(BodyLine),
         NEW o \in Seq(Containers), NEW p \in Seq(PartType)
  PROVE  /\ ReadFrom(Reader("header", o, p), <<TypeLine(of)>> \o body) =
               Reader("content", o, Append(p, Part(of, o, body)))
         /\ <<TypeLine(of)>> \o body \in Seq(OtherLine)
         /\ Part(of, o, body) \in PartType
<1> DEFINE n == Len(body)
           s == Reader("header", o, p)
           t == Reader("content", o, Append(p, Part(of, o, <<>>)))
           g == [k \in 0 .. n |->
                   Reader("content", o, Append(p, Part(of, o, SubSeq(body, 1, k))))]
           a == <<TypeLine(of)>>
<1>1. n \in Nat /\ DOMAIN body = 1 .. n /\ \A k \in 1 .. n : body[k] \in BodyLine
  OBVIOUS
<1>2. ReadFrom(s, a) = t
  BY ReadOne, ReadPartType
<1>3. g[0] = t /\ g[n] = Reader("content", o, Append(p, Part(of, o, body)))
  <2>1. SubSeq(body, 1, 0) = <<>> /\ SubSeq(body, 1, n) = body
        /\ 0 \in 0 .. n /\ n \in 0 .. n
    BY <1>1
  <2> QED BY <2>1
<1>4. ASSUME NEW k \in 1 .. n PROVE g[k] = ReadLine(g[k - 1], body[k])
  <2> DEFINE u == SubSeq(body, 1, k - 1)
  <2>1. /\ g[k] = Reader("content", o, Append(p, Part(of, o, SubSeq(body, 1, k))))
        /\ g[k - 1] = Reader("content", o, Append(p, Part(of, o, u)))
    BY <1>1
  <2>2. SubSeq(body, 1, k) = Append(u, body[k]) /\ u \in Seq(BodyLine)
    BY <1>1
  <2> HIDE DEF u, g
  <2>3. Part(of, o, u) \in PartType
    BY <2>2 DEF Part, PartType
  <2>4. ReadLine(Reader("content", o, Append(p, Part(of, o, u))), body[k]) =
           Reader("content", o, Append(p, Part(of, o, Append(u, body[k]))))
    BY <1>1, <2>3, ReadBodyLine
  <2> QED BY <2>1, <2>2, <2>4
<1> HIDE DEF g, s, t, n
<1>5. ReadRun(g, t, body, n)
  BY <1>3, <1>4 DEF ReadRun
<1>6. ReadFrom(t, body) = g[n]
  BY <1>1, <1>5, ReadSteps
<1>7. a \in Seq(OtherLine) /\ body \in Seq(OtherLine)
  <2>1. TypeLine(of) \in OtherLine
    BY DEF TypeLine, OtherLine
  <2>2. BodyLine \subseteq OtherLine
    BY DEF OtherLine
  <2>3. body \in Seq(OtherLine)
    BY <2>2, SeqMonotonic
  <2> QED BY <2>1, <2>3
<1> HIDE DEF a
<1>8. ReadFrom(s, a \o body) = g[n]
  BY <1>2, <1>6, <1>7, ReadConcat
<1>9. a \o body \in Seq(OtherLine)
  BY <1>7
<1>10. Part(of, o, body) \in PartType
  BY DEF Part, PartType
<1> QED BY <1>3, <1>8, <1>9, <1>10 DEF a, s

\* Where the reader of a part ends up: in the same container, one or more parts
\* further.
Delivers(lines, o, new) ==
    /\ lines \in Seq(OtherLine) /\ new \in Seq(PartType)
    /\ lines # <<>> /\ lines[1].t = "type"
    /\ \A p \in Seq(PartType) : \E at \in {"between", "content"} :
          ReadFrom(Reader("header", o, p), lines) = Reader(at, o, p \o new)

\* A part is read as it was written.
LEMMA PartDelivers ==
  ASSUME NEW of \in PartName \ Containers, NEW body \in Seq(BodyLine),
         NEW o \in Seq(Containers)
  PROVE  Delivers(<<TypeLine(of)>> \o body, o, <<Part(of, o, body)>>)
<1>1. ASSUME NEW p \in Seq(PartType)
      PROVE  /\ ReadFrom(Reader("header", o, p), <<TypeLine(of)>> \o body) =
                   Reader("content", o, Append(p, Part(of, o, body)))
             /\ <<TypeLine(of)>> \o body \in Seq(OtherLine)
             /\ Part(of, o, body) \in PartType
  BY ReadTextPart
<1>2. <<>> \in Seq(PartType)
  OBVIOUS
<1> DEFINE x == Part(of, o, body)
           l == <<TypeLine(of)>> \o body
<1>3. l \in Seq(OtherLine) /\ x \in PartType
  BY <1>1, <1>2
<1>8. l # <<>> /\ l[1].t = "type"
  <2>1. TypeLine(of).t = "type"
    BY DEF TypeLine
  <2>2. Len(l) > 0 /\ l[1] = TypeLine(of)
    OBVIOUS
  <2> QED BY <2>1, <2>2
<1> HIDE DEF x, l
<1>4. <<x>> \in Seq(PartType) /\ \A p \in Seq(PartType) : p \o <<x>> = Append(p, x)
  BY <1>3
<1>5. \A p \in Seq(PartType) : ReadFrom(Reader("header", o, p), l) =
                                  Reader("content", o, Append(p, x))
  BY <1>1 DEF x, l
<1>6. Delivers(l, o, <<x>>)
  BY <1>3, <1>4, <1>5, <1>8 DEF Delivers
<1> QED BY <1>6 DEF x, l

\* How three sequences are joined does not matter.
LEMMA ThreeInARow ==
  \A X : \A x, y, z \in Seq(X) : (x \o y) \o z = x \o (y \o z) /\ x \o y \in Seq(X)
<1> TAKE X
<1> TAKE x, y, z \in Seq(X)
<1>1. (x \o y) \o z = x \o (y \o z)
  BY ConcatAssociative
<1>2. x \o y \in Seq(X)
  BY ConcatProperties
<1> QED BY <1>1, <1>2

\* A container is read part by part, and closed.
LEMMA ContainerDelivers ==
  ASSUME NEW b \in Containers, NEW o \in Seq(Containers), b \notin Range(o),
         NEW parts \in Seq(Seq(OtherLine)), NEW D, NEW G, G[0] = <<>>,
         \A k \in 1 .. Len(parts) : Delivers(parts[k], Append(o, b), D[k])
                                    /\ G[k] = G[k - 1] \o D[k]
  PROVE  Delivers(Container(b, parts), o, G[Len(parts)])
<1> DEFINE n == Len(parts)
           oo == Append(o, b)
           B == [k \in 1 .. n |-> <<Open(b)>> \o parts[k]]
           flat == FlattenSeq(B)
<1>1. n \in Nat /\ DOMAIN parts = 1 .. n /\ \A k \in 1 .. n : parts[k] \in Seq(OtherLine)
  OBVIOUS
<1>2. /\ oo \in Seq(Containers) /\ b \in Range(oo) /\ UpTo(oo, b) = oo /\ Front(oo) = o
  BY InnermostIsLast
<1>3. TypeLine(b) \in OtherLine /\ Open(b) \in OtherLine /\ CloseLine(b) \in OtherLine
  BY DEF TypeLine, Open, CloseLine, OtherLine, PartName
<1>4. /\ <<TypeLine(b)>> \in Seq(OtherLine) /\ <<Open(b)>> \in Seq(OtherLine)
      /\ <<CloseLine(b)>> \in Seq(OtherLine)
  BY <1>3
<1>5. \A k \in 1 .. n : <<Open(b)>> \o parts[k] \in Seq(OtherLine)
  BY <1>1, <1>4
<1>6. /\ B \in Seq(Seq(OtherLine)) /\ Len(B) = n
      /\ \A k \in 1 .. n : B[k] = <<Open(b)>> \o parts[k]
  <2> DEFINE W(k) == <<Open(b)>> \o parts[k]
  <2> HIDE DEF W, n
  <2>1. B = [k \in 1 .. n |-> W(k)]
    BY DEF W
  <2>2. \A k \in 1 .. n : W(k) \in Seq(OtherLine)
    BY <1>5 DEF W
  <2> HIDE DEF B
  <2>3. B \in Seq(Seq(OtherLine)) /\ Len(B) = n /\ \A k \in 1 .. n : B[k] = W(k)
    BY <1>1, <2>1, <2>2
  <2> QED BY <2>3 DEF W
<1>7. Container(b, parts) = <<TypeLine(b)>> \o flat \o <<CloseLine(b)>>
  BY <1>1 DEF Container
<1> HIDE DEF B, oo, n
<1>8. PICK g \in [0 .. n -> Seq(OtherLine)] : FlatRun(g, B) /\ flat = g[n]
  BY <1>6, FlatSteps
<1>9. \A k \in 1 .. n : g[k] = g[k - 1] \o B[k]
  BY <1>6, <1>8 DEF FlatRun
<1>10. \A k \in 1 .. n : /\ Delivers(parts[k], oo, D[k]) /\ G[k] = G[k - 1] \o D[k]
                         /\ D[k] \in Seq(PartType)
  BY DEF Delivers, n, oo
<1>11. \A k \in 0 .. n : G[k] \in Seq(PartType)
  <2> DEFINE T == {k \in 0 .. n : G[k] \in Seq(PartType)}
  <2>1. 0 \in T
    <3>1. <<>> \in Seq(PartType) /\ 0 \in 0 .. n
      BY <1>1
    <3> QED BY <3>1
  <2>2. ASSUME NEW k \in 1 .. n, k - 1 \in T PROVE k \in T
    <3>1. G[k - 1] \in Seq(PartType) /\ k \in 0 .. n
      BY <1>1, <2>2
    <3>2. G[k - 1] \o D[k] \in Seq(PartType)
      BY <1>10, <3>1, ConcatProperties
    <3> QED BY <1>10, <3>1, <3>2
  <2>3. \A k \in 0 .. n : k \in T
    <3> HIDE DEF T
    <3> QED BY <1>1, <2>1, <2>2, UpTo_n
  <2> QED BY <2>3
<1>12. flat \in Seq(OtherLine) /\ n \in 0 .. n /\ G[n] \in Seq(PartType)
  BY <1>1, <1>8, <1>11
<1>13. Container(b, parts) \in Seq(OtherLine)
  <2> HIDE DEF flat
  <2> QED BY <1>4, <1>7, <1>12
<1>14. ASSUME NEW p \in Seq(PartType)
       PROVE  ReadFrom(Reader("header", o, p), Container(b, parts)) =
                 Reader("between", o, p \o G[n])
  <2> DEFINE s == Reader("between", oo, p)
             At == {"between", "content"}
             T == {k \in 0 .. n : \E at \in At :
                     ReadFrom(s, g[k]) = Reader(at, oo, p \o G[k])}
  <2>1. ReadFrom(Reader("header", o, p), <<TypeLine(b)>>) = s
    BY ReadOne, ReadContainerType DEF oo
  <2>2. 0 \in T
    <3>1. g[0] = <<>> /\ p \o G[0] = p /\ 0 \in 0 .. n
      BY <1>1, <1>8 DEF FlatRun
    <3>2. ReadFrom(s, g[0]) = Reader("between", oo, p \o G[0])
      BY <3>1, ReadNone
    <3> HIDE DEF s
    <3> QED BY <3>1, <3>2
  <2>3. ASSUME NEW k \in 1 .. n, k - 1 \in T PROVE k \in T
    <3> DEFINE q == p \o G[k - 1]
    <3>1. k \in 0 .. n /\ k - 1 \in 0 .. n
      BY <1>1
    <3>2. PICK at \in At : ReadFrom(s, g[k - 1]) = Reader(at, oo, q)
      BY <2>3
    <3>3. q \in Seq(PartType) /\ q \o D[k] = p \o G[k]
      <4>1. /\ G[k - 1] \in Seq(PartType) /\ D[k] \in Seq(PartType)
            /\ G[k] = G[k - 1] \o D[k]
        BY <1>10, <1>11, <3>1
      <4>2. \A x, y, z \in Seq(PartType) : /\ (x \o y) \o z = x \o (y \o z)
                                         /\ x \o y \in Seq(PartType)
        BY ThreeInARow, Zenon
      <4>3. /\ (p \o G[k - 1]) \o D[k] = p \o (G[k - 1] \o D[k])
            /\ p \o G[k - 1] \in Seq(PartType)
        BY <4>1, <4>2, Zenon
      <4> QED BY <4>1, <4>3
    <3> HIDE DEF s, q
    <3>4. ReadFrom(s, g[k]) = ReadFrom(Reader(at, oo, q), B[k])
      <4>1. g[k - 1] \in Seq(OtherLine) /\ B[k] \in Seq(OtherLine)
        BY <1>5, <1>6, <3>1
      <4>2. ReadFrom(s, g[k - 1] \o B[k]) = ReadFrom(ReadFrom(s, g[k - 1]), B[k])
        BY <4>1, ReadConcat
      <4> QED BY <1>9, <3>2, <4>2
    <3>5. ReadFrom(Reader(at, oo, q), <<Open(b)>>) = Reader("header", oo, q)
      BY <1>2, ReadOne, ReadOpen
    <3>6. ReadFrom(Reader(at, oo, q), B[k]) = ReadFrom(Reader("header", oo, q), parts[k])
      <4> DEFINE delimiter == <<Open(b)>>
      <4>1. parts[k] \in Seq(OtherLine) /\ delimiter \in Seq(OtherLine)
        BY <1>1, <1>4
      <4>2. /\ B[k] = delimiter \o parts[k]
            /\ ReadFrom(Reader(at, oo, q), delimiter) = Reader("header", oo, q)
        BY <1>6, <3>5
      <4> HIDE DEF delimiter
      <4>3. ReadFrom(Reader(at, oo, q), delimiter \o parts[k]) =
               ReadFrom(ReadFrom(Reader(at, oo, q), delimiter), parts[k])
        BY <4>1, ReadConcat
      <4> QED BY <4>2, <4>3
    <3>7. PICK at2 \in At :
             ReadFrom(Reader("header", oo, q), parts[k]) = Reader(at2, oo, q \o D[k])
      BY <1>10, <3>3 DEF Delivers
    <3>8. ReadFrom(s, g[k]) = Reader(at2, oo, p \o G[k])
      BY <3>3, <3>4, <3>6, <3>7
    <3> QED BY <3>1, <3>8
  <2>4. \A k \in 0 .. n : k \in T
    <3> HIDE DEF T
    <3> QED BY <1>1, <2>2, <2>3, UpTo_n
  <2>5. PICK at \in At : ReadFrom(s, flat) = Reader(at, oo, p \o G[n])
    BY <1>8, <1>12, <2>4
  <2> HIDE DEF flat, s
  <2>6. ReadFrom(Reader(at, oo, p \o G[n]), <<CloseLine(b)>>) =
           Reader("between", o, p \o G[n])
    BY <1>2, ReadOne, ReadClose
  <2>7. ReadFrom(Reader("header", o, p), <<TypeLine(b)>> \o flat) = ReadFrom(s, flat)
    BY <1>4, <1>12, <2>1, ReadConcat
  <2>8. <<TypeLine(b)>> \o flat \in Seq(OtherLine)
    BY <1>4, <1>12
  <2>9. ReadFrom(Reader("header", o, p), (<<TypeLine(b)>> \o flat) \o <<CloseLine(b)>>) =
           ReadFrom(ReadFrom(Reader("header", o, p), <<TypeLine(b)>> \o flat),
                    <<CloseLine(b)>>)
    BY <1>4, <2>8, ReadConcat
  <2> QED BY <1>7, <2>5, <2>6, <2>7, <2>9
<1>15. Container(b, parts) # <<>> /\ Container(b, parts)[1].t = "type"
  <2> HIDE DEF flat
  <2>1. Len(Container(b, parts)) > 0 /\ Container(b, parts)[1] = TypeLine(b)
    BY <1>4, <1>7, <1>12
  <2> QED BY <1>13, <2>1 DEF TypeLine
<1>16. Delivers(Container(b, parts), o, G[n])
  BY <1>12, <1>13, <1>14, <1>15 DEF Delivers
<1> QED BY <1>16 DEF n

\* An attachment is read as a part.
FileIn(a, in) == Part(a.id, in, IF a.empty THEN <<>> ELSE <<DataLine>>)

\* An attachment is read as it was written.
LEMMA FileDelivers ==
  ASSUME NEW a \in AttachedFile, NEW o \in Seq(Containers)
  PROVE  Delivers(WriteAttachmentPart(a), o, <<FileIn(a, o)>>)
<1> DEFINE body == IF a.empty THEN <<>> ELSE <<DataLine>>
<1>1. a.id \in PartName \ Containers
  BY DEF AttachedFile, PartName
<1>2. body \in Seq(BodyLine)
  <2>1. DataLine \in BodyLine
    BY DEF DataLine, BodyLine
  <2> QED BY <2>1
<1>3. WriteAttachmentPart(a) = <<TypeLine(a.id)>> \o body
      /\ FileIn(a, o) = Part(a.id, o, body)
  BY DEF WriteAttachmentPart, FileIn
<1> HIDE DEF body
<1> QED BY <1>1, <1>2, <1>3, PartDelivers

\* The parts of attachments.
FilesIn(fs, in) == [k \in DOMAIN fs |-> FileIn(fs[k], in)]

\* A container of a body and attachments.
LEMMA FilesDeliver ==
  ASSUME NEW b \in Containers, NEW o \in Seq(Containers), b \notin Range(o),
         NEW fs \in Seq(AttachedFile), NEW body, NEW new,
         Delivers(body, Append(o, b), new)
  PROVE  Delivers(Container(b, <<body>> \o AttachmentParts(fs)), o,
                  new \o FilesIn(fs, Append(o, b)))
<1> DEFINE m == Len(fs)
           oo == Append(o, b)
           att == AttachmentParts(fs)
           F == FilesIn(fs, oo)
           parts == <<body>> \o att
           D == [k \in 1 .. m + 1 |-> IF k = 1 THEN new ELSE <<FileIn(fs[k - 1], oo)>>]
           G == [k \in 0 .. m + 1 |-> IF k = 0 THEN <<>> ELSE new \o SubSeq(F, 1, k - 1)]
<1>1. m \in Nat /\ DOMAIN fs = 1 .. m /\ \A k \in 1 .. m : fs[k] \in AttachedFile
  OBVIOUS
<1>2. oo \in Seq(Containers)
  OBVIOUS
<1>3. body \in Seq(OtherLine) /\ new \in Seq(PartType)
  BY DEF Delivers
<1>4. \A k \in 1 .. m : /\ Delivers(WriteAttachmentPart(fs[k]), oo, <<FileIn(fs[k], oo)>>)
                        /\ WriteAttachmentPart(fs[k]) \in Seq(OtherLine)
                        /\ <<FileIn(fs[k], oo)>> \in Seq(PartType)
  <2>1. \A k \in 1 .. m : Delivers(WriteAttachmentPart(fs[k]), oo, <<FileIn(fs[k], oo)>>)
    <3> HIDE DEF oo
    <3> QED BY <1>1, <1>2, FileDelivers
  <2> QED BY <2>1 DEF Delivers
<1>5. \A k \in 1 .. m : FileIn(fs[k], oo) \in PartType
  <2>1. \A x : <<x>> \in Seq(PartType) => x \in PartType
    <3> SUFFICES ASSUME NEW x, <<x>> \in Seq(PartType) PROVE x \in PartType
      OBVIOUS
    <3>1. <<x>>[1] = x /\ Len(<<x>>) = 1
      OBVIOUS
    <3> QED BY <3>1, ElementOfSeq
  <2> QED BY <1>4, <2>1
<1>6. /\ F \in Seq(PartType) /\ Len(F) = m /\ \A k \in 1 .. m : F[k] = FileIn(fs[k], oo)
  <2>1. F = [k \in 1 .. m |-> FileIn(fs[k], oo)]
    BY <1>1 DEF FilesIn
  <2> HIDE DEF oo, F, m
  <2> QED BY <1>1, <1>5, <2>1
<1>7. /\ att \in Seq(Seq(OtherLine)) /\ Len(att) = m
      /\ \A k \in 1 .. m : att[k] = WriteAttachmentPart(fs[k])
  <2> DEFINE W(k) == WriteAttachmentPart(fs[k])
  <2>1. att = [k \in 1 .. m |-> W(k)]
    BY <1>1 DEF AttachmentParts
  <2>2. \A k \in 1 .. m : W(k) \in Seq(OtherLine)
    BY <1>4
  <2> HIDE DEF att, m, W
  <2>3. att \in Seq(Seq(OtherLine)) /\ Len(att) = m /\ \A k \in 1 .. m : att[k] = W(k)
    BY <1>1, <2>1, <2>2
  <2> QED BY <2>3 DEF W
<1> HIDE DEF oo, att, F, m
<1>8. /\ parts \in Seq(Seq(OtherLine)) /\ Len(parts) = m + 1 /\ parts[1] = body
      /\ \A k \in 2 .. m + 1 : parts[k] = att[k - 1] /\ k - 1 \in 1 .. m
  <2>1. <<body>> \in Seq(Seq(OtherLine)) /\ Len(<<body>>) = 1 /\ <<body>>[1] = body
    BY <1>3
  <2>2. /\ parts \in Seq(Seq(OtherLine)) /\ Len(parts) = 1 + m
        /\ \A k \in 1 .. 1 + m : parts[k] = IF k <= 1 THEN <<body>>[k] ELSE att[k - 1]
    BY <1>7, <2>1, ConcatProperties
  <2>3. 1 + m = m + 1 /\ 1 \in 1 .. m + 1 /\ 1 <= 1
        /\ \A k \in 2 .. m + 1 : k \in 1 .. m + 1 /\ ~(k <= 1) /\ k - 1 \in 1 .. m
    BY <1>1
  <2> HIDE DEF parts
  <2> QED BY <2>1, <2>2, <2>3
<1> HIDE DEF parts
<1>9. ASSUME NEW k \in 1 .. m + 1
      PROVE  Delivers(parts[k], oo, D[k]) /\ G[k] = G[k - 1] \o D[k]
  <2>1. CASE k = 1
    <3>1. D[k] = new /\ G[k - 1] = <<>> /\ G[k] = new \o SubSeq(F, 1, 0)
      BY <1>1, <2>1
    <3>2. SubSeq(F, 1, 0) = <<>> /\ new \o <<>> = new /\ <<>> \o new = new
      BY <1>3, <1>6
    <3>3. Delivers(body, oo, new)
      BY DEF oo
    <3> HIDE DEF D, G
    <3> QED BY <1>8, <2>1, <3>1, <3>2, <3>3
  <2>2. CASE k # 1
    <3>0. /\ k \in 2 .. m + 1 /\ k \in 0 .. m + 1 /\ k - 1 \in 0 .. m + 1 /\ k # 0
          /\ k - 1 # 0 /\ k - 1 \in 1 .. m
      BY <1>1, <2>2
    <3>1. /\ D[k] = <<FileIn(fs[k - 1], oo)>>
          /\ G[k - 1] = new \o SubSeq(F, 1, (k - 1) - 1)
          /\ G[k] = new \o SubSeq(F, 1, k - 1)
      BY <2>2, <3>0
    <3>2. parts[k] = WriteAttachmentPart(fs[k - 1])
      BY <1>7, <1>8, <3>0
    <3>3. Delivers(parts[k], oo, D[k])
      BY <1>4, <3>0, <3>1, <3>2
    <3> DEFINE i == k - 1
               x == FileIn(fs[i], oo)
               u == SubSeq(F, 1, i - 1)
    <3>4. i \in 1 .. m /\ F[i] = x
      BY <1>6, <3>0
    <3> HIDE DEF i, x
    <3>5. SubSeq(F, 1, i) = Append(u, F[i]) /\ u \in Seq(PartType) /\ F[i] \in PartType
      BY <1>1, <1>6, <3>4
    <3> HIDE DEF u
    <3>6. new \o Append(u, x) = (new \o u) \o <<x>>
      BY <1>3, <3>4, <3>5
    <3> HIDE DEF D, G
    <3>7. D[k] = <<x>> /\ G[k - 1] = new \o u /\ G[k] = new \o SubSeq(F, 1, i)
      BY <3>1 DEF x, i, u
    <3>8. G[k] = G[k - 1] \o D[k]
      BY <3>4, <3>5, <3>6, <3>7
    <3> QED BY <3>3, <3>8
  <2> QED BY <2>1, <2>2
<1>10. G[0] = <<>> /\ G[m + 1] = new \o F
  <2>1. 0 \in 0 .. m + 1 /\ m + 1 \in 0 .. m + 1 /\ m + 1 # 0 /\ (m + 1) - 1 = m
    BY <1>1
  <2>2. SubSeq(F, 1, m) = F
    BY <1>6
  <2> QED BY <2>1, <2>2
<1> HIDE DEF D, G
<1>11. \A k \in 1 .. Len(parts) : Delivers(parts[k], Append(o, b), D[k])
                                  /\ G[k] = G[k - 1] \o D[k]
  BY <1>8, <1>9 DEF oo
<1>12. Delivers(Container(b, parts), o, G[Len(parts)])
  BY <1>8, <1>10, <1>11, ContainerDelivers
<1> QED BY <1>8, <1>10, <1>12 DEF parts, att, F, oo

\* The text and the HTML body, in alternatives when there are two.
Both(m) == m.text # <<>> /\ m.html # <<>>
\* What a reader finds of them.
ContentIn(m, o) ==
    LET in == o \o IF Both(m) THEN <<"alternative">> ELSE <<>>
    IN  (IF m.text # <<>> \/ m.html = <<>> THEN <<Part("text", in, m.text)>> ELSE <<>>)
        \o (IF m.html # <<>> THEN <<Part("html", in, m.html)>> ELSE <<>>)

\* Sequences of one and of two.
LEMMA TwoElements == \A x, y : <<>> \o <<x>> = <<x>> /\ <<x>> \o <<y>> = <<x, y>>
<1> SUFFICES ASSUME NEW x, NEW y
             PROVE  <<>> \o <<x>> = <<x>> /\ <<x>> \o <<y>> = <<x, y>>
  OBVIOUS
<1> DEFINE S == {x, y}
           a == <<x>> \o <<y>>
           b == <<x, y>>
<1>1. x \in S /\ y \in S
  OBVIOUS
<1> HIDE DEF S
<1>2. <<x>> \in Seq(S) /\ <<y>> \in Seq(S)
  BY <1>1
<1>3. a = Append(<<x>>, y)
  BY <1>1, <1>2
<1>4. a \in Seq(S) /\ Len(a) = 2 /\ a[1] = x /\ a[2] = y
  BY <1>1, <1>2
<1>5. b \in Seq(S) /\ Len(b) = 2 /\ b[1] = x /\ b[2] = y
  BY <1>1
<1> HIDE DEF a, b
<1>6. \A k \in 1 .. 2 : a[k] = b[k]
  <2>1. \A k \in 1 .. 2 : k = 1 \/ k = 2
    OBVIOUS
  <2> QED BY <1>4, <1>5, <2>1
<1>7. a = b
  BY <1>4, <1>5, <1>6, SeqEqual
<1>8. <<>> \o <<x>> = <<x>>
  BY <1>2
<1> QED BY <1>7, <1>8 DEF a, b

\* The bodies are read as they were written.
LEMMA ContentDelivers ==
  ASSUME NEW m, m.text \in Seq(BodyLine), m.html \in Seq(BodyLine),
         NEW o \in Seq(Containers), "alternative" \notin Range(o)
  PROVE  Delivers(WriteContentBody(m), o, ContentIn(m, o))
<1>1. /\ "text" \in PartName \ Containers /\ "html" \in PartName \ Containers
      /\ "alternative" \in Containers
  BY DEF PartName, Containers
<1>2. CASE Both(m)
  <2> DEFINE oo == Append(o, "alternative")
             x == Part("text", oo, m.text)
             y == Part("html", oo, m.html)
             a == WriteTextPart("text", m.text)
             c == WriteTextPart("html", m.html)
             parts == <<a, c>>
             D == [k \in 1 .. 2 |-> IF k = 1 THEN <<x>> ELSE <<y>>]
             G == [k \in 0 .. 2 |->
                    IF k = 0 THEN <<>> ELSE IF k = 1 THEN <<x>> ELSE <<x, y>>]
  <2>1. oo \in Seq(Containers) /\ o \o <<"alternative">> = oo
    BY <1>1
  <2>2. Delivers(a, oo, <<x>>) /\ Delivers(c, oo, <<y>>)
    <3> HIDE DEF oo
    <3> QED BY <1>1, <2>1, PartDelivers DEF WriteTextPart
  <2>3. WriteContentBody(m) = Container("alternative", parts)
    BY <1>2 DEF Both, WriteContentBody, WriteAlternative
  <2>4. ContentIn(m, o) = <<x, y>>
    <3>1. ContentIn(m, o) = <<x>> \o <<y>>
      <4> HIDE DEF oo
      <4> QED BY <1>2, <2>1 DEF Both, ContentIn
    <3> HIDE DEF x, y
    <3>2. <<x>> \o <<y>> = <<x, y>>
      BY TwoElements
    <3> QED BY <3>1, <3>2
  <2> HIDE DEF oo, x, y, a, c
  <2>5. a \in Seq(OtherLine) /\ c \in Seq(OtherLine)
    BY <2>2 DEF Delivers
  <2>6. parts \in Seq(Seq(OtherLine)) /\ Len(parts) = 2 /\ parts[1] = a /\ parts[2] = c
    BY <2>5
  <2>7. /\ D[1] = <<x>> /\ D[2] = <<y>> /\ G[0] = <<>> /\ G[1] = <<x>> /\ G[2] = <<x, y>>
    OBVIOUS
  <2>8. <<>> \o <<x>> = <<x>> /\ <<x>> \o <<y>> = <<x, y>>
    BY TwoElements
  <2> HIDE DEF D, G, parts
  <2>9. ASSUME NEW k \in 1 .. Len(parts)
        PROVE  Delivers(parts[k], Append(o, "alternative"), D[k]) /\ G[k] = G[k - 1] \o D[k]
    <3>1. (k = 1 /\ k - 1 = 0) \/ (k = 2 /\ k - 1 = 1)
      BY <2>6
    <3> QED BY <2>2, <2>6, <2>7, <2>8, <3>1 DEF oo
  <2>10. Delivers(Container("alternative", parts), o, G[Len(parts)])
    BY <1>1, <2>6, <2>7, <2>9, ContainerDelivers
  <2> QED BY <2>3, <2>4, <2>6, <2>7, <2>10
<1>3. CASE ~Both(m)
  <2>1. o \o <<>> = o
    OBVIOUS
  <2>2. CASE m.html # <<>>
    <3>1. WriteContentBody(m) = <<TypeLine("html")>> \o m.html
      BY <1>3, <2>2 DEF Both, WriteContentBody, WriteTextPart
    <3>2. ContentIn(m, o) = <<>> \o <<Part("html", o, m.html)>>
      BY <1>3, <2>1, <2>2 DEF Both, ContentIn
    <3>3. \A x : <<>> \o <<x>> = <<x>>
      OBVIOUS
    <3>4. Delivers(<<TypeLine("html")>> \o m.html, o, <<Part("html", o, m.html)>>)
      BY <1>1, PartDelivers
    <3> QED BY <3>1, <3>2, <3>3, <3>4
  <2>3. CASE m.html = <<>>
    <3>1. WriteContentBody(m) = <<TypeLine("text")>> \o m.text
      BY <1>3, <2>3 DEF Both, WriteContentBody, WriteTextPart
    <3>2. ContentIn(m, o) = <<Part("text", o, m.text)>> \o <<>>
      BY <1>3, <2>1, <2>3 DEF Both, ContentIn
    <3>3. \A x : <<x>> \o <<>> = <<x>>
      OBVIOUS
    <3>4. Delivers(<<TypeLine("text")>> \o m.text, o, <<Part("text", o, m.text)>>)
      BY <1>1, PartDelivers
    <3> QED BY <3>1, <3>2, <3>3, <3>4
  <2> QED BY <2>2, <2>3
<1> QED BY <1>2, <1>3

\* What is in no container and where the parts belong.
MixedIn(m) == IF Regular(m) = <<>> THEN <<>> ELSE <<"mixed">>
RelatedIn(m) == MixedIn(m) \o IF Inline(m) = <<>> THEN <<>> ELSE <<"related">>
PartsOf(m) ==
    ContentIn(m, RelatedIn(m)) \o FilesIn(Inline(m), RelatedIn(m))
    \o FilesIn(Regular(m), MixedIn(m))

\* partitionAttachments
LEMMA AttachmentTypes ==
  ASSUME NEW m \in MessageType
  PROVE  /\ Inline(m) \in Seq(AttachedFile) /\ Regular(m) \in Seq(AttachedFile)
         /\ m.attachments = <<>> => Inline(m) = <<>> /\ Regular(m) = <<>>
<1> DEFINE fs == m.attachments
           I == InlineAt(fs)
           J == DOMAIN fs \ InlineAt(fs)
<1>1. fs \in Seq(AttachedFile)
  BY DEF MessageType
<1>2. I \subseteq DOMAIN fs /\ J \subseteq DOMAIN fs
  BY DEF InlineAt
<1>3. Inline(m) = Kept(fs, I) /\ Regular(m) = Kept(fs, J)
  BY DEF Inline, Regular
<1> HIDE DEF fs, I, J
<1>4. ASSUME NEW K, K \subseteq DOMAIN fs
      PROVE  Kept(fs, K) \in Seq(AttachedFile) /\ (fs = <<>> => Kept(fs, K) = <<>>)
  <2> DEFINE t == Kept(fs, K)
  <2>1. t \in Seq(AttachedFile) /\ \E e : Picks(e, fs, K, t)
    BY <1>1, <1>4, KeptPlaces
  <2> HIDE DEF t
  <2>2. PICK e : Picks(e, fs, K, t)
    BY <2>1
  <2>3. ASSUME fs = <<>> PROVE t = <<>>
    <3>1. DOMAIN fs = {} /\ K = {}
      BY <1>4, <2>3
    <3>2. \A j \in 1 .. Len(t) : e[j] \in K
      BY <2>2 DEF Picks
    <3>3. 1 .. Len(t) = {} /\ Len(t) \in Nat
      BY <2>1, <3>1, <3>2
    <3>4. Len(t) = 0
      BY <3>3
    <3> QED BY <2>1, <3>4
  <2> QED BY <2>1, <2>3 DEF t
<1> QED BY <1>2, <1>3, <1>4 DEF fs

\* The whole body.
LEMMA BodyDelivers ==
  ASSUME NEW m \in MessageType
  PROVE  Delivers(WriteBody(m), <<>>, PartsOf(m))
<1> DEFINE M == MixedIn(m)
           R == RelatedIn(m)
           content == WriteContentBody(m)
           body == IF Inline(m) # <<>> THEN WriteRelated(m) ELSE content
           new == ContentIn(m, R) \o FilesIn(Inline(m), R)
<1>1. /\ m.text \in Seq(BodyLine) /\ m.html \in Seq(BodyLine)
      /\ Inline(m) \in Seq(AttachedFile) /\ Regular(m) \in Seq(AttachedFile)
      /\ m.attachments = <<>> => Inline(m) = <<>> /\ Regular(m) = <<>>
  <2>1. m.text \in Seq(BodyLine) /\ m.html \in Seq(BodyLine)
    BY DEF MessageType
  <2> QED BY <2>1, AttachmentTypes
<1>2. /\ "mixed" \in Containers /\ "related" \in Containers /\ "alternative" \in Containers
  BY DEF Containers
<1>3. /\ M \in Seq(Containers) /\ (M = <<>> \/ M = <<"mixed">>)
      /\ "related" \notin Range(M) /\ "alternative" \notin Range(M)
  <2>1. M = <<>> \/ M = <<"mixed">>
    BY DEF MixedIn
  <2>2. Range(<<>>) = {} /\ Range(<<"mixed">>) = {"mixed"}
    BY DEF Range
  <2>3. <<>> \in Seq(Containers) /\ <<"mixed">> \in Seq(Containers)
    BY <1>2
  <2> HIDE DEF M
  <2>4. CASE M = <<>>
    BY <2>2, <2>3, <2>4
  <2>5. CASE M = <<"mixed">>
    BY <2>2, <2>3, <2>5
  <2> QED BY <2>1, <2>4, <2>5
<1>4. /\ R = IF Inline(m) = <<>> THEN M ELSE Append(M, "related")
      /\ R \in Seq(Containers) /\ "alternative" \notin Range(R)
  <2>1. R = M \o IF Inline(m) = <<>> THEN <<>> ELSE <<"related">>
    BY DEF RelatedIn
  <2> HIDE DEF M, R
  <2>2. M \o <<>> = M /\ M \o <<"related">> = Append(M, "related")
        /\ Append(M, "related") \in Seq(Containers)
    BY <1>2, <1>3
  <2>3. "alternative" \notin Range(Append(M, "related"))
    <3>1. /\ Len(Append(M, "related")) = Len(M) + 1 /\ Len(M) \in Nat
          /\ DOMAIN Append(M, "related") = 1 .. Len(M) + 1
          /\ \A j \in 1 .. Len(M) + 1 :
                Append(M, "related")[j] = IF j = Len(M) + 1 THEN "related" ELSE M[j]
      BY <1>2, <1>3
    <3>2. \A j \in 1 .. Len(M) : M[j] # "alternative"
      BY <1>3 DEF Range
    <3>3. \A j \in 1 .. Len(M) + 1 : Append(M, "related")[j] # "alternative"
      <4>1. \A j \in 1 .. Len(M) + 1 : j # Len(M) + 1 => j \in 1 .. Len(M)
        BY <3>1
      <4> QED BY <3>1, <3>2, <4>1
    <3> QED BY <3>1, <3>3 DEF Range
  <2> QED BY <1>3, <2>1, <2>2, <2>3
<1> HIDE DEF M, R
<1>5. Delivers(content, R, ContentIn(m, R))
  BY <1>1, <1>4, ContentDelivers
<1>6. ContentIn(m, R) \in Seq(PartType)
  BY <1>5 DEF Delivers
<1>7. \A in : FilesIn(<<>>, in) = <<>>
  BY DEF FilesIn
<1>8. Delivers(body, M, new)
  <2>1. CASE Inline(m) = <<>>
    <3>1. R = M /\ body = content /\ new = ContentIn(m, R) \o <<>>
      BY <1>4, <1>7, <2>1
    <3>2. new = ContentIn(m, R)
      BY <1>6, <3>1
    <3> HIDE DEF body, content, new
    <3> QED BY <1>5, <3>1, <3>2
  <2>2. CASE Inline(m) # <<>>
    <3>1. R = Append(M, "related")
      BY <1>4, <2>2
    <3>2. body = Container("related", <<content>> \o AttachmentParts(Inline(m)))
      BY <2>2 DEF WriteRelated
    <3>3. Delivers(content, Append(M, "related"), ContentIn(m, R))
      BY <1>5, <3>1
    <3> HIDE DEF content, body
    <3>4. Delivers(Container("related", <<content>> \o AttachmentParts(Inline(m))), M,
                   ContentIn(m, R) \o FilesIn(Inline(m), Append(M, "related")))
      BY <1>1, <1>2, <1>3, <3>3, FilesDeliver
    <3> QED BY <3>1, <3>2, <3>4
  <2> QED BY <2>1, <2>2
<1>9. WriteBody(m) = IF Regular(m) = <<>> THEN body
                     ELSE Container("mixed", <<body>> \o AttachmentParts(Regular(m)))
  BY <1>1 DEF WriteBody, WriteMixed
<1>10. PartsOf(m) = new \o FilesIn(Regular(m), M)
  BY DEF PartsOf, M, R
<1> HIDE DEF content, body, new
<1>11. new \in Seq(PartType)
  BY <1>8 DEF Delivers
<1>12. CASE Regular(m) = <<>>
  <2>1. M = <<>>
    BY <1>12 DEF M, MixedIn
  <2>2. PartsOf(m) = new
    <3>1. PartsOf(m) = new \o <<>>
      BY <1>7, <1>10, <1>12
    <3> QED BY <1>11, <3>1
  <2> QED BY <1>8, <1>9, <1>12, <2>1, <2>2
<1>13. CASE Regular(m) # <<>>
  <2>1. M = Append(<<>>, "mixed") /\ <<>> \in Seq(Containers) /\ "mixed" \notin Range(<<>>)
    BY <1>13 DEF M, MixedIn, Range
  <2>2. Delivers(body, Append(<<>>, "mixed"), new)
    BY <1>8, <2>1
  <2>3. Delivers(Container("mixed", <<body>> \o AttachmentParts(Regular(m))), <<>>,
                 new \o FilesIn(Regular(m), Append(<<>>, "mixed")))
    BY <1>1, <1>2, <2>1, <2>2, FilesDeliver
  <2> QED BY <1>9, <1>10, <1>13, <2>1, <2>3
<1> QED BY <1>12, <1>13

\* What a reader finds in the body.
LEMMA BodyRead ==
  ASSUME msg \in MessageType
  PROVE  LET r == ReadBody(WriteBody(msg))
         IN  r.ok /\ r.open = <<>> /\ r.parts = ExpectedParts
<1>1. Delivers(WriteBody(msg), <<>>, PartsOf(msg))
  BY BodyDelivers
<1>2. <<>> \in Seq(PartType) /\ PartsOf(msg) \in Seq(PartType)
  BY <1>1 DEF Delivers
<1>3. PICK at \in {"between", "content"} :
         ReadFrom(Reader("header", <<>>, <<>>), WriteBody(msg)) =
            Reader(at, <<>>, <<>> \o PartsOf(msg))
  BY <1>1, <1>2 DEF Delivers
<1>4. <<>> \o PartsOf(msg) = PartsOf(msg)
  BY <1>2
<1>5. PartsOf(msg) = ExpectedParts
  BY DEF PartsOf, ExpectedParts, ContentIn, Both, MixedIn, RelatedIn, FilesIn, FileIn
<1>6. ReadBody(WriteBody(msg)) = Reader(at, <<>>, ExpectedParts)
  BY <1>3, <1>4, <1>5 DEF ReadBody, Reader
<1> QED BY <1>6 DEF Reader

------------------------------------------------------------------------------
(* The message from the builder to the SentMessage.                        *)

\* The headers are the ones the caller has set; once it is sealed, the message is
\* what writeHeaders and writeBody make of it, and a message is refused for a
\* reason.
MessageInv ==
    /\ msg \in MessageType /\ HeadersInv(msg.headers, want) /\ phase \in Phase
    /\ phase \in {"build", "refused"} => wire = NoWire
    /\ phase \in {"ready", "handed", "sent", "failed"} =>
          wire = Bytes(msg) /\ HeadersFit(msg)
    /\ phase = "refused" =>
          \/ ~EnsureValidity(msg) \/ ~Serializable(msg)
          \/ ~ValidEnvelope(EnvelopeFromMessage(msg))

\* A new message is one.
LEMMA NewMessage ==
  ASSUME InitMessage
  PROVE  MessageInv
<1>1. PICK t \in Text \cup {<<>>}, w \in Text \cup {<<>>} :
         msg = [addr |-> [h \in AddressHeaders |->
                            IF h \in {"From", "To"} THEN <<Author>> ELSE <<>>],
                subject |-> [runs |-> <<>>, kind |-> "plain"],
                headers |-> <<>>, text |-> t, html |-> w, attachments |-> <<>>]
  BY DEF InitMessage
<1>2. t \in Seq(BodyLine) /\ w \in Seq(BodyLine)
  <2>1. <<>> \in Seq(BodyLine) /\ \A x \in Text \cup {<<>>} : x \in Text \/ x = <<>>
    OBVIOUS
  <2>2. \A x \in Text : x \in Seq(BodyLine)
    BY BodiesAssumption
  <2> QED BY <2>1, <2>2
<1>3. [h \in AddressHeaders |-> IF h \in {"From", "To"} THEN <<Author>> ELSE <<>>]
         \in [AddressHeaders -> Seq(Address)]
  BY AuthorAssumption
<1>4. [runs |-> <<>>, kind |-> "plain"] \in HeaderValue
  <2>1. <<>> \in HeaderText
    BY DEF HeaderText
  <2> QED BY <2>1 DEF HeaderValue
<1>5. <<>> \in Seq(Header) /\ <<>> \in Seq(AttachedFile)
  OBVIOUS
<1>6. msg \in MessageType /\ msg.headers = <<>>
  BY <1>1, <1>2, <1>3, <1>4, <1>5 DEF MessageType
<1>7. HeadersInv(<<>>, want)
  <2>1. DOMAIN want = {} /\ 1 .. Len(<<>>) = {}
    BY DEF InitMessage
  <2> QED BY <1>5, <2>1 DEF HeadersInv
<1>8. phase = "build" /\ wire = NoWire
  BY DEF InitMessage
<1> QED BY <1>6, <1>7, <1>8 DEF MessageInv, Phase

\* The builder keeps a message a message, and its headers what was asked for.
LEMMA BuilderKeeps ==
  ASSUME MessageInv, Builder
  PROVE  MessageInv'
<1>1. phase = "build" /\ phase' = "build" /\ wire' = wire
  BY DEF Builder, Build, SetAddresses, SetSubject, SetText, SetHTML, Attach,
     SetHeader, RemoveHeader
<1>2. msg \in MessageType /\ HeadersInv(msg.headers, want) /\ wire = NoWire
  BY <1>1 DEF MessageInv
<1>3. SUFFICES msg' \in MessageType /\ HeadersInv(msg'.headers, want')
  BY <1>1, <1>2 DEF MessageInv, Phase
<1>4. ASSUME NEW h \in AddressHeaders, NEW list \in AddressLists, SetAddresses(h, list)
      PROVE  msg' \in MessageType /\ HeadersInv(msg'.headers, want')
  <2>1. list \in Seq(Address)
    BY ListsAssumption
  <2>2. msg' = [msg EXCEPT !.addr[h] = list] /\ want' = want
    BY <1>4 DEF SetAddresses, Build
  <2>3. msg' \in MessageType /\ msg'.headers = msg.headers
    BY <1>2, <2>1, <2>2 DEF MessageType
  <2> QED BY <1>2, <2>2, <2>3
<1>5. ASSUME NEW s \in Subject, SetSubject(s)
      PROVE  msg' \in MessageType /\ HeadersInv(msg'.headers, want')
  <2>1. s \in HeaderValue
    BY ValuesAssumption
  <2>2. msg' = [msg EXCEPT !.subject = s] /\ want' = want
    BY <1>5 DEF SetSubject, Build
  <2>3. msg' \in MessageType /\ msg'.headers = msg.headers
    BY <1>2, <2>1, <2>2 DEF MessageType
  <2> QED BY <1>2, <2>2, <2>3
<1>6. ASSUME NEW b \in Text, SetText(b) \/ SetHTML(b)
      PROVE  msg' \in MessageType /\ HeadersInv(msg'.headers, want')
  <2>1. b \in Seq(BodyLine)
    BY BodiesAssumption
  <2>2. /\ msg' = [msg EXCEPT !.text = b] \/ msg' = [msg EXCEPT !.html = b]
        /\ want' = want
    BY <1>6 DEF SetText, SetHTML, Build
  <2>3. msg' \in MessageType /\ msg'.headers = msg.headers
    BY <1>2, <2>1, <2>2 DEF MessageType
  <2> QED BY <1>2, <2>2, <2>3
<1>7. ASSUME NEW a \in Attachment, Attach(a)
      PROVE  msg' \in MessageType /\ HeadersInv(msg'.headers, want')
  <2> DEFINE b == [a EXCEPT !.cid = IF a.inline /\ a.cid = "none" THEN "auto" ELSE @]
  <2>1. b \in AttachedFile
    BY FilesAssumption DEF AttachedFile
  <2>2. /\ msg' = [msg EXCEPT !.attachments = Append(msg.attachments, b)]
        /\ want' = want
    BY <1>7 DEF Attach, Build
  <2> HIDE DEF b
  <2>3. msg.attachments \in Seq(AttachedFile)
    BY <1>2 DEF MessageType
  <2>4. Append(msg.attachments, b) \in Seq(AttachedFile)
    BY <2>1, <2>3
  <2>5. msg' \in MessageType /\ msg'.headers = msg.headers
    BY <1>2, <2>2, <2>4 DEF MessageType
  <2> QED BY <1>2, <2>2, <2>5
<1>8. ASSUME NEW hs, HeadersInv(hs, want'), msg' = [msg EXCEPT !.headers = hs]
      PROVE  msg' \in MessageType /\ HeadersInv(msg'.headers, want')
  <2>1. hs \in Seq(Header)
    BY <1>8 DEF HeadersInv
  <2>2. msg' \in MessageType /\ msg'.headers = hs
    BY <1>2, <1>8, <2>1 DEF MessageType
  <2> QED BY <1>8, <2>2
<1>9. ASSUME NEW n \in HeaderName, RemoveHeader(n)
      PROVE  msg' \in MessageType /\ HeadersInv(msg'.headers, want')
  <2>1. n \in FieldName
    BY NamesAssumption
  <2>2. /\ msg' = [msg EXCEPT !.headers = HeadersWithout(msg.headers, n)]
        /\ want' = [c \in DOMAIN want \ {n.canon} |-> want[c]]
    BY <1>9 DEF RemoveHeader, Build
  <2>3. HeadersInv(HeadersWithout(msg.headers, n), want')
    BY <1>2, <2>1, <2>2, RemoveHeaderKeeps
  <2> QED BY <1>8, <2>2, <2>3
<1>10. ASSUME NEW n \in HeaderName, NEW v \in Value, SetHeader(n, v)
       PROVE  msg' \in MessageType /\ HeadersInv(msg'.headers, want')
  <2>1. n \in FieldName /\ v \in HeaderValue
    BY NamesAssumption, ValuesAssumption
  <2>2. CASE Accepted(n, v)
    <3>1. /\ msg' = [msg EXCEPT !.headers = HeadersWith(msg.headers, n, v)]
          /\ want' = SetIn(want, n, v)
      BY <1>10, <2>2 DEF SetHeader, Build, SetIn
    <3>2. HeadersInv(HeadersWith(msg.headers, n, v), want')
      BY <1>2, <2>1, <3>1, SetHeaderKeeps
    <3> QED BY <1>8, <3>1, <3>2
  <2>3. CASE ~Accepted(n, v)
    <3>1. msg' = [msg EXCEPT !.headers = msg.headers] /\ want' = want
      BY <1>10, <2>3 DEF SetHeader, Build
    <3> QED BY <1>2, <1>8, <3>1
  <2> QED BY <2>2, <2>3
<1> QED BY <1>4, <1>5, <1>6, <1>7, <1>9, <1>10 DEF Builder

\* In every state the caller's headers are in the message, and a sealed message is
\* the serialization of it.
THEOREM MessageInvariant == Spec => []MessageInv
<1>1. Init => MessageInv
  BY NewMessage DEF Init
<1>2. MessageInv /\ [Next]_vars => MessageInv'
  <2> SUFFICES ASSUME MessageInv, [Next]_vars PROVE MessageInv'
    OBVIOUS
  <2>1. CASE Builder /\ UNCHANGED leafVars
    BY <2>1, BuilderKeeps
  <2>2. CASE Prepare
    <3>1. phase = "build" /\ UNCHANGED <<msg, want>>
      BY <2>2 DEF Prepare, Seal
    <3>2. \/ /\ phase' = "ready" /\ wire' = Bytes(msg) /\ Serializable(msg)
          \/ /\ phase' = "refused" /\ wire' = wire
             /\ \/ ~EnsureValidity(msg) \/ ~Serializable(msg)
                \/ ~ValidEnvelope(EnvelopeFromMessage(msg))
      BY <2>2 DEF Prepare, Seal
    <3>3. Serializable(msg) => HeadersFit(msg)
      BY DEF Serializable
    <3>4. msg' = msg => /\ Bytes(msg') = Bytes(msg)
                        /\ HeadersFit(msg') = HeadersFit(msg)
                        /\ EnsureValidity(msg') = EnsureValidity(msg)
                        /\ ValidEnvelope(EnvelopeFromMessage(msg'))
                             = ValidEnvelope(EnvelopeFromMessage(msg))
                        /\ Serializable(msg') = Serializable(msg)
      OBVIOUS
    <3> QED BY <3>1, <3>2, <3>3, <3>4 DEF MessageInv, Phase
  <2>3. CASE SendmailRun \/ SesSend \/ DoSendSucceeds \/ DoSendFails
    <3>1. /\ UNCHANGED <<msg, want, wire>> /\ phase \in {"ready", "handed"}
          /\ phase' \in {"handed", "sent", "failed"}
      BY <2>3 DEF SendmailRun, SesSend, DoSendSucceeds, DoSendFails
    <3> QED BY <3>1 DEF MessageInv, Phase
  <2>4. CASE UNCHANGED vars
    BY <2>4 DEF vars, messageVars, leafVars, MessageInv
  <2> QED BY <2>1, <2>2, <2>3, <2>4 DEF Next
<1> QED BY <1>1, <1>2, PTL DEF Spec

------------------------------------------------------------------------------
(* What arrives.                                                           *)

\* A serialized message: a header line or a Content-Type line comes first.
WellFormed(lines) ==
    /\ lines = [k \in 1 .. Len(lines) |-> lines[k]] /\ Len(lines) \in Nat
    /\ \A k \in DOMAIN lines :
          lines[k].t = "line" => lines[k] \in BodyLine /\ k # 1

\* The lines of a sealed message are well-formed, and a reader who has them finds
\* its fields and its body.
LEMMA SealedLines ==
  ASSUME MessageInv, phase \in {"ready", "handed", "sent", "failed"}
  PROVE  /\ wire.fields = WriteHeaders(msg) /\ wire.body = WriteBody(msg)
         /\ WellFormed(Lines) /\ BodyLines(Lines) = wire.body
         /\ \A k \in 1 .. Len(wire.fields) : FieldLines(Lines, k) = wire.fields[k].lines
<1> DEFINE h == FlattenSeq(Blocks(wire.fields))
           b == wire.body
<1>1. msg \in MessageType /\ HeadersInv(msg.headers, want) /\ wire = Bytes(msg)
  BY DEF MessageInv
<1>2. wire.fields = WriteHeaders(msg) /\ b = WriteBody(msg)
  BY <1>1 DEF Bytes
<1>3. wire.fields \in Seq(WireField)
  BY <1>1, <1>2, WireFields
<1>4. b \in Seq(OtherLine) /\ b # <<>> /\ b[1].t = "type"
  <2>1. Delivers(WriteBody(msg), <<>>, PartsOf(msg))
    BY <1>1, BodyDelivers
  <2> QED BY <1>2, <2>1 DEF Delivers
<1>5. Lines = h \o b
  BY DEF Lines, Blocks, Block
<1>6. h \in Seq(FieldLine)
  BY <1>3, HeaderType
<1>7. /\ Lines \in Seq(FieldLine \cup OtherLine) /\ BodyLines(Lines) = b
      /\ \A k \in 1 .. Len(wire.fields) : FieldLines(Lines, k) = wire.fields[k].lines
  BY <1>3, <1>4, <1>5, LinesRead
<1> HIDE DEF h, b
<1>8. \A x \in FieldLine \cup OtherLine : x.t = "line" => x \in BodyLine
  BY DEF FieldLine, OtherLine
<1>9. Lines[1].t # "line"
  <2>1. CASE h = <<>>
    <3>1. Lines = b
      BY <1>4, <1>5, <2>1
    <3> QED BY <1>4, <3>1
  <2>2. CASE h # <<>>
    <3>1. h[1] \in FieldLine /\ Lines[1] = h[1]
      BY <1>4, <1>5, <1>6, <2>2
    <3> QED BY <3>1 DEF FieldLine
  <2> QED BY <2>1, <2>2
<1>10. WellFormed(Lines)
  <2> DEFINE l == Lines
  <2>1. l \in Seq(FieldLine \cup OtherLine) /\ l[1].t # "line"
    BY <1>7, <1>9
  <2> HIDE DEF l
  <2>2. /\ Len(l) \in Nat /\ DOMAIN l = 1 .. Len(l) /\ l = [k \in 1 .. Len(l) |-> l[k]]
        /\ \A k \in DOMAIN l : l[k] \in FieldLine \cup OtherLine
    BY <2>1
  <2>3. WellFormed(l)
    BY <1>8, <2>1, <2>2 DEF WellFormed
  <2> QED BY <2>3 DEF l
<1> QED BY <1>2, <1>7, <1>10 DEF b

\* The dots doSend adds to the input of sendmail are the ones the binary takes
\* away, and no line of the message ends the input: for every message.
THEOREM DotsCancelOut ==
  ASSUME NEW lines, WellFormed(lines)
  PROVE  Undot(Stuff(lines)) = lines
<1> DEFINE s == Stuff(lines)
           ends == {k \in DOMAIN s : LoneDot(s[k])}
           Undotted(k) == IF s[k].t = "line" /\ s[k].dots > 1
                          THEN [s[k] EXCEPT !.dots = @ - 1] ELSE s[k]
<1>1. DOMAIN lines = 1 .. Len(lines) /\ Len(lines) \in Nat
  BY DEF WellFormed
<1>2. DOMAIN s = 1 .. Len(lines) /\ Len(s) = Len(lines)
  BY <1>1 DEF Stuff
<1>3. ASSUME NEW k \in 1 .. Len(lines)
      PROVE  ~LoneDot(s[k]) /\ Undotted(k) = lines[k]
  <2>1. s[k] = IF k = 1 THEN lines[k] ELSE StuffLine(lines[k])
    BY <1>1 DEF Stuff
  <2>2. CASE lines[k].t # "line"
    <3>1. s[k] = lines[k]
      BY <2>1, <2>2 DEF StuffLine
    <3> QED BY <2>2, <3>1 DEF LoneDot
  <2>3. CASE lines[k].t = "line"
    <3>1. lines[k] \in BodyLine /\ k # 1
      BY <1>1, <2>3 DEF WellFormed
    <3>2. CASE lines[k].dots = 0
      <4>1. s[k] = lines[k]
        BY <2>1, <3>1, <3>2 DEF StuffLine
      <4> QED BY <3>2, <4>1 DEF LoneDot
    <3>3. CASE lines[k].dots # 0
      <4>1. lines[k].dots \in Nat /\ lines[k].dots > 0
        BY <3>1, <3>3 DEF BodyLine
      <4>2. s[k] = [lines[k] EXCEPT !.dots = @ + 1]
        BY <2>1, <2>3, <3>1, <4>1 DEF StuffLine
      <4>3. s[k].t = "line" /\ s[k].dots = lines[k].dots + 1
        BY <2>3, <3>1, <4>2 DEF BodyLine
      <4>4. [s[k] EXCEPT !.dots = @ - 1] = lines[k]
        <5>1. PICK d \in Nat, r \in BOOLEAN :
                 lines[k] = [t |-> "line", dots |-> d, rest |-> r]
          BY <3>1 DEF BodyLine
        <5>2. s[k] = [t |-> "line", dots |-> d + 1, rest |-> r]
          BY <4>2, <5>1
        <5>3. [s[k] EXCEPT !.dots = @ - 1] =
                 [t |-> "line", dots |-> (d + 1) - 1, rest |-> r]
          BY <5>2
        <5> QED BY <5>1, <5>3
      <4> QED BY <4>1, <4>3, <4>4 DEF LoneDot
    <3> QED BY <3>2, <3>3
  <2> QED BY <2>2, <2>3
<1>4. ends = {}
  BY <1>2, <1>3
<1>5. Undot(s) = [k \in 1 .. Len(s) |-> Undotted(k)]
  BY <1>4 DEF Undot
<1>6. Undot(s) = [k \in 1 .. Len(lines) |-> lines[k]]
  <2> HIDE DEF s, Undotted
  <2> QED BY <1>2, <1>3, <1>5
<1> QED BY <1>6 DEF WellFormed

\* The lines of the message arrive as they are.
LinesArrive == phase = "sent" => mail.lines = Lines

\* What is handed over is the message, with dots doubled only for a binary that
\* takes them away again.
InputInv ==
    /\ phase = "handed" =>
          input = IF via = "sendmail" /\ ~IgnoresDots(args) THEN Stuff(Lines)
                  ELSE Lines
    /\ LinesArrive

\* A message that sendmail or SES reports as taken was taken line by line, dots
\* at the beginning of lines included.
THEOREM MessageArrives == Spec => []LinesArrive
<1>1. Init => InputInv
  BY DEF Init, InitMessage, InputInv, LinesArrive
<1>2. MessageInv /\ InputInv /\ [Next]_vars => InputInv'
  <2> SUFFICES ASSUME MessageInv, InputInv, [Next]_vars PROVE InputInv'
    OBVIOUS
  <2>1. CASE (Builder /\ UNCHANGED leafVars) \/ Prepare
    <3>1. phase' \in {"build", "ready", "refused"}
      BY <2>1 DEF Builder, Build, SetAddresses, SetSubject, SetText, SetHTML, Attach,
         SetHeader, RemoveHeader, Prepare, Seal
    <3> QED BY <3>1 DEF InputInv, LinesArrive
  <2>2. CASE SendmailRun
    <3>1. \/ phase' = "failed"
          \/ /\ phase' = "handed" /\ via' = "sendmail" /\ wire' = wire
             /\ input' = IF IgnoresDots(args') THEN Lines ELSE Stuff(Lines)
      BY <2>2 DEF SendmailRun
    <3>2. wire' = wire => Lines' = Lines
      BY DEF Lines
    <3> QED BY <3>1, <3>2 DEF InputInv, LinesArrive
  <2>3. CASE SesSend
    <3>1. \/ phase' = "failed"
          \/ phase' = "handed" /\ via' = "ses" /\ wire' = wire /\ input' = Lines
      BY <2>3 DEF SesSend
    <3>2. wire' = wire => Lines' = Lines
      BY DEF Lines
    <3> QED BY <3>1, <3>2 DEF InputInv, LinesArrive
  <2>4. CASE DoSendSucceeds
    <3>1. phase = "handed" /\ phase' = "sent" /\ mail' = Taken /\ wire' = wire
      BY <2>4 DEF DoSendSucceeds
    <3>2. Lines' = Lines
      BY <3>1 DEF Lines
    <3>3. Undot(Stuff(Lines)) = Lines
      BY <3>1, SealedLines, DotsCancelOut
    <3>4. mail'.lines = IF via = "sendmail" /\ ~IgnoresDots(args)
                        THEN Undot(input) ELSE input
      BY <3>1 DEF Taken, TakenBySendmail
    <3>5. mail'.lines = Lines
      BY <3>1, <3>3, <3>4 DEF InputInv
    <3> QED BY <3>1, <3>2, <3>5 DEF InputInv, LinesArrive
  <2>5. CASE DoSendFails
    BY <2>5 DEF DoSendFails, InputInv, LinesArrive
  <2>6. CASE UNCHANGED vars
    BY <2>6 DEF vars, messageVars, leafVars, InputInv, LinesArrive, Lines
  <2> QED BY <2>1, <2>2, <2>3, <2>4, <2>5, <2>6 DEF Next
<1>3. InputInv => LinesArrive
  BY DEF InputInv
<1> QED BY <1>1, <1>2, <1>3, MessageInvariant, PTL DEF Spec

\* The header a reader finds in what was taken is the one the caller has set:
\* every custom header once with its last value, under any spelling, folded or
\* encoded as its length demands, and no Bcc.
THEOREM HeaderIsRead == Spec => []HeaderArrives
<1>1. MessageInv /\ LinesArrive => HeaderArrives
  <2> SUFFICES ASSUME MessageInv, LinesArrive, phase = "sent" PROVE HeaderArrives
    BY DEF HeaderArrives
  <2>1. msg \in MessageType /\ HeadersInv(msg.headers, want) /\ HeadersFit(msg)
    BY DEF MessageInv
  <2>2. mail.lines = Lines
    BY DEF LinesArrive
  <2>3. /\ wire.fields = WriteHeaders(msg)
        /\ \A k \in 1 .. Len(wire.fields) : FieldLines(mail.lines, k) = wire.fields[k].lines
    BY <2>2, SealedLines
  <2> QED BY <2>1, <2>3, HeaderRead DEF HeaderArrives
<1> QED BY <1>1, MessageInvariant, MessageArrives, PTL

\* A reader of what was taken finds every part of the message, whole, in its place
\* and in order, and every container closed: for any bodies and attachments.
THEOREM PartsAreRead == Spec => []PartsArrive
<1>1. MessageInv /\ LinesArrive => PartsArrive
  <2> SUFFICES ASSUME MessageInv, LinesArrive, phase = "sent" PROVE PartsArrive
    BY DEF PartsArrive
  <2>1. msg \in MessageType
    BY DEF MessageInv
  <2>2. BodyLines(mail.lines) = WriteBody(msg)
    BY SealedLines DEF LinesArrive
  <2> QED BY <2>1, <2>2, BodyRead DEF PartsArrive
<1> QED BY <1>1, MessageInvariant, MessageArrives, PTL

\* No line of the header is longer than RFC 5322 allows, and foldHeaderLine
\* refuses a field only if its name and white space leave no room.
THEOREM LinesAreShort == Spec => []LineLimitKept
<1>1. MessageInv => LineLimitKept
  <2> SUFFICES ASSUME MessageInv PROVE LineLimitKept
    OBVIOUS
  <2> DEFINE F == Fields(msg)
             n == Len(F)
  <2>1. msg \in MessageType /\ HeadersInv(msg.headers, want) /\ phase \in Phase
    BY DEF MessageInv
  <2>2. /\ DOMAIN WriteHeaders(msg) = 1 .. n /\ DOMAIN F = 1 .. n
        /\ WriteHeaders(msg) \in Seq(WireField)
        /\ \A k \in 1 .. n : /\ F[k] \in FieldToWrite
                             /\ WriteHeaders(msg)[k].name = F[k].name
                             /\ WriteHeaders(msg)[k].lines = FoldedField(F[k]).lines
    BY <2>1, WireFields
  <2>3. ASSUME NEW k \in DOMAIN wire.fields, NEW j \in DOMAIN wire.fields[k].lines
        PROVE  \/ Octets(wire.fields[k].lines[j])
                     + (IF j = 1 THEN wire.fields[k].name.prefix ELSE 0) <= HardLimit
               \/ wire.fields[k].lines = << <<>> >>
    <3>1. phase \in {"ready", "handed", "sent", "failed"}
      <4>1. ASSUME phase \in {"build", "refused"} PROVE FALSE
        <5>1. wire.fields = <<>>
          BY <4>1 DEF MessageInv, NoWire
        <5> QED BY <2>3, <5>1
      <4> QED BY <2>1, <4>1 DEF Phase
    <3>2. wire.fields = WriteHeaders(msg) /\ HeadersFit(msg)
      BY <3>1, SealedLines DEF MessageInv
    <3> HIDE DEF F, n
    <3>3. /\ k \in 1 .. n /\ F[k] \in FieldToWrite
          /\ wire.fields[k].name = F[k].name
          /\ wire.fields[k].lines = FoldedField(F[k]).lines
      BY <2>2, <3>2
    <3>4. FoldedField(F[k]).ok
      BY <2>2, <3>2, <3>3 DEF HeadersFit, F
    <3>5. /\ FoldedField(F[k]).lines \in Seq(Seq(Word))
          /\ \/ FoldedField(F[k]).lines = << <<>> >>
             \/ \A i \in 1 .. Len(FoldedField(F[k]).lines) :
                   LineOctets(F[k].name.prefix, FoldedField(F[k]).lines, i) <= HardLimit
      BY <3>3, <3>4, FieldIsWritten
    <3>6. DOMAIN FoldedField(F[k]).lines = 1 .. Len(FoldedField(F[k]).lines)
      BY <3>5
    <3> QED BY <3>3, <3>5, <3>6 DEF LineOctets
  <2>4. ASSUME phase = "refused", EnsureValidity(msg), AddressLength < TokenLimit,
               ValidEnvelope(EnvelopeFromMessage(msg)),
               \A k \in DOMAIN msg.attachments : ~Broken(msg.attachments[k])
        PROVE  \E k \in DOMAIN F : NoRoom(F[k])
    <3>1. ~HeadersFit(msg)
      BY <2>4 DEF MessageInv, Serializable
    <3>2. PICK k \in DOMAIN F : ~FoldedField(F[k]).ok
      BY <3>1 DEF HeadersFit
    <3>3. NoRoom(F[k])
      BY <2>2, <2>4, <3>2, FieldIsWritten
    <3> QED BY <3>2, <3>3
  <2>5. AddressLength < TokenLimit \/ AddressLength >= TokenLimit
    BY CallsAssumption DEF TokenLimit
  <2> QED BY <2>3, <2>4, <2>5 DEF LineLimitKept
<1> QED BY <1>1, MessageInvariant, PTL
==============================================================================
