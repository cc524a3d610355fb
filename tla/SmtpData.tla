------------------------------ MODULE SmtpData -------------------------------
(***************************************************************************)
(* The DATA stream of src/transport/smtp/smtp.go: normalizeCRLF, dotStuff, *)
(* the choice of the terminator in doSend, and a server that reads the     *)
(* stream line by line.  The loops run one iteration per step.             *)
(***************************************************************************)
EXTENDS Naturals, Sequences, SequencesExt

CONSTANT MaxLength      \* longest message considered

ASSUME LengthAssumption == MaxLength \in Nat

\* Bytes the code tells apart, and any other.
Byte == {"CR", "LF", "DOT", "x"}
CRLF == <<"CR", "LF">>

VARIABLES
    data,       \* sm.Bytes()
    phase,      \* "normalize", "stuff", "terminate", "sent"
    i,          \* loop variable: bytes of the input consumed so far
    buf,        \* input of the loop that runs: data, then its normal form
    out,        \* output of the loop; in the end the bytes on the wire
    read,       \* bytes the server has read
    line,       \* the line it is reading
    mail,       \* the text it has received
    over        \* it has seen the end of the data

clientVars == <<data, phase, i, buf, out>>
serverVars == <<read, line, mail, over>>
vars == <<clientVars, serverVars>>

Init ==
    /\ data \in UNION {[1 .. n -> Byte] : n \in 0 .. MaxLength}
    /\ phase = "normalize" /\ i = 0 /\ buf = data /\ out = <<>>
    /\ read = 0 /\ line = <<>> /\ mail = <<>> /\ over = FALSE

\* The byte at offset k of the input, if there is one.
At(k, b) == k < Len(buf) /\ buf[k + 1] = b

\* Mutation: the LF after a CR is not skipped.
NormalizeKeepsLF ==
    /\ phase = "normalize" /\ i < Len(buf)
    /\ out' = out \o IF At(i, "CR") \/ At(i, "LF") THEN CRLF ELSE <<buf[i + 1]>>
    /\ i' = i + 1
    /\ UNCHANGED <<data, phase, buf, serverVars>>

\* normalizeCRLF: CR, LF and CRLF become CRLF.
Normalize ==
    /\ phase = "normalize" /\ i < Len(buf)
    /\ out' = out \o IF At(i, "CR") \/ At(i, "LF") THEN CRLF ELSE <<buf[i + 1]>>
    /\ i' = i + IF At(i, "CR") /\ At(i + 1, "LF") THEN 2 ELSE 1
    /\ UNCHANGED <<data, phase, buf, serverVars>>

\* dotStuff: the beginning of the stream is a line boundary.
BeforeFirst == IF out # <<>> /\ out[1] = "DOT" THEN <<"DOT">> ELSE <<>>

BeginStuff ==
    /\ phase = "normalize" /\ i = Len(buf)
    /\ phase' = "stuff" /\ i' = 0
    /\ buf' = out /\ out' = BeforeFirst
    /\ UNCHANGED <<data, serverVars>>

\* dotStuff: a dot after CRLF is doubled.
Stuff ==
    /\ phase = "stuff" /\ i < Len(buf)
    /\ out' = out \o <<buf[i + 1]>>
                  \o IF /\ i >= 1 /\ At(i, "LF") /\ At(i - 1, "CR")
                        /\ At(i + 1, "DOT")
                     THEN <<"DOT">> ELSE <<>>
    /\ i' = i + 1
    /\ UNCHANGED <<data, phase, buf, serverVars>>

EndStuff ==
    /\ phase = "stuff" /\ i = Len(buf)
    /\ phase' = "terminate"
    /\ UNCHANGED <<data, i, buf, out, serverVars>>

\* Mutation: the message is taken to end in CRLF.
DotTerminator == <<"DOT">> \o CRLF

\* doSend's terminator.
Terminator ==
    (IF IsSuffix(CRLF, out) THEN <<>> ELSE CRLF) \o <<"DOT">> \o CRLF

Terminate ==
    /\ phase = "terminate"
    /\ phase' = "sent" /\ out' = out \o Terminator
    /\ UNCHANGED <<data, i, buf, serverVars>>

\* EXTERNAL: the server reads a byte.  A line that is a single dot ends the
\* data; a dot at the beginning of any other line is dropped.
Receive ==
    /\ phase = "sent" /\ ~over /\ read < Len(out)
    /\ read' = read + 1
    /\ LET l == Append(line, out[read + 1]) IN
       \/ ~IsSuffix(CRLF, l) /\ line' = l /\ UNCHANGED <<mail, over>>
       \/ /\ IsSuffix(CRLF, l) /\ line' = <<>>
          /\ over' = (l = <<"DOT">> \o CRLF)
          /\ mail' = IF over' THEN mail
                     ELSE mail \o IF l[1] = "DOT" THEN Tail(l) ELSE l
    /\ UNCHANGED clientVars

Encode == Normalize \/ BeginStuff \/ Stuff \/ EndStuff \/ Terminate

Next == Encode \/ Receive

------------------------------------------------------------------------------

\* The text of the message as a server should see it: one CRLF for each line
\* break of data, whichever way it is written, and one at the end.
Text ==
    LET Break(k) == data[k] = "CR"
                    \/ (data[k] = "LF" /\ ~(k > 1 /\ data[k - 1] = "CR"))
        Piece(k) == IF Break(k) THEN CRLF
                    ELSE IF data[k] = "LF" THEN <<>> ELSE <<data[k]>>
        Body == FlattenSeq([k \in 1 .. Len(data) |-> Piece(k)])
    IN  IF data # <<>> /\ data[Len(data)] \in {"CR", "LF"} THEN Body
        ELSE Body \o CRLF

\* The server has received the text of the message, wherever its dots and line
\* breaks are, and sees the end of the data at the terminator and nowhere else:
\* stuffing and unstuffing cancel out and no byte of the message is a command.
Intact == over => mail = Text /\ read = Len(out)
==============================================================================
