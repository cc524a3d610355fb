---------------------------- MODULE SmtpExchange -----------------------------
(***************************************************************************)
(* The other direction of the connection: execute and readResponse of      *)
(* src/transport/smtp/smtp.go.  The end of the data is the first command;  *)
(* the server answers it, and the commands after it, in replies of one or  *)
(* more lines, late, in part or not at all.                                *)
(***************************************************************************)
EXTENDS SmtpData

CONSTANTS
    MaxCommands,    \* commands, the end of the data included
    MaxLines,       \* lines of a reply the server may write
    Capacity        \* lines of a reply that fit into maxResponseSize

ASSUME ExchangeAssumption ==
    /\ MaxCommands \in Nat /\ MaxLines \in Nat /\ Capacity \in Nat

VARIABLES
    issued,     \* the number of the command written last
    reading,    \* its execute is in readResponse
    resp,       \* lines read so far
    got,        \* what the last execute returned: lines, or <<>> for an error
    conn,       \* "up", "cut" (dead, not yet noticed) or "none"
    stream,     \* lines on their way
    owed        \* commands the server has yet to answer, and its next line

exchangeVars == <<issued, reading, resp, got, conn, stream, owed>>
allVars == <<vars, exchangeVars>>

InitExchange ==
    /\ Init
    /\ issued = 1 /\ reading = TRUE /\ resp = <<>> /\ got = <<>>
    /\ conn = "up" /\ stream = <<>> /\ owed = << [cmd |-> 1, line |-> 1] >>

------------------------------------------------------------------------------
(* EXTERNAL: the server and the network.                                   *)

\* A line of the reply to a command: the fourth octet of its last line is not
\* "-"; a line without its end is not whole.
Line(cmd, n, last, whole) == [cmd |-> cmd, n |-> n, last |-> last, whole |-> whole]

\* The server writes a line of the reply it owes; it writes nothing unasked.
Answer ==
    /\ over /\ conn = "up" /\ owed # <<>>
    /\ LET o == Head(owed) IN \E last \in BOOLEAN :
       /\ last \/ o.line < MaxLines
       /\ stream' = Append(stream, Line(o.cmd, o.line, last, TRUE))
       /\ owed' = IF last THEN Tail(owed)
                  ELSE [owed EXCEPT ![1].line = @ + 1]
    /\ UNCHANGED <<vars, issued, reading, resp, got, conn>>

\* The connection dies, in the middle of a line or between lines.
Cut ==
    /\ over /\ conn = "up" /\ conn' = "cut"
    /\ \/ UNCHANGED stream
       \/ /\ owed # <<>>
          /\ stream' = Append(stream, Line(Head(owed).cmd, Head(owed).line, TRUE, FALSE))
    /\ UNCHANGED <<vars, issued, reading, resp, got, owed>>

------------------------------------------------------------------------------
(* The client.                                                             *)

\* Mutation: the connection is kept.
KeepConnection == UNCHANGED <<conn, stream, owed>>

\* terminate, as far as the streams go.
DropStreams == conn' = "none" /\ stream' = <<>> /\ owed' = <<>>

\* execute returns an error.
Fail ==
    /\ reading' = FALSE /\ resp' = <<>> /\ got' = <<>>
    /\ DropStreams

\* readResponse: one line; it goes on after a continuation line.
ReadLine ==
    /\ over /\ reading /\ stream # <<>> /\ Head(stream).whole
    /\ LET l == Head(stream)
           all == Append(resp, l)
       IN  IF Len(all) > Capacity THEN Fail
           ELSE /\ stream' = Tail(stream)
                /\ reading' = ~l.last
                /\ resp' = IF l.last THEN <<>> ELSE all
                /\ got' = IF l.last THEN all ELSE got
                /\ UNCHANGED <<conn, owed>>
    /\ UNCHANGED <<vars, issued>>

\* readResponse: a timeout, the end of the stream, or a line without its end.
ReadFails ==
    /\ over /\ reading
    /\ stream # <<>> => ~Head(stream).whole
    /\ Fail
    /\ UNCHANGED <<vars, issued>>

Written ==
    /\ reading' = TRUE /\ resp' = <<>> /\ UNCHANGED got
    /\ owed' = Append(IF conn = "none" THEN <<>> ELSE owed,
                      [cmd |-> issued + 1, line |-> 1])

\* execute writes the next command, on the new connection start may have opened
\* when there was none; without one it fails, and on a dead one the write may
\* fail or only seem to succeed.
Execute ==
    /\ over /\ ~reading /\ issued < MaxCommands
    /\ issued' = issued + 1
    /\ \/ Written /\ conn' = (IF conn = "none" THEN "up" ELSE conn) /\ UNCHANGED stream
       \/ conn # "up" /\ Fail
    /\ UNCHANGED vars

Exchange == Answer \/ Cut \/ ReadLine \/ ReadFails \/ Execute

NextExchange == (Next /\ UNCHANGED exchangeVars) \/ Exchange

\* The loops run, the server reads, and a read times out.
SpecExchange ==
    InitExchange /\ [][NextExchange]_allVars
    /\ WF_vars(Next) /\ WF_allVars(ReadLine \/ ReadFails)

------------------------------------------------------------------------------

\* Replies stay in step with commands although they may be late, cut short or
\* too long: what execute returns is the whole reply to the command it wrote,
\* and between commands nothing is left on a connection for the next one.
InStep ==
    ~reading =>
       /\ got # <<>> =>
             /\ \A k \in DOMAIN got : got[k].cmd = issued /\ got[k].n = k /\ got[k].whole
             /\ got[Len(got)].last
       /\ conn # "none" => stream = <<>> /\ owed = <<>>

\* The server sees the end of the data and doSend's wait for the reply ends:
\* neither side waits for the other for ever.
DataIsAnswered == <>(over /\ ~reading)
==============================================================================
