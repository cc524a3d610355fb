-------------------------- MODULE SmtpExchangeProofs --------------------------
(***************************************************************************)
(* Proofs about SmtpData and SmtpExchange: for messages of any length, any *)
(* number of commands, any length of replies and any limit on what         *)
(* readResponse collects.                                                  *)
(***************************************************************************)
EXTENDS SmtpExchange, SequenceTheorems, WellFoundedInduction, TLAPS

------------------------------------------------------------------------------
(* Replies and commands.                                                   *)

Lines == [cmd : Nat, n : Nat, last : BOOLEAN, whole : BOOLEAN]
Debts == [cmd : Nat, line : Nat]

TypeExchange ==
    /\ issued \in Nat /\ reading \in BOOLEAN
    /\ resp \in Seq(Lines) /\ got \in Seq(Lines) /\ stream \in Seq(Lines)
    /\ conn \in {"up", "cut", "none"}
    /\ owed \in Seq(Debts)

\* What readResponse has collected is the beginning of a reply to the command
\* that execute has written.
RespInv ==
    \A k \in 1 .. Len(resp) :
       resp[k].cmd = issued /\ resp[k].n = k /\ resp[k].whole /\ ~resp[k].last

\* What is on its way continues it; only its last line may end the reply, or be
\* cut short.
StreamInv ==
    \A k \in 1 .. Len(stream) :
       /\ stream[k].cmd = issued /\ stream[k].n = Len(resp) + k
       /\ k < Len(stream) => stream[k].whole /\ ~stream[k].last
       /\ ~stream[k].whole => conn = "cut"

\* The server owes the rest of this reply, or the stream has its end.
OwedInv ==
    IF owed = <<>>
    THEN stream # <<>> /\ stream[Len(stream)].last /\ stream[Len(stream)].whole
    ELSE /\ Len(owed) = 1 /\ owed[1].cmd = issued
         /\ \A k \in 1 .. Len(stream) : ~(stream[k].last /\ stream[k].whole)
         /\ conn = "up" => owed[1].line = Len(resp) + Len(stream) + 1

ExchangeInv ==
    /\ InStep
    /\ reading => conn # "none" /\ RespInv /\ StreamInv /\ OwedInv
    /\ ~reading => resp = <<>>
    /\ conn = "none" => stream = <<>> /\ owed = <<>>

\* The first line of a stream, and what is left without it.
LEMMA HeadOf ==
  ASSUME NEW S, NEW s \in Seq(S), s # <<>>
  PROVE  /\ Head(s) = s[1] /\ s[1] \in S /\ Len(s) \in Nat /\ Len(s) > 0
         /\ Tail(s) \in Seq(S) /\ Len(Tail(s)) = Len(s) - 1
         /\ \A k \in 1 .. Len(s) - 1 : Tail(s)[k] = s[k + 1]
<1>1. Head(s) = s[1] /\ Len(s) \in Nat /\ Len(s) > 0
  OBVIOUS
<1> QED BY <1>1, HeadTailProperties

\* The lines of a stream with one more at its end.
LEMMA AppendOf ==
  ASSUME NEW S, NEW s \in Seq(S), NEW e \in S
  PROVE  /\ Append(s, e) \in Seq(S) /\ Len(Append(s, e)) = Len(s) + 1
         /\ Len(s) \in Nat /\ Append(s, e)[Len(s) + 1] = e
         /\ \A k \in 1 .. Len(s) : Append(s, e)[k] = s[k]
         /\ Append(s, e) # <<>>
OBVIOUS

\* A line the server writes for what it owes.
LEMMA LineType ==
  ASSUME NEW o \in Debts, NEW last \in BOOLEAN, NEW whole \in BOOLEAN
  PROVE  /\ Line(o.cmd, o.line, last, whole) \in Lines
         /\ Line(o.cmd, o.line, last, whole).cmd = o.cmd
         /\ Line(o.cmd, o.line, last, whole).n = o.line
         /\ Line(o.cmd, o.line, last, whole).last = last
         /\ Line(o.cmd, o.line, last, whole).whole = whole
BY DEF Line, Lines, Debts

\* The debt for the next line of a reply, and for a command just written.
LEMMA DebtType ==
  /\ \A c \in Nat : [cmd |-> c, line |-> 1] \in Debts
  /\ \A o \in Debts : [o EXCEPT !.line = @ + 1] \in Debts
                      /\ [o EXCEPT !.line = @ + 1].cmd = o.cmd
                      /\ [o EXCEPT !.line = @ + 1].line = o.line + 1
BY DEF Debts

\* What the server writes: the line of its first debt, which it then has paid or
\* goes on with.
LEMMA AnswerStep ==
  ASSUME TypeExchange, Answer
  PROVE  \E last \in BOOLEAN, l \in Lines :
            /\ stream' = Append(stream, l)
            /\ l.cmd = owed[1].cmd /\ l.n = owed[1].line
            /\ l.last = last /\ l.whole = TRUE
            /\ owed # <<>> /\ owed' \in Seq(Debts)
            /\ last => owed' = Tail(owed)
            /\ ~last => /\ Len(owed') = Len(owed)
                        /\ owed'[1].cmd = owed[1].cmd
                        /\ owed'[1].line = owed[1].line + 1
<1>1. PICK last \in BOOLEAN :
         /\ stream' = Append(stream, Line(Head(owed).cmd, Head(owed).line, last, TRUE))
         /\ owed' = IF last THEN Tail(owed) ELSE [owed EXCEPT ![1].line = @ + 1]
  BY DEF Answer
<1>2. owed # <<>> /\ owed \in Seq(Debts)
  BY DEF Answer, TypeExchange
<1>3. Head(owed) = owed[1] /\ owed[1] \in Debts /\ Tail(owed) \in Seq(Debts)
      /\ Len(owed) \in Nat /\ Len(owed) > 0
  BY <1>2, HeadOf
<1>4. ASSUME ~last
      PROVE  /\ owed' \in Seq(Debts) /\ Len(owed') = Len(owed)
             /\ owed'[1].cmd = owed[1].cmd
             /\ owed'[1].line = owed[1].line + 1
  <2>1. owed' = [owed EXCEPT ![1] = [owed[1] EXCEPT !.line = @ + 1]]
    BY <1>1, <1>4
  <2>2. [owed[1] EXCEPT !.line = @ + 1] \in Debts
    BY <1>3, DebtType
  <2>3. 1 \in 1 .. Len(owed)
    BY <1>3
  <2>4. /\ owed' \in Seq(Debts) /\ Len(owed') = Len(owed)
        /\ owed'[1] = [owed[1] EXCEPT !.line = @ + 1]
    BY <1>2, <2>1, <2>2, <2>3, ExceptSeq
  <2> QED BY <1>3, <2>4, DebtType
<1> DEFINE l == Line(owed[1].cmd, owed[1].line, last, TRUE)
<1>5. /\ l \in Lines /\ l.cmd = owed[1].cmd /\ l.n = owed[1].line
      /\ l.last = last /\ l.whole = TRUE
  BY <1>3, LineType
<1>6. stream' = Append(stream, l)
  BY <1>1, <1>3
<1>7. last => owed' = Tail(owed) /\ owed' \in Seq(Debts)
  BY <1>1, <1>3
<1> HIDE DEF l
<1> QED
  BY <1>2, <1>4, <1>5, <1>6, <1>7

\* A connection dies between two lines, or in the middle of the line of the first
\* debt.
LEMMA CutStep ==
  ASSUME TypeExchange, Cut
  PROVE  \/ stream' = stream
         \/ \E l \in Lines :
               /\ owed # <<>> /\ stream' = Append(stream, l)
               /\ l.cmd = owed[1].cmd /\ l.n = owed[1].line
               /\ l.last = TRUE /\ l.whole = FALSE
<1>1. CASE stream' = stream
  BY <1>1
<1>2. CASE owed # <<>> /\ stream' = Append(stream,
              Line(Head(owed).cmd, Head(owed).line, TRUE, FALSE))
  <2>1. Head(owed) = owed[1] /\ owed[1] \in Debts
    BY <1>2, HeadOf DEF TypeExchange
  <2>2. Line(Head(owed).cmd, Head(owed).line, TRUE, FALSE) \in Lines
    BY <2>1, LineType
  <2> QED BY <1>2, <2>1, <2>2, LineType
<1> QED BY <1>1, <1>2 DEF Cut

\* readResponse takes the first line: too much for it, the end of a reply, or
\* one more line of it.
LEMMA ReadLineStep ==
  ASSUME TypeExchange, ReadLine
  PROVE  /\ stream # <<>> /\ stream[1] \in Lines /\ stream[1].whole /\ reading
         /\ issued' = issued
         /\ \/ Fail
            \/ /\ stream' = Tail(stream) /\ conn' = conn /\ owed' = owed
               /\ \/ /\ stream[1].last /\ reading' = FALSE /\ resp' = <<>>
                     /\ got' = Append(resp, stream[1])
                  \/ /\ ~stream[1].last /\ reading' = TRUE
                     /\ resp' = Append(resp, stream[1]) /\ got' = got
<1>1. stream # <<>> /\ Head(stream) = stream[1] /\ stream[1] \in Lines
  BY HeadOf DEF ReadLine, TypeExchange
<1>2. stream[1].last \in BOOLEAN
  BY <1>1 DEF Lines
<1> QED BY <1>1, <1>2 DEF ReadLine

\* The variables of the exchange keep their types.
THEOREM ExchangeTypeCorrect == SpecExchange => []TypeExchange
<1> USE ExchangeAssumption
<1>1. InitExchange => TypeExchange
  <2> SUFFICES ASSUME InitExchange PROVE TypeExchange
    OBVIOUS
  <2>1. owed \in Seq(Debts)
    BY DebtType DEF InitExchange
  <2> QED BY <2>1 DEF InitExchange, TypeExchange
<1>2. TypeExchange /\ [NextExchange]_allVars => TypeExchange'
  <2> SUFFICES ASSUME TypeExchange, [NextExchange]_allVars
               PROVE  TypeExchange'
    OBVIOUS
  <2>fail. ASSUME Fail, issued' \in Nat
           PROVE  TypeExchange'
    BY <2>fail, EmptySeq DEF Fail, DropStreams, TypeExchange
  <2>1. CASE Answer
    <3>1. stream' \in Seq(Lines) /\ owed' \in Seq(Debts)
      <4>1. PICK l \in Lines : stream' = Append(stream, l) /\ owed' \in Seq(Debts)
        BY <2>1, AnswerStep
      <4> QED BY <4>1, AppendOf DEF TypeExchange
    <3> QED BY <2>1, <3>1 DEF Answer, TypeExchange
  <2>2. CASE Cut
    <3>1. stream \in Seq(Lines)
      BY DEF TypeExchange
    <3>2. stream' \in Seq(Lines)
      <4>1. CASE stream' = stream
        BY <3>1, <4>1
      <4>2. CASE \E l \in Lines : stream' = Append(stream, l)
        BY <3>1, <4>2, AppendOf
      <4>3. stream' = stream \/ \E l \in Lines : stream' = Append(stream, l)
        BY <2>2, CutStep
      <4> QED BY <4>1, <4>2, <4>3
    <3> QED BY <2>2, <3>2 DEF Cut, TypeExchange
  <2>3. CASE ReadLine
    <3>1. CASE Fail
      BY <2>3, <2>fail, <3>1, ReadLineStep DEF TypeExchange
    <3>2. CASE ~Fail
      <4>1. Append(resp, stream[1]) \in Seq(Lines) /\ Tail(stream) \in Seq(Lines)
        BY <2>3, ReadLineStep, AppendOf, HeadOf DEF TypeExchange
      <4>2. /\ stream' \in Seq(Lines) /\ resp' \in Seq(Lines) /\ got' \in Seq(Lines)
            /\ reading' \in BOOLEAN
        BY <2>3, <3>2, <4>1, ReadLineStep, EmptySeq DEF TypeExchange
      <4>3. UNCHANGED <<issued, conn, owed>>
        BY <2>3, <3>2, ReadLineStep
      <4> QED BY <4>2, <4>3 DEF TypeExchange
    <3> QED BY <3>1, <3>2
  <2>4. CASE ReadFails
    BY <2>4, <2>fail DEF ReadFails, TypeExchange
  <2>5. CASE Execute
    <3>1. CASE Fail
      BY <2>5, <2>fail, <3>1 DEF Execute, TypeExchange
    <3>2. CASE Written /\ conn' = (IF conn = "none" THEN "up" ELSE conn)
               /\ UNCHANGED stream
      <4>1. issued' \in Nat /\ [cmd |-> issued + 1, line |-> 1] \in Debts
        <5>1. issued' = issued + 1 /\ issued + 1 \in Nat
          BY <2>5 DEF Execute, TypeExchange
        <5> QED BY <5>1, DebtType
      <4>2. owed' \in Seq(Debts)
        BY <3>2, <4>1, AppendOf, EmptySeq DEF Written, TypeExchange
      <4> QED BY <3>2, <4>1, <4>2 DEF Written, TypeExchange
    <3> QED BY <2>5, <3>1, <3>2 DEF Execute
  <2>6. CASE UNCHANGED exchangeVars
    BY <2>6 DEF exchangeVars, TypeExchange
  <2> QED
    BY <2>1, <2>2, <2>3, <2>4, <2>5, <2>6 DEF NextExchange, Exchange, allVars
<1> QED BY <1>1, <1>2, PTL DEF SpecExchange

\* Late, partial, overlong and missing replies keep the invariant: what execute
\* returns is the whole reply to its command, and what a failed command leaves on
\* its connection is gone with the connection.
THEOREM ExchangeInvariant == SpecExchange => []ExchangeInv
<1>1. InitExchange => ExchangeInv
  BY DEF InitExchange, ExchangeInv, InStep, RespInv, StreamInv, OwedInv
<1>2. ExchangeInv /\ TypeExchange /\ TypeExchange' /\ [NextExchange]_allVars
         => ExchangeInv'
  <2> SUFFICES ASSUME ExchangeInv, TypeExchange, TypeExchange',
                      [NextExchange]_allVars
               PROVE  ExchangeInv'
    OBVIOUS
  <2>fail. ASSUME Fail PROVE ExchangeInv'
    BY <2>fail DEF Fail, DropStreams, ExchangeInv, InStep
  <2>1. CASE Answer
    <3>1. PICK last \in BOOLEAN, l \in Lines :
            /\ stream' = Append(stream, l)
            /\ l.cmd = owed[1].cmd /\ l.n = owed[1].line
            /\ l.last = last /\ l.whole = TRUE
            /\ owed # <<>> /\ owed' \in Seq(Debts)
            /\ last => owed' = Tail(owed)
            /\ ~last => /\ Len(owed') = Len(owed)
                        /\ owed'[1].cmd = owed[1].cmd
                        /\ owed'[1].line = owed[1].line + 1
      BY <2>1, AnswerStep
    <3>2. UNCHANGED <<issued, reading, resp, got, conn>> /\ conn = "up"
      BY <2>1 DEF Answer
    <3>3. reading
      BY <3>1, <3>2 DEF ExchangeInv, InStep
    <3>4. /\ Len(owed) = 1 /\ owed[1].cmd = issued
          /\ owed[1].line = Len(resp) + Len(stream) + 1
      BY <3>1, <3>2, <3>3 DEF ExchangeInv, OwedInv
    <3>5. \A k \in 1 .. Len(stream) : stream[k].whole /\ ~stream[k].last
      BY <3>1, <3>2, <3>3 DEF ExchangeInv, OwedInv, StreamInv
    <3>6. /\ Len(stream') = Len(stream) + 1 /\ Len(stream) \in Nat
          /\ stream'[Len(stream) + 1] = l /\ stream' # <<>>
          /\ \A k \in 1 .. Len(stream) : stream'[k] = stream[k]
      <4>1. stream \in Seq(Lines) /\ stream' = Append(stream, l)
        BY <3>1 DEF TypeExchange
      <4> QED BY <4>1, AppendOf
    <3>7. Len(resp) \in Nat
      BY DEF TypeExchange
    <3>8. StreamInv'
      <4> SUFFICES ASSUME NEW k \in 1 .. Len(stream')
                   PROVE  /\ stream'[k].cmd = issued /\ stream'[k].n = Len(resp) + k
                          /\ k < Len(stream') => stream'[k].whole /\ ~stream'[k].last
                          /\ stream'[k].whole
        BY <3>2 DEF StreamInv
      <4>1. CASE k \in 1 .. Len(stream)
        BY <3>3, <3>5, <3>6, <4>1 DEF ExchangeInv, StreamInv
      <4>2. CASE k = Len(stream) + 1
        BY <3>1, <3>4, <3>6, <3>7, <4>2
      <4> QED BY <3>6, <4>1, <4>2
    <3>9. OwedInv'
      <4>1. CASE last
        <5>1. owed' = <<>>
          <6>1. owed \in Seq(Debts) /\ owed # <<>> /\ owed' = Tail(owed)
            BY <3>1, <4>1 DEF TypeExchange
          <6>2. Len(owed') = 0
            BY <3>4, <6>1, HeadOf
          <6> QED BY <3>1, <6>2, EmptySeq
        <5> QED BY <3>1, <3>6, <4>1, <5>1 DEF OwedInv
      <4>2. CASE ~last
        <5>1. owed' # <<>> /\ Len(owed') = 1 /\ owed'[1].cmd = issued
              /\ owed'[1].line = Len(resp) + Len(stream') + 1
          BY <3>1, <3>4, <3>6, <3>7, <4>2, EmptySeq
        <5>2. \A k \in 1 .. Len(stream') : ~stream'[k].last
          BY <3>1, <3>5, <3>6, <4>2
        <5> QED BY <3>2, <5>1, <5>2 DEF OwedInv
      <4> QED BY <4>1, <4>2
    <3> QED BY <3>2, <3>3, <3>8, <3>9 DEF ExchangeInv, InStep, RespInv
  <2>2. CASE Cut
    <3>1. UNCHANGED <<issued, reading, resp, got, owed>> /\ conn = "up"
          /\ conn' = "cut"
      BY <2>2 DEF Cut
    <3>2. CASE stream' = stream
      BY <3>1, <3>2 DEF ExchangeInv, InStep, RespInv, StreamInv, OwedInv
    <3>3. CASE stream' # stream
      <4>1. PICK l \in Lines :
               /\ owed # <<>> /\ stream' = Append(stream, l)
               /\ l.cmd = owed[1].cmd /\ l.n = owed[1].line
               /\ l.last = TRUE /\ l.whole = FALSE
        BY <2>2, <3>3, CutStep
      <4>2. reading
        BY <3>1, <4>1 DEF ExchangeInv, InStep
      <4>3. /\ Len(owed) = 1 /\ owed[1].cmd = issued
            /\ owed[1].line = Len(resp) + Len(stream) + 1
            /\ \A k \in 1 .. Len(stream) : stream[k].whole /\ ~stream[k].last
        BY <3>1, <4>1, <4>2 DEF ExchangeInv, OwedInv, StreamInv
      <4>4. /\ Len(stream') = Len(stream) + 1 /\ Len(stream) \in Nat
            /\ stream'[Len(stream) + 1] = l
            /\ \A k \in 1 .. Len(stream) : stream'[k] = stream[k]
        BY <4>1, AppendOf DEF TypeExchange
      <4>5. Len(resp) \in Nat
        BY DEF TypeExchange
      <4>6. StreamInv'
        <5> SUFFICES ASSUME NEW k \in 1 .. Len(stream')
                     PROVE  /\ stream'[k].cmd = issued
                            /\ stream'[k].n = Len(resp) + k
                            /\ k < Len(stream') =>
                                  stream'[k].whole /\ ~stream'[k].last
          BY <3>1 DEF StreamInv
        <5>1. CASE k \in 1 .. Len(stream)
          BY <4>2, <4>3, <4>4, <5>1 DEF ExchangeInv, StreamInv
        <5>2. CASE k = Len(stream) + 1
          BY <4>1, <4>3, <4>4, <4>5, <5>2
        <5> QED BY <4>4, <5>1, <5>2
      <4>7. OwedInv'
        <5>1. \A k \in 1 .. Len(stream') : ~(stream'[k].last /\ stream'[k].whole)
          BY <4>1, <4>3, <4>4
        <5> QED BY <3>1, <4>1, <4>3, <5>1 DEF OwedInv
      <4> QED BY <3>1, <4>2, <4>6, <4>7 DEF ExchangeInv, InStep, RespInv
    <3> QED BY <3>2, <3>3
  <2>3. CASE ReadLine
    <3>1. /\ stream # <<>> /\ stream[1].whole /\ reading /\ issued' = issued
          /\ stream[1] \in Lines
      BY <2>3, ReadLineStep
    <3>2. conn # "none" /\ RespInv /\ StreamInv /\ OwedInv
      BY <3>1 DEF ExchangeInv
    <3>3. /\ Len(stream) \in Nat /\ Len(stream) > 0
          /\ Len(Tail(stream)) = Len(stream) - 1
          /\ \A k \in 1 .. Len(stream) - 1 : Tail(stream)[k] = stream[k + 1]
      BY <3>1, HeadOf DEF TypeExchange
    <3>4. /\ Len(Append(resp, stream[1])) = Len(resp) + 1 /\ Len(resp) \in Nat
          /\ Append(resp, stream[1])[Len(resp) + 1] = stream[1]
          /\ \A k \in 1 .. Len(resp) : Append(resp, stream[1])[k] = resp[k]
      BY <3>1, AppendOf DEF TypeExchange
    <3>5. stream[1].cmd = issued /\ stream[1].n = Len(resp) + 1
      BY <3>2, <3>3 DEF StreamInv
    <3>6. CASE Fail
      BY <2>fail, <3>6
    <3>7. CASE /\ stream' = Tail(stream) /\ conn' = conn /\ owed' = owed
               /\ stream[1].last /\ reading' = FALSE /\ resp' = <<>>
               /\ got' = Append(resp, stream[1])
      <4>1. Len(stream) = 1
        <5>1. 1 \in 1 .. Len(stream) /\ ~(1 < Len(stream))
          BY <3>2, <3>3, <3>7 DEF StreamInv
        <5>2. \A n \in Nat : n > 0 /\ ~(1 < n) => n = 1
          OBVIOUS
        <5> QED BY <3>3, <5>1, <5>2
      <4>2. stream' = <<>>
        BY <3>3, <3>7, <4>1, EmptySeq DEF TypeExchange
      <4>3. owed' = <<>>
        BY <3>1, <3>2, <3>3, <3>7, <4>1 DEF OwedInv
      <4>4. \A k \in 1 .. Len(got') :
               got'[k].cmd = issued /\ got'[k].n = k /\ got'[k].whole
        BY <3>1, <3>2, <3>4, <3>5, <3>7 DEF RespInv
      <4>5. got'[Len(got')].last /\ DOMAIN got' = 1 .. Len(got')
        BY <3>4, <3>7 DEF TypeExchange
      <4> QED BY <3>1, <3>7, <4>2, <4>3, <4>4, <4>5 DEF ExchangeInv, InStep
    <3>8. CASE /\ stream' = Tail(stream) /\ conn' = conn /\ owed' = owed
               /\ ~stream[1].last /\ reading' = TRUE
               /\ resp' = Append(resp, stream[1]) /\ got' = got
      <4>1. RespInv'
        BY <3>1, <3>2, <3>4, <3>5, <3>8 DEF RespInv
      <4>2. StreamInv'
        <5> SUFFICES ASSUME NEW k \in 1 .. Len(stream')
                     PROVE  /\ stream'[k].cmd = issued
                            /\ stream'[k].n = Len(resp') + k
                            /\ k < Len(stream') =>
                                  stream'[k].whole /\ ~stream'[k].last
                            /\ ~stream'[k].whole => conn = "cut"
          BY <3>1, <3>8 DEF StreamInv
        <5>1. k + 1 \in 1 .. Len(stream) /\ stream'[k] = stream[k + 1]
              /\ Len(stream') = Len(stream) - 1
          BY <3>3, <3>8
        <5> QED BY <3>2, <3>3, <3>4, <3>8, <5>1 DEF StreamInv
      <4>3. OwedInv'
        <5>1. CASE owed = <<>>
          <6>1. Len(stream) > 1
            BY <3>2, <3>3, <3>8, <5>1 DEF OwedInv
          <6>2. stream' # <<>> /\ stream'[Len(stream')] = stream[Len(stream)]
            <7>1. /\ Len(stream') = Len(stream) - 1 /\ Len(stream') > 0
                  /\ Len(stream') \in 1 .. Len(stream) - 1
                  /\ Len(stream') + 1 = Len(stream)
              BY <3>3, <3>8, <6>1
            <7>2. stream'[Len(stream')] = stream[Len(stream)]
              BY <3>3, <3>8, <7>1
            <7> QED BY <7>1, <7>2, EmptySeq
          <6> QED BY <3>2, <3>8, <5>1, <6>2 DEF OwedInv
        <5>2. CASE owed # <<>>
          <6>1. Len(resp') + Len(stream') = Len(resp) + Len(stream)
            <7>1. Len(resp') = Len(resp) + 1 /\ Len(stream') = Len(stream) - 1
              BY <3>3, <3>4, <3>8
            <7> QED BY <3>3, <3>4, <7>1
          <6>2. \A k \in 1 .. Len(stream') : ~(stream'[k].last /\ stream'[k].whole)
            BY <3>2, <3>3, <3>8, <5>2 DEF OwedInv
          <6> QED BY <3>1, <3>2, <3>8, <5>2, <6>1, <6>2 DEF OwedInv
        <5> QED BY <5>1, <5>2
      <4> QED BY <3>1, <3>2, <3>8, <4>1, <4>2, <4>3 DEF ExchangeInv, InStep
    <3> QED BY <2>3, <3>6, <3>7, <3>8, ReadLineStep
  <2>4. CASE ReadFails
    BY <2>4, <2>fail DEF ReadFails
  <2>5. CASE Execute
    <3>1. CASE Fail
      BY <2>fail, <3>1
    <3>2. CASE Written /\ conn' = (IF conn = "none" THEN "up" ELSE conn)
               /\ UNCHANGED stream
      <4>1. stream = <<>> /\ owed = <<>> /\ issued' = issued + 1
        BY <2>5 DEF Execute, ExchangeInv, InStep
      <4>2. owed' = Append(<<>>, [cmd |-> issued + 1, line |-> 1])
        BY <3>2, <4>1 DEF Written
      <4>3. Len(owed') = 1 /\ owed'[1] = [cmd |-> issued + 1, line |-> 1]
            /\ owed' # <<>>
        BY <4>2
      <4>4. conn' # "none" /\ reading' /\ resp' = <<>> /\ stream' = <<>>
        BY <3>2, <4>1 DEF Written, TypeExchange
      <4> QED
        BY <4>1, <4>3, <4>4
           DEF ExchangeInv, InStep, RespInv, StreamInv, OwedInv
    <3> QED BY <2>5, <3>1, <3>2 DEF Execute
  <2>6. CASE UNCHANGED exchangeVars
    BY <2>6 DEF exchangeVars, ExchangeInv, InStep, RespInv, StreamInv, OwedInv
  <2> QED
    BY <2>1, <2>2, <2>3, <2>4, <2>5, <2>6 DEF NextExchange, Exchange, allVars
<1> QED BY <1>1, <1>2, ExchangeTypeCorrect, PTL DEF SpecExchange

\* Replies stay in step with commands for any number of commands, replies of any
\* length and any limit of readResponse.
THEOREM RepliesStayInStep == SpecExchange => []InStep
  BY ExchangeInvariant, PTL DEF ExchangeInv

------------------------------------------------------------------------------
(* The DATA stream.  Where a byte of the stream comes from is a function f: *)
(* the first k bytes of it stand for the first f[k] bytes of the text.     *)

\* Byte k of s is the first of a line, and a dot there.
LineStart(s, k) == k = 1 \/ (k > 2 /\ s[k - 2] = "CR" /\ s[k - 1] = "LF")
Dot(s, k) == s[k] = "DOT" /\ LineStart(s, k)

EndsInCRLF(s) == Len(s) >= 2 /\ s[Len(s) - 1] = "CR" /\ s[Len(s)] = "LF"

\* Byte k of s is the next byte of t, and not a dot that begins a line.
Copied(f, s, k, t) ==
    /\ f[k] = f[k - 1] + 1 /\ f[k] <= Len(t) /\ s[k] = t[f[k]]
    /\ ~Dot(s, k)

\* Byte k of s is a dot dotStuff has put before another one.
Added(f, s, k) ==
    /\ f[k] = f[k - 1] /\ Dot(s, k)
    /\ k < Len(s) => s[k + 1] = "DOT"

\* The first n bytes of s are t, with a dot added to each dot that begins a line.
Aligned(f, s, n, t) ==
    /\ f \in [0 .. n -> Nat] /\ f[0] = 0
    /\ \A k \in 1 .. n : Copied(f, s, k, t) \/ Added(f, s, k)

\* The last byte of s is an added dot.
AddedLast(f, s) == Len(s) > 0 /\ f[Len(s)] = f[Len(s) - 1]

\* No CR and no LF but in a CRLF.
NoBareBreak(s) ==
    \A k \in 1 .. Len(s) :
       /\ s[k] = "CR" => k < Len(s) /\ s[k + 1] = "LF"
       /\ s[k] = "LF" => k > 1 /\ s[k - 1] = "CR"

TypeData ==
    /\ data \in Seq(Byte) /\ buf \in Seq(Byte) /\ out \in Seq(Byte)
    /\ line \in Seq(Byte) /\ mail \in Seq(Byte)
    /\ phase \in {"normalize", "stuff", "terminate", "sent"}
    /\ i \in Nat /\ i <= Len(buf) /\ read \in Nat /\ read <= Len(out)
    /\ over \in BOOLEAN

\* The server waits until the stream is written.
QuietInv == phase # "sent" => read = 0 /\ line = <<>> /\ mail = <<>> /\ ~over

NormalInv == NoBareBreak(IF phase = "normalize" THEN out ELSE buf)

\* s is what dotStuff has written for the first j bytes of t.  The dot a line
\* begins with is the next byte exactly when dotStuff has just added one.
StuffedTo(s, t, j) ==
    \E f : /\ Aligned(f, s, Len(s), t) /\ f[Len(s)] = j
           /\ AddedLast(f, s) <=> j < Len(t) /\ Dot(t, j + 1)

StuffInv ==
    phase \in {"stuff", "terminate"} =>
       /\ phase = "terminate" => i = Len(buf)
       /\ StuffedTo(out, buf, i)

\* s is what dotStuff writes for the whole of t.
Whole(s, t) ==
    \E f : /\ Aligned(f, s, Len(s), t) /\ f[Len(s)] = Len(t)
           /\ ~AddedLast(f, s)

\* The text of the normalized message, its last line ended.
Wanted == IF EndsInCRLF(buf) THEN buf ELSE buf \o CRLF

\* The stream s ends in the terminator, a line of its own after n bytes that
\* stand for the whole of t.
Terminated(s, n) ==
    /\ n \in Nat /\ n >= 2 /\ Len(s) = n + 3 /\ s[n - 1] = "CR" /\ s[n] = "LF"
    /\ s[n + 1] = "DOT" /\ s[n + 2] = "CR" /\ s[n + 3] = "LF"

Sent(f, s, n, t) == Terminated(s, n) /\ Aligned(f, s, n, t) /\ f[n] = Len(t)

\* A line without the dot added to it.
Unstuffed(l) == IF l # <<>> /\ l[1] = "DOT" THEN Tail(l) ELSE l

\* The server has read r bytes of s; the last of them are the beginning of a
\* line, l.
LineInv(s, r, l) ==
    /\ Len(l) <= r /\ LineStart(s, r - Len(l) + 1)
    /\ \A k \in 1 .. Len(l) : l[k] = s[r - Len(l) + k]
    /\ \A k \in 1 .. Len(l) - 1 : ~(l[k] = "CR" /\ l[k + 1] = "LF")

\* x is the first j bytes of t.
Begins(x, j, t) == Len(x) = j /\ \A k \in 1 .. j : x[k] = t[k]

\* What it has received, m and the line, is the text the bytes stand for.
MailInv(f, n, t, r, l, m) ==
    IF r <= n THEN Begins(m \o Unstuffed(l), f[r], t)
    ELSE r - Len(l) = n /\ m = t

SentInv ==
    phase = "sent" =>
       \E n \in Nat : \E f :
          /\ Sent(f, out, n, Wanted)
          /\ ~over => LineInv(out, read, line)
                      /\ MailInv(f, n, Wanted, read, line, mail)
          /\ over => mail = Wanted /\ read = Len(out)

\* The server sees the end of the data at the terminator and nowhere else, and
\* has then received the normalized message: no dot more or less, no bare CR or
\* LF, its last line ended.
TextArrives ==
    over => read = Len(out) /\ mail = Wanted /\ NoBareBreak(mail)

------------------------------------------------------------------------------
(* Facts about sequences of bytes.                                         *)

\* What IsSuffix(CRLF, s) means.
LEMMA SuffixCRLF ==
  ASSUME NEW s \in Seq(Byte)
  PROVE  IsSuffix(CRLF, s) <=> EndsInCRLF(s)
<1> DEFINE c == Reverse(CRLF)
           r == Reverse(s)
<1>1. c = [k \in 1 .. 2 |-> CRLF[2 - k + 1]] /\ Len(c) = 2
  BY DEF Reverse, CRLF
<1>2. c[1] = "LF" /\ c[2] = "CR"
  BY <1>1 DEF CRLF
<1>3. Len(s) \in Nat /\ Len(r) = Len(s) /\ \A k \in 1 .. Len(s) : r[k] = s[Len(s) - k + 1]
  BY DEF Reverse
<1>4. SubSeq(c, 1, 2) = [k \in 1 .. 2 |-> c[k]]
  BY <1>1
<1>5. Len(s) >= 2 => SubSeq(r, 1, 2) = [k \in 1 .. 2 |-> r[k]]
  BY <1>3
<1>6. Len(s) >= 2 => r[1] = s[Len(s)] /\ r[2] = s[Len(s) - 1]
  BY <1>3
<1>7. IsSuffix(CRLF, s) <=> 2 <= Len(s) /\ SubSeq(c, 1, 2) = SubSeq(r, 1, 2)
  BY <1>1, <1>3 DEF IsSuffix, IsPrefix
<1> HIDE DEF c, r
<1>8. Len(s) >= 2 => (SubSeq(c, 1, 2) = SubSeq(r, 1, 2) <=> c[1] = r[1] /\ c[2] = r[2])
  <2>1. 1 \in 1 .. 2 /\ 2 \in 1 .. 2 /\ \A k \in 1 .. 2 : k = 1 \/ k = 2
    OBVIOUS
  <2> QED BY <1>4, <1>5, <2>1
<1> QED BY <1>2, <1>3, <1>6, <1>7, <1>8 DEF EndsInCRLF

\* A byte more, by either way of writing it.
LEMMA OneByte ==
  ASSUME NEW s \in Seq(Byte), NEW c \in Byte
  PROVE  /\ s \o <<c>> = Append(s, c) /\ s \o <<>> = s /\ <<>> \o s = s
         /\ Append(s, c) \in Seq(Byte) /\ Len(s) \in Nat
         /\ Len(Append(s, c)) = Len(s) + 1 /\ Append(s, c)[Len(s) + 1] = c
         /\ \A k \in 1 .. Len(s) : Append(s, c)[k] = s[k]
OBVIOUS

\* The first bytes of a line do not change when another one is written.
LEMMA DotAppend ==
  ASSUME NEW s \in Seq(Byte), NEW c \in Byte, NEW k \in 1 .. Len(s)
  PROVE  Dot(Append(s, c), k) <=> Dot(s, k)
<1>1. k > 2 => k - 2 \in 1 .. Len(s) /\ k - 1 \in 1 .. Len(s)
  OBVIOUS
<1> QED BY <1>1, OneByte DEF Dot, LineStart

\* A byte written after aligned ones: an added dot must be followed by a dot.
LEMMA Grow ==
  ASSUME NEW s \in Seq(Byte), NEW t \in Seq(Byte), NEW c \in Byte,
         NEW n \in 0 .. Len(s), NEW f, Aligned(f, s, n, t),
         n = Len(s) /\ AddedLast(f, s) => c = "DOT"
  PROVE  Aligned(f, Append(s, c), n, t)
<1> SUFFICES ASSUME NEW k \in 1 .. n
             PROVE  Copied(f, Append(s, c), k, t) \/ Added(f, Append(s, c), k)
  BY DEF Aligned
<1>1. /\ k \in 1 .. Len(s) /\ Len(s) \in Nat /\ k \in Nat
      /\ Append(s, c)[k] = s[k] /\ Len(Append(s, c)) = Len(s) + 1
      /\ Append(s, c)[Len(s) + 1] = c
  BY OneByte
<1>2. Dot(Append(s, c), k) <=> Dot(s, k)
  BY <1>1, DotAppend
<1>3. CASE Copied(f, s, k, t)
  BY <1>1, <1>2, <1>3 DEF Copied
<1>4. CASE Added(f, s, k)
  <2>1. Append(s, c)[k + 1] = "DOT"
    <3>1. CASE k < Len(s)
      <4>1. k + 1 \in 1 .. Len(s)
        BY <1>1, <3>1
      <4> QED BY <1>4, <3>1, <4>1, OneByte DEF Added
    <3>2. CASE ~(k < Len(s))
      <4>1. k = Len(s) /\ n = Len(s)
        BY <1>1, <3>2
      <4>2. AddedLast(f, s)
        BY <1>1, <1>4, <4>1 DEF Added, AddedLast
      <4> QED BY <1>1, <4>1, <4>2
    <3> QED BY <3>1, <3>2
  <2> QED BY <1>2, <1>4, <2>1 DEF Added
<1> QED BY <1>3, <1>4 DEF Aligned

\* One byte more is aligned, as a byte of the text or as an added dot.
LEMMA Extend ==
  ASSUME NEW s \in Seq(Byte), NEW t \in Seq(Byte), NEW n \in Nat, n < Len(s),
         NEW f, Aligned(f, s, n, t), NEW d \in {0, 1},
         d = 1 => /\ ~Dot(s, n + 1) /\ f[n] + 1 <= Len(t)
                  /\ s[n + 1] = t[f[n] + 1],
         d = 0 => Dot(s, n + 1) /\ (n + 1 < Len(s) => s[n + 2] = "DOT")
  PROVE  \E g : /\ Aligned(g, s, n + 1, t) /\ g[n + 1] = f[n] + d /\ g[n] = f[n]
<1> DEFINE g == [k \in 0 .. n + 1 |-> IF k = n + 1 THEN f[n] + d ELSE f[k]]
<1>1. f \in [0 .. n -> Nat] /\ f[0] = 0 /\ f[n] \in Nat
  BY DEF Aligned
<1>2. /\ g \in [0 .. n + 1 -> Nat] /\ g[0] = 0 /\ g[n + 1] = f[n] + d
      /\ \A k \in 0 .. n : g[k] = f[k]
  BY <1>1
<1> HIDE DEF g
<1>3. ASSUME NEW k \in 1 .. n + 1
      PROVE  Copied(g, s, k, t) \/ Added(g, s, k)
  <2>1. CASE k = n + 1
    <3>1. k - 1 = n /\ n \in 0 .. n /\ k + 1 = n + 2
      BY <2>1
    <3> QED BY <1>1, <1>2, <2>1, <3>1 DEF Copied, Added
  <2>2. CASE k # n + 1
    <3>1. k \in 1 .. n /\ k \in 0 .. n /\ k - 1 \in 0 .. n
      BY <2>2
    <3> QED BY <1>2, <3>1 DEF Aligned, Copied, Added
  <2> QED BY <2>1, <2>2
<1>4. g[n] = f[n]
  BY <1>2
<1> QED BY <1>2, <1>3, <1>4 DEF Aligned

\* It is a byte of the text.
LEMMA ExtendCopied ==
  ASSUME NEW s \in Seq(Byte), NEW t \in Seq(Byte), NEW n \in Nat, n < Len(s),
         NEW f, Aligned(f, s, n, t), ~Dot(s, n + 1), f[n] + 1 <= Len(t),
         s[n + 1] = t[f[n] + 1]
  PROVE  \E g : Aligned(g, s, n + 1, t) /\ g[n + 1] = f[n] + 1 /\ g[n] = f[n]
<1>1. 1 \in {0, 1} /\ 1 # 0
  OBVIOUS
<1> QED BY <1>1, Extend

\* It is an added dot.
LEMMA ExtendAdded ==
  ASSUME NEW s \in Seq(Byte), NEW t \in Seq(Byte), NEW n \in Nat, n < Len(s),
         NEW f, Aligned(f, s, n, t), Dot(s, n + 1),
         n + 1 < Len(s) => s[n + 2] = "DOT"
  PROVE  \E g : Aligned(g, s, n + 1, t) /\ g[n + 1] = f[n] /\ g[n] = f[n]
<1>1. 0 \in {0, 1} /\ 1 # 0 /\ f[n] \in Nat /\ f[n] + 0 = f[n]
  BY DEF Aligned
<1>2. \E g : Aligned(g, s, n + 1, t) /\ g[n + 1] = f[n] + 0 /\ g[n] = f[n]
  BY <1>1, Extend
<1> QED BY <1>1, <1>2

\* Bytes before and at the end of a text: what a copied byte says.
LEMMA CopiedByte ==
  ASSUME NEW s \in Seq(Byte), NEW t, NEW n \in Nat, NEW f, Aligned(f, s, n, t),
         NEW k \in 1 .. n, s[k] # "DOT" \/ f[k] # f[k - 1]
  PROVE  /\ f[k] = f[k - 1] + 1 /\ f[k] \in Nat /\ f[k - 1] \in Nat
         /\ s[k] = t[f[k]] /\ f[k] <= Len(t)
<1>1. f[k] \in Nat /\ f[k - 1] \in Nat
  BY DEF Aligned
<1>2. Copied(f, s, k, t)
  BY DEF Aligned, Added, Dot
<1> QED BY <1>1, <1>2 DEF Copied

------------------------------------------------------------------------------
(* Types and line breaks.                                                  *)

\* Sequences of bytes the steps write.
LEMMA ByteSeqs ==
  /\ CRLF \in Seq(Byte) /\ Len(CRLF) = 2 /\ CRLF[1] = "CR" /\ CRLF[2] = "LF"
  /\ <<"DOT">> \in Seq(Byte) /\ <<>> \in Seq(Byte)
  /\ \A c \in Byte : <<c>> \in Seq(Byte) /\ Len(<<c>>) = 1 /\ <<c>>[1] = c
BY DEF CRLF, Byte

\* Commands and replies leave the DATA stream alone.
LEMMA ExchangeKeepsData ==
  ASSUME [NextExchange]_allVars
  PROVE  Next \/ UNCHANGED vars
BY DEF NextExchange, Exchange, Answer, Cut, ReadLine, ReadFails, Execute, Fail,
   allVars

\* Concatenation, byte by byte.
LEMMA ConcatAppend ==
  ASSUME NEW s \in Seq(Byte), NEW t \in Seq(Byte), NEW c \in Byte
  PROVE  s \o Append(t, c) = Append(s \o t, c)
OBVIOUS

\* A dot or a line break more.
LEMMA WriteBytes ==
  ASSUME NEW s \in Seq(Byte)
  PROVE  /\ s \o <<"DOT">> = Append(s, "DOT")
         /\ s \o CRLF = Append(Append(s, "CR"), "LF")
<1>1. "DOT" \in Byte /\ "CR" \in Byte /\ "LF" \in Byte
  BY DEF Byte
<1>2. /\ <<"DOT">> = Append(<<>>, "DOT")
      /\ <<"CR", "LF">> = Append(Append(<<>>, "CR"), "LF")
  OBVIOUS
<1>3. s \o <<>> = s /\ <<>> \in Seq(Byte) /\ Append(<<>>, "CR") \in Seq(Byte)
  BY <1>1
<1> QED BY <1>1, <1>2, <1>3, ConcatAppend DEF CRLF

\* The bytes of the terminator, the way doSend writes them.
LEMMA TerminatorBytes ==
  ASSUME out \in Seq(Byte)
  PROVE  /\ Terminator \in Seq(Byte)
         /\ EndsInCRLF(out) => out \o Terminator =
               Append(Append(Append(out, "DOT"), "CR"), "LF")
         /\ ~EndsInCRLF(out) => out \o Terminator =
               Append(Append(Append(Append(Append(out, "CR"), "LF"), "DOT"), "CR"),
                      "LF")
<1>1. "DOT" \in Byte /\ "CR" \in Byte /\ "LF" \in Byte
  BY DEF Byte
<1>2. \A s \in Seq(Byte) : /\ s \o <<"DOT">> = Append(s, "DOT")
                           /\ s \o CRLF = Append(Append(s, "CR"), "LF")
  BY WriteBytes
<1>3. Terminator = (IF EndsInCRLF(out) THEN <<>> ELSE CRLF) \o <<"DOT">> \o CRLF
  BY SuffixCRLF DEF Terminator
<1>4. ASSUME NEW s \in Seq(Byte)
      PROVE  /\ s \o <<"DOT">> \o CRLF = Append(Append(Append(s, "DOT"), "CR"), "LF")
             /\ s \o <<"DOT">> \o CRLF \in Seq(Byte)
             /\ out \o (s \o <<"DOT">> \o CRLF) =
                   Append(Append(Append(out \o s, "DOT"), "CR"), "LF")
  <2>1. /\ s \o <<"DOT">> = Append(s, "DOT") /\ Append(s, "DOT") \in Seq(Byte)
        /\ Append(Append(s, "DOT"), "CR") \in Seq(Byte)
        /\ Append(Append(Append(s, "DOT"), "CR"), "LF") \in Seq(Byte)
    BY <1>1, <1>2
  <2>2. Append(s, "DOT") \o CRLF = Append(Append(Append(s, "DOT"), "CR"), "LF")
    BY <1>2, <2>1
  <2>3. out \o Append(s, "DOT") = Append(out \o s, "DOT")
    BY <1>1, ConcatAppend
  <2>4. out \o Append(Append(s, "DOT"), "CR") =
           Append(out \o Append(s, "DOT"), "CR")
    BY <1>1, <2>1, ConcatAppend
  <2>5. out \o Append(Append(Append(s, "DOT"), "CR"), "LF") =
           Append(out \o Append(Append(s, "DOT"), "CR"), "LF")
    BY <1>1, <2>1, ConcatAppend
  <2> QED BY <2>1, <2>2, <2>3, <2>4, <2>5, Zenon
<1>5. CASE EndsInCRLF(out)
  <2>1. out \o <<>> = out /\ <<>> \in Seq(Byte)
    OBVIOUS
  <2> QED BY <1>3, <1>4, <1>5, <2>1
<1>6. CASE ~EndsInCRLF(out)
  <2>1. out \o CRLF = Append(Append(out, "CR"), "LF")
    BY <1>2
  <2> QED BY <1>3, <1>4, <1>6, <2>1, ByteSeqs
<1> QED BY <1>5, <1>6

\* dotStuff writes a byte, and a dot if the next line begins with one.
LEMMA StuffStep ==
  ASSUME TypeData, Stuff
  PROVE  /\ i < Len(buf) /\ phase = "stuff" /\ i' = i + 1
         /\ buf[i + 1] \in Byte
         /\ out' = IF i + 1 < Len(buf) /\ Dot(buf, i + 2)
                   THEN Append(Append(out, buf[i + 1]), "DOT")
                   ELSE Append(out, buf[i + 1])
         /\ UNCHANGED <<data, phase, buf, read, line, mail, over>>
<1>1. /\ i < Len(buf) /\ phase = "stuff" /\ i' = i + 1
      /\ UNCHANGED <<data, phase, buf, read, line, mail, over>>
  BY DEF Stuff, serverVars
<1>2. buf[i + 1] \in Byte /\ Len(buf) \in Nat /\ i \in Nat /\ "DOT" \in Byte
  BY <1>1 DEF TypeData, Byte
<1>3. (i >= 1 /\ At(i, "LF") /\ At(i - 1, "CR") /\ At(i + 1, "DOT"))
      <=> (i + 1 < Len(buf) /\ Dot(buf, i + 2))
  <2>1. i - 1 + 1 = i /\ i + 2 - 2 = i /\ i + 2 - 1 = i + 1 /\ i + 1 + 1 = i + 2
        /\ (i + 2 > 2 <=> i >= 1) /\ i + 2 # 1
    BY <1>2
  <2> QED BY <1>1, <1>2, <2>1 DEF At, Dot, LineStart
<1>4. out' = out \o <<buf[i + 1]>>
             \o IF i + 1 < Len(buf) /\ Dot(buf, i + 2) THEN <<"DOT">> ELSE <<>>
  BY <1>3 DEF Stuff
<1>5. /\ out \o <<buf[i + 1]>> = Append(out, buf[i + 1])
      /\ Append(out, buf[i + 1]) \in Seq(Byte)
  BY <1>2, OneByte DEF TypeData
<1>6. /\ Append(out, buf[i + 1]) \o <<"DOT">> = Append(Append(out, buf[i + 1]), "DOT")
      /\ Append(out, buf[i + 1]) \o <<>> = Append(out, buf[i + 1])
  BY <1>2, <1>5, OneByte
<1> QED BY <1>1, <1>2, <1>4, <1>5, <1>6

\* Every variable of the DATA stream keeps its type; neither loop and no reader
\* runs past the end of its input.
THEOREM DataTypeCorrect == SpecExchange => [](TypeData /\ QuietInv)
<1>1. InitExchange => TypeData /\ QuietInv
  <2> SUFFICES ASSUME InitExchange PROVE TypeData /\ QuietInv
    OBVIOUS
  <2>1. data \in Seq(Byte)
    <3>1. PICK n \in 0 .. MaxLength : data \in [1 .. n -> Byte]
      BY DEF InitExchange, Init
    <3>2. n \in Nat
      BY LengthAssumption
    <3> QED BY <3>1, <3>2
  <2>2. Len(data) \in Nat /\ Len(<<>>) = 0
    BY <2>1, LenProperties
  <2>3. /\ buf = data /\ i = 0 /\ read = 0 /\ out = <<>> /\ line = <<>> /\ mail = <<>>
        /\ phase = "normalize" /\ over = FALSE
    BY DEF InitExchange, Init
  <2>4. i <= Len(buf) /\ read <= Len(out)
    BY <2>2, <2>3
  <2> QED BY <2>1, <2>3, <2>4, ByteSeqs DEF TypeData, QuietInv
<1>2. TypeData /\ QuietInv /\ [NextExchange]_allVars => (TypeData /\ QuietInv)'
  <2> SUFFICES ASSUME TypeData, QuietInv, [NextExchange]_allVars
               PROVE  TypeData' /\ QuietInv'
    OBVIOUS
  <2>1. CASE Normalize
    <3>1. buf[i + 1] \in Byte
      BY <2>1 DEF Normalize, TypeData
    <3>2. out' \in Seq(Byte)
      <4>1. \E e \in Seq(Byte) : out' = out \o e
        BY <2>1, <3>1, ByteSeqs DEF Normalize
      <4> QED BY <4>1, ConcatProperties DEF TypeData
    <3>3. i' \in Nat /\ i' <= Len(buf)
      BY <2>1 DEF Normalize, TypeData, At
    <3>4. UNCHANGED <<data, phase, buf, read, line, mail, over>>
      BY <2>1 DEF Normalize, serverVars
    <3>5. read <= Len(out')
      <4>1. \E e \in Seq(Byte) : out' = out \o e
        BY <2>1, <3>1, ByteSeqs DEF Normalize
      <4> QED BY <4>1, ConcatProperties, LenProperties DEF TypeData
    <3> QED BY <3>2, <3>3, <3>4, <3>5 DEF TypeData, QuietInv
  <2>2. CASE BeginStuff
    <3>1. out' \in Seq(Byte)
      BY <2>2, ByteSeqs DEF BeginStuff, BeforeFirst
    <3>2. /\ phase' = "stuff" /\ i' = 0 /\ buf' = out
          /\ UNCHANGED <<data, read, line, mail, over>>
      BY <2>2 DEF BeginStuff, serverVars
    <3>3. read = 0
      BY <2>2 DEF BeginStuff, QuietInv
    <3>4. Len(out) \in Nat /\ Len(out') \in Nat
      BY <3>1, LenProperties DEF TypeData
    <3>5. i' <= Len(buf') /\ read' <= Len(out')
      BY <3>2, <3>3, <3>4
    <3>6. i' \in Nat /\ read' \in Nat
      BY <3>2, <3>3
    <3> QED BY <3>1, <3>2, <3>5, <3>6, <2>2 DEF BeginStuff, TypeData, QuietInv
  <2>3. CASE Stuff
    <3>1. buf[i + 1] \in Byte /\ "DOT" \in Byte
      BY <2>3 DEF Stuff, TypeData, Byte
    <3>2. out' \in Seq(Byte) /\ Len(out') >= Len(out)
      <4>1. out \in Seq(Byte)
        BY DEF TypeData
      <4>2. \/ out' = Append(out, buf[i + 1])
            \/ out' = Append(Append(out, buf[i + 1]), "DOT")
        BY <2>3, StuffStep DEF TypeData
      <4>3. Append(out, buf[i + 1]) \in Seq(Byte)
            /\ Len(Append(out, buf[i + 1])) = Len(out) + 1 /\ Len(out) \in Nat
        BY <3>1, <4>1, OneByte
      <4>4. Append(Append(out, buf[i + 1]), "DOT") \in Seq(Byte)
            /\ Len(Append(Append(out, buf[i + 1]), "DOT")) = Len(out) + 1 + 1
        BY <3>1, <4>3, OneByte
      <4> QED BY <4>2, <4>3, <4>4
    <3>3. i' \in Nat /\ i' <= Len(buf)
      BY <2>3 DEF Stuff, TypeData
    <3>4. UNCHANGED <<data, phase, buf, read, line, mail, over>>
      BY <2>3 DEF Stuff, serverVars
    <3>5. read <= Len(out')
      BY <3>2, LenProperties DEF TypeData
    <3> QED BY <3>2, <3>3, <3>4, <3>5 DEF TypeData, QuietInv
  <2>4. CASE EndStuff
    BY <2>4 DEF EndStuff, TypeData, QuietInv, serverVars
  <2>5. CASE Terminate
    <3>1. out' \in Seq(Byte) /\ Len(out') >= Len(out)
      <4>1. Terminator \in Seq(Byte) /\ out \in Seq(Byte)
        BY TerminatorBytes DEF TypeData
      <4> QED BY <2>5, <4>1, ConcatProperties, LenProperties DEF Terminate
    <3>2. UNCHANGED <<data, i, buf, read, line, mail, over>> /\ phase' = "sent"
      BY <2>5 DEF Terminate, serverVars
    <3>3. read <= Len(out')
      BY <3>1, LenProperties DEF TypeData
    <3> QED BY <3>1, <3>2, <3>3 DEF TypeData, QuietInv
  <2>6. CASE Receive
    <3> DEFINE l == Append(line, out[read + 1])
    <3>1. l \in Seq(Byte) /\ Tail(l) \in Seq(Byte) /\ l # <<>>
      <4>1. out[read + 1] \in Byte
        BY <2>6 DEF Receive, TypeData
      <4>2. line \in Seq(Byte)
        BY DEF TypeData
      <4>3. l \in Seq(Byte) /\ Len(l) = Len(line) + 1 /\ Len(line) \in Nat
        BY <4>1, <4>2, OneByte
      <4>4. l # <<>>
        BY <4>3
      <4> HIDE DEF l
      <4> QED BY <4>3, <4>4, HeadTailProperties
    <3>2. line' \in Seq(Byte) /\ mail' \in Seq(Byte) /\ over' \in BOOLEAN
      <4>1. \/ line' = l /\ mail' = mail /\ over' = over
            \/ /\ line' = <<>> /\ over' \in BOOLEAN
               /\ mail' \in {mail, mail \o l, mail \o Tail(l)}
        BY <2>6 DEF Receive
      <4> HIDE DEF l
      <4>2. mail \o l \in Seq(Byte) /\ mail \o Tail(l) \in Seq(Byte)
        BY <3>1, ConcatProperties DEF TypeData
      <4> QED BY <3>1, <4>1, <4>2, ByteSeqs DEF TypeData
    <3>3. UNCHANGED <<data, phase, i, buf, out>> /\ read' = read + 1 /\ phase = "sent"
          /\ read < Len(out)
      BY <2>6 DEF Receive, clientVars
    <3>4. read' \in Nat /\ read' <= Len(out)
      BY <3>3, LenProperties DEF TypeData
    <3> QED BY <3>2, <3>3, <3>4 DEF TypeData, QuietInv
  <2>7. CASE UNCHANGED vars
    BY <2>7 DEF vars, clientVars, serverVars, TypeData, QuietInv
  <2> QED
    BY <2>1, <2>2, <2>3, <2>4, <2>5, <2>6, <2>7, ExchangeKeepsData DEF Next, Encode
<1> QED BY <1>1, <1>2, PTL DEF SpecExchange

\* A byte that is not part of a line break leaves no bare one.
LEMMA NoBareByte ==
  ASSUME NEW s \in Seq(Byte), NoBareBreak(s), NEW c \in Byte, c \notin {"CR", "LF"}
  PROVE  NoBareBreak(Append(s, c))
<1> SUFFICES ASSUME NEW k \in 1 .. Len(s) + 1
             PROVE  /\ Append(s, c)[k] = "CR" => /\ k < Len(s) + 1
                                                /\ Append(s, c)[k + 1] = "LF"
                    /\ Append(s, c)[k] = "LF" => k > 1 /\ Append(s, c)[k - 1] = "CR"
  BY OneByte DEF NoBareBreak
<1>1. CASE k \in 1 .. Len(s)
  <2>1. Append(s, c)[k] = s[k]
    BY <1>1, OneByte
  <2>2. k < Len(s) => k + 1 \in 1 .. Len(s) /\ Append(s, c)[k + 1] = s[k + 1]
    BY <1>1, OneByte
  <2>3. k > 1 => k - 1 \in 1 .. Len(s) /\ Append(s, c)[k - 1] = s[k - 1]
    BY <1>1, OneByte
  <2> QED BY <1>1, <2>1, <2>2, <2>3 DEF NoBareBreak
<1>2. CASE k = Len(s) + 1
  BY <1>2, OneByte
<1> QED BY <1>1, <1>2, OneByte

\* Nor does a whole line break.
LEMMA NoBareCRLF ==
  ASSUME NEW s \in Seq(Byte), NoBareBreak(s)
  PROVE  NoBareBreak(Append(Append(s, "CR"), "LF"))
<1> DEFINE r == Append(s, "CR")
           t == Append(r, "LF")
<1>1. "CR" \in Byte /\ "LF" \in Byte
  BY DEF Byte
<1>2. /\ r \in Seq(Byte) /\ Len(s) \in Nat /\ Len(r) = Len(s) + 1
      /\ r[Len(s) + 1] = "CR" /\ \A k \in 1 .. Len(s) : r[k] = s[k]
  BY <1>1, OneByte
<1>3. /\ Len(t) = Len(s) + 2 /\ t[Len(s) + 2] = "LF"
      /\ \A k \in 1 .. Len(s) + 1 : t[k] = r[k]
  <2> HIDE DEF r
  <2>1. Len(t) = Len(r) + 1 /\ t[Len(r) + 1] = "LF"
        /\ \A k \in 1 .. Len(r) : t[k] = r[k]
    BY <1>1, <1>2, OneByte
  <2> HIDE DEF t
  <2> QED BY <1>2, <2>1
<1> HIDE DEF r, t
<1>4. t[Len(s) + 1] = "CR" /\ \A k \in 1 .. Len(s) : t[k] = s[k]
  BY <1>2, <1>3
<1>5. ASSUME NEW k \in 1 .. Len(t)
      PROVE  /\ t[k] = "CR" => k < Len(t) /\ t[k + 1] = "LF"
             /\ t[k] = "LF" => k > 1 /\ t[k - 1] = "CR"
  <2>1. CASE k \in 1 .. Len(s)
    <3>1. k < Len(s) => k + 1 \in 1 .. Len(s)
      BY <1>2, <2>1
    <3>2. k > 1 => k - 1 \in 1 .. Len(s)
      BY <1>2, <2>1
    <3>3. /\ s[k] = "CR" => k < Len(s) /\ s[k + 1] = "LF"
          /\ s[k] = "LF" => k > 1 /\ s[k - 1] = "CR"
      BY <2>1 DEF NoBareBreak
    <3>4. t[k] = s[k] /\ (k < Len(s) => k < Len(t))
      BY <1>2, <1>3, <1>4, <2>1
    <3>5. k < Len(s) => t[k + 1] = s[k + 1]
      BY <1>4, <3>1
    <3>6. k > 1 => t[k - 1] = s[k - 1]
      BY <1>4, <3>2
    <3> QED BY <3>3, <3>4, <3>5, <3>6
  <2>2. CASE k = Len(s) + 1
    <3>1. k + 1 = Len(s) + 2 /\ k < Len(t)
      BY <1>2, <1>3, <2>2
    <3> QED BY <1>3, <1>4, <2>2, <3>1
  <2>3. CASE k = Len(s) + 2
    <3>1. k - 1 = Len(s) + 1 /\ k > 1
      BY <1>2, <2>3
    <3> QED BY <1>3, <1>4, <2>3, <3>1
  <2> QED BY <1>2, <1>3, <2>1, <2>2, <2>3
<1>6. NoBareBreak(t)
  BY <1>5 DEF NoBareBreak
<1> QED BY <1>6 DEF r, t

\* normalizeCRLF leaves no CR and no LF but in a CRLF.
THEOREM BreaksAreNormal == SpecExchange => []NormalInv
<1>1. InitExchange => NormalInv
  <2>1. NoBareBreak(<<>>)
    BY DEF NoBareBreak
  <2> QED BY <2>1 DEF InitExchange, Init, NormalInv
<1>2. TypeData /\ NormalInv /\ [NextExchange]_allVars => NormalInv'
  <2> SUFFICES ASSUME TypeData, NormalInv, Next \/ UNCHANGED vars PROVE NormalInv'
    BY ExchangeKeepsData
  <2>1. CASE Normalize
    <3>1. out \in Seq(Byte) /\ buf[i + 1] \in Byte /\ phase = "normalize"
          /\ phase' = "normalize" /\ i < Len(buf)
      BY <2>1 DEF Normalize, TypeData
    <3>2. CASE At(i, "CR") \/ At(i, "LF")
      <4>1. out' = Append(Append(out, "CR"), "LF")
        BY <2>1, <3>1, <3>2, WriteBytes DEF Normalize
      <4> QED BY <3>1, <4>1, NoBareCRLF DEF NormalInv
    <3>3. CASE ~(At(i, "CR") \/ At(i, "LF"))
      <4>1. out' = Append(out, buf[i + 1])
        BY <2>1, <3>1, <3>3, OneByte DEF Normalize
      <4>2. buf[i + 1] \notin {"CR", "LF"}
        BY <3>1, <3>3 DEF At
      <4> QED BY <3>1, <4>1, <4>2, NoBareByte DEF NormalInv
    <3> QED BY <3>2, <3>3
  <2>2. CASE BeginStuff
    BY <2>2 DEF BeginStuff, NormalInv
  <2>3. CASE Stuff
    BY <2>3 DEF Stuff, NormalInv
  <2>4. CASE EndStuff
    BY <2>4 DEF EndStuff, NormalInv
  <2>5. CASE Terminate
    BY <2>5 DEF Terminate, NormalInv
  <2>6. CASE Receive
    BY <2>6 DEF Receive, clientVars, NormalInv
  <2>7. CASE UNCHANGED vars
    BY <2>7 DEF vars, clientVars, NormalInv
  <2> QED BY <2>1, <2>2, <2>3, <2>4, <2>5, <2>6, <2>7 DEF Next, Encode
<1> QED BY <1>1, <1>2, DataTypeCorrect, PTL DEF SpecExchange

------------------------------------------------------------------------------
(* dotStuff.                                                               *)

\* The next byte of the text begins a line of the stream with a dot exactly when
\* it does so in the text; dotStuff has then written a dot before it.
LEMMA NextIsNoDot ==
  ASSUME NEW s \in Seq(Byte), NEW t \in Seq(Byte), NEW f,
         Aligned(f, s, Len(s), t), f[Len(s)] < Len(t),
         AddedLast(f, s) <=> Dot(t, f[Len(s)] + 1)
  PROVE  ~Dot(Append(s, t[f[Len(s)] + 1]), Len(s) + 1)
<1> DEFINE m == Len(s)
           c == t[f[m] + 1]
           r == Append(s, c)
<1>1. m \in Nat /\ Len(t) \in Nat /\ f \in [0 .. m -> Nat] /\ f[0] = 0 /\ f[m] \in Nat
  BY LenProperties DEF Aligned
<1>2. c \in Byte
  BY <1>1
<1>3. \A k \in 1 .. m : r[k] = s[k]
  BY <1>2, OneByte
<1>4. r[m + 1] = c
  BY <1>2, OneByte
<1> SUFFICES ASSUME Dot(r, m + 1) PROVE FALSE
  OBVIOUS
<1>5. c = "DOT" /\ LineStart(r, m + 1)
  BY <1>4 DEF Dot
<1> HIDE DEF r
<1>6. CASE m = 0
  <2>1. f[m] = 0 /\ Dot(t, f[m] + 1)
    BY <1>1, <1>5, <1>6 DEF Dot, LineStart
  <2> QED BY <1>6, <2>1 DEF AddedLast
<1>7. CASE m # 0
  <2>1. m >= 2 /\ r[m - 1] = "CR" /\ r[m] = "LF"
    <3>1. m + 1 # 1 /\ m + 1 - 2 = m - 1 /\ m + 1 - 1 = m
      BY <1>1, <1>7
    <3>2. m + 1 > 2 /\ r[m + 1 - 2] = "CR" /\ r[m + 1 - 1] = "LF"
      BY <1>5, <3>1 DEF LineStart
    <3> QED BY <1>1, <3>1, <3>2
  <2>2. m \in 1 .. m /\ m - 1 \in 1 .. m /\ m - 1 - 1 = m - 2
    BY <1>1, <2>1
  <2>3. s[m - 1] = "CR" /\ s[m] = "LF"
    BY <1>3, <2>1, <2>2
  <2>copied. ASSUME NEW k \in 1 .. m, s[k] # "DOT"
             PROVE  f[k] = f[k - 1] + 1 /\ f[k - 1] \in Nat /\ t[f[k]] = s[k]
    <3>1. Aligned(f, s, m, t)
      OBVIOUS
    <3>2. k - 1 \in 0 .. m
      BY <1>1
    <3> HIDE DEF m, c
    <3>3. Copied(f, s, k, t) \/ Added(f, s, k)
      BY <3>1 DEF Aligned
    <3>4. Copied(f, s, k, t)
      BY <2>copied, <3>3 DEF Added, Dot
    <3>5. f[k - 1] \in Nat
      BY <1>1, <3>2
    <3> QED BY <3>4, <3>5 DEF Copied
  <2>4. f[m] = f[m - 1] + 1 /\ f[m - 1] \in Nat /\ t[f[m]] = "LF"
    BY <2>2, <2>3, <2>copied
  <2>5. f[m - 1] = f[m - 2] + 1 /\ f[m - 2] \in Nat /\ t[f[m - 1]] = "CR"
    BY <2>2, <2>3, <2>copied
  <2> DEFINE d == f[m - 2]
             next == f[m] + 1
  <2>6. next > 2 /\ next - 2 = f[m - 1] /\ next - 1 = f[m]
    <3>1. d \in Nat /\ f[m - 1] = d + 1 /\ f[m] = d + 2
      BY <2>4, <2>5
    <3> HIDE DEF d
    <3> QED BY <3>1
  <2>7. Dot(t, f[m] + 1)
    <3>1. t[next] = "DOT" /\ t[next - 2] = "CR" /\ t[next - 1] = "LF"
      BY <1>5, <2>4, <2>5, <2>6
    <3>2. Dot(t, next)
      <4> HIDE DEF next
      <4> QED BY <2>6, <3>1 DEF Dot, LineStart
    <3> QED BY <3>2
  <2> QED BY <2>4, <2>7 DEF AddedLast
<1> QED BY <1>6, <1>7

\* One iteration of dotStuff: it writes a byte of the text, and a dot if the next
\* one is a dot that begins a line.
LEMMA StuffByte ==
  ASSUME NEW s \in Seq(Byte), NEW t \in Seq(Byte), NEW j \in Nat, j < Len(t),
         StuffedTo(s, t, j),
         NEW r, r = IF j + 1 < Len(t) /\ Dot(t, j + 2)
                    THEN Append(Append(s, t[j + 1]), "DOT")
                    ELSE Append(s, t[j + 1])
  PROVE  StuffedTo(r, t, j + 1)
<1> PICK f : /\ Aligned(f, s, Len(s), t) /\ f[Len(s)] = j
             /\ AddedLast(f, s) <=> Dot(t, j + 1)
  BY DEF StuffedTo
<1> SUFFICES \E g : /\ Aligned(g, r, Len(r), t) /\ g[Len(r)] = j + 1
                    /\ AddedLast(g, r) <=> j + 1 < Len(t) /\ Dot(t, j + 2)
  <2>1. j + 1 + 1 = j + 2
    OBVIOUS
  <2> QED BY <2>1 DEF StuffedTo
<1> DEFINE m == Len(s)
           c == t[j + 1]
           s1 == Append(s, c)
           s2 == Append(s1, "DOT")
<1>1. m \in Nat /\ Len(t) \in Nat /\ f \in [0 .. m -> Nat] /\ f[0] = 0
      /\ c \in Byte /\ "DOT" \in Byte
  BY LenProperties DEF Aligned, Byte
<1>2. /\ s1 \in Seq(Byte) /\ Len(s1) = m + 1 /\ s1[m + 1] = c
      /\ \A k \in 1 .. m : s1[k] = s[k]
  BY <1>1, OneByte
<1>3. ~Dot(s1, m + 1)
  BY NextIsNoDot
<1>4. Aligned(f, s1, m, t)
  <2>1. AddedLast(f, s) => c = "DOT"
    BY DEF Dot
  <2>2. /\ m \in 0 .. Len(s) /\ Aligned(f, s, m, t)
        /\ m = Len(s) /\ AddedLast(f, s) => c = "DOT"
    BY <1>1, <2>1
  <2> HIDE DEF m, c
  <2> QED BY <1>1, <2>2, Grow
<1> HIDE DEF s1
<1>5. PICK g : Aligned(g, s1, m + 1, t) /\ g[m + 1] = f[m] + 1 /\ g[m] = f[m]
  <2>1. f[m] + 1 <= Len(t) /\ s1[m + 1] = t[f[m] + 1] /\ m < Len(s1)
    BY <1>1, <1>2
  <2>2. m \in Nat /\ s1 \in Seq(Byte) /\ ~Dot(s1, m + 1) /\ Aligned(f, s1, m, t)
    BY <1>1, <1>2, <1>3, <1>4
  <2> HIDE DEF m
  <2> QED BY <2>1, <2>2, ExtendCopied
<1>6. g[m + 1] = j + 1 /\ ~AddedLast(g, s1)
  <2>1. m + 1 - 1 = m /\ g[m] # g[m + 1]
    BY <1>1, <1>5
  <2> QED BY <1>2, <1>5, <2>1 DEF AddedLast
<1>7. CASE ~(j + 1 < Len(t) /\ Dot(t, j + 2))
  <2>1. r = s1
    BY <1>7 DEF s1
  <2> QED BY <1>2, <1>5, <1>6, <1>7, <2>1
<1>8. CASE j + 1 < Len(t) /\ Dot(t, j + 2)
  <2>1. /\ s2 \in Seq(Byte) /\ Len(s2) = m + 2 /\ s2[m + 2] = "DOT"
        /\ \A k \in 1 .. m + 1 : s2[k] = s1[k]
    <3>1. s2 \in Seq(Byte) /\ Len(s2) = Len(s1) + 1 /\ s2[Len(s1) + 1] = "DOT"
          /\ \A k \in 1 .. Len(s1) : s2[k] = s1[k]
      BY <1>1, <1>2, OneByte
    <3> HIDE DEF s2
    <3> QED BY <1>1, <1>2, <3>1
  <2>2. Aligned(g, s2, m + 1, t)
    BY <1>1, <1>2, <1>5, <1>6, Grow
  <2>3. r = s2
    BY <1>8 DEF s1
  <2> HIDE DEF s2
  <2>4. j >= 1 /\ t[j] = "CR" /\ c = "LF"
    <3>1. j + 2 # 1 /\ j + 2 - 2 = j /\ j + 2 - 1 = j + 1 /\ (j + 2 > 2 <=> j >= 1)
      OBVIOUS
    <3> QED BY <1>8, <3>1 DEF Dot, LineStart
  <2>5. m >= 1 /\ s[m] = "CR"
    <3>1. m # 0
      BY <1>1, <2>4
    <3>2. m \in 1 .. m
      BY <1>1, <3>1
    <3>3. f[m] # f[m - 1]
      <4>1. ~AddedLast(f, s)
        BY <2>4 DEF Dot
      <4> QED BY <1>1, <3>1, <4>1 DEF AddedLast
    <3>4. s[m] = t[f[m]]
      <4>1. Aligned(f, s, m, t)
        OBVIOUS
      <4> HIDE DEF m, c
      <4>2. Copied(f, s, m, t) \/ Added(f, s, m)
        BY <3>2, <4>1 DEF Aligned
      <4> QED BY <3>3, <4>2 DEF Copied, Added
    <3> QED BY <1>1, <2>4, <3>1, <3>4
  <2>6. Dot(s2, m + 2)
    <3>1. m + 2 - 2 = m /\ m + 2 - 1 = m + 1 /\ m + 2 > 2 /\ m \in 1 .. m
          /\ m \in 1 .. m + 1 /\ m + 1 \in 1 .. m + 1
      BY <1>1, <2>5
    <3>2. s2[m] = "CR" /\ s2[m + 1] = "LF"
      BY <1>2, <2>1, <2>4, <2>5, <3>1
    <3> QED BY <2>1, <3>1, <3>2 DEF Dot, LineStart
  <2>7. PICK h : Aligned(h, s2, m + 2, t) /\ h[m + 2] = g[m + 1] /\ h[m + 1] = g[m + 1]
    <3> DEFINE n == m + 1
    <3>1. n \in Nat /\ n < Len(s2) /\ ~(n + 1 < Len(s2)) /\ n + 1 = m + 2
      BY <1>1, <2>1
    <3>2. Dot(s2, n + 1) /\ Aligned(g, s2, n, t)
      BY <2>2, <2>6, <3>1
    <3> HIDE DEF n
    <3>3. \E h : Aligned(h, s2, n + 1, t) /\ h[n + 1] = g[n] /\ h[n] = g[n]
      BY <2>1, <3>1, <3>2, ExtendAdded
    <3> QED BY <3>1, <3>3 DEF n
  <2>8. AddedLast(h, s2)
    <3>1. m + 2 - 1 = m + 1 /\ m + 2 > 0
      BY <1>1
    <3> QED BY <2>1, <2>7, <3>1 DEF AddedLast
  <2> QED BY <1>6, <1>8, <2>1, <2>3, <2>7, <2>8
<1> QED BY <1>7, <1>8

\* dotStuff adds a dot to each dot that begins a line of the text and changes
\* nothing else, wherever the lines of its input break.
THEOREM DotsAreStuffed == SpecExchange => []StuffInv
<1>1. InitExchange => StuffInv
  BY DEF InitExchange, Init, StuffInv
<1>2. TypeData /\ StuffInv /\ [NextExchange]_allVars => StuffInv'
  <2> SUFFICES ASSUME TypeData, StuffInv, Next \/ UNCHANGED vars PROVE StuffInv'
    BY ExchangeKeepsData
  <2>0. /\ out \in Seq(Byte) /\ buf \in Seq(Byte) /\ i \in Nat /\ i <= Len(buf)
        /\ Len(out) \in Nat /\ Len(buf) \in Nat
    BY LenProperties DEF TypeData
  <2>1. CASE Normalize
    BY <2>1 DEF Normalize, StuffInv
  <2>2. CASE BeginStuff
    <3>1. phase' = "stuff" /\ i' = 0 /\ buf' = out /\ out' = BeforeFirst
      BY <2>2 DEF BeginStuff
    <3>2. CASE out # <<>> /\ out[1] = "DOT"
      <4> DEFINE f == [k \in 0 .. 1 |-> 0]
      <4>1. out' = <<"DOT">> /\ Len(out') = 1 /\ out'[1] = "DOT"
        BY <3>1, <3>2 DEF BeforeFirst
      <4>2. f \in [0 .. 1 -> Nat] /\ f[0] = 0 /\ f[1] = 0
        OBVIOUS
      <4> HIDE DEF f
      <4>3. Added(f, out', 1)
        BY <4>1, <4>2 DEF Added, Dot, LineStart
      <4>4. \A k \in 1 .. 1 : k = 1
        OBVIOUS
      <4>5. Aligned(f, out', Len(out'), buf') /\ f[Len(out')] = i'
        BY <3>1, <4>1, <4>2, <4>3, <4>4 DEF Aligned
      <4>6. AddedLast(f, out')
        BY <4>1, <4>2 DEF AddedLast
      <4>7. i' < Len(buf') /\ Dot(buf', i' + 1)
        <5>1. Len(out) > 0
          BY <2>0, <3>2, EmptySeq
        <5> QED BY <3>1, <3>2, <5>1 DEF Dot, LineStart
      <4> QED BY <3>1, <4>1, <4>2, <4>5, <4>6, <4>7 DEF StuffInv, StuffedTo
    <3>3. CASE ~(out # <<>> /\ out[1] = "DOT")
      <4> DEFINE f == [k \in 0 .. 0 |-> 0]
      <4>1. out' = <<>> /\ Len(out') = 0
        BY <3>1, <3>3 DEF BeforeFirst
      <4>2. f \in [0 .. 0 -> Nat] /\ f[0] = 0
        OBVIOUS
      <4> HIDE DEF f
      <4>3. Aligned(f, out', Len(out'), buf') /\ f[Len(out')] = i'
        BY <3>1, <4>1, <4>2 DEF Aligned
      <4>4. ~AddedLast(f, out')
        BY <4>1 DEF AddedLast
      <4>5. ~(i' < Len(buf') /\ Dot(buf', i' + 1))
        BY <3>1, <3>3, EmptySeq DEF Dot
      <4> QED BY <3>1, <4>1, <4>2, <4>3, <4>4, <4>5 DEF StuffInv, StuffedTo
    <3> QED BY <3>2, <3>3
  <2>3. CASE Stuff
    <3>1. /\ i < Len(buf) /\ phase = "stuff" /\ i' = i + 1
          /\ out' = IF i + 1 < Len(buf) /\ Dot(buf, i + 2)
                    THEN Append(Append(out, buf[i + 1]), "DOT")
                    ELSE Append(out, buf[i + 1])
          /\ phase' = phase /\ buf' = buf
      BY <2>3, StuffStep
    <3>2. StuffedTo(out, buf, i)
      BY <3>1 DEF StuffInv
    <3>3. StuffedTo(out', buf, i + 1)
      BY <2>0, <3>1, <3>2, StuffByte
    <3> QED BY <3>1, <3>3 DEF StuffInv
  <2>4. CASE EndStuff
    BY <2>4 DEF EndStuff, StuffInv
  <2>5. CASE Terminate
    BY <2>5 DEF Terminate, StuffInv
  <2>6. CASE Receive
    BY <2>6 DEF Receive, clientVars, StuffInv
  <2>7. CASE UNCHANGED vars
    BY <2>7 DEF vars, clientVars, StuffInv
  <2> QED BY <2>1, <2>2, <2>3, <2>4, <2>5, <2>6, <2>7 DEF Next, Encode
<1> QED BY <1>1, <1>2, DataTypeCorrect, PTL DEF SpecExchange

------------------------------------------------------------------------------
(* The terminator.                                                         *)

\* A byte that is no dot is written as it is.
LEMMA WholeByte ==
  ASSUME NEW s \in Seq(Byte), NEW t \in Seq(Byte), Whole(s, t),
         NEW c \in Byte, c # "DOT"
  PROVE  Whole(Append(s, c), Append(t, c))
<1> DEFINE n == Len(s)
           r == Append(s, c)
           u == Append(t, c)
<1>1. PICK f : Aligned(f, s, n, t) /\ f[n] = Len(t) /\ ~AddedLast(f, s)
  BY DEF Whole
<1>2. n \in Nat /\ Len(t) \in Nat /\ f \in [0 .. n -> Nat]
  BY <1>1, LenProperties DEF Aligned
<1>3. r \in Seq(Byte) /\ Len(r) = n + 1 /\ r[n + 1] = c
  BY OneByte
<1>4. /\ u \in Seq(Byte) /\ Len(u) = Len(t) + 1 /\ u[Len(t) + 1] = c
      /\ \A k \in 1 .. Len(t) : u[k] = t[k]
  BY OneByte
<1>5. Aligned(f, r, n, t)
  BY <1>1, <1>2, Grow
<1> HIDE DEF r, u
<1>6. Aligned(f, r, n, u)
  <2> SUFFICES ASSUME NEW k \in 1 .. n, Copied(f, r, k, t)
               PROVE  Copied(f, r, k, u)
    BY <1>5 DEF Aligned
  <2>1. f[k - 1] \in Nat /\ f[k] = f[k - 1] + 1 /\ f[k] <= Len(t)
    <3>1. k - 1 \in 0 .. n
      BY <1>2
    <3>2. f[k - 1] \in Nat
      BY <1>2, <3>1
    <3> QED BY <3>2 DEF Copied
  <2>2. f[k] \in 1 .. Len(t) /\ f[k] <= Len(t) + 1
    BY <1>2, <2>1
  <2> QED BY <1>4, <2>2 DEF Copied
<1>7. ~Dot(r, n + 1)
  BY <1>3 DEF Dot
<1>8. f[n] + 1 <= Len(u) /\ r[n + 1] = u[f[n] + 1] /\ n < Len(r)
  BY <1>1, <1>2, <1>3, <1>4
<1>9. PICK g : Aligned(g, r, n + 1, u) /\ g[n + 1] = f[n] + 1 /\ g[n] = f[n]
  <2>1. n \in Nat /\ r \in Seq(Byte) /\ u \in Seq(Byte)
    BY <1>2, <1>3, <1>4
  <2> HIDE DEF n
  <2> QED BY <1>6, <1>7, <1>8, <2>1, ExtendCopied
<1>10. ~AddedLast(g, r)
  <2>1. n + 1 - 1 = n /\ f[n] + 1 # f[n]
    BY <1>1, <1>2
  <2> QED BY <1>3, <1>9, <2>1 DEF AddedLast
<1>11. Whole(r, u)
  BY <1>1, <1>3, <1>4, <1>9, <1>10 DEF Whole
<1> QED BY <1>11 DEF r, u

\* The stuffed text ends in CRLF exactly when the text does: doSend may look at
\* either.
LEMMA WholeEnds ==
  ASSUME NEW s \in Seq(Byte), NEW t \in Seq(Byte), Whole(s, t)
  PROVE  EndsInCRLF(s) <=> EndsInCRLF(t)
<1> DEFINE n == Len(s)
<1>1. PICK f : Aligned(f, s, n, t) /\ f[n] = Len(t) /\ ~AddedLast(f, s)
  BY DEF Whole
<1>2. n \in Nat /\ Len(t) \in Nat /\ f \in [0 .. n -> Nat] /\ f[0] = 0
  BY <1>1, LenProperties DEF Aligned
<1>3. CASE n = 0
  BY <1>1, <1>2, <1>3 DEF EndsInCRLF
<1>4. CASE n > 0
  <2>1. n \in 1 .. n /\ f[n] # f[n - 1]
    BY <1>1, <1>2, <1>4 DEF AddedLast
  <2>2. f[n] = f[n - 1] + 1 /\ f[n - 1] \in Nat /\ s[n] = t[Len(t)]
    BY <1>1, <1>2, <2>1, CopiedByte
  <2>3. CASE n = 1
    <3>1. Len(t) = 1
      BY <1>1, <1>2, <2>2, <2>3
    <3> QED BY <2>3, <3>1 DEF EndsInCRLF
  <2>4. CASE n >= 2 /\ Added(f, s, n - 1)
    <3>1. s[n] = "DOT"
      <4>1. n - 1 < Len(s) /\ n - 1 + 1 = n
        BY <1>2, <2>4
      <4> QED BY <2>4, <4>1 DEF Added
    <3> QED BY <2>2, <3>1 DEF EndsInCRLF
  <2>5. CASE n >= 2 /\ ~Added(f, s, n - 1)
    <3>1. n - 1 \in 1 .. n /\ n - 1 - 1 = n - 2 /\ n - 2 \in 0 .. n
      BY <1>2, <2>5
    <3>2. Copied(f, s, n - 1, t)
      BY <1>1, <2>5, <3>1 DEF Aligned
    <3>3. f[n - 1] = f[n - 2] + 1 /\ s[n - 1] = t[f[n - 1]] /\ f[n - 2] \in Nat
      BY <1>2, <3>1, <3>2 DEF Copied
    <3>4. Len(t) >= 2 /\ f[n - 1] = Len(t) - 1
      <4>1. ASSUME NEW a \in Nat, NEW b, NEW d, b = a + 1, d = b + 1
            PROVE  d >= 2 /\ b = d - 1
        BY <4>1
      <4> QED BY <1>1, <2>2, <3>3, <4>1
    <3> QED BY <2>2, <2>5, <3>3, <3>4 DEF EndsInCRLF
  <2> QED BY <1>2, <1>4, <2>3, <2>4, <2>5
<1> QED BY <1>2, <1>3, <1>4

\* The terminator after a text that ends in CRLF is a line of its own.
LEMMA WholeSent ==
  ASSUME NEW s \in Seq(Byte), NEW t \in Seq(Byte), Whole(s, t), EndsInCRLF(s),
         NEW r, r = Append(Append(Append(s, "DOT"), "CR"), "LF")
  PROVE  \E f : Sent(f, r, Len(s), t)
<1> DEFINE n == Len(s)
           s1 == Append(s, "DOT")
           s2 == Append(s1, "CR")
<1>1. PICK f : Aligned(f, s, n, t) /\ f[n] = Len(t) /\ ~AddedLast(f, s)
  BY DEF Whole
<1>2. n \in Nat /\ "DOT" \in Byte /\ "CR" \in Byte /\ "LF" \in Byte
  BY LenProperties DEF Byte
<1>3. /\ s1 \in Seq(Byte) /\ Len(s1) = n + 1 /\ s1[n + 1] = "DOT"
      /\ \A k \in 1 .. n : s1[k] = s[k]
  BY <1>2, OneByte
<1>4. Aligned(f, s1, n, t)
  BY <1>1, <1>2, Grow
<1> HIDE DEF s1
<1>5. /\ s2 \in Seq(Byte) /\ Len(s2) = n + 2 /\ s2[n + 2] = "CR"
      /\ \A k \in 1 .. n + 1 : s2[k] = s1[k]
  <2>1. s2 \in Seq(Byte) /\ Len(s2) = Len(s1) + 1 /\ s2[Len(s1) + 1] = "CR"
        /\ \A k \in 1 .. Len(s1) : s2[k] = s1[k]
    BY <1>2, <1>3, OneByte
  <2> HIDE DEF s2
  <2> QED BY <1>2, <1>3, <2>1
<1>6. Aligned(f, s2, n, t)
  <2>1. n \in 0 .. Len(s1) /\ n # Len(s1)
    BY <1>2, <1>3
  <2> QED BY <1>2, <1>3, <1>4, <2>1, Grow
<1> HIDE DEF s2
<1>7. r = Append(s2, "LF")
  BY DEF s1, s2
<1>8. /\ r \in Seq(Byte) /\ Len(r) = n + 3 /\ r[n + 3] = "LF"
      /\ \A k \in 1 .. n + 2 : r[k] = s2[k]
  <2>1. r \in Seq(Byte) /\ Len(r) = Len(s2) + 1 /\ r[Len(s2) + 1] = "LF"
        /\ \A k \in 1 .. Len(s2) : r[k] = s2[k]
    <3>1. /\ Append(s2, "LF") \in Seq(Byte) /\ Len(Append(s2, "LF")) = Len(s2) + 1
          /\ Append(s2, "LF")[Len(s2) + 1] = "LF"
          /\ \A k \in 1 .. Len(s2) : Append(s2, "LF")[k] = s2[k]
      BY <1>2, <1>5, OneByte
    <3> QED BY <1>7, <3>1, Zenon
  <2> QED BY <1>2, <1>5, <2>1
<1>9. Aligned(f, r, n, t)
  <2>1. n \in 0 .. Len(s2) /\ n # Len(s2)
    BY <1>2, <1>5
  <2> QED BY <1>2, <1>5, <1>6, <1>7, <2>1, Grow
<1>10. n >= 2 /\ s[n - 1] = "CR" /\ s[n] = "LF"
  BY DEF EndsInCRLF
<1>11. Terminated(r, n)
  <2>1. /\ n - 1 \in 1 .. n /\ n \in 1 .. n /\ n - 1 \in 1 .. n + 1
        /\ n \in 1 .. n + 1 /\ n - 1 \in 1 .. n + 2 /\ n \in 1 .. n + 2
        /\ n + 1 \in 1 .. n + 1 /\ n + 1 \in 1 .. n + 2 /\ n + 2 \in 1 .. n + 2
    BY <1>2, <1>10
  <2>2. r[n - 1] = "CR" /\ r[n] = "LF"
    BY <1>3, <1>5, <1>8, <1>10, <2>1
  <2>3. r[n + 1] = "DOT" /\ r[n + 2] = "CR"
    BY <1>3, <1>5, <1>8, <2>1
  <2> QED BY <1>2, <1>8, <1>10, <2>2, <2>3 DEF Terminated
<1> QED BY <1>1, <1>9, <1>11 DEF Sent

------------------------------------------------------------------------------
(* The server.                                                             *)

\* Only the first byte of what it is reading begins a line.
LEMMA InsideLine ==
  ASSUME NEW s, NEW r \in Nat, NEW l \in Seq(Byte), LineInv(s, r, l), Len(l) > 0
  PROVE  ~LineStart(s, r + 1)
<1> DEFINE m == Len(l)
           b == r - m
<1>1. m \in Nat /\ m > 0 /\ b \in Nat /\ r = b + m
  BY LenProperties DEF LineInv
<1>2. r + 1 # 1 /\ r + 1 - 2 = r - 1 /\ r + 1 - 1 = r
  BY <1>1
<1> SUFFICES ASSUME r > 1, s[r - 1] = "CR", s[r] = "LF" PROVE FALSE
  BY <1>2 DEF LineStart
<1>3. CASE m >= 2
  <2>1. m \in 1 .. m /\ m - 1 \in 1 .. m /\ m - 1 \in 1 .. m - 1 /\ m - 1 + 1 = m
        /\ r - m + (m - 1) = r - 1 /\ r - m + m = r
    BY <1>1, <1>3
  <2>2. l[m - 1] = "CR" /\ l[m] = "LF"
    BY <2>1 DEF LineInv
  <2> QED BY <2>1, <2>2 DEF LineInv
<1>4. CASE m = 1
  <2>1. LineStart(s, r)
    <3>1. r - m + 1 = r
      BY <1>1, <1>4
    <3> QED BY <3>1 DEF LineInv
  <2>2. r # 1
    OBVIOUS
  <2>3. "CR" # "LF"
    OBVIOUS
  <2> QED BY <2>1, <2>2, <2>3, Zenon DEF LineStart
<1>5. m >= 2 \/ m = 1
  <2>1. \A a \in Nat : a > 0 => a >= 2 \/ a = 1
    OBVIOUS
  <2> HIDE DEF m
  <2> QED BY <1>1, <2>1
<1> QED BY <1>3, <1>4, <1>5

\* The line goes on, or the next one begins.
LEMMA LineByte ==
  ASSUME NEW s \in Seq(Byte), NEW r \in Nat, r < Len(s), NEW l \in Seq(Byte),
         LineInv(s, r, l)
  PROVE  /\ ~EndsInCRLF(Append(l, s[r + 1])) =>
               LineInv(s, r + 1, Append(l, s[r + 1]))
         /\ EndsInCRLF(Append(l, s[r + 1])) => LineInv(s, r + 1, <<>>)
<1> DEFINE c == s[r + 1]
           a == Append(l, c)
           m == Len(l)
<1>1. c \in Byte /\ m \in Nat /\ Len(s) \in Nat /\ m <= r
  BY LenProperties DEF LineInv
<1>2. Len(a) = m + 1 /\ a[m + 1] = c /\ \A k \in 1 .. m : a[k] = l[k]
  BY <1>1, OneByte
<1> HIDE DEF a
<1>3. \A k \in 1 .. Len(a) : a[k] = s[r + 1 - Len(a) + k]
  <2> SUFFICES ASSUME NEW k \in 1 .. m + 1
               PROVE  a[k] = s[r + 1 - (m + 1) + k]
    BY <1>2
  <2>1. r + 1 - (m + 1) + k = r - m + k
    BY <1>1
  <2>2. CASE k = m + 1
    <3>1. r - m + k = r + 1
      BY <1>1, <2>2
    <3> QED BY <1>2, <2>1, <2>2, <3>1
  <2>3. CASE k \in 1 .. m
    BY <1>2, <2>1, <2>3 DEF LineInv
  <2> QED BY <1>1, <2>2, <2>3
<1>4. ASSUME ~EndsInCRLF(a) PROVE LineInv(s, r + 1, a)
  <2>1. Len(a) <= r + 1 /\ LineStart(s, r + 1 - Len(a) + 1)
    <3>1. r + 1 - Len(a) + 1 = r - m + 1 /\ Len(a) <= r + 1
      BY <1>1, <1>2
    <3> QED BY <3>1 DEF LineInv
  <2>2. ASSUME NEW k \in 1 .. Len(a) - 1
        PROVE  ~(a[k] = "CR" /\ a[k + 1] = "LF")
    <3>1. CASE k = m
      <4>1. Len(a) >= 2 /\ Len(a) - 1 = k /\ Len(a) = k + 1
        BY <1>1, <1>2, <3>1
      <4> QED BY <1>4, <4>1 DEF EndsInCRLF
    <3>2. CASE k # m
      <4>1. k \in 1 .. m - 1 /\ k \in 1 .. m /\ k + 1 \in 1 .. m
        BY <1>1, <1>2, <3>2
      <4> QED BY <1>2, <4>1 DEF LineInv
    <3> QED BY <3>1, <3>2
  <2> QED BY <1>3, <2>1, <2>2 DEF LineInv
<1>5. ASSUME EndsInCRLF(a) PROVE LineInv(s, r + 1, <<>>)
  <2>1. m >= 1 /\ a[m] = "CR" /\ a[m + 1] = "LF"
    <3>1. m + 1 >= 2 /\ m + 1 - 1 = m
      BY <1>1, <1>2, <1>5 DEF EndsInCRLF
    <3> QED BY <1>1, <1>2, <1>5, <3>1 DEF EndsInCRLF
  <2>2. s[r] = "CR" /\ s[r + 1] = "LF"
    <3>1. m \in 1 .. Len(a) /\ m + 1 \in 1 .. Len(a)
          /\ r + 1 - Len(a) + m = r /\ r + 1 - Len(a) + (m + 1) = r + 1
      BY <1>1, <1>2, <2>1
    <3> QED BY <1>3, <2>1, <3>1
  <2>3. LineStart(s, r + 1 + 1)
    <3>1. r + 1 + 1 > 2 /\ r + 1 + 1 - 2 = r /\ r + 1 + 1 - 1 = r + 1
      BY <1>1, <2>1
    <3> QED BY <2>2, <3>1 DEF LineStart
  <2>4. Len(<<>>) = 0 /\ r + 1 - 0 = r + 1 /\ 0 <= r + 1
    OBVIOUS
  <2> QED BY <2>3, <2>4 DEF LineInv
<1> QED BY <1>4, <1>5 DEF a

\* The dot added to a line is its first byte.
LEMMA UnstuffedByte ==
  ASSUME NEW l \in Seq(Byte), NEW c \in Byte
  PROVE  /\ Unstuffed(l) \in Seq(Byte) /\ Unstuffed(<<>>) = <<>>
         /\ Unstuffed(Append(l, c)) = IF l = <<>> /\ c = "DOT" THEN <<>>
                                      ELSE Append(Unstuffed(l), c)
<1>1. Append(l, c) # <<>> /\ Append(l, c) \in Seq(Byte)
  <2>1. Len(Append(l, c)) = Len(l) + 1 /\ Len(l) \in Nat /\ Append(l, c) \in Seq(Byte)
    BY OneByte
  <2>2. Len(Append(l, c)) # 0 /\ Len(<<>>) = 0
    BY <2>1
  <2> QED BY <2>1, <2>2, Zenon
<1>2. CASE l = <<>>
  <2>1. Append(l, c) = <<c>> /\ <<c>>[1] = c /\ Tail(<<c>>) = <<>>
    BY <1>2
  <2> QED BY <1>1, <1>2, <2>1 DEF Unstuffed
<1>3. CASE l # <<>>
  <2>1. Append(l, c)[1] = l[1]
    BY <1>3
  <2>2. Tail(Append(l, c)) = Append(Tail(l), c) /\ Tail(l) \in Seq(Byte)
    BY <1>3
  <2> QED BY <1>1, <1>3, <2>1, <2>2 DEF Unstuffed
<1> QED BY <1>2, <1>3

\* A byte before the terminator: the dot that begins a line is an added one, and
\* every other byte is the next one of the text.
LEMMA TextByte ==
  ASSUME NEW s \in Seq(Byte), NEW t \in Seq(Byte), NEW n \in Nat, NEW f,
         Sent(f, s, n, t), NEW r \in Nat, r < n, NEW l \in Seq(Byte),
         NEW m \in Seq(Byte), LineInv(s, r, l), MailInv(f, n, t, r, l, m)
  PROVE  Begins(m \o Unstuffed(Append(l, s[r + 1])), f[r + 1], t)
<1> DEFINE c == s[r + 1]
           u == Unstuffed(l)
<1>1. /\ r + 1 \in 1 .. n /\ r + 1 - 1 = r /\ Len(s) = n + 3 /\ c \in Byte
      /\ Aligned(f, s, n, t)
  <2>1. Len(s) = n + 3 /\ Aligned(f, s, n, t)
    BY DEF Sent, Terminated
  <2>2. r + 1 \in 1 .. Len(s) /\ r + 1 \in 1 .. n /\ r + 1 - 1 = r
    BY <2>1
  <2> QED BY <2>1, <2>2
<1>2. Copied(f, s, r + 1, t) \/ Added(f, s, r + 1)
  BY <1>1 DEF Aligned
<1>3. Len(m \o u) = f[r] /\ \A k \in 1 .. f[r] : (m \o u)[k] = t[k]
  BY DEF MailInv, Begins
<1>4. u \in Seq(Byte) /\ m \o u \in Seq(Byte) /\ Len(m \o u) \in Nat
  <2>1. u \in Seq(Byte)
    BY <1>1, UnstuffedByte
  <2> HIDE DEF u
  <2> QED BY <2>1, ConcatProperties, LenProperties
<1>5. CASE l = <<>> /\ c = "DOT"
  <2>1. Dot(s, r + 1)
    <3>1. Len(l) = 0 /\ r - 0 + 1 = r + 1
      BY <1>5
    <3> QED BY <1>5, <3>1 DEF Dot, LineInv
  <2>2. f[r + 1] = f[r]
    BY <1>1, <1>2, <2>1 DEF Copied, Added
  <2>3. Unstuffed(Append(l, c)) = <<>> /\ u = <<>>
    BY <1>1, <1>5, UnstuffedByte
  <2> QED BY <1>3, <2>2, <2>3 DEF Begins
<1>6. CASE ~(l = <<>> /\ c = "DOT")
  <2>1. ~Dot(s, r + 1)
    <3>1. CASE l = <<>>
      BY <1>6, <3>1 DEF Dot
    <3>2. CASE l # <<>>
      <4>1. Len(l) > 0
        BY <3>2, EmptySeq, LenProperties
      <4> QED BY <4>1, InsideLine DEF Dot
    <3> QED BY <3>1, <3>2
  <2>2. f[r + 1] = f[r] + 1 /\ c = t[f[r + 1]]
    BY <1>1, <1>2, <2>1 DEF Copied, Added
  <2>3. Unstuffed(Append(l, c)) = Append(u, c)
    BY <1>1, <1>6, UnstuffedByte
  <2> HIDE DEF u
  <2>4. m \o Append(u, c) = Append(m \o u, c)
    BY <1>1, <1>4, ConcatAppend
  <2> DEFINE x == m \o u
             y == Append(x, c)
  <2>5. Len(y) = Len(x) + 1 /\ y[Len(x) + 1] = c /\ \A k \in 1 .. Len(x) : y[k] = x[k]
    BY <1>1, <1>4, OneByte
  <2>6. f[r] = Len(x) /\ Len(x) \in Nat /\ \A k \in 1 .. Len(x) : x[k] = t[k]
    BY <1>3, <1>4
  <2>7. m \o Unstuffed(Append(l, c)) = y
    BY <2>3, <2>4
  <2> HIDE DEF x, y
  <2>8. Begins(y, f[r + 1], t)
    <3>1. f[r + 1] = Len(x) + 1 /\ Len(y) = f[r + 1] /\ c = t[Len(x) + 1]
      BY <2>2, <2>5, <2>6
    <3>2. ASSUME NEW k \in 1 .. Len(x) + 1 PROVE y[k] = t[k]
      <4>1. CASE k = Len(x) + 1
        BY <2>5, <3>1, <4>1
      <4>2. CASE k \in 1 .. Len(x)
        BY <2>5, <2>6, <4>2
      <4> QED BY <2>6, <4>1, <4>2
    <3> QED BY <3>1, <3>2 DEF Begins
  <2> QED BY <2>7, <2>8
<1> QED BY <1>5, <1>6

\* A dot the server finds alone on a line before the terminator would be an
\* added one, and those have another dot after them.
LEMMA NoEarlyEnd ==
  ASSUME NEW s \in Seq(Byte), NEW t, NEW n \in Nat, NEW f, Sent(f, s, n, t),
         NEW r \in Nat, r < n, NEW l \in Seq(Byte), LineInv(s, r, l),
         EndsInCRLF(Append(l, s[r + 1]))
  PROVE  Append(l, s[r + 1]) # <<"DOT">> \o CRLF
<1> SUFFICES ASSUME Append(l, s[r + 1]) = <<"DOT">> \o CRLF PROVE FALSE
  OBVIOUS
<1>1. Len(s) = n + 3 /\ Aligned(f, s, n, t) /\ s[r + 1] \in Byte
  <2>1. Len(s) = n + 3 /\ Aligned(f, s, n, t)
    BY DEF Sent, Terminated
  <2>2. r + 1 \in 1 .. Len(s)
    BY <2>1
  <2> QED BY <2>1, <2>2
<1>2. Len(l) = 2 /\ l[1] = "DOT" /\ l[2] = "CR"
  <2> DEFINE a == Append(l, s[r + 1])
  <2>1. Len(a) = Len(l) + 1 /\ Len(l) \in Nat /\ \A k \in 1 .. Len(l) : a[k] = l[k]
    BY <1>1, OneByte
  <2>2. Len(a) = 3 /\ a[1] = "DOT" /\ a[2] = "CR"
    BY ByteSeqs, ConcatProperties DEF CRLF
  <2> HIDE DEF a
  <2>3. Len(l) = 2 /\ 1 \in 1 .. 2 /\ 2 \in 1 .. 2
    <3>1. \A j \in Nat : j + 1 = 3 => j = 2
      OBVIOUS
    <3>2. 1 \in 1 .. 2 /\ 2 \in 1 .. 2
      OBVIOUS
    <3> QED BY <2>1, <2>2, <3>1, <3>2, Zenon
  <2> QED BY <2>1, <2>2, <2>3
<1>3. r >= 2 /\ LineStart(s, r - 1) /\ s[r - 1] = "DOT" /\ s[r] = "CR"
  <2>1. r >= 2 /\ r - 2 + 1 = r - 1 /\ r - 2 + 2 = r /\ 1 \in 1 .. 2 /\ 2 \in 1 .. 2
    BY <1>2 DEF LineInv
  <2> QED BY <1>2, <2>1 DEF LineInv
<1>4. r - 1 \in 1 .. n /\ r - 1 < Len(s) /\ r - 1 + 1 = r
  BY <1>1, <1>3
<1>5. Added(f, s, r - 1)
  BY <1>1, <1>3, <1>4 DEF Aligned, Copied, Dot
<1> QED BY <1>3, <1>4, <1>5 DEF Added

\* The terminator begins a line, and the server has the text when it gets there.
LEMMA AtTerminator ==
  ASSUME NEW s \in Seq(Byte), NEW t \in Seq(Byte), NEW n \in Nat, NEW f,
         Sent(f, s, n, t), NEW r \in Nat, r >= n, NEW l \in Seq(Byte),
         NEW m \in Seq(Byte), LineInv(s, r, l), MailInv(f, n, t, r, l, m)
  PROVE  r - Len(l) = n /\ m = t
<1>1. CASE r > n
  BY <1>1 DEF MailInv
<1>2. CASE r = n
  <2>1. n >= 2 /\ s[n - 1] = "CR" /\ s[n] = "LF" /\ f[n] = Len(t)
    BY DEF Sent, Terminated
  <2>2. LineStart(s, r + 1)
    <3>1. r + 1 > 2 /\ r + 1 - 2 = n - 1 /\ r + 1 - 1 = n
      BY <1>2, <2>1
    <3> QED BY <2>1, <3>1 DEF LineStart
  <2>3. l = <<>> /\ Len(l) = 0
    <3>1. ~(Len(l) > 0)
      BY <2>2, InsideLine
    <3> QED BY <3>1, EmptySeq, LenProperties
  <2>4. m \o Unstuffed(l) = m
    <3>1. Unstuffed(<<>>) = <<>> /\ m \o <<>> = m
      BY DEF Unstuffed
    <3> QED BY <2>3, <3>1
  <2>5. Begins(m, Len(t), t)
    BY <1>2, <2>1, <2>4 DEF MailInv
  <2>6. m = t
    BY <2>5, SeqEqual DEF Begins
  <2> QED BY <1>2, <2>3, <2>6
<1> QED BY <1>1, <1>2

\* The server reads a byte of the text.
LEMMA ReceiveText ==
  ASSUME NEW s \in Seq(Byte), NEW t \in Seq(Byte), NEW n \in Nat, NEW f,
         Sent(f, s, n, t), NEW r \in Nat, r < n, NEW l \in Seq(Byte),
         NEW m \in Seq(Byte), LineInv(s, r, l), MailInv(f, n, t, r, l, m)
  PROVE  LET a == Append(l, s[r + 1]) IN
         /\ ~EndsInCRLF(a) =>
               LineInv(s, r + 1, a) /\ MailInv(f, n, t, r + 1, a, m)
         /\ EndsInCRLF(a) =>
               /\ a # <<"DOT">> \o CRLF /\ LineInv(s, r + 1, <<>>)
               /\ MailInv(f, n, t, r + 1, <<>>,
                          m \o IF a[1] = "DOT" THEN Tail(a) ELSE a)
<1> DEFINE a == Append(l, s[r + 1])
<1>1. r < Len(s) /\ r + 1 <= n
  BY DEF Sent, Terminated
<1>2. Begins(m \o Unstuffed(a), f[r + 1], t)
  BY TextByte
<1>3. a \in Seq(Byte) /\ a # <<>>
  <2>1. s[r + 1] \in Byte
    BY <1>1
  <2>2. a \in Seq(Byte) /\ Len(a) = Len(l) + 1 /\ Len(l) \in Nat
    BY <2>1, OneByte
  <2> HIDE DEF a
  <2>3. Len(a) # 0 /\ Len(<<>>) = 0
    BY <2>2
  <2> QED BY <2>2, <2>3, Zenon
<1>4. Unstuffed(a) = IF a[1] = "DOT" THEN Tail(a) ELSE a
  BY <1>3 DEF Unstuffed
<1>5. ASSUME EndsInCRLF(a)
      PROVE  MailInv(f, n, t, r + 1, <<>>, m \o Unstuffed(a))
  <2> DEFINE x == m \o Unstuffed(a)
  <2>1. x \in Seq(Byte)
    <3>1. Unstuffed(a) \in Seq(Byte)
      <4> HIDE DEF a
      <4>1. "DOT" \in Byte
        BY DEF Byte
      <4> QED BY <1>3, <4>1, UnstuffedByte
    <3> QED BY <3>1, ConcatProperties
  <2> HIDE DEF x
  <2>2. x \o Unstuffed(<<>>) = x
    <3>1. Unstuffed(<<>>) = <<>> /\ x \o <<>> = x
      BY <2>1 DEF Unstuffed
    <3> QED BY <3>1
  <2>3. Begins(x, f[r + 1], t)
    BY <1>2 DEF x
  <2>4. MailInv(f, n, t, r + 1, <<>>, x)
    BY <1>1, <2>2, <2>3 DEF MailInv
  <2> QED BY <2>4 DEF x
<1>6. MailInv(f, n, t, r + 1, a, m)
  BY <1>1, <1>2 DEF MailInv
<1>7. EndsInCRLF(a) => a # <<"DOT">> \o CRLF
  BY NoEarlyEnd
<1>8. /\ ~EndsInCRLF(a) => LineInv(s, r + 1, a)
      /\ EndsInCRLF(a) => LineInv(s, r + 1, <<>>)
  BY <1>1, LineByte
<1> HIDE DEF a
<1>9. /\ ~EndsInCRLF(a) => LineInv(s, r + 1, a) /\ MailInv(f, n, t, r + 1, a, m)
      /\ EndsInCRLF(a) =>
            /\ a # <<"DOT">> \o CRLF /\ LineInv(s, r + 1, <<>>)
            /\ MailInv(f, n, t, r + 1, <<>>, m \o IF a[1] = "DOT" THEN Tail(a) ELSE a)
  BY <1>4, <1>5, <1>6, <1>7, <1>8
<1> QED BY <1>9 DEF a

\* The text was complete before byte r + 1 made the line a; if that ends it, it
\* is the terminator, and the last line.
EndReceived(f, s, n, t, r, a, m) ==
    /\ m = t
    /\ ~EndsInCRLF(a) => LineInv(s, r + 1, a) /\ MailInv(f, n, t, r + 1, a, m)
    /\ EndsInCRLF(a) => a = <<"DOT">> \o CRLF /\ r + 1 = Len(s)

\* The server reads a byte of the terminator; the last one ends the data.
LEMMA ReceiveEnd ==
  ASSUME NEW s \in Seq(Byte), NEW t \in Seq(Byte), NEW n \in Nat, NEW f,
         Sent(f, s, n, t), NEW r \in Nat, r >= n, r < Len(s),
         NEW l \in Seq(Byte), NEW m \in Seq(Byte), LineInv(s, r, l),
         MailInv(f, n, t, r, l, m)
  PROVE  EndReceived(f, s, n, t, r, Append(l, s[r + 1]), m)
<1> DEFINE a == Append(l, s[r + 1])
<1>1. r - Len(l) = n /\ m = t /\ Len(l) \in Nat
  BY AtTerminator, LenProperties
<1>2. Len(s) = n + 3 /\ s[n + 1] = "DOT" /\ s[n + 2] = "CR" /\ s[n + 3] = "LF"
  BY DEF Sent, Terminated
<1>3. /\ a \in Seq(Byte) /\ Len(a) = Len(l) + 1 /\ a[Len(l) + 1] = s[r + 1]
      /\ \A k \in 1 .. Len(l) : a[k] = l[k]
  <2>1. s[r + 1] \in Byte
    OBVIOUS
  <2> QED BY <2>1, OneByte
<1>4. ~EndsInCRLF(a) => LineInv(s, r + 1, a)
  BY LineByte
<1> HIDE DEF a
<1>5. MailInv(f, n, t, r + 1, a, m)
  <2>1. r + 1 - Len(a) = n /\ ~(r + 1 <= n)
    BY <1>1, <1>3
  <2> QED BY <1>1, <2>1 DEF MailInv
<1>6. \A k \in 1 .. Len(l) : l[k] = s[n + k]
  BY <1>1 DEF LineInv
<1>7. CASE Len(l) = 2
  <2>1. r + 1 = n + 3 /\ Len(a) = 3 /\ 1 \in 1 .. 2 /\ 2 \in 1 .. 2
    BY <1>1, <1>3, <1>7
  <2>2. a[1] = "DOT" /\ a[2] = "CR" /\ a[3] = "LF"
    BY <1>2, <1>3, <1>6, <1>7, <2>1
  <2>3. /\ <<"DOT">> \o CRLF \in Seq(Byte) /\ Len(<<"DOT">> \o CRLF) = 3
        /\ (<<"DOT">> \o CRLF)[1] = "DOT" /\ (<<"DOT">> \o CRLF)[2] = "CR"
        /\ (<<"DOT">> \o CRLF)[3] = "LF"
    BY ByteSeqs, ConcatProperties DEF CRLF
  <2>4. \A k \in 1 .. 3 : k = 1 \/ k = 2 \/ k = 3
    OBVIOUS
  <2>5. a = <<"DOT">> \o CRLF
    <3> DEFINE z == <<"DOT">> \o CRLF
    <3>1. z \in Seq(Byte) /\ Len(z) = 3 /\ z[1] = "DOT" /\ z[2] = "CR" /\ z[3] = "LF"
      BY <2>3
    <3> HIDE DEF z
    <3>2. a \in Seq(Byte) /\ Len(a) = Len(z) /\ \A k \in 1 .. Len(a) : a[k] = z[k]
      BY <1>3, <2>1, <2>2, <2>4, <3>1
    <3>3. a = z
      BY <3>1, <3>2, SeqEqual
    <3> QED BY <3>3 DEF z
  <2>6. m = t /\ r + 1 = Len(s)
    BY <1>1, <1>2, <2>1
  <2>7. EndReceived(f, s, n, t, r, a, m)
    BY <1>4, <1>5, <2>5, <2>6 DEF EndReceived
  <2> QED BY <2>7 DEF a
<1>8. CASE Len(l) # 2
  <2>1. Len(l) = 0 \/ Len(l) = 1
    <3>1. \A j \in Nat : r - j = n /\ r < n + 3 /\ j # 2 => j = 0 \/ j = 1
      OBVIOUS
    <3>2. r < n + 3
      BY <1>2
    <3> QED BY <1>1, <1>8, <3>1, <3>2, Zenon
  <2>2. ~EndsInCRLF(a)
    <3>1. CASE Len(l) = 0
      BY <1>3, <3>1 DEF EndsInCRLF
    <3>2. CASE Len(l) = 1
      <4>1. Len(a) = 2 /\ a[1] = "DOT"
        BY <1>2, <1>3, <1>6, <3>2
      <4> QED BY <4>1 DEF EndsInCRLF
    <3> QED BY <2>1, <3>1, <3>2
  <2>3. EndReceived(f, s, n, t, r, a, m)
    BY <1>1, <1>4, <1>5, <2>2 DEF EndReceived
  <2> QED BY <2>3 DEF a
<1> QED BY <1>7, <1>8

\* Nothing is read when the stream begins.
LEMMA ReadNothing ==
  ASSUME NEW s \in Seq(Byte), NEW t \in Seq(Byte), NEW n \in Nat, NEW f,
         Sent(f, s, n, t)
  PROVE  LineInv(s, 0, <<>>) /\ MailInv(f, n, t, 0, <<>>, <<>>)
<1>1. Len(<<>>) = 0 /\ 0 - 0 + 1 = 1 /\ 0 <= 0
  OBVIOUS
<1>2. LineInv(s, 0, <<>>)
  BY <1>1 DEF LineInv, LineStart
<1>3. f[0] = 0
  BY DEF Sent, Aligned
<1>4. Unstuffed(<<>>) = <<>> /\ <<>> \o <<>> = <<>>
  BY DEF Unstuffed
<1>5. Begins(<<>> \o Unstuffed(<<>>), f[0], t)
  BY <1>1, <1>3, <1>4 DEF Begins
<1> QED BY <1>2, <1>5 DEF MailInv

\* Stuffing, the terminator and the server that undoes them: what holds of the
\* stream from its first byte to its last.
THEOREM StreamInvariant == SpecExchange => []SentInv
<1>1. InitExchange => SentInv
  BY DEF InitExchange, Init, SentInv
<1>2. TypeData /\ QuietInv /\ StuffInv /\ SentInv /\ [NextExchange]_allVars => SentInv'
  <2> SUFFICES ASSUME TypeData, QuietInv, StuffInv, SentInv, Next \/ UNCHANGED vars
               PROVE  SentInv'
    BY ExchangeKeepsData
  <2>0. /\ out \in Seq(Byte) /\ buf \in Seq(Byte) /\ line \in Seq(Byte)
        /\ mail \in Seq(Byte) /\ read \in Nat /\ Len(out) \in Nat
        /\ "CR" \in Byte /\ "LF" \in Byte
    BY LenProperties DEF TypeData, Byte
  <2>w. Wanted \in Seq(Byte)
    BY <2>0, ByteSeqs, ConcatProperties DEF Wanted
  <2>1. CASE Normalize
    BY <2>1 DEF Normalize, SentInv
  <2>2. CASE BeginStuff
    BY <2>2 DEF BeginStuff, SentInv
  <2>3. CASE Stuff
    BY <2>3 DEF Stuff, SentInv
  <2>4. CASE EndStuff
    BY <2>4 DEF EndStuff, SentInv
  <2>5. CASE Terminate
    <3>1. /\ phase = "terminate" /\ phase' = "sent" /\ out' = out \o Terminator
          /\ UNCHANGED <<buf, read, line, mail, over>>
      BY <2>5 DEF Terminate, serverVars
    <3>2. read = 0 /\ line = <<>> /\ mail = <<>> /\ ~over
      BY <3>1 DEF QuietInv
    <3>3. Whole(out, buf)
      <4>1. StuffedTo(out, buf, Len(buf)) /\ Len(buf) \in Nat
        BY <2>0, <3>1, LenProperties DEF StuffInv
      <4>2. ~(Len(buf) < Len(buf))
        BY <4>1
      <4> QED BY <4>1, <4>2 DEF StuffedTo, Whole
    <3>4. EndsInCRLF(out) <=> EndsInCRLF(buf)
      BY <2>0, <3>3, WholeEnds
    <3>5. \E n \in Nat : \E f : Sent(f, out', n, Wanted)
      <4>1. CASE EndsInCRLF(out)
        <5>1. out' = Append(Append(Append(out, "DOT"), "CR"), "LF")
          BY <2>0, <3>1, <4>1, TerminatorBytes
        <5>2. \E f : Sent(f, out', Len(out), buf)
          BY <2>0, <3>3, <4>1, <5>1, WholeSent
        <5> QED BY <2>0, <3>4, <4>1, <5>2 DEF Wanted
      <4>2. CASE ~EndsInCRLF(out)
        <5> DEFINE s == Append(Append(out, "CR"), "LF")
                   t == Append(Append(buf, "CR"), "LF")
        <5>1. out' = Append(Append(Append(s, "DOT"), "CR"), "LF")
          BY <2>0, <3>1, <4>2, TerminatorBytes
        <5>2. Wanted = t
          BY <2>0, <3>4, <4>2, WriteBytes DEF Wanted
        <5>3. /\ Append(out, "CR") \in Seq(Byte) /\ Append(buf, "CR") \in Seq(Byte)
              /\ s \in Seq(Byte) /\ t \in Seq(Byte)
          BY <2>0
        <5>4. Whole(Append(out, "CR"), Append(buf, "CR"))
          BY <2>0, <3>3, WholeByte
        <5>5. Whole(s, t)
          BY <2>0, <5>3, <5>4, WholeByte
        <5>6. EndsInCRLF(s) /\ Len(s) \in Nat
          <6> DEFINE r == Append(out, "CR")
          <6>1. Len(r) = Len(out) + 1 /\ r[Len(out) + 1] = "CR"
            BY <2>0, OneByte
          <6>2. Len(s) = Len(r) + 1 /\ s[Len(r) + 1] = "LF"
                /\ \A k \in 1 .. Len(r) : s[k] = r[k]
            BY <2>0, <5>3, OneByte
          <6> HIDE DEF r, s
          <6>3. Len(s) = Len(out) + 2 /\ s[Len(out) + 2] = "LF"
                /\ s[Len(out) + 1] = "CR" /\ Len(out) + 2 - 1 = Len(out) + 1
            <7>1. Len(out) \in Nat
              BY <2>0
            <7>2. Len(out) + 1 \in 1 .. Len(r) /\ Len(r) + 1 = Len(out) + 2
              BY <6>1, <7>1
            <7> QED BY <6>1, <6>2, <7>1, <7>2
          <6> QED BY <2>0, <6>3 DEF EndsInCRLF
        <5> HIDE DEF s, t
        <5>7. \E f : Sent(f, out', Len(s), t)
          BY <5>1, <5>3, <5>5, <5>6, WholeSent
        <5> QED BY <5>2, <5>6, <5>7
      <4> QED BY <4>1, <4>2
    <3> PICK n \in Nat : \E f : Sent(f, out', n, Wanted)
      BY <3>5
    <3>6. PICK f : Sent(f, out', n, Wanted)
      OBVIOUS
    <3>7. out' \in Seq(Byte)
      BY <2>0, <3>1, TerminatorBytes, ConcatProperties
    <3>8. LineInv(out', 0, <<>>) /\ MailInv(f, n, Wanted, 0, <<>>, <<>>)
      BY <2>w, <3>6, <3>7, ReadNothing
    <3>9. Wanted' = Wanted
      BY <3>1 DEF Wanted
    <3> QED BY <3>1, <3>2, <3>6, <3>8, <3>9 DEF SentInv
  <2>6. CASE Receive
    <3> DEFINE a == Append(line, out[read + 1])
    <3>1. /\ phase = "sent" /\ ~over /\ read < Len(out) /\ read' = read + 1
          /\ UNCHANGED <<phase, buf, out>>
      BY <2>6 DEF Receive, clientVars
    <3> PICK n \in Nat : \E f : /\ Sent(f, out, n, Wanted)
                                /\ LineInv(out, read, line)
                                /\ MailInv(f, n, Wanted, read, line, mail)
      BY <3>1 DEF SentInv
    <3>2. PICK f : /\ Sent(f, out, n, Wanted)
                   /\ LineInv(out, read, line)
                   /\ MailInv(f, n, Wanted, read, line, mail)
      OBVIOUS
    <3>3. Wanted' = Wanted
      BY <3>1 DEF Wanted
    <3>4. a \in Seq(Byte)
      <4>1. out[read + 1] \in Byte
        BY <2>0, <3>1
      <4> QED BY <2>0, <4>1, OneByte
    <3>5. \/ ~EndsInCRLF(a) /\ line' = a /\ UNCHANGED <<mail, over>>
          \/ /\ EndsInCRLF(a) /\ line' = <<>>
             /\ over' = (a = <<"DOT">> \o CRLF)
             /\ mail' = IF over' THEN mail
                        ELSE mail \o IF a[1] = "DOT" THEN Tail(a) ELSE a
      BY <2>6, <3>4, SuffixCRLF DEF Receive
    <3>6. CASE read < n
      <4>1. /\ ~EndsInCRLF(a) =>
                  /\ LineInv(out, read + 1, a)
                  /\ MailInv(f, n, Wanted, read + 1, a, mail)
            /\ EndsInCRLF(a) =>
                  /\ a # <<"DOT">> \o CRLF /\ LineInv(out, read + 1, <<>>)
                  /\ MailInv(f, n, Wanted, read + 1, <<>>,
                             mail \o IF a[1] = "DOT" THEN Tail(a) ELSE a)
        BY <2>0, <2>w, <3>2, <3>6, ReceiveText
      <4> HIDE DEF a
      <4>2. ~over' /\ LineInv(out, read + 1, line')
            /\ MailInv(f, n, Wanted, read + 1, line', mail')
        <5>1. CASE ~EndsInCRLF(a)
          BY <3>1, <3>5, <4>1, <5>1
        <5>2. CASE EndsInCRLF(a)
          <6>1. /\ ~over' /\ line' = <<>>
                /\ mail' = mail \o IF a[1] = "DOT" THEN Tail(a) ELSE a
            BY <3>5, <4>1, <5>2, Zenon
          <6> QED BY <4>1, <5>2, <6>1
        <5> QED BY <5>1, <5>2
      <4> QED BY <3>1, <3>2, <3>3, <4>2 DEF SentInv
    <3>7. CASE read >= n
      <4>1. /\ mail = Wanted
            /\ ~EndsInCRLF(a) =>
                  /\ LineInv(out, read + 1, a)
                  /\ MailInv(f, n, Wanted, read + 1, a, mail)
            /\ EndsInCRLF(a) => a = <<"DOT">> \o CRLF /\ read + 1 = Len(out)
        <5>1. /\ out \in Seq(Byte) /\ Wanted \in Seq(Byte) /\ line \in Seq(Byte)
              /\ mail \in Seq(Byte) /\ read \in Nat /\ read >= n /\ read < Len(out)
          BY <2>0, <2>w, <3>1, <3>7
        <5>2. EndReceived(f, out, n, Wanted, read, a, mail)
          BY <3>2, <5>1, ReceiveEnd
        <5> HIDE DEF a
        <5> QED BY <5>2 DEF EndReceived
      <4> HIDE DEF a
      <4>2. CASE EndsInCRLF(a)
        <5>1. over' /\ mail' = Wanted /\ read' = Len(out)
          BY <3>1, <3>5, <4>1, <4>2
        <5> QED BY <3>1, <3>2, <3>3, <5>1 DEF SentInv
      <4>3. CASE ~EndsInCRLF(a)
        <5>1. ~over' /\ LineInv(out, read + 1, line')
              /\ MailInv(f, n, Wanted, read + 1, line', mail')
          BY <3>1, <3>5, <4>1, <4>3
        <5> QED BY <3>1, <3>2, <3>3, <5>1 DEF SentInv
      <4> QED BY <4>2, <4>3
    <3> QED BY <2>0, <3>6, <3>7
  <2>7. CASE UNCHANGED vars
    BY <2>7 DEF vars, clientVars, serverVars, SentInv, Wanted
  <2> QED BY <2>1, <2>2, <2>3, <2>4, <2>5, <2>6, <2>7 DEF Next, Encode
<1> QED BY <1>1, <1>2, DataTypeCorrect, DotsAreStuffed, PTL DEF SpecExchange

\* Stuffing and unstuffing cancel out for a message of any length: the server
\* sees the end of the data at the terminator and nowhere else, and has then
\* received the normalized message, its last line ended.
THEOREM DataArrives == SpecExchange => []TextArrives
<1>1. TypeData /\ QuietInv /\ NormalInv /\ SentInv => TextArrives
  <2> SUFFICES ASSUME TypeData, QuietInv, NormalInv, SentInv, over
               PROVE  read = Len(out) /\ mail = Wanted /\ NoBareBreak(mail)
    BY DEF TextArrives
  <2>1. phase = "sent" /\ read = Len(out) /\ mail = Wanted
    BY DEF QuietInv, SentInv
  <2>2. NoBareBreak(buf) /\ buf \in Seq(Byte)
    BY <2>1 DEF NormalInv, TypeData
  <2>3. NoBareBreak(buf \o CRLF)
    BY <2>2, WriteBytes, NoBareCRLF
  <2> QED BY <2>1, <2>2, <2>3 DEF Wanted
<1> QED BY <1>1, DataTypeCorrect, BreaksAreNormal, StreamInvariant, PTL

------------------------------------------------------------------------------
(* normalizeCRLF.  Text puts the message together from one piece for each  *)
(* byte of it; that this recursion says what it should is an induction on  *)
(* the number of pieces, by the least number for which it would not.       *)

Breaks(k) ==
    data[k] = "CR" \/ (data[k] = "LF" /\ ~(k > 1 /\ data[k - 1] = "CR"))

Piece(k) == IF Breaks(k) THEN CRLF
            ELSE IF data[k] = "LF" THEN <<>> ELSE <<data[k]>>

Pieces == [k \in 1 .. Len(data) |-> Piece(k)]

\* h[k] is the concatenation of the first k sequences of s.
Flat(h, s, n) == h = [k \in 1 .. n |-> IF k = 1 THEN s[k] ELSE h[k - 1] \o s[k]]

\* The text of the first k bytes.
CutsOf == CHOOSE h : Flat(h, Pieces, Len(data))
TextOf(k) == IF k = 0 THEN <<>> ELSE CutsOf[k]

IsBreak(k) == k > 0 /\ data[k] \in {"CR", "LF"}

\* normalizeCRLF has written the text of the bytes it has consumed, and never
\* stops between the CR and the LF of one line break.
TextInv ==
    /\ phase = "normalize" =>
          /\ buf = data /\ out = TextOf(i)
          /\ i > 0 /\ i < Len(data) => ~(data[i] = "CR" /\ data[i + 1] = "LF")
          /\ EndsInCRLF(out) <=> IsBreak(i)
    /\ phase # "normalize" =>
          /\ buf = TextOf(Len(data))
          /\ EndsInCRLF(buf) <=> IsBreak(Len(data))

\* A set of natural numbers has a least one.
LEMMA Least ==
  ASSUME NEW T \in SUBSET Nat, T # {}
  PROVE  \E x \in T : \A y \in T : ~(y < x)
<1> DEFINE R == {p \in Nat \X Nat : p[1] < p[2]}
<1>1. OpToRel(<, Nat) = R
  BY Zenon DEF OpToRel
<1>2. IsWellFoundedOn(R, Nat)
  BY <1>1, NatLessThanWellFounded, Zenon
<1> HIDE DEF R
<1>3. PICK x \in T : \A y \in T : ~(<<y, x>> \in R)
  BY <1>2, WFMin
<1>4. \A y \in T : ~(y < x)
  BY <1>3 DEF R
<1> QED BY <1>4

\* The recursion of FlattenSeq has a solution, however many sequences there are.
LEMMA FlatExists ==
  ASSUME NEW s, NEW n \in Nat
  PROVE  \E h : Flat(h, s, n)
<1> DEFINE T == {k \in Nat : ~\E h : Flat(h, s, k)}
<1> SUFFICES ASSUME T # {} PROVE FALSE
  OBVIOUS
<1>1. PICK x \in T : \A y \in T : ~(y < x)
  BY Least
<1>2. x \in Nat /\ ~\E h : Flat(h, s, x)
  OBVIOUS
<1>3. CASE x = 0
  <2> DEFINE h == [k \in 1 .. 0 |-> <<>>]
  <2>1. h = [k \in 1 .. 0 |-> IF k = 1 THEN s[k] ELSE h[k - 1] \o s[k]]
    OBVIOUS
  <2> QED BY <1>2, <1>3, <2>1 DEF Flat
<1>4. CASE x > 0
  <2>1. x - 1 \in Nat /\ x - 1 < x
    BY <1>2, <1>4
  <2>2. PICK g : Flat(g, s, x - 1)
    BY <1>1, <2>1
  <2> DEFINE h == [k \in 1 .. x |-> IF k = x
                                    THEN IF k = 1 THEN s[k] ELSE g[k - 1] \o s[k]
                                    ELSE g[k]]
             e == [k \in 1 .. x |-> IF k = 1 THEN s[k] ELSE h[k - 1] \o s[k]]
  <2>3. ASSUME NEW k \in 1 .. x PROVE h[k] = e[k]
    <3>1. k > 1 => k - 1 \in 1 .. x - 1 /\ k - 1 \in 1 .. x /\ k - 1 # x
      BY <1>2
    <3>2. k > 1 => h[k - 1] = g[k - 1]
      BY <3>1
    <3>3. e[k] = IF k = 1 THEN s[k] ELSE h[k - 1] \o s[k]
      OBVIOUS
    <3>4. CASE k = x
      <4>1. h[k] = IF k = 1 THEN s[k] ELSE g[k - 1] \o s[k]
        BY <3>4
      <4> HIDE DEF h, e
      <4> QED BY <3>2, <3>3, <4>1
    <3>5. CASE k # x
      <4>1. k \in 1 .. x - 1 /\ h[k] = g[k]
        BY <1>2, <3>5
      <4>2. g[k] = IF k = 1 THEN s[k] ELSE g[k - 1] \o s[k]
        BY <2>2, <4>1 DEF Flat
      <4> HIDE DEF h, e
      <4> QED BY <3>2, <3>3, <4>1, <4>2
    <3> QED BY <3>4, <3>5
  <2>4. h = e
    <3>1. DOMAIN h = 1 .. x /\ DOMAIN e = 1 .. x /\ h = [k \in 1 .. x |-> h[k]]
          /\ e = [k \in 1 .. x |-> e[k]]
      OBVIOUS
    <3> HIDE DEF h, e
    <3> QED BY <2>3, <3>1
  <2> QED BY <1>2, <2>4 DEF Flat
<1> QED BY <1>2, <1>3, <1>4

\* One piece more.
LEMMA TextStep ==
  ASSUME data \in Seq(Byte)
  PROVE  /\ TextOf(0) = <<>>
         /\ \A k \in 1 .. Len(data) : TextOf(k) = TextOf(k - 1) \o Piece(k)
         /\ Len(data) > 0 => FlattenSeq(Pieces) = TextOf(Len(data))
<1>1. Len(data) \in Nat
  BY LenProperties
<1>2. Flat(CutsOf, Pieces, Len(data))
  <2>1. \E h : Flat(h, Pieces, Len(data))
    BY <1>1, FlatExists
  <2> QED BY <2>1 DEF CutsOf
<1>3. ASSUME NEW k \in 1 .. Len(data)
      PROVE  TextOf(k) = TextOf(k - 1) \o Piece(k)
  <2>1. CutsOf[k] = IF k = 1 THEN Pieces[k] ELSE CutsOf[k - 1] \o Pieces[k]
    BY <1>2 DEF Flat
  <2>2. Pieces[k] = Piece(k)
    BY DEF Pieces
  <2>3. Piece(k) \in Seq(Byte)
    <3>1. data[k] \in Byte
      OBVIOUS
    <3> QED BY <3>1, ByteSeqs DEF Piece
  <2>4. <<>> \o Piece(k) = Piece(k)
    BY <2>3
  <2>5. k # 0 /\ (k = 1 <=> k - 1 = 0)
    BY <1>1
  <2> QED BY <2>1, <2>2, <2>4, <2>5 DEF TextOf
<1>4. ASSUME Len(data) > 0 PROVE FlattenSeq(Pieces) = TextOf(Len(data))
  <2>1. Len(Pieces) = Len(data)
    BY <1>1 DEF Pieces
  <2>2. FlattenSeq(Pieces) = CutsOf[Len(Pieces)]
    BY <1>1, <1>4, <2>1 DEF FlattenSeq, CutsOf, Flat
  <2> QED BY <1>1, <1>4, <2>1, <2>2 DEF TextOf
<1> QED BY <1>3, <1>4 DEF TextOf

\* The piece after the first j bytes.
LEMMA NextPiece ==
  ASSUME data \in Seq(Byte), NEW j \in Nat, j < Len(data), NEW k, k = j + 1
  PROVE  /\ TextOf(k) = TextOf(j) \o Piece(k)
         /\ Breaks(k) <=> \/ data[k] = "CR"
                          \/ data[k] = "LF" /\ ~(j > 0 /\ data[j] = "CR")
<1>1. k \in 1 .. Len(data) /\ k - 1 = j /\ (k > 1 <=> j > 0)
  BY LenProperties
<1>2. Breaks(k) <=> \/ data[k] = "CR"
                    \/ data[k] = "LF" /\ ~(j > 0 /\ data[j] = "CR")
  BY <1>1, Zenon DEF Breaks
<1>3. TextOf(k) = TextOf(k - 1) \o Piece(k)
  BY <1>1, TextStep
<1> QED BY <1>1, <1>2, <1>3, Zenon

\* What the last bytes say of the end of a line.
LEMMA EndsByte ==
  ASSUME NEW s \in Seq(Byte)
  PROVE  /\ EndsInCRLF(Append(Append(s, "CR"), "LF"))
         /\ \A c \in Byte : c # "LF" => ~EndsInCRLF(Append(s, c))
<1> DEFINE r == Append(s, "CR")
           t == Append(r, "LF")
<1>1. "CR" \in Byte /\ "LF" \in Byte /\ Len(s) \in Nat
  BY LenProperties DEF Byte
<1>2. r \in Seq(Byte) /\ Len(r) = Len(s) + 1 /\ r[Len(s) + 1] = "CR"
  BY <1>1, OneByte
<1> HIDE DEF r
<1>3. Len(t) = Len(r) + 1 /\ t[Len(r) + 1] = "LF" /\ \A k \in 1 .. Len(r) : t[k] = r[k]
  BY <1>1, <1>2, OneByte
<1> HIDE DEF t
<1>4. Len(t) = Len(s) + 2 /\ t[Len(s) + 2] = "LF" /\ t[Len(s) + 1] = "CR"
      /\ Len(s) + 2 - 1 = Len(s) + 1 /\ Len(s) + 2 >= 2
  BY <1>1, <1>2, <1>3
<1>5. EndsInCRLF(t)
  BY <1>4 DEF EndsInCRLF
<1>6. ASSUME NEW c \in Byte, c # "LF" PROVE ~EndsInCRLF(Append(s, c))
  <2>1. Append(s, c)[Len(Append(s, c))] = c
    BY OneByte
  <2> QED BY <1>6, <2>1 DEF EndsInCRLF
<1> QED BY <1>5, <1>6 DEF r, t

\* normalizeCRLF writes one CRLF for each line break of the message, whichever
\* way it is written, and every other byte as it is.
THEOREM NormalIsText == SpecExchange => []TextInv
<1>1. InitExchange => TextInv
  <2>1. Len(<<>>) = 0
    OBVIOUS
  <2> QED BY <2>1 DEF InitExchange, Init, TextInv, TextOf, IsBreak, EndsInCRLF
<1>2. TypeData /\ TextInv /\ [NextExchange]_allVars => TextInv'
  <2> SUFFICES ASSUME TypeData, TextInv, Next \/ UNCHANGED vars PROVE TextInv'
    BY ExchangeKeepsData
  <2>0. data \in Seq(Byte) /\ out \in Seq(Byte) /\ i \in Nat /\ Len(data) \in Nat
    BY LenProperties DEF TypeData
  <2>d. ASSUME UNCHANGED data
        PROVE  \A k : (TextOf(k)' = TextOf(k)) /\ (IsBreak(k)' = IsBreak(k))
    BY <2>d DEF TextOf, CutsOf, Flat, Pieces, Piece, Breaks, IsBreak
  <2>1. CASE Normalize
    <3>1. /\ phase = "normalize" /\ phase' = "normalize" /\ buf = data /\ buf' = data
          /\ i < Len(data) /\ out = TextOf(i) /\ data' = data
          /\ (i > 0 => ~(data[i] = "CR" /\ data[i + 1] = "LF"))
      BY <2>1 DEF Normalize, TextInv
    <3>2. /\ i + 1 \in 1 .. Len(data) /\ i + 1 - 1 = i /\ data[i + 1] \in Byte
          /\ i + 1 > 0 /\ (i + 1 > 1 <=> i > 0)
      BY <2>0, <3>1
    <3>3. TextOf(i + 1) = out \o Piece(i + 1)
      BY <2>0, <3>1, NextPiece
    <3>4. /\ out' = out \o IF data[i + 1] \in {"CR", "LF"} THEN CRLF ELSE <<data[i + 1]>>
          /\ i' = i + IF data[i + 1] = "CR" /\ i + 1 < Len(data) /\ data[i + 2] = "LF"
                      THEN 2 ELSE 1
      <4>1. i + 1 + 1 = i + 2
        BY <2>0
      <4> QED BY <2>1, <3>1, <4>1 DEF Normalize, At
    <3>5. data[i + 1] \in {"CR", "LF"} <=> Breaks(i + 1)
      <4>1. Breaks(i + 1) <=> \/ data[i + 1] = "CR"
                              \/ data[i + 1] = "LF" /\ ~(i > 0 /\ data[i] = "CR")
        BY <2>0, <3>1, NextPiece
      <4> QED BY <3>1, <4>1
    <3>6. out' = TextOf(i + 1)
      BY <3>2, <3>3, <3>4, <3>5 DEF Piece
    <3>7. EndsInCRLF(out') <=> IsBreak(i + 1)
      <4>1. CASE data[i + 1] \in {"CR", "LF"}
        <5>1. out' = Append(Append(out, "CR"), "LF")
          BY <2>0, <3>4, <4>1, WriteBytes
        <5> QED BY <2>0, <3>2, <4>1, <5>1, EndsByte DEF IsBreak
      <4>2. CASE data[i + 1] \notin {"CR", "LF"}
        <5>1. out' = Append(out, data[i + 1])
          BY <2>0, <3>2, <3>4, <4>2, OneByte
        <5> QED BY <2>0, <3>2, <4>2, <5>1, EndsByte DEF IsBreak
      <4> QED BY <4>1, <4>2
    <3>8. CASE data[i + 1] = "CR" /\ i + 1 < Len(data) /\ data[i + 2] = "LF"
      <4>1. /\ i' = i + 2 /\ i + 2 > 0 /\ i + 1 \in Nat /\ i + 2 = i + 1 + 1
            /\ i + 1 > 0
        BY <2>0, <3>4, <3>8
      <4>2. /\ TextOf(i + 2) = TextOf(i + 1) \o Piece(i + 2)
            /\ Breaks(i + 2) <=>
                  \/ data[i + 2] = "CR"
                  \/ data[i + 2] = "LF" /\ ~(i + 1 > 0 /\ data[i + 1] = "CR")
        BY <2>0, <3>8, <4>1, NextPiece
      <4>3. Piece(i + 2) = <<>>
        BY <3>8, <4>1, <4>2 DEF Piece
      <4>4. out' \in Seq(Byte)
        BY <2>0, <3>2, <3>4, ByteSeqs, ConcatProperties
      <4>5. out' \o <<>> = out'
        BY <4>4
      <4>6. TextOf(i + 2) = out'
        BY <3>6, <4>2, <4>3, <4>5
      <4>7. IsBreak(i + 2) /\ IsBreak(i + 1)
        BY <3>2, <3>8, <4>1 DEF IsBreak
      <4>8. EndsInCRLF(out') <=> IsBreak(i + 2)
        BY <3>7, <4>7
      <4>9. data[i + 2] # "CR"
        BY <3>8
      <4> QED BY <2>d, <3>1, <4>1, <4>6, <4>8, <4>9 DEF TextInv
    <3>9. CASE ~(data[i + 1] = "CR" /\ i + 1 < Len(data) /\ data[i + 2] = "LF")
      <4>1. i' = i + 1 /\ i + 1 + 1 = i + 2
        BY <2>0, <3>4, <3>9
      <4> QED BY <2>d, <3>1, <3>6, <3>7, <3>9, <4>1 DEF TextInv
    <3> QED BY <3>8, <3>9
  <2>2. CASE BeginStuff
    <3>1. /\ phase = "normalize" /\ phase' = "stuff" /\ i = Len(data) /\ buf' = out
          /\ data' = data /\ out = TextOf(i) /\ (EndsInCRLF(out) <=> IsBreak(i))
      BY <2>2 DEF BeginStuff, TextInv
    <3> QED BY <2>d, <3>1 DEF TextInv
  <2>3. CASE Stuff
    BY <2>3, <2>d DEF Stuff, TextInv
  <2>4. CASE EndStuff
    BY <2>4, <2>d DEF EndStuff, TextInv
  <2>5. CASE Terminate
    BY <2>5, <2>d DEF Terminate, TextInv
  <2>6. CASE Receive
    BY <2>6, <2>d DEF Receive, clientVars, TextInv
  <2>7. CASE UNCHANGED vars
    BY <2>7, <2>d DEF vars, clientVars, TextInv
  <2> QED BY <2>1, <2>2, <2>3, <2>4, <2>5, <2>6, <2>7 DEF Next, Encode
<1> QED BY <1>1, <1>2, DataTypeCorrect, PTL DEF SpecExchange

\* The message arrives: whatever its bytes and however long it is, the server
\* has received its text when it sees the end of the data, which it does at the
\* terminator and nowhere else.
THEOREM MessageIsIntact == SpecExchange => []Intact
<1>1. TypeData /\ QuietInv /\ TextInv /\ TextArrives => Intact
  <2> SUFFICES ASSUME TypeData, QuietInv, TextInv, TextArrives, over
               PROVE  mail = Text /\ read = Len(out)
    BY DEF Intact
  <2>1. /\ phase = "sent" /\ read = Len(out) /\ mail = Wanted
        /\ buf = TextOf(Len(data)) /\ (EndsInCRLF(buf) <=> IsBreak(Len(data)))
    BY DEF QuietInv, TextInv, TextArrives
  <2>2. data \in Seq(Byte) /\ Len(data) \in Nat
    BY LenProperties DEF TypeData
  <2>3. FlattenSeq(Pieces) = buf
    <3>1. CASE Len(data) > 0
      BY <2>1, <2>2, <3>1, TextStep
    <3>2. CASE Len(data) = 0
      <4>1. Pieces = <<>> /\ Len(<<>>) = 0
        BY <3>2 DEF Pieces
      <4>2. FlattenSeq(Pieces) = <<>>
        BY <4>1 DEF FlattenSeq
      <4> QED BY <2>1, <3>2, <4>2 DEF TextOf
    <3> QED BY <2>2, <3>1, <3>2
  <2>4. Text = IF data # <<>> /\ data[Len(data)] \in {"CR", "LF"}
               THEN FlattenSeq(Pieces) ELSE FlattenSeq(Pieces) \o CRLF
    BY DEF Text, Pieces, Piece, Breaks
  <2>5. IsBreak(Len(data)) <=> data # <<>> /\ data[Len(data)] \in {"CR", "LF"}
    <3>1. data # <<>> <=> Len(data) > 0
      BY <2>2, EmptySeq
    <3> QED BY <3>1 DEF IsBreak
  <2> QED BY <2>1, <2>3, <2>4, <2>5 DEF Wanted
<1> QED BY <1>1, DataTypeCorrect, NormalIsText, DataArrives, PTL
==============================================================================
