------------------------------ MODULE MCLeaves -------------------------------
EXTENDS Leaves

CONSTANTS
    a, b,       \* two addresses,
    bad,        \* one without an ASCII form,
    high,       \* one whose local part is not ASCII,
    broken      \* and a malformed one

Addresses == {a, b, bad, high, broken}
Lists == {<<>>, <<a, bad>>, <<high>>, <<b, broken>>}
SmallEnvelopes == {Zero, [from |-> bad, to |-> <<b>>]}

\* Values of up to three words that fit a line, fill one, need one of their own
\* or must be encoded; with wide gaps, and with white space at either end.
Printable(runs) == [runs |-> runs, kind |-> "plain"]
Run(ws, len) == [ws |-> ws, len |-> len]
Words == {<<Run(0, 3), Run(1, 77)>>, <<Run(0, 77), Run(1, 3)>>,
          <<Run(0, 3), Run(1, 3), Run(1, 77)>>,
          <<Run(0, 77), Run(1, 77), Run(1, 77)>>}
Edges == {<<Run(2, 3)>>, <<Run(0, 77), Run(2, 0)>>, <<Run(901, 0)>>, <<Run(0, 1000)>>,
          <<Run(89, 900), Run(1, 0)>>}
Foreign == [runs |-> <<Run(0, 46)>>, kind |-> "high"]
Injected == [runs |-> <<Run(0, 3)>>, kind |-> "crlf"]
SmallSubjects ==
    {Printable(r) : r \in Words \cup Edges} \cup {Foreign, Injected}

\* The longest word is an address, too.
LongWord == Printable(<<Run(0, 900)>>)
SmallValues == {Printable(<<>>), LongWord, Injected}
SmallParse == [v \in SmallValues |-> IF v = LongWord THEN b ELSE Nowhere]

Name(canon, form, valid, prefix) ==
    [canon |-> canon, form |-> form, valid |-> valid, prefix |-> prefix]
SmallNames ==
    {Name("X-Tag", 1, TRUE, 7), Name("X-Tag", 2, TRUE, 7), Name("Bcc", 1, TRUE, 5),
     Name("Sender", 1, TRUE, 8), Name("Return-Path", 1, TRUE, 13),
     Name("X-Long", 1, TRUE, 1000), Name("X:", 1, FALSE, 4)}

L(n, r) == [t |-> "line", dots |-> n, rest |-> r]
SmallTexts == {<<L(0, TRUE), L(1, FALSE), L(2, TRUE), L(1, TRUE)>>}

File(id, inline, empty, badType, cid) ==
    [id |-> id, inline |-> inline, empty |-> empty, badType |-> badType, cid |-> cid]
SmallAttachments ==
    {File("file", FALSE, FALSE, FALSE, "bad"), File("void", FALSE, TRUE, FALSE, "none"),
     File("image", TRUE, FALSE, FALSE, "none"), File("logo", TRUE, FALSE, FALSE, "set"),
     File("wrong", FALSE, FALSE, TRUE, "none"), File("lost", TRUE, FALSE, FALSE, "bad")}

SmallCommands == {{"-t", "-f"}, {"-t", "-i"}, {"-bs"}}
==============================================================================
