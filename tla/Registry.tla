------------------------------ MODULE Registry -------------------------------
(***************************************************************************)
(* Registry.FromString (src/transport/registry.go): the recursive-descent  *)
(* parser of composite DSNs such as failover(a roundrobin(b c))?retry_...  *)
(*                                                                         *)
(* A DSN is a sequence of tokens: the characters and words the parser      *)
(* looks for, and "dsn" for the text of a DSN a factory accepts.  Offsets  *)
(* count tokens from 1, so Len(dsn) + 1 is the end.                        *)
(***************************************************************************)
EXTENDS Integers, SequencesExt

CONSTANTS
    MaxLength,          \* bound on the arbitrary DSNs given to FromString
    Trees,              \* composites a user writes down, with one token mistyped or none
    Half,               \* integers and durations are below it (2^63 in the code)
    Second,             \* one second as a Duration (10^9 in the code)
    DefaultRetryPeriod  \* (60 seconds in the code)

Keywords == {"failover(", "roundrobin("}
Period == "?retry_period="

\* The digits a period is written with, and their values.
Digits == {"0", "7"}
Value == [c \in Digits |-> IF c = "7" THEN 7 ELSE 0]

\* Tokens with an opening parenthesis; "other(" is a word that is no keyword.
Opening == Keywords \cup {"other(", "("}
\* Tokens of one character: only these can be taken whole for a separator.
Single == {" ", ")", "(", "&", "?"} \cup Digits
Tokens == Opening \cup Single \cup {"dsn", Period}

\* A resolved transport: a leaf made from its text, or a composite with its
\* members and its retry period, and the digits it was read from (not part of
\* the transport, but properties are about them; none: there was no period).
Leaf(text) == [kind |-> "leaf", text |-> text]
Composite(kw, args, digits, period) ==
    [kind |-> kw, args |-> args, digits |-> digits, period |-> period]
Error == [kind |-> "error"]
Pending == [kind |-> "pending"]

Found(n, o) == [node |-> n, next |-> o]
Failed == Found(Error, 0)
IsFailed(f) == f.next = 0

RECURSIVE Render(_), RenderArgs(_)

\* The way the documentation writes a composite down.
RenderArgs(args) ==
    IF Len(args) = 1 THEN Render(args[1])
    ELSE Render(args[1]) \o <<" ">> \o RenderArgs(Tail(args))
Render(t) ==
    IF t.kind = "leaf" THEN t.text
    ELSE <<t.kind>> \o RenderArgs(t.args) \o <<")">>
            \o IF t.digits = <<>> THEN <<>> ELSE <<Period>> \o t.digits

VARIABLES
    dsn,        \* the argument of FromString
    written,    \* the composite it spells out, when it has no mistake
    result,     \* what it returned
    offset      \* what parseDSN consumed; 0 before the call and after an error

vars == <<dsn, written, result, offset>>

Arbitrary == written = Pending /\ \E n \in 0 .. MaxLength : dsn \in [1 .. n -> Tokens]
WellFormed == written \in Trees /\ dsn = Render(written)
Mistyped ==
    /\ written = Pending
    /\ \E t \in Trees : \E i \in DOMAIN Render(t), k \in Tokens :
          dsn = [Render(t) EXCEPT ![i] = k]

Init ==
    /\ Arbitrary \/ WellFormed \/ Mistyped
    /\ result = Pending /\ offset = 0

------------------------------------------------------------------------------

\* strings.IndexAny: where the first token of T at or after o is, or the end.
IndexAny(s, o, T) ==
    LET at == {i \in o .. Len(s) : s[i] \in T}
    IN  IF at = {} THEN Len(s) + 1 ELSE Min(at)

\* Mutation: unbalanced groups are let through.
AssumeBalanced(s, open) == TRUE

\* matchBalancedParen finds a closing parenthesis for the one at open.
Balanced(s, open) ==
    \E e \in open .. Len(s) :
       Cardinality({i \in open .. e : s[i] \in Opening})
          = Cardinality({i \in open .. e : s[i] = ")"})

\* leadingKeyword: letters and digits followed by an opening parenthesis.
LeadingKeyword(s, o) ==
    LET i == IndexAny(s, o, Tokens \ Digits)
    IN  i <= Len(s) /\ (s[i] \in Opening \ {"("} \/ (s[i] = "(" /\ i > o))

\* EXTERNAL: ParseDSN accepts the text and some factory supports its scheme.
LeafResolves(text) == text # <<>> /\ text[1] = "dsn"

\* Mutation: the suffix is not counted.
SuffixLengthZero(val) == 0

\* What parseRetryPeriod consumes for a given value.
SuffixLength(val) == Len(val) + 1

\* Two's complement.
Wrap(n) == LET r == n % (2 * Half) IN IF r >= Half THEN r - 2 * Half ELSE r

\* The integer parseRetryPeriod accumulates digit by digit.
Accumulated(val) == FoldLeft(LAMBDA n, c : Wrap(10 * n + Value[c]), 0, val)

\* n seconds as a Duration, and what NewRoundRobinTransport makes of it.
NewRetryPeriod(n) ==
    LET d == Wrap(n * Second) IN IF d <= 0 THEN DefaultRetryPeriod ELSE d

\* parseRetryPeriod: the value reaches to the next "&" or to the end of the DSN.
ParseRetryPeriod(s, o) ==
    IF o > Len(s) \/ s[o] # Period THEN [ok |-> TRUE, digits |-> <<>>, consumed |-> 0]
    ELSE LET val == SubSeq(s, o + 1, IndexAny(s, o + 1, {"&"}) - 1)
         IN  [ok |-> val # <<>> /\ \A i \in DOMAIN val : val[i] \in Digits,
              digits |-> val, consumed |-> SuffixLength(val)]

ParseLeaf(s, o) ==
    LET end == IndexAny(s, o, {" ", ")"})
        text == SubSeq(s, o, end - 1)
    IN  IF LeafResolves(text) THEN Found(Leaf(text), end) ELSE Failed

RECURSIVE ParseDSN(_, _), ParseArgs(_, _, _)

\* The members of a group from o on.  One character after each is taken for the
\* separator; what is left of a longer token starts no DSN.
ParseArgs(s, o, args) ==
    LET arg == ParseDSN(s, o)
        more == Append(args, arg.node)
    IN  IF IsFailed(arg) THEN Failed
        ELSE IF arg.next = Len(s) + 1 THEN Found(more, arg.next)
        ELSE IF s[arg.next] = ")" THEN Found(more, arg.next + 1)
        ELSE IF s[arg.next] \in Single THEN ParseArgs(s, arg.next + 1, more)
        ELSE Failed

ParseGroup(s, o) ==
    LET group == IF Balanced(s, o) THEN ParseArgs(s, o + 1, <<>>) ELSE Failed
        period == ParseRetryPeriod(s, group.next)
    IN  IF IsFailed(group) \/ ~period.ok THEN Failed
        ELSE Found(Composite(s[o], group.node, period.digits,
                             NewRetryPeriod(Accumulated(period.digits))),
                   group.next + period.consumed)

\* parseDSN
ParseDSN(s, o) ==
    IF o <= Len(s) /\ s[o] \in Keywords THEN ParseGroup(s, o)
    ELSE IF LeadingKeyword(s, o) THEN Failed
    ELSE ParseLeaf(s, o)

\* parseDSN must have consumed everything, or there is garbage at the end.
FromString ==
    /\ result = Pending
    /\ LET t == ParseDSN(dsn, 1)
       IN  /\ offset' = t.next
           /\ result' = IF IsFailed(t) \/ t.next # Len(dsn) + 1 THEN Error
                        ELSE t.node
    /\ UNCHANGED <<dsn, written>>

Spec == Init /\ [][FromString]_vars

------------------------------------------------------------------------------

\* What the digits of a period mean: seconds, and 0 the default.
Meant(digits) ==
    LET seconds == MapThenSumSet(LAMBDA i : Value[digits[i]] * 10^(Len(digits) - i),
                                 DOMAIN digits)
    IN  IF seconds = 0 THEN DefaultRetryPeriod ELSE seconds * Second

\* A composite as a user writes it down.
Written(kw, args, digits) == Composite(kw, args, digits, Meant(digits))

RECURSIVE HasPeriod(_)
HasPeriod(t) ==
    t.kind # "leaf" /\ (t.digits # <<>> \/ \E i \in DOMAIN t.args : HasPeriod(t.args[i]))

PeriodInside(t) == t.kind # "leaf" /\ \E i \in DOMAIN t.args : HasPeriod(t.args[i])

Fits(t) == t.kind = "leaf" \/ t.period < Half

\* Every token of an accepted DSN is accounted for by the transport it resolves
\* to: members, nesting, closing parentheses and retry periods.  The one token
\* that may differ stands between a nested group and the next member: it is taken
\* for the separator whatever it is, and after a retry period it is "&".
NothingIgnored ==
    result.kind \notin {"pending", "error"} =>
       LET r == Render(result)
       IN  /\ Len(r) = Len(dsn)
           /\ \A i \in DOMAIN r :
                 \/ dsn[i] = r[i]
                 \/ r[i] = " " /\ (dsn[i - 1] = ")" \/ (dsn[i] = "&" /\ r[i - 1] \in Digits))

\* A composite a user writes down resolves to the transports, in the nesting and
\* with the retry period it spells out.  There are two exceptions: one with a period
\* on a nested composite is refused, although the documentation allows it, and a
\* period of more seconds than a Duration holds becomes another one.
Resolves ==
    Pending \notin {result, written} =>
       IF PeriodInside(written) THEN result = Error
       ELSE \/ result = written
            \/ ~Fits(written) /\ [result EXCEPT !.period = written.period] = written
==============================================================================
