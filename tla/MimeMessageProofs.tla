--------------------------- MODULE MimeMessageProofs ---------------------------
(***************************************************************************)
(* Lemmas about MimeMessage, for every message: what the folds of the model *)
(* compute (by induction over the steps of a fold), what foldHeaderLine     *)
(* makes of a field, how encodeHeaderWord cuts a value, and which fields    *)
(* writeHeaders writes.                                                     *)
(***************************************************************************)
EXTENDS MimeMessage, SequenceTheorems, WellFoundedInduction, TLAPS

------------------------------------------------------------------------------
(* Induction, and the folds the model is written with.                     *)

\* A set of natural numbers has a least one.
LEMMA Least ==
  ASSUME NEW T \in SUBSET Nat, T # {}
  PROVE  \E x \in T : \A y \in T : ~(y < x)
<1> DEFINE R == {p \in Nat \X Nat : p[1] < p[2]}
<1>1. OpToRel(<, Nat) = R
  BY Zenon DEF OpToRel
<1>2. IsWellFoundedOn(R, Nat)
  BY <1>1, NatLessThanWellFounded, Zenon
<1> HIDE DEF R
<1>3. PICK x \in T : \A y \in T : ~(<<y, x>> \in R)
  BY <1>2, WFMin
<1>4. \A y \in T : ~(y < x)
  BY <1>3 DEF R
<1> QED BY <1>4

\* Induction over the numbers up to n: the numbers in P are all of them.
LEMMA UpTo_n ==
  ASSUME NEW n \in Nat, NEW P, 0 \in P,
         \A k \in 1 .. n : k - 1 \in P => k \in P
  PROVE  \A k \in 0 .. n : k \in P
<1> DEFINE T == {k \in 0 .. n : k \notin P}
<1> SUFFICES ASSUME T # {} PROVE FALSE
  OBVIOUS
<1>0. T \in SUBSET Nat
  OBVIOUS
<1>1. PICK x \in T : \A y \in T : ~(y < x)
  <2> HIDE DEF T
  <2> QED BY <1>0, Least
<1>2. x \in 1 .. n /\ x - 1 \in 0 .. n /\ x - 1 < x
  BY <1>1
<1>3. x - 1 \in P
  BY <1>1, <1>2
<1> QED BY <1>1, <1>2, <1>3

\* The greatest place in a set of places.
LEMMA MaxOf ==
  ASSUME NEW n \in Nat, NEW S \in SUBSET (1 .. n), S # {}
  PROVE  Max(S) \in S /\ \A y \in S : y <= Max(S)
<1> DEFINE T == {m \in Nat : \A y \in S : y <= m}
<1>1. n \in T
  OBVIOUS
<1>2. PICK x \in T : \A y \in T : ~(y < x)
  <2>1. T \in SUBSET Nat /\ T # {}
    BY <1>1
  <2> HIDE DEF T
  <2> QED BY <2>1, Least
<1>3. x \in S
  <2> SUFFICES ASSUME x \notin S PROVE FALSE
    OBVIOUS
  <2>1. PICK y \in S : TRUE
    OBVIOUS
  <2>2. x \in Nat /\ x > 0 /\ x - 1 \in Nat
    BY <2>1
  <2>3. x - 1 \in T
    BY <2>2
  <2> QED BY <1>2, <2>2, <2>3
<1>4. \E z \in S : \A y \in S : z >= y
  BY <1>3
<1>5. Max(S) \in S /\ \A y \in S : Max(S) >= y
  <2> HIDE DEF T
  <2> QED BY <1>4 DEF Max
<1> QED BY <1>5

\* The greatest of some of the first x places is x if x is one of them.
LEMMA MaxTop ==
  ASSUME NEW x \in Nat, NEW S \in SUBSET (1 .. x), x \in S
  PROVE  Max(S) = x
<1>1. Max(S) \in S /\ \A y \in S : y <= Max(S)
  BY MaxOf
<1>2. Max(S) \in 1 .. x /\ x <= Max(S)
  BY <1>1
<1> QED BY <1>2

\* The first k of n places.
LEMMA FirstPlaces ==
  ASSUME NEW n \in Nat, NEW k \in 1 .. n
  PROVE  /\ 1 .. k \in SUBSET (1 .. n) /\ 1 .. k # {} /\ (1 .. k) \ {k} = 1 .. k - 1
         /\ Max(1 .. k) = k
<1>1. k \in Nat /\ k \in 1 .. k
  OBVIOUS
<1>2. 1 .. k \in SUBSET (1 .. n)
  <2>1. \A y \in 1 .. k : y \in 1 .. n
    BY <1>1
  <2> QED BY <2>1
<1>3. Max(1 .. k) = k
  BY <1>1, MaxTop
<1> QED BY <1>1, <1>2, <1>3

\* One iteration of the loops of the model: the octets of runs, those encoded-words
\* stand for, foldHeaderLine, the reader of a body, and the places that are kept.
Step(loop, arg, acc, x) ==
    CASE loop = "octets" -> acc + Size(x)
      [] loop = "raw" -> acc + x.raw
      [] loop = "fold" -> FoldRun(arg, acc, x)
      [] loop = "read" -> ReadLine(acc, x)
      [] loop = "keep" -> IF x \in arg.places THEN Append(acc, arg.seq[x]) ELSE acc

\* f solves the recursion a FoldLeft over r, of length n, is defined by.
Solves(f, loop, arg, base, r, n) ==
    f = [S \in SUBSET (1 .. n) |->
           IF S = {} THEN base
           ELSE Step(loop, arg, f[S \ {Max(S)}], r[Max(S)])]

\* The recursion has a solution.
LEMMA SolutionExists ==
  ASSUME NEW loop, NEW arg, NEW base, NEW r, NEW n \in Nat
  PROVE  \E f : Solves(f, loop, arg, base, r, n)
<1> DEFINE T == {k \in 0 .. n : \E f : Solves(f, loop, arg, base, r, k)}
<1>1. 0 \in T
  <2> DEFINE h == [S \in SUBSET (1 .. 0) |-> base]
  <2>1. SUBSET (1 .. 0) = {{}}
    OBVIOUS
  <2>2. Solves(h, loop, arg, base, r, 0)
    BY <2>1 DEF Solves
  <2> QED BY <2>2
<1>2. ASSUME NEW x \in 1 .. n, x - 1 \in T PROVE x \in T
  <2>1. PICK g : Solves(g, loop, arg, base, r, x - 1)
    BY <1>2
  <2> DEFINE h == [S \in SUBSET (1 .. x) |->
                     IF x \in S THEN Step(loop, arg, g[S \ {x}], r[x]) ELSE g[S]]
             e == [S \in SUBSET (1 .. x) |->
                     IF S = {} THEN base
                     ELSE Step(loop, arg, h[S \ {Max(S)}], r[Max(S)])]
  <2>2. ASSUME NEW S \in SUBSET (1 .. x) PROVE h[S] = e[S]
    <3>1. CASE x \in S
      <4>1. Max(S) = x
        BY <3>1, MaxTop
      <4>2. S \ {x} \in SUBSET (1 .. x) /\ x \notin S \ {x}
        OBVIOUS
      <4>3. h[S \ {x}] = g[S \ {x}]
        BY <4>2
      <4>4. h[S] = Step(loop, arg, g[S \ {x}], r[x])
        BY <3>1
      <4>5. S # {} /\ e[S] = IF S = {} THEN base
                             ELSE Step(loop, arg, h[S \ {Max(S)}], r[Max(S)])
        BY <3>1
      <4> HIDE DEF h, e
      <4> QED BY <4>1, <4>3, <4>4, <4>5
    <3>2. CASE x \notin S
      <4>1. S \in SUBSET (1 .. x - 1)
        BY <3>2
      <4>2. g[S] = IF S = {} THEN base ELSE Step(loop, arg, g[S \ {Max(S)}], r[Max(S)])
        BY <2>1, <4>1 DEF Solves
      <4>3. S # {} => h[S \ {Max(S)}] = g[S \ {Max(S)}]
        BY <3>2
      <4>4. /\ h[S] = g[S]
            /\ e[S] = IF S = {} THEN base
                      ELSE Step(loop, arg, h[S \ {Max(S)}], r[Max(S)])
        BY <3>2
      <4> HIDE DEF h, e
      <4> QED BY <4>2, <4>3, <4>4
    <3> QED BY <3>1, <3>2
  <2>3. h = e
    <3>1. /\ h = [S \in SUBSET (1 .. x) |-> h[S]]
          /\ e = [S \in SUBSET (1 .. x) |-> e[S]]
      OBVIOUS
    <3> HIDE DEF h, e
    <3> QED BY <2>2, <3>1
  <2>4. Solves(h, loop, arg, base, r, x)
    BY <2>3 DEF Solves
  <2> QED BY <2>4
<1>3. n \in 0 .. n
  OBVIOUS
<1>4. \A k \in 0 .. n : k \in T
  <2> HIDE DEF T
  <2> QED BY <1>1, <1>2, UpTo_n
<1> QED BY <1>3, <1>4

\* The values acc has in the n iterations of a loop over r.
Iterates(g, loop, arg, base, r, n) ==
    /\ g[0] = base
    /\ \A k \in 1 .. n : g[k] = Step(loop, arg, g[k - 1], r[k])

\* A solution is reached one iteration after the other.
LEMMA SolutionIterates ==
  ASSUME NEW loop, NEW arg, NEW base, NEW r, NEW n \in Nat,
         NEW f, Solves(f, loop, arg, base, r, n)
  PROVE  \E g : /\ DOMAIN g = 0 .. n /\ Iterates(g, loop, arg, base, r, n)
                /\ f[1 .. n] = g[n]
<1> DEFINE g == [k \in 0 .. n |-> f[1 .. k]]
<1>1. g[0] = base
  <2>1. 1 .. 0 = {} /\ {} \in SUBSET (1 .. n)
    OBVIOUS
  <2>2. f[{}] = base
    BY <2>1 DEF Solves
  <2> QED BY <2>1, <2>2
<1>2. ASSUME NEW k \in 1 .. n PROVE g[k] = Step(loop, arg, g[k - 1], r[k])
  <2>1. /\ 1 .. k \in SUBSET (1 .. n) /\ 1 .. k # {} /\ (1 .. k) \ {k} = 1 .. k - 1
        /\ Max(1 .. k) = k
    BY FirstPlaces
  <2>2. g[k] = f[1 .. k] /\ g[k - 1] = f[1 .. k - 1]
    OBVIOUS
  <2>3. f[1 .. k] = Step(loop, arg, f[(1 .. k) \ {Max(1 .. k)}], r[Max(1 .. k)])
    BY <2>1 DEF Solves
  <2> HIDE DEF g
  <2> QED BY <2>1, <2>2, <2>3
<1>3. DOMAIN g = 0 .. n /\ g[n] = f[1 .. n]
  OBVIOUS
<1> HIDE DEF g
<1>4. Iterates(g, loop, arg, base, r, n)
  BY <1>1, <1>2 DEF Iterates
<1> QED BY <1>3, <1>4

\* There is one way to go through a loop.
LEMMA IteratesOnce ==
  ASSUME NEW loop, NEW arg, NEW base, NEW r, NEW n \in Nat,
         NEW g, Iterates(g, loop, arg, base, r, n),
         NEW h, Iterates(h, loop, arg, base, r, n)
  PROVE  g[n] = h[n]
<1> DEFINE T == {k \in 0 .. n : g[k] = h[k]}
<1>1. 0 \in T
  BY DEF Iterates
<1>2. ASSUME NEW k \in 1 .. n, k - 1 \in T PROVE k \in T
  BY <1>2 DEF Iterates
<1>3. n \in 0 .. n /\ \A k \in 0 .. n : k \in T
  <2> HIDE DEF T
  <2> QED BY <1>1, <1>2, UpTo_n
<1> QED BY <1>3

\* Octets, one run after the other.
SumRun(g, r, n) ==
    /\ g[0] = 0
    /\ \A k \in 1 .. n : g[k] = g[k - 1] + Size(r[k])

\* Its result is reached in such steps, and only one is.
LEMMA SumSteps ==
  ASSUME NEW r, NEW n \in Nat, DOMAIN r = 1 .. n
  PROVE  /\ \E g : DOMAIN g = 0 .. n /\ SumRun(g, r, n) /\ Octets(r) = g[n]
         /\ \A g : SumRun(g, r, n) => Octets(r) = g[n]
<1> DEFINE P(f) == f = [S \in SUBSET (1 .. n) |->
                          IF S = {} THEN 0
                          ELSE f[S \ {Max(S)}] + Size(r[Max(S)])]
           f == CHOOSE f : P(f)
<1>1. \A h : P(h) <=> Solves(h, "octets", 0, 0, r, n)
  BY DEF Solves, Step
<1>2. \A g : SumRun(g, r, n) <=> Iterates(g, "octets", 0, 0, r, n)
  BY DEF SumRun, Iterates, Step
<1>3. Octets(r) = f[1 .. n]
  BY DEF Octets, FoldLeft, MapThenFoldSet
<1>4. P(f)
  <2>1. \E h : P(h)
    <3> HIDE DEF P
    <3> QED BY <1>1, SolutionExists
  <2> HIDE DEF P
  <2> QED BY <2>1
<1> HIDE DEF P, f
<1>5. Solves(f, "octets", 0, 0, r, n)
  BY <1>1, <1>4
<1>6. PICK g : /\ DOMAIN g = 0 .. n /\ Iterates(g, "octets", 0, 0, r, n)
               /\ f[1 .. n] = g[n]
  BY <1>5, SolutionIterates
<1>7. ASSUME NEW h, SumRun(h, r, n) PROVE Octets(r) = h[n]
  BY <1>2, <1>3, <1>6, <1>7, IteratesOnce
<1> QED BY <1>2, <1>3, <1>6, <1>7

\* RawOctets, one run after the other.
RawRun(g, r, n) ==
    /\ g[0] = 0
    /\ \A k \in 1 .. n : g[k] = g[k - 1] + r[k].raw

\* Its result is reached in such steps, and only one is.
LEMMA RawSteps ==
  ASSUME NEW r, NEW n \in Nat, DOMAIN r = 1 .. n
  PROVE  /\ \E g : DOMAIN g = 0 .. n /\ RawRun(g, r, n) /\ RawOctets(r) = g[n]
         /\ \A g : RawRun(g, r, n) => RawOctets(r) = g[n]
<1> DEFINE P(f) == f = [S \in SUBSET (1 .. n) |->
                          IF S = {} THEN 0
                          ELSE f[S \ {Max(S)}] + r[Max(S)].raw]
           f == CHOOSE f : P(f)
<1>1. \A h : P(h) <=> Solves(h, "raw", 0, 0, r, n)
  BY DEF Solves, Step
<1>2. \A g : RawRun(g, r, n) <=> Iterates(g, "raw", 0, 0, r, n)
  BY DEF RawRun, Iterates, Step
<1>3. RawOctets(r) = f[1 .. n]
  BY DEF RawOctets, FoldLeft, MapThenFoldSet
<1>4. P(f)
  <2>1. \E h : P(h)
    <3> HIDE DEF P
    <3> QED BY <1>1, SolutionExists
  <2> HIDE DEF P
  <2> QED BY <2>1
<1> HIDE DEF P, f
<1>5. Solves(f, "raw", 0, 0, r, n)
  BY <1>1, <1>4
<1>6. PICK g : /\ DOMAIN g = 0 .. n /\ Iterates(g, "raw", 0, 0, r, n)
               /\ f[1 .. n] = g[n]
  BY <1>5, SolutionIterates
<1>7. ASSUME NEW h, RawRun(h, r, n) PROVE RawOctets(r) = h[n]
  BY <1>2, <1>3, <1>6, <1>7, IteratesOnce
<1> QED BY <1>2, <1>3, <1>6, <1>7

\* foldHeaderLine, one run after the other.
LineRun(g, prefix, r, n) ==
    /\ g[0] = FoldStart(prefix)
    /\ \A k \in 1 .. n : g[k] = FoldRun(prefix, g[k - 1], r[k])

\* Its result is reached in such steps, and only one is.
LEMMA LineSteps ==
  ASSUME NEW prefix, NEW r, NEW n \in Nat, DOMAIN r = 1 .. n
  PROVE  /\ \E g : /\ DOMAIN g = 0 .. n /\ LineRun(g, prefix, r, n)
                   /\ FoldHeaderLine(prefix, r) = g[n]
         /\ \A g : LineRun(g, prefix, r, n) => FoldHeaderLine(prefix, r) = g[n]
<1> DEFINE P(f) == f = [S \in SUBSET (1 .. n) |->
                          IF S = {} THEN FoldStart(prefix)
                          ELSE FoldRun(prefix, f[S \ {Max(S)}], r[Max(S)])]
           f == CHOOSE f : P(f)
<1>1. \A h : P(h) <=> Solves(h, "fold", prefix, FoldStart(prefix), r, n)
  BY DEF Solves, Step
<1>2. \A g : LineRun(g, prefix, r, n) <=>
             Iterates(g, "fold", prefix, FoldStart(prefix), r, n)
  BY DEF LineRun, Iterates, Step
<1>3. FoldHeaderLine(prefix, r) = f[1 .. n]
  BY DEF FoldHeaderLine, FoldLeft, MapThenFoldSet
<1>4. P(f)
  <2>1. \E h : P(h)
    <3> HIDE DEF P
    <3> QED BY <1>1, SolutionExists
  <2> HIDE DEF P
  <2> QED BY <2>1
<1> HIDE DEF P, f
<1>5. Solves(f, "fold", prefix, FoldStart(prefix), r, n)
  BY <1>1, <1>4
<1>6. PICK g : /\ DOMAIN g = 0 .. n /\ Iterates(g, "fold", prefix, FoldStart(prefix), r, n)
               /\ f[1 .. n] = g[n]
  BY <1>5, SolutionIterates
<1>7. ASSUME NEW h, LineRun(h, prefix, r, n) PROVE FoldHeaderLine(prefix, r) = h[n]
  BY <1>2, <1>3, <1>6, <1>7, IteratesOnce
<1> QED BY <1>2, <1>3, <1>6, <1>7

\* The places of a sequence.
Places(s) == [k \in DOMAIN s |-> k]

\* A loop that keeps what is at the places I.
KeepRun(g, s, I, n) ==
    /\ g[0] = <<>>
    /\ \A k \in 1 .. n : g[k] = IF k \in I THEN Append(g[k - 1], s[k]) ELSE g[k - 1]

\* Its result is reached in such steps, and only one is.
LEMMA KeepSteps ==
  ASSUME NEW s, NEW I, NEW n \in Nat, DOMAIN s = 1 .. n
  PROVE  /\ \E g : DOMAIN g = 0 .. n /\ KeepRun(g, s, I, n) /\ Kept(s, I) = g[n]
         /\ \A g : KeepRun(g, s, I, n) => Kept(s, I) = g[n]
<1> DEFINE P(f) == f = [S \in SUBSET (1 .. n) |->
                          IF S = {} THEN <<>>
                          ELSE IF Places(s)[Max(S)] \in I
                               THEN Append(f[S \ {Max(S)}], s[Places(s)[Max(S)]])
                               ELSE f[S \ {Max(S)}]]
           f == CHOOSE f : P(f)
<1>1. \A h : P(h) <=> Solves(h, "keep", [seq |-> s, places |-> I], <<>>, Places(s), n)
  BY DEF Solves, Step
<1>2. \A g : KeepRun(g, s, I, n) <=>
             Iterates(g, "keep", [seq |-> s, places |-> I], <<>>, Places(s), n)
  BY DEF KeepRun, Iterates, Step, Places
<1>3. Kept(s, I) = f[1 .. n]
  BY DEF Kept, FoldLeftDomain, Places, FoldLeft, MapThenFoldSet
<1>4. P(f)
  <2>1. \E h : P(h)
    <3> HIDE DEF P
    <3> QED BY <1>1, SolutionExists
  <2> HIDE DEF P
  <2> QED BY <2>1
<1> HIDE DEF P, f
<1>5. Solves(f, "keep", [seq |-> s, places |-> I], <<>>, Places(s), n)
  BY <1>1, <1>4
<1>6. PICK g : /\ DOMAIN g = 0 .. n
               /\ Iterates(g, "keep", [seq |-> s, places |-> I], <<>>, Places(s), n)
               /\ f[1 .. n] = g[n]
  BY <1>5, SolutionIterates
<1>7. ASSUME NEW h, KeepRun(h, s, I, n) PROVE Kept(s, I) = h[n]
  BY <1>2, <1>3, <1>6, <1>7, IteratesOnce
<1> QED BY <1>2, <1>3, <1>6, <1>7

\* A reader, one line after the other.
ReadRun(g, s, lines, n) ==
    /\ g[0] = s
    /\ \A k \in 1 .. n : g[k] = ReadLine(g[k - 1], lines[k])

\* Its result is reached in such steps, and only one is.
LEMMA ReadSteps ==
  ASSUME NEW s, NEW lines, NEW n \in Nat, DOMAIN lines = 1 .. n
  PROVE  /\ \E g : DOMAIN g = 0 .. n /\ ReadRun(g, s, lines, n) /\ ReadFrom(s, lines) = g[n]
         /\ \A g : ReadRun(g, s, lines, n) => ReadFrom(s, lines) = g[n]
<1> DEFINE P(f) == f = [S \in SUBSET (1 .. n) |->
                          IF S = {} THEN s
                          ELSE ReadLine(f[S \ {Max(S)}], lines[Max(S)])]
           f == CHOOSE f : P(f)
<1>1. \A h : P(h) <=> Solves(h, "read", 0, s, lines, n)
  BY DEF Solves, Step
<1>2. \A g : ReadRun(g, s, lines, n) <=> Iterates(g, "read", 0, s, lines, n)
  BY DEF ReadRun, Iterates, Step
<1>3. ReadFrom(s, lines) = f[1 .. n]
  BY DEF ReadFrom, FoldLeft, MapThenFoldSet
<1>4. P(f)
  <2>1. \E h : P(h)
    <3> HIDE DEF P
    <3> QED BY <1>1, SolutionExists
  <2> HIDE DEF P
  <2> QED BY <2>1
<1> HIDE DEF P, f
<1>5. Solves(f, "read", 0, s, lines, n)
  BY <1>1, <1>4
<1>6. PICK g : /\ DOMAIN g = 0 .. n /\ Iterates(g, "read", 0, s, lines, n)
               /\ f[1 .. n] = g[n]
  BY <1>5, SolutionIterates
<1>7. ASSUME NEW h, ReadRun(h, s, lines, n) PROVE ReadFrom(s, lines) = h[n]
  BY <1>2, <1>3, <1>6, <1>7, IteratesOnce
<1> QED BY <1>2, <1>3, <1>6, <1>7

------------------------------------------------------------------------------
(* Sequences of sequences.                                                 *)

\* h[k] is the concatenation of the first k sequences of s.
Flat(h, s, n) == h = [k \in 1 .. n |-> IF k = 1 THEN s[k] ELSE h[k - 1] \o s[k]]

\* The recursion of FlattenSeq has a solution.
LEMMA FlatExists ==
  ASSUME NEW s, NEW n \in Nat
  PROVE  \E h : Flat(h, s, n)
<1> DEFINE T == {k \in 0 .. n : \E h : Flat(h, s, k)}
<1>1. 0 \in T
  <2> DEFINE h == [k \in 1 .. 0 |-> <<>>]
  <2>1. h = [k \in 1 .. 0 |-> IF k = 1 THEN s[k] ELSE h[k - 1] \o s[k]]
    OBVIOUS
  <2>2. Flat(h, s, 0)
    BY <2>1 DEF Flat
  <2> QED BY <2>2
<1>2. ASSUME NEW x \in 1 .. n, x - 1 \in T PROVE x \in T
  <2>2. PICK g : Flat(g, s, x - 1)
    BY <1>2
  <2> DEFINE h == [k \in 1 .. x |-> IF k = x
                                    THEN IF k = 1 THEN s[k] ELSE g[k - 1] \o s[k]
                                    ELSE g[k]]
             e == [k \in 1 .. x |-> IF k = 1 THEN s[k] ELSE h[k - 1] \o s[k]]
  <2>3. ASSUME NEW k \in 1 .. x PROVE h[k] = e[k]
    <3>1. k > 1 => k - 1 \in 1 .. x - 1 /\ k - 1 \in 1 .. x /\ k - 1 # x
      BY <1>2
    <3>2. k > 1 => h[k - 1] = g[k - 1]
      BY <3>1
    <3>3. e[k] = IF k = 1 THEN s[k] ELSE h[k - 1] \o s[k]
      OBVIOUS
    <3>4. CASE k = x
      <4>1. h[k] = IF k = 1 THEN s[k] ELSE g[k - 1] \o s[k]
        BY <3>4
      <4> HIDE DEF h, e
      <4> QED BY <3>2, <3>3, <4>1
    <3>5. CASE k # x
      <4>1. k \in 1 .. x - 1 /\ h[k] = g[k]
        BY <1>2, <3>5
      <4>2. g[k] = IF k = 1 THEN s[k] ELSE g[k - 1] \o s[k]
        BY <2>2, <4>1 DEF Flat
      <4> HIDE DEF h, e
      <4> QED BY <3>2, <3>3, <4>1, <4>2
    <3> QED BY <3>4, <3>5
  <2>4. h = e
    <3>1. DOMAIN h = 1 .. x /\ DOMAIN e = 1 .. x /\ h = [k \in 1 .. x |-> h[k]]
          /\ e = [k \in 1 .. x |-> e[k]]
      OBVIOUS
    <3> HIDE DEF h, e
    <3> QED BY <2>3, <3>1
  <2>5. Flat(h, s, x)
    BY <2>4 DEF Flat
  <2> QED BY <2>5
<1>3. n \in 0 .. n
  OBVIOUS
<1>4. \A k \in 0 .. n : k \in T
  <2> HIDE DEF T
  <2> QED BY <1>1, <1>2, UpTo_n
<1> QED BY <1>3, <1>4

\* g[k] is the concatenation of the first k sequences of s, none included.
FlatRun(g, s) == g[0] = <<>> /\ \A k \in 1 .. Len(s) : g[k] = g[k - 1] \o s[k]

\* FlattenSeq, one sequence after the other.
LEMMA FlatSteps ==
  ASSUME NEW X, NEW s \in Seq(Seq(X))
  PROVE  \E g \in [0 .. Len(s) -> Seq(X)] : FlatRun(g, s) /\ FlattenSeq(s) = g[Len(s)]
<1> DEFINE n == Len(s)
           f == CHOOSE f : Flat(f, s, n)
           g == [k \in 0 .. n |-> IF k = 0 THEN <<>> ELSE f[k]]
<1>1. n \in Nat /\ DOMAIN s = 1 .. n /\ \A k \in 1 .. n : s[k] \in Seq(X)
  OBVIOUS
<1>2. Flat(f, s, n)
  BY <1>1, FlatExists
<1>3. FlattenSeq(s) = IF n = 0 THEN s ELSE f[n]
  BY DEF FlattenSeq, Flat
<1> HIDE DEF f
<1>4. ASSUME NEW k \in 1 .. n PROVE g[k] = g[k - 1] \o s[k]
  <2>1. f[k] = IF k = 1 THEN s[k] ELSE f[k - 1] \o s[k]
    BY <1>2 DEF Flat
  <2>2. s[k] \in Seq(X) /\ <<>> \o s[k] = s[k]
    BY <1>1
  <2>3. g[k] = f[k] /\ g[k - 1] = IF k = 1 THEN <<>> ELSE f[k - 1]
    BY <1>1
  <2> HIDE DEF g
  <2> QED BY <2>1, <2>2, <2>3
<1>5. g[0] = <<>> /\ DOMAIN g = 0 .. n /\ g = [k \in 0 .. n |-> g[k]]
  BY <1>1
<1>6. g[n] = IF n = 0 THEN <<>> ELSE f[n]
  BY <1>1
<1> HIDE DEF g
<1> DEFINE T == {k \in 0 .. n : g[k] \in Seq(X)}
<1>7. 0 \in T
  <2>1. <<>> \in Seq(X) /\ 0 \in 0 .. n
    BY <1>1
  <2> QED BY <1>5, <2>1
<1>8. ASSUME NEW k \in 1 .. n, k - 1 \in T PROVE k \in T
  <2>1. g[k - 1] \in Seq(X) /\ s[k] \in Seq(X)
    BY <1>1, <1>8
  <2>2. g[k - 1] \o s[k] \in Seq(X)
    BY <2>1, ConcatProperties
  <2>3. k \in 0 .. n /\ g[k] = g[k - 1] \o s[k]
    BY <1>1, <1>4
  <2> QED BY <2>2, <2>3
<1>9. \A k \in 0 .. n : k \in T
  <2> HIDE DEF T, n
  <2> QED BY <1>1, <1>7, <1>8, UpTo_n
<1>10. g \in [0 .. n -> Seq(X)]
  BY <1>5, <1>9
<1>11. FlattenSeq(s) = g[n]
  <2>1. n = 0 => s = <<>>
    BY <1>1
  <2> QED BY <1>3, <1>6, <2>1
<1>12. FlatRun(g, s)
  BY <1>4, <1>5 DEF FlatRun
<1> QED BY <1>10, <1>11, <1>12

\* Only one result is reached that way.
LEMMA FlatIs ==
  ASSUME NEW X, NEW s \in Seq(Seq(X)), NEW g, FlatRun(g, s)
  PROVE  FlattenSeq(s) = g[Len(s)]
<1>1. PICK h : FlatRun(h, s) /\ FlattenSeq(s) = h[Len(s)]
  BY FlatSteps
<1> DEFINE n == Len(s)
           T == {k \in 0 .. n : g[k] = h[k]}
<1>2. n \in Nat
  OBVIOUS
<1>3. 0 \in T
  BY <1>1, <1>2 DEF FlatRun
<1>4. ASSUME NEW k \in 1 .. n, k - 1 \in T PROVE k \in T
  <2>1. k \in 0 .. n /\ g[k - 1] = h[k - 1]
    BY <1>2, <1>4
  <2>2. g[k] = g[k - 1] \o s[k] /\ h[k] = h[k - 1] \o s[k]
    BY <1>1 DEF FlatRun
  <2> QED BY <2>1, <2>2
<1>5. \A k \in 0 .. n : k \in T
  <2> HIDE DEF T, n
  <2> QED BY <1>2, <1>3, <1>4, UpTo_n
<1>6. n \in 0 .. n
  BY <1>2
<1> QED BY <1>1, <1>5, <1>6

\* One sequence more.
LEMMA FlatAppend ==
  ASSUME NEW X, NEW s \in Seq(Seq(X)), NEW x \in Seq(X)
  PROVE  /\ FlattenSeq(s) \in Seq(X)
         /\ FlattenSeq(Append(s, x)) = FlattenSeq(s) \o x
<1> DEFINE n == Len(s)
<1>1. PICK g \in [0 .. n -> Seq(X)] : FlatRun(g, s) /\ FlattenSeq(s) = g[n]
  BY FlatSteps
<1>2. n \in Nat /\ Append(s, x) \in Seq(Seq(X)) /\ Len(Append(s, x)) = n + 1
  OBVIOUS
<1>3. \A k \in 1 .. n + 1 : Append(s, x)[k] = IF k = n + 1 THEN x ELSE s[k]
  BY <1>2
<1> DEFINE h == [k \in 0 .. n + 1 |-> IF k = n + 1 THEN g[n] \o x ELSE g[k]]
<1>4. FlatRun(h, Append(s, x))
  <2>1. h[0] = <<>>
    BY <1>1, <1>2 DEF FlatRun
  <2>2. ASSUME NEW k \in 1 .. n + 1 PROVE h[k] = h[k - 1] \o Append(s, x)[k]
    <3>1. CASE k = n + 1
      <4>1. h[k] = g[n] \o x /\ h[k - 1] = g[n]
        BY <1>2, <3>1
      <4> HIDE DEF h, n
      <4> QED BY <1>3, <3>1, <4>1
    <3>2. CASE k # n + 1
      <4>1. k \in 1 .. n /\ h[k] = g[k] /\ h[k - 1] = g[k - 1]
        BY <1>2, <3>2
      <4>2. g[k] = g[k - 1] \o s[k]
        BY <1>1, <4>1 DEF FlatRun
      <4> HIDE DEF h, n
      <4> QED BY <1>3, <3>2, <4>1, <4>2
    <3> QED BY <3>1, <3>2
  <2> HIDE DEF h, n
  <2> QED BY <1>2, <2>1, <2>2 DEF FlatRun
<1>5. h[n + 1] = g[n] \o x /\ g[n] \in Seq(X)
  <2>1. n \in 0 .. n /\ n + 1 \in 0 .. n + 1
    BY <1>2
  <2> HIDE DEF n
  <2>2. h[n + 1] = g[n] \o x
    BY <2>1
  <2> HIDE DEF h
  <2>3. g[n] \in Seq(X)
    BY <2>1
  <2> QED BY <2>2, <2>3
<1>6. FlattenSeq(Append(s, x)) = h[Len(Append(s, x))]
  <2> HIDE DEF h
  <2> QED BY <1>2, <1>4, FlatIs
<1> QED BY <1>1, <1>2, <1>5, <1>6

\* Nothing is made of nothing.
LEMMA FlatEmpty == FlattenSeq(<<>>) = <<>>
BY DEF FlattenSeq

\* A sequence with another last element.
SetLast(s, y) == [s EXCEPT ![Len(s)] = y]

\* The last element of a sequence, and the others.
LEMMA SplitLast ==
  ASSUME NEW S, NEW s \in Seq(S), s # <<>>
  PROVE  /\ Front(s) \in Seq(S) /\ Len(Front(s)) = Len(s) - 1
         /\ s[Len(s)] \in S /\ s = Append(Front(s), s[Len(s)])
         /\ \A y \in S : SetLast(s, y) = Append(Front(s), y)
<1> DEFINE n == Len(s)
           f == Front(s)
<1>1. n \in Nat /\ n > 0 /\ n - 1 \in Nat /\ s[n] \in S /\ DOMAIN s = 1 .. n
  OBVIOUS
<1>2. f \in Seq(S) /\ Len(f) = n - 1 /\ \A k \in 1 .. n - 1 : f[k] = s[k]
  BY <1>1 DEF Front
<1> HIDE DEF f, n
<1>3. ASSUME NEW y \in S PROVE SetLast(s, y) = Append(f, y)
  <2> DEFINE e == [s EXCEPT ![n] = y]
             a == Append(f, y)
  <2>1. DOMAIN e = 1 .. n /\ e = [k \in 1 .. n |-> e[k]]
    BY <1>1
  <2>2. a \in Seq(S) /\ Len(a) = (n - 1) + 1 /\ a[(n - 1) + 1] = y
        /\ \A k \in 1 .. n - 1 : a[k] = f[k]
    BY <1>2, AppendProperties
  <2>3. (n - 1) + 1 = n
    BY <1>1
  <2>4. DOMAIN a = 1 .. n /\ a = [k \in 1 .. n |-> a[k]] /\ a[n] = y
    <3> HIDE DEF a, n
    <3> QED BY <2>2, <2>3
  <2>5. ASSUME NEW k \in 1 .. n PROVE e[k] = a[k]
    <3>1. CASE k = n
      BY <1>1, <2>4, <3>1
    <3>2. CASE k # n
      <4>1. k \in 1 .. n - 1
        BY <1>1, <3>2
      <4>2. e[k] = s[k]
        BY <1>1, <3>2
      <4> HIDE DEF e, a
      <4> QED BY <1>2, <2>2, <4>1, <4>2
    <3> QED BY <3>1, <3>2
  <2>6. e = a
    <3> HIDE DEF e, a
    <3> QED BY <2>1, <2>4, <2>5
  <2> QED BY <2>6 DEF SetLast, n
<1>4. SetLast(s, s[n]) = s
  BY <1>1 DEF SetLast, n
<1> QED BY <1>1, <1>2, <1>3, <1>4 DEF n, f

------------------------------------------------------------------------------
(* Header fields.                                                          *)

\* A run of a value as it is written: raw octets if it is an encoded-word.
Word == [ws : Nat, raw : Nat, len : Nat]

\* Octets of one run more.
LEMMA OctetsAppend ==
  ASSUME NEW X, \A x \in X : Size(x) \in Nat, NEW r \in Seq(X), NEW x \in X
  PROVE  Octets(r) \in Nat /\ Octets(Append(r, x)) = Octets(r) + Size(x)
<1> DEFINE n == Len(r)
<1>1. n \in Nat /\ DOMAIN r = 1 .. n /\ \A k \in 1 .. n : r[k] \in X
  OBVIOUS
<1>2. PICK g : DOMAIN g = 0 .. n /\ SumRun(g, r, n) /\ Octets(r) = g[n]
  BY <1>1, SumSteps
<1> DEFINE a == Append(r, x)
           h == [k \in 0 .. n + 1 |-> IF k = n + 1 THEN g[n] + Size(x) ELSE g[k]]
<1>3. n + 1 \in Nat /\ DOMAIN a = 1 .. n + 1
      /\ \A k \in 1 .. n + 1 : a[k] = IF k = n + 1 THEN x ELSE r[k]
  BY <1>1
<1>4. /\ h[0] = g[0] /\ h[n + 1] = g[n] + Size(x)
      /\ \A k \in 1 .. n + 1 : h[k] = IF k = n + 1 THEN g[n] + Size(x) ELSE g[k]
      /\ \A k \in 1 .. n + 1 : h[k - 1] = g[k - 1]
  BY <1>1
<1> HIDE DEF h, a
<1>5. SumRun(h, a, n + 1)
  <2>1. ASSUME NEW k \in 1 .. n + 1 PROVE h[k] = h[k - 1] + Size(a[k])
    <3>1. CASE k = n + 1
      <4>1. h[k] = g[n] + Size(x) /\ h[k - 1] = g[k - 1] /\ k - 1 = n /\ a[k] = x
        BY <1>1, <1>3, <1>4, <3>1
      <4> QED BY <4>1
    <3>2. CASE k # n + 1
      <4>1. k \in 1 .. n /\ h[k] = g[k] /\ h[k - 1] = g[k - 1] /\ a[k] = r[k]
        BY <1>1, <1>3, <1>4, <3>2
      <4> QED BY <1>2, <4>1 DEF SumRun
    <3> QED BY <3>1, <3>2
  <2> QED BY <1>2, <1>4, <2>1 DEF SumRun
<1>6. Octets(a) = h[n + 1]
  BY <1>3, <1>5, SumSteps
<1> DEFINE T == {k \in 0 .. n : g[k] \in Nat}
<1>7. 0 \in T
  BY <1>1, <1>2 DEF SumRun
<1>8. ASSUME NEW k \in 1 .. n, k - 1 \in T PROVE k \in T
  <2>1. g[k] = g[k - 1] + Size(r[k]) /\ Size(r[k]) \in Nat /\ g[k - 1] \in Nat
    BY <1>1, <1>2, <1>8 DEF SumRun
  <2>2. g[k] \in Nat /\ k \in 0 .. n
    BY <1>1, <2>1
  <2> QED BY <2>2
<1>9. \A k \in 0 .. n : k \in T
  <2> HIDE DEF T, n
  <2> QED BY <1>1, <1>7, <1>8, UpTo_n
<1>10. g[n] \in Nat
  BY <1>1, <1>9
<1> QED BY <1>2, <1>4, <1>6, <1>10 DEF a

\* No runs have no octets.
LEMMA OctetsEmpty == Octets(<<>>) = 0
<1> DEFINE g == [k \in 0 .. 0 |-> 0]
<1>1. SumRun(g, <<>>, 0)
  BY DEF SumRun
<1>2. DOMAIN <<>> = 1 .. 0 /\ g[0] = 0 /\ 0 \in Nat
  OBVIOUS
<1> HIDE DEF g
<1> QED BY <1>1, <1>2, SumSteps

\* The octets of a word are a number.
LEMMA SizeOfWord == \A x \in Word : Size(x) = x.ws + x.len /\ Size(x) \in Nat
BY DEF Word, Size

\* The octets of words are a number, and add up.
LEMMA WordOctets ==
  ASSUME NEW r \in Seq(Word), NEW x \in Word
  PROVE  /\ Octets(r) \in Nat /\ Octets(Append(r, x)) = Octets(r) + Size(x)
         /\ Octets(<<x>>) = Size(x)
<1>1. \A y \in Word : Size(y) \in Nat
  BY SizeOfWord
<1>2. \A s \in Seq(Word) : Octets(s) \in Nat /\ Octets(Append(s, x)) = Octets(s) + Size(x)
  BY <1>1, OctetsAppend
<1>3. <<>> \in Seq(Word) /\ Append(<<>>, x) = <<x>>
  OBVIOUS
<1>4. Octets(<<x>>) = Size(x)
  <2>1. Octets(<<x>>) = 0 + Size(x)
    BY <1>2, <1>3, OctetsEmpty
  <2>2. Size(x) \in Nat
    BY <1>1
  <2> QED BY <2>1, <2>2
<1> QED BY <1>2, <1>4

\* The state of the loop of foldHeaderLine.
FoldState == [ok : BOOLEAN, curLen : Nat, lines : Seq(Seq(Word))]

\* The words of u are those of r, separated where those are.
SameWords(u, r, k) ==
    /\ u \in Seq(Word) /\ Len(u) = k
    /\ \A i \in 1 .. k :
          u[i].len = r[i].len /\ u[i].raw = r[i].raw /\ (u[i].ws = 0 <=> r[i].ws = 0)

\* Octets of line j of a field.
LineOctets(prefix, lines, j) == Octets(lines[j]) + IF j = 1 THEN prefix ELSE 0

\* foldHeaderLine after k runs.
LineInv(prefix, r, k, acc) ==
    /\ acc \in FoldState
    /\ acc.ok =>
          /\ acc.lines # <<>> /\ (k = 0 <=> acc.lines = << <<>> >>)
          /\ acc.curLen = LineOctets(prefix, acc.lines, Len(acc.lines))
          /\ k > 0 => \A j \in 1 .. Len(acc.lines) :
                         LineOctets(prefix, acc.lines, j) <= HardLimit
          /\ SameWords(FlattenSeq(acc.lines), r, k)

\* What Append makes of a sequence.
LEMMA AppendOf ==
  ASSUME NEW S, NEW s \in Seq(S), NEW x \in S
  PROVE  /\ Append(s, x) \in Seq(S) /\ Len(Append(s, x)) = Len(s) + 1
         /\ Append(s, x) # <<>> /\ Len(s) \in Nat
         /\ \A j \in 1 .. Len(s) + 1 :
               Append(s, x)[j] = IF j = Len(s) + 1 THEN x ELSE s[j]
OBVIOUS

\* One word more at both sides.
LEMMA SameWordsAppend ==
  ASSUME NEW r, NEW k \in Nat, k > 0, NEW u, SameWords(u, r, k - 1), NEW w \in Word,
         w.len = r[k].len, w.raw = r[k].raw, w.ws = 0 <=> r[k].ws = 0
  PROVE  SameWords(Append(u, w), r, k)
<1>1. u \in Seq(Word) /\ Len(u) = k - 1
  BY DEF SameWords
<1>2. /\ Append(u, w) \in Seq(Word) /\ Len(Append(u, w)) = k
      /\ \A i \in 1 .. k : Append(u, w)[i] = IF i = k THEN w ELSE u[i]
  BY <1>1
<1>3. ASSUME NEW i \in 1 .. k
      PROVE  /\ Append(u, w)[i].len = r[i].len /\ Append(u, w)[i].raw = r[i].raw
             /\ Append(u, w)[i].ws = 0 <=> r[i].ws = 0
  <2>1. CASE i = k
    BY <1>2, <2>1
  <2>2. CASE i # k
    <3>1. i \in 1 .. k - 1 /\ Append(u, w)[i] = u[i]
      BY <1>2, <2>2
    <3> QED BY <3>1 DEF SameWords
  <2> QED BY <2>1, <2>2
<1> QED BY <1>2, <1>3 DEF SameWords

\* Lines and one more, of one word.
LineAdded(prefix, L, w, M) ==
    /\ M \in Seq(Seq(Word)) /\ Len(M) = Len(L) + 1 /\ M # <<>> /\ M # << <<>> >>
    /\ LineOctets(prefix, M, Len(M)) = Size(w)
    /\ \A j \in 1 .. Len(M) :
          j # Len(M) => /\ j \in 1 .. Len(L)
                        /\ LineOctets(prefix, M, j) = LineOctets(prefix, L, j)
    /\ FlattenSeq(M) = Append(FlattenSeq(L), w)

\* What a new line of one word, after a fold, does to the lines.
LEMMA AddLine ==
  ASSUME NEW L \in Seq(Seq(Word)), L # <<>>, NEW w \in Word, NEW prefix \in Nat,
         NEW M, M = Append(L, <<w>>)
  PROVE  LineAdded(prefix, L, w, M)
<1> DEFINE n == Len(L)
<1>1. n \in Nat /\ n > 0 /\ <<w>> \in Seq(Word)
  OBVIOUS
<1>2. /\ M \in Seq(Seq(Word)) /\ Len(M) = n + 1 /\ M # <<>>
      /\ \A j \in 1 .. n + 1 : M[j] = IF j = n + 1 THEN <<w>> ELSE L[j]
  BY <1>1, AppendOf
<1>3. M # << <<>> >>
  <2>1. Len(<< <<>> >>) = 1
    OBVIOUS
  <2> QED BY <1>1, <1>2, <2>1
<1>4. Octets(<<w>>) = Size(w) /\ Size(w) \in Nat
  <2>1. <<>> \in Seq(Word)
    OBVIOUS
  <2> QED BY <2>1, WordOctets, SizeOfWord
<1>5. FlattenSeq(M) = Append(FlattenSeq(L), w)
  <2>1. FlattenSeq(L) \in Seq(Word) /\ FlattenSeq(M) = FlattenSeq(L) \o <<w>>
    BY <1>1, FlatAppend
  <2> QED BY <2>1
<1> HIDE DEF n
<1>6. LineOctets(prefix, M, n + 1) = Size(w)
  <2>1. n + 1 \in 1 .. n + 1 /\ n + 1 # 1
    BY <1>1
  <2> QED BY <1>2, <1>4, <2>1 DEF LineOctets
<1>7. ASSUME NEW j \in 1 .. n + 1, j # n + 1
      PROVE  j \in 1 .. n /\ LineOctets(prefix, M, j) = LineOctets(prefix, L, j)
  BY <1>1, <1>2, <1>7 DEF LineOctets
<1> QED BY <1>2, <1>3, <1>5, <1>6, <1>7 DEF n, LineAdded

\* Lines with one word more on the last.
WordAdded(prefix, L, w, M) ==
    /\ M \in Seq(Seq(Word)) /\ Len(M) = Len(L) /\ M # <<>> /\ M # << <<>> >>
    /\ LineOctets(prefix, L, Len(L)) \in Nat
    /\ LineOctets(prefix, M, Len(M)) = LineOctets(prefix, L, Len(L)) + Size(w)
    /\ \A j \in 1 .. Len(M) :
          j # Len(M) => LineOctets(prefix, M, j) = LineOctets(prefix, L, j)
    /\ FlattenSeq(M) = Append(FlattenSeq(L), w)

\* A word added after a join is added to what is joined.
LEMMA AppendAfter ==
  ASSUME NEW a \in Seq(Word), NEW b \in Seq(Word), NEW w \in Word
  PROVE  a \o Append(b, w) = Append(a \o b, w)
OBVIOUS

\* What a word more on the last line does to the lines.
LEMMA AddWord ==
  ASSUME NEW L \in Seq(Seq(Word)), L # <<>>, NEW w \in Word, NEW prefix \in Nat,
         NEW M, M = SetLast(L, Append(L[Len(L)], w))
  PROVE  WordAdded(prefix, L, w, M)
<1> DEFINE n == Len(L)
           last == L[n]
           more == Append(last, w)
           f == Front(L)
<1>1. n \in Nat /\ n > 0 /\ last \in Seq(Word) /\ DOMAIN L = 1 .. n
  OBVIOUS
<1>2. more \in Seq(Word) /\ more # <<>>
  BY <1>1, AppendOf
<1>3. /\ f \in Seq(Seq(Word)) /\ Len(f) = n - 1 /\ L = Append(f, last)
      /\ \A y \in Seq(Word) : SetLast(L, y) = Append(f, y)
  BY SplitLast
<1>4. M = SetLast(L, more)
  OBVIOUS
<1>5. Octets(more) = Octets(last) + Size(w) /\ Octets(last) \in Nat /\ Size(w) \in Nat
  BY <1>1, WordOctets, SizeOfWord
<1>6. \A a \in Seq(Word) : a \o more = Append(a \o last, w)
  <2> HIDE DEF last
  <2> QED BY <1>1, AppendAfter
<1> HIDE DEF n, last, more, f
<1>7. M = Append(f, more)
  BY <1>2, <1>3, <1>4
<1>8. ASSUME NEW y \in Seq(Word)
      PROVE  /\ Append(f, y) \in Seq(Seq(Word)) /\ Len(Append(f, y)) = n
             /\ Append(f, y)[n] = y /\ \A j \in 1 .. n : j # n => Append(f, y)[j] = f[j]
             /\ FlattenSeq(f) \in Seq(Word)
             /\ FlattenSeq(Append(f, y)) = FlattenSeq(f) \o y
  <2>1. (n - 1) + 1 = n
        /\ \A j \in 1 .. n : j # n => j \in 1 .. (n - 1) + 1 /\ j # (n - 1) + 1
    BY <1>1
  <2>2. n \in 1 .. n
    BY <1>1
  <2>3. /\ Append(f, y) \in Seq(Seq(Word)) /\ Len(Append(f, y)) = Len(f) + 1
        /\ \A j \in 1 .. Len(f) + 1 :
              Append(f, y)[j] = IF j = Len(f) + 1 THEN y ELSE f[j]
    BY <1>3, AppendOf
  <2>4. /\ FlattenSeq(f) \in Seq(Word)
        /\ FlattenSeq(Append(f, y)) = FlattenSeq(f) \o y
    BY <1>3, FlatAppend
  <2> QED BY <1>3, <2>1, <2>2, <2>3, <2>4
<1>9. /\ M \in Seq(Seq(Word)) /\ Len(M) = n /\ M[n] = more
      /\ \A j \in 1 .. n : j # n => M[j] = L[j]
      /\ FlattenSeq(M) = FlattenSeq(f) \o more /\ FlattenSeq(f) \in Seq(Word)
      /\ FlattenSeq(L) = FlattenSeq(f) \o last
  <2>1. /\ M \in Seq(Seq(Word)) /\ Len(M) = n /\ M[n] = more
        /\ \A j \in 1 .. n : j # n => M[j] = f[j]
        /\ FlattenSeq(M) = FlattenSeq(f) \o more /\ FlattenSeq(f) \in Seq(Word)
    BY <1>2, <1>7, <1>8
  <2>2. /\ \A j \in 1 .. n : j # n => L[j] = f[j]
        /\ FlattenSeq(L) = FlattenSeq(f) \o last
    BY <1>1, <1>3, <1>8
  <2> QED BY <2>1, <2>2
<1>10. FlattenSeq(M) = Append(FlattenSeq(L), w)
  BY <1>6, <1>9
<1>11. M # <<>> /\ M # << <<>> >>
  <2>1. CASE n = 1
    <3>1. M[1] = more /\ Len(M) = 1
      BY <1>9, <2>1
    <3>2. << <<>> >>[1] = <<>> /\ Len(<<>>) = 0
      OBVIOUS
    <3>3. M # <<>>
      BY <3>1, <3>2
    <3> QED BY <1>2, <3>1, <3>2, <3>3
  <2>2. CASE n # 1
    <3>1. Len(<< <<>> >>) = 1 /\ Len(<<>>) = 0
      OBVIOUS
    <3>2. n # 0
      BY <1>1
    <3> QED BY <1>9, <2>2, <3>1, <3>2
  <2> QED BY <2>1, <2>2
<1>12. /\ LineOctets(prefix, L, n) \in Nat
       /\ LineOctets(prefix, M, n) = LineOctets(prefix, L, n) + Size(w)
  <2>1. LineOctets(prefix, L, n) = Octets(last) + IF n = 1 THEN prefix ELSE 0
    BY DEF LineOctets, last
  <2>2. LineOctets(prefix, M, n) = Octets(more) + IF n = 1 THEN prefix ELSE 0
    BY <1>9 DEF LineOctets
  <2> QED BY <1>5, <2>1, <2>2
<1>13. ASSUME NEW j \in 1 .. n, j # n
       PROVE  LineOctets(prefix, M, j) = LineOctets(prefix, L, j)
  BY <1>9, <1>13 DEF LineOctets
<1> QED BY <1>9, <1>10, <1>11, <1>12, <1>13 DEF n, WordAdded

\* One run more keeps it so.
LEMMA FoldRunStep ==
  ASSUME NEW prefix \in Nat, NEW r \in Seq(Word), NEW k \in 1 .. Len(r), NEW acc,
         LineInv(prefix, r, k - 1, acc), k > 1 => r[k].ws > 0
  PROVE  LineInv(prefix, r, k, FoldRun(prefix, acc, r[k]))
<1> DEFINE run == r[k]
           new == FoldRun(prefix, acc, run)
           fold == /\ acc.lines # << <<>> >> /\ run.len > 0
                   /\ acc.curLen + run.ws + run.len > SoftLimit
                   /\ acc.curLen > prefix
           curLen == (IF fold THEN 1 ELSE acc.curLen + run.ws) + run.len
           L == acc.lines
           appended == [L EXCEPT ![Len(L)] = Append(@, run)]
<1>1. /\ run \in Word /\ run.ws \in Nat /\ run.len \in Nat /\ k \in Nat /\ k > 0
      /\ k - 1 \in Nat /\ Size(run) = run.ws + run.len
  <2>1. Len(r) \in Nat /\ run \in Word
    OBVIOUS
  <2>2. run.ws \in Nat /\ run.len \in Nat /\ Size(run) = run.ws + run.len
    <3> HIDE DEF run
    <3> QED BY <2>1 DEF Word, Size
  <2> HIDE DEF run
  <2> QED BY <2>1, <2>2
<1>2. /\ acc \in FoldState /\ acc.ok \in BOOLEAN /\ acc.curLen \in Nat
      /\ L \in Seq(Seq(Word))
  BY DEF LineInv, FoldState
<1>3. new = IF ~acc.ok \/ ~(curLen <= HardLimit) THEN [acc EXCEPT !.ok = FALSE]
            ELSE [ok |-> TRUE, curLen |-> curLen,
                  lines |-> IF fold THEN Folded(acc, run) ELSE appended]
  BY DEF FoldRun, WithinLimit
<1>4. curLen \in Nat
  <2> HIDE DEF fold, run, new, L, appended
  <2>1. \A a, b, c \in Nat : 1 + b \in Nat /\ (a + c) + b \in Nat
    OBVIOUS
  <2>2. run.len \in Nat /\ run.ws \in Nat /\ acc.curLen \in Nat
    BY <1>1, <1>2
  <2> QED BY <2>1, <2>2
<1>5. /\ k > 1 => run.ws > 0
      /\ fold => L # << <<>> >>
  OBVIOUS
<1>6. fold => Folded(acc, run) = Append(L, <<[run EXCEPT !.ws = 1]>>)
              /\ curLen = 1 + run.len
  BY DEF Folded
<1>7. ~fold => curLen = acc.curLen + run.ws + run.len
  <2> HIDE DEF fold
  <2> QED OBVIOUS
<1>8. acc.ok => /\ L # <<>> /\ (k - 1 = 0 <=> L = << <<>> >>)
                /\ acc.curLen = LineOctets(prefix, L, Len(L))
                /\ k - 1 > 0 =>
                      \A j \in 1 .. Len(L) : LineOctets(prefix, L, j) <= HardLimit
                /\ SameWords(FlattenSeq(L), r, k - 1)
  BY DEF LineInv
<1>9. appended = SetLast(L, Append(L[Len(L)], run))
  BY DEF SetLast
<1> SUFFICES LineInv(prefix, r, k, new)
  OBVIOUS
<1>10. run = r[k]
  OBVIOUS
<1> HIDE DEF new, run, fold, curLen, L, appended
<1>11. CASE ~acc.ok \/ ~(curLen <= HardLimit)
  <2>1. new = [acc EXCEPT !.ok = FALSE]
    BY <1>3, <1>11
  <2>2. new \in FoldState /\ ~new.ok
    BY <1>2, <2>1 DEF FoldState
  <2> QED BY <2>2 DEF LineInv
<1>12. CASE acc.ok /\ curLen <= HardLimit /\ fold
  <2> DEFINE w == [run EXCEPT !.ws = 1]
             M == Append(L, <<w>>)
  <2>1. k > 1 /\ run.ws > 0
    <3>1. k - 1 # 0
      BY <1>5, <1>8, <1>12
    <3>2. k > 1
      BY <1>1, <3>1
    <3> QED BY <1>5, <3>2
  <2>2. /\ w \in Word /\ w.ws = 1 /\ w.len = run.len /\ w.raw = run.raw
        /\ Size(w) = 1 + run.len
    BY <1>1 DEF Word, Size
  <2>3. M = Append(L, <<w>>)
    OBVIOUS
  <2>4. new = [ok |-> TRUE, curLen |-> curLen, lines |-> M]
    BY <1>3, <1>6, <1>12
  <2> HIDE DEF w, M
  <2>5. /\ M \in Seq(Seq(Word)) /\ Len(M) = Len(L) + 1 /\ M # <<>> /\ M # << <<>> >>
        /\ LineOctets(prefix, M, Len(M)) = Size(w)
        /\ \A j \in 1 .. Len(M) :
              j # Len(M) => /\ j \in 1 .. Len(L)
                            /\ LineOctets(prefix, M, j) = LineOctets(prefix, L, j)
        /\ FlattenSeq(M) = Append(FlattenSeq(L), w)
    <3>1. L \in Seq(Seq(Word)) /\ L # <<>> /\ w \in Word
      BY <1>2, <1>8, <1>12, <2>2
    <3>2. LineAdded(prefix, L, w, M)
      BY <2>3, <3>1, AddLine
    <3> QED BY <3>2 DEF LineAdded
  <2>6. /\ new \in FoldState /\ new.ok /\ new.lines = M /\ new.curLen = curLen
        /\ curLen = 1 + run.len /\ curLen <= HardLimit
    BY <1>4, <1>6, <1>12, <2>4, <2>5 DEF FoldState
  <2>7. ASSUME NEW j \in 1 .. Len(M) PROVE LineOctets(prefix, M, j) <= HardLimit
    <3>1. k - 1 > 0
      BY <1>1, <2>1
    <3>2. CASE j = Len(M)
      BY <2>2, <2>5, <2>6, <3>2
    <3>3. CASE j # Len(M)
      BY <1>8, <1>12, <2>5, <3>1, <3>3
    <3> QED BY <3>2, <3>3
  <2>8. SameWords(FlattenSeq(M), r, k)
    <3>1. SameWords(FlattenSeq(L), r, k - 1)
      BY <1>8, <1>12
    <3>2. w.ws = 0 <=> r[k].ws = 0
      BY <1>1, <1>10, <2>1, <2>2
    <3>3. w.len = r[k].len /\ w.raw = r[k].raw
      BY <1>10, <2>2
    <3>4. SameWords(Append(FlattenSeq(L), w), r, k)
      BY <1>1, <2>2, <3>1, <3>2, <3>3, SameWordsAppend
    <3> QED BY <2>5, <3>4
  <2>9. k # 0 /\ k > 0
    BY <1>1
  <2> QED BY <2>2, <2>5, <2>6, <2>7, <2>8, <2>9 DEF LineInv
<1>13. CASE acc.ok /\ curLen <= HardLimit /\ ~fold
  <2> DEFINE M == appended
  <2>1. M = SetLast(L, Append(L[Len(L)], run))
    BY <1>9
  <2>2. new = [ok |-> TRUE, curLen |-> curLen, lines |-> M]
    BY <1>3, <1>13
  <2> HIDE DEF M
  <2>3. /\ M \in Seq(Seq(Word)) /\ Len(M) = Len(L) /\ M # <<>> /\ M # << <<>> >>
        /\ LineOctets(prefix, L, Len(L)) \in Nat
        /\ LineOctets(prefix, M, Len(M)) = LineOctets(prefix, L, Len(L)) + Size(run)
        /\ \A j \in 1 .. Len(M) :
              j # Len(M) => LineOctets(prefix, M, j) = LineOctets(prefix, L, j)
        /\ FlattenSeq(M) = Append(FlattenSeq(L), run)
    <3>1. L \in Seq(Seq(Word)) /\ L # <<>> /\ run \in Word
      BY <1>1, <1>2, <1>8, <1>13
    <3>2. WordAdded(prefix, L, run, M)
      BY <2>1, <3>1, AddWord
    <3> QED BY <3>2 DEF WordAdded
  <2>4. /\ new \in FoldState /\ new.ok /\ new.lines = M /\ new.curLen = curLen
        /\ curLen <= HardLimit
    BY <1>4, <1>13, <2>2, <2>3 DEF FoldState
  <2>5. LineOctets(prefix, M, Len(M)) = curLen
    BY <1>1, <1>7, <1>8, <1>13, <2>3
  <2>6. ASSUME NEW j \in 1 .. Len(M) PROVE LineOctets(prefix, M, j) <= HardLimit
    <3>1. CASE j = Len(M)
      BY <2>4, <2>5, <3>1
    <3>2. CASE j # Len(M)
      <4>1. Len(L) # 1
        <5>1. Len(L) \in Nat
          BY <1>2
        <5>2. \A m \in Nat : \A i \in 1 .. m : i # m => m # 1
          OBVIOUS
        <5> QED BY <2>3, <3>2, <5>1, <5>2, Zenon
      <4>2. L # << <<>> >>
        <5>1. Len(<< <<>> >>) = 1
          OBVIOUS
        <5> QED BY <4>1, <5>1
      <4>3. k - 1 > 0
        BY <1>1, <1>8, <1>13, <4>2
      <4> QED BY <1>8, <1>13, <2>3, <3>2, <4>3
    <3> QED BY <3>1, <3>2
  <2>7. SameWords(FlattenSeq(M), r, k)
    <3>1. SameWords(FlattenSeq(L), r, k - 1)
      BY <1>8, <1>13
    <3>2. run.len = r[k].len /\ run.raw = r[k].raw /\ (run.ws = 0 <=> r[k].ws = 0)
      BY <1>10
    <3>3. SameWords(Append(FlattenSeq(L), run), r, k)
      BY <1>1, <3>1, <3>2, SameWordsAppend
    <3> QED BY <2>3, <3>3
  <2>8. k # 0 /\ k > 0
    BY <1>1
  <2> QED BY <2>3, <2>4, <2>5, <2>6, <2>7, <2>8 DEF LineInv
<1> QED BY <1>2, <1>11, <1>12, <1>13

\* Runs that are written: all but the first begin with white space.
Written(r) == r \in Seq(Word) /\ \A k \in 1 .. Len(r) : k > 1 => r[k].ws > 0

\* foldHeaderLine, run by run.
LEMMA FoldInv ==
  ASSUME NEW prefix \in Nat, NEW r, Written(r), NEW g, LineRun(g, prefix, r, Len(r))
  PROVE  \A k \in 0 .. Len(r) : LineInv(prefix, r, k, g[k])
<1> DEFINE n == Len(r)
           T == {k \in 0 .. n : LineInv(prefix, r, k, g[k])}
<1>1. r \in Seq(Word) /\ n \in Nat /\ \A k \in 1 .. n : k > 1 => r[k].ws > 0
  BY DEF Written
<1>2. LineInv(prefix, r, 0, FoldStart(prefix))
  <2> DEFINE acc == FoldStart(prefix)
             L == << <<>> >>
  <2>1. acc = [ok |-> TRUE, curLen |-> prefix, lines |-> L] /\ L \in Seq(Seq(Word))
        /\ L # <<>> /\ Len(L) = 1 /\ L[1] = <<>> /\ <<>> \in Seq(Word)
    BY DEF FoldStart
  <2>2. FlattenSeq(L) = <<>>
    <3>1. <<>> \in Seq(Seq(Word)) /\ Append(<<>>, <<>>) = L
      OBVIOUS
    <3>2. FlattenSeq(Append(<<>>, <<>>)) = FlattenSeq(<<>>) \o <<>>
      BY <2>1, <3>1, FlatAppend
    <3> HIDE DEF L
    <3> QED BY <3>1, <3>2, FlatEmpty
  <2>3. SameWords(<<>>, r, 0)
    BY DEF SameWords
  <2>4. LineOctets(prefix, L, 1) = prefix
    BY <2>1, OctetsEmpty DEF LineOctets
  <2>5. acc \in FoldState /\ acc.lines = L /\ acc.curLen = prefix
    BY <2>1 DEF FoldState
  <2> HIDE DEF acc, L
  <2>6. acc.lines = << <<>> >>
    BY <2>5 DEF L
  <2>7. LineInv(prefix, r, 0, acc)
    BY <2>1, <2>2, <2>3, <2>4, <2>5, <2>6 DEF LineInv
  <2> QED BY <2>7 DEF acc
<1>3. 0 \in T
  <2>1. g[0] = FoldStart(prefix) /\ 0 \in 0 .. n
    BY <1>1 DEF LineRun
  <2> QED BY <1>2, <2>1
<1>4. ASSUME NEW k \in 1 .. n, k - 1 \in T PROVE k \in T
  <2>1. g[k] = FoldRun(prefix, g[k - 1], r[k]) /\ k \in 0 .. n
    BY <1>1 DEF LineRun
  <2>2. LineInv(prefix, r, k - 1, g[k - 1]) /\ (k > 1 => r[k].ws > 0)
    BY <1>1, <1>4
  <2>3. LineInv(prefix, r, k, FoldRun(prefix, g[k - 1], r[k]))
    <3> HIDE DEF T
    <3> QED BY <1>1, <2>2, FoldRunStep
  <2> QED BY <2>1, <2>3
<1>5. \A k \in 0 .. n : k \in T
  <2> HIDE DEF T, n
  <2> QED BY <1>1, <1>3, <1>4, UpTo_n
<1> QED BY <1>5

\* What foldHeaderLine writes.
LEMMA FoldedLines ==
  ASSUME NEW prefix \in Nat, NEW r, Written(r)
  PROVE  LineInv(prefix, r, Len(r), FoldHeaderLine(prefix, r))
<1>1. Len(r) \in Nat /\ DOMAIN r = 1 .. Len(r) /\ Len(r) \in 0 .. Len(r)
  BY DEF Written
<1>2. PICK g : LineRun(g, prefix, r, Len(r)) /\ FoldHeaderLine(prefix, r) = g[Len(r)]
  BY <1>1, LineSteps
<1> QED BY <1>1, <1>2, FoldInv

\* The words of r are no longer than a line takes; only the last may be empty.
Short(r) ==
    /\ Written(r)
    /\ \A k \in 1 .. Len(r) : r[k].len <= TokenLimit /\ (k < Len(r) => r[k].len > 0)

\* White space of one or two runs leaves room for a word.
Room(prefix, r) ==
    \A i, j \in 1 .. Len(r) :
       prefix + r[i].ws + (IF i = j THEN 0 ELSE r[j].ws) + TokenLimit <= HardLimit

\* What the length of the line is bounded by, after the first k runs.
Bounded(prefix, r, k, curLen) ==
    \/ curLen <= TokenLimit + 1
    \/ \E i \in 1 .. k : curLen <= prefix + r[i].ws + TokenLimit

\* Such a field is not refused.
LEMMA FieldFits ==
  ASSUME NEW prefix \in Nat, prefix > 1, NEW r, Short(r), Room(prefix, r)
  PROVE  FoldHeaderLine(prefix, r).ok
<1> DEFINE n == Len(r)
<1>1. /\ Written(r) /\ n \in Nat /\ DOMAIN r = 1 .. n /\ r \in Seq(Word)
      /\ \A k \in 1 .. n : r[k].len <= TokenLimit /\ (k < n => r[k].len > 0)
  BY DEF Short, Written
<1>2. PICK g : LineRun(g, prefix, r, n) /\ FoldHeaderLine(prefix, r) = g[n]
  BY <1>1, LineSteps
<1>3. \A k \in 0 .. n : LineInv(prefix, r, k, g[k])
  BY <1>1, <1>2, FoldInv
<1> DEFINE Q(k) == /\ g[k].ok
                   /\ 0 < k /\ (k < n \/ r[k].len > 0) => Bounded(prefix, r, k, g[k].curLen)
           T == {k \in 0 .. n : Q(k)}
<1>4. 0 \in T
  BY <1>1, <1>2 DEF LineRun, FoldStart
<1>5. ASSUME NEW k \in 1 .. n, k - 1 \in T PROVE k \in T
  <2> DEFINE acc == g[k - 1]
             run == r[k]
             fold == /\ acc.lines # << <<>> >> /\ run.len > 0
                     /\ acc.curLen + run.ws + run.len > SoftLimit
                     /\ acc.curLen > prefix
             curLen == (IF fold THEN 1 ELSE acc.curLen + run.ws) + run.len
  <2>1. /\ k \in Nat /\ k > 0 /\ k - 1 \in 0 .. n /\ k - 1 < n /\ k \in 0 .. n
        /\ k - 1 \in Nat
    BY <1>1
  <2>2. run \in Word /\ run.ws \in Nat /\ run.len \in Nat /\ run.len <= TokenLimit
    <3>1. run \in Word /\ run.len <= TokenLimit
      BY <1>1
    <3> HIDE DEF run
    <3> QED BY <3>1 DEF Word
  <2>3. /\ acc \in FoldState /\ acc.curLen \in Nat /\ acc.ok
        /\ (k - 1 = 0 <=> acc.lines = << <<>> >>)
    BY <1>3, <1>5, <2>1 DEF LineInv, FoldState
  <2>4. k > 1 => Bounded(prefix, r, k - 1, acc.curLen)
    BY <1>5, <2>1
  <2>5. k = 1 => acc.curLen = prefix
    BY <1>2 DEF LineRun, FoldStart
  <2>6. g[k] = FoldRun(prefix, acc, run)
    BY <1>2 DEF LineRun
  <2>7. FoldRun(prefix, acc, run) =
           IF ~acc.ok \/ ~(curLen <= HardLimit) THEN [acc EXCEPT !.ok = FALSE]
           ELSE [ok |-> TRUE, curLen |-> curLen,
                 lines |-> IF fold THEN Folded(acc, run)
                           ELSE [acc.lines EXCEPT ![Len(acc.lines)] = Append(@, run)]]
    BY DEF FoldRun, WithinLimit
  <2>8. \A i, j \in 1 .. n : r[i].ws \in Nat /\ r[j].ws \in Nat /\
           prefix + r[i].ws + (IF i = j THEN 0 ELSE r[j].ws) + TokenLimit <= HardLimit
    <3>1. \A i \in 1 .. n : r[i] \in Word
      BY <1>1
    <3>2. \A i \in 1 .. n : r[i].ws \in Nat
      BY <3>1 DEF Word
    <3> QED BY <3>2 DEF Room
  <2>9. prefix + run.ws + TokenLimit <= HardLimit
    BY <2>8
  <2>10. \A i \in 1 .. k - 1 : r[i].ws \in Nat
                             /\ prefix + r[i].ws + run.ws + TokenLimit <= HardLimit
    <3>1. \A i \in 1 .. k - 1 : i \in 1 .. n /\ i # k
      BY <1>1
    <3> QED BY <2>8, <3>1
  <2>11. fold => k # 1
    BY <2>3
  <2>12. ~fold => \/ k = 1
                  \/ k > 1 /\ run.len = 0
                  \/ acc.curLen + run.ws + run.len <= SoftLimit
                  \/ acc.curLen <= prefix
    <3>1. (acc.lines = << <<>> >> => k = 1) /\ (k = 1 \/ k > 1)
      BY <2>1, <2>3
    <3> HIDE DEF acc, run
    <3> QED BY <2>2, <2>3, <3>1 DEF SoftLimit
  <2>13. /\ fold => curLen = 1 + run.len
         /\ ~fold => curLen = acc.curLen + run.ws + run.len
    BY <2>2, <2>3
  <2>14. 1 \in 1 .. k /\ k \in 1 .. k /\ run = r[k]
    BY <2>1
  <2>15. TokenLimit = 900 /\ HardLimit = 998 /\ SoftLimit = 78
    BY DEF TokenLimit, HardLimit, SoftLimit
  <2> HIDE DEF acc, run, fold, curLen, n
  <2>16. curLen <= HardLimit /\ (run.len > 0 => Bounded(prefix, r, k, curLen))
    <3>1. CASE fold
      BY <2>2, <2>13, <2>15, <3>1 DEF Bounded
    <3>2. CASE ~fold /\ (k = 1 \/ acc.curLen <= prefix)
      <4>1. curLen <= prefix + run.ws + TokenLimit
        BY <2>2, <2>3, <2>5, <2>13, <2>15, <3>2
      <4>2. curLen \in Nat
        BY <2>2, <2>3, <2>13, <3>2
      <4>3. curLen <= HardLimit
        BY <2>2, <2>9, <2>15, <4>1, <4>2
      <4> QED BY <2>14, <4>1, <4>3 DEF Bounded
    <3>3. CASE ~fold /\ acc.curLen + run.ws + run.len <= SoftLimit
      BY <2>2, <2>3, <2>13, <2>15, <3>3 DEF Bounded
    <3>4. CASE ~fold /\ k > 1 /\ run.len = 0
      <4>1. curLen = acc.curLen + run.ws
        BY <2>2, <2>3, <2>13, <3>4
      <4>2. CASE acc.curLen <= TokenLimit + 1
        BY <2>2, <2>3, <2>9, <2>15, <3>4, <4>1, <4>2
      <4>3. CASE \E i \in 1 .. k - 1 : acc.curLen <= prefix + r[i].ws + TokenLimit
        <5>1. PICK i \in 1 .. k - 1 : acc.curLen <= prefix + r[i].ws + TokenLimit
          BY <4>3
        <5>2. r[i].ws \in Nat /\ prefix + r[i].ws + run.ws + TokenLimit <= HardLimit
          BY <2>10
        <5>3. acc.curLen \in Nat /\ run.ws \in Nat /\ prefix \in Nat
          BY <2>2, <2>3
        <5>4. acc.curLen + run.ws <= 998
          <6>1. /\ acc.curLen <= prefix + r[i].ws + 900
                /\ prefix + r[i].ws + run.ws + 900 <= 998
            BY <2>15, <5>1, <5>2
          <6> QED BY <5>2, <5>3, <6>1
        <5> QED BY <2>15, <3>4, <4>1, <5>4
      <4> QED BY <2>4, <3>4, <4>2, <4>3 DEF Bounded
    <3> QED BY <2>12, <3>1, <3>2, <3>3, <3>4
  <2>17. g[k].ok /\ g[k].curLen = curLen
    BY <2>3, <2>6, <2>7, <2>16
  <2>18. k < n => run.len > 0
    BY <1>1 DEF run, n
  <2> QED BY <2>1, <2>14, <2>16, <2>17, <2>18
<1>6. \A k \in 0 .. n : k \in T
  <2> HIDE DEF T, n
  <2> QED BY <1>1, <1>4, <1>5, UpTo_n
<1>7. n \in T
  BY <1>1, <1>6
<1> QED BY <1>2, <1>7

\* encodeASCIIEncodedWords cuts the text into chunks, the last of at least one
\* octet.
LEMMA ChunkBounds ==
  ASSUME NEW o \in Nat
  PROVE  /\ Chunks(o) \in Nat /\ o <= Chunks(o) * RawChunk
         /\ \A k \in 1 .. Chunks(o) : (k - 1) * RawChunk < o
<1>1. Chunks(o) = (o + 44) \div 45
  BY DEF Chunks, RawChunk
<1> DEFINE c == (o + 44) \div 45
<1>2. c \in Nat /\ o <= c * 45 /\ c * 45 <= o + 44
  OBVIOUS
<1> HIDE DEF c
<1>3. \A k \in 1 .. c : (k - 1) * 45 < o
  BY <1>2
<1> QED BY <1>1, <1>2, <1>3 DEF c, RawChunk

\* What chunk k holds.
RawOf(o, k) == IF k * RawChunk <= o THEN RawChunk ELSE o % RawChunk

\* A chunk holds something, and the last one what is left.
LEMMA RawBounds ==
  ASSUME NEW o \in Nat, NEW k \in 1 .. Chunks(o)
  PROVE  /\ RawOf(o, k) \in 1 .. RawChunk
         /\ k * RawChunk > o => RawOf(o, k) = o - (k - 1) * RawChunk
<1>1. /\ Chunks(o) \in Nat /\ (k - 1) * 45 < o /\ k \in Nat
  BY ChunkBounds DEF RawChunk
<1>2. CASE k * 45 <= o
  BY <1>1, <1>2 DEF RawOf, RawChunk
<1>3. CASE ~(k * 45 <= o)
  <2>1. o % 45 = o - (k - 1) * 45
    BY <1>1, <1>3
  <2> QED BY <1>1, <1>3, <2>1 DEF RawOf, RawChunk
<1> QED BY <1>2, <1>3

\* Encoded-words are written as words no longer than 72 octets.
LEMMA EncodedShort ==
  ASSUME NEW o \in Nat
  PROVE  /\ Short(EncodedWords(o)) /\ Len(EncodedWords(o)) = Chunks(o)
         /\ \A k \in 1 .. Chunks(o) :
               EncodedWords(o)[k].raw = RawOf(o, k) /\ EncodedWords(o)[k].raw > 0
<1> DEFINE n == Chunks(o)
           e == EncodedWords(o)
           W(k) == [ws |-> IF k = 1 THEN 0 ELSE 1, raw |-> RawOf(o, k),
                    len |-> WordOverhead + 4 * ((RawOf(o, k) + 2) \div 3)]
<1>1. n \in Nat
  BY ChunkBounds
<1>2. e = [k \in 1 .. n |-> W(k)]
  BY DEF EncodedWords, RawOf
<1>3. ASSUME NEW k \in 1 .. n
      PROVE  /\ W(k) \in Word /\ W(k).raw = RawOf(o, k) /\ RawOf(o, k) > 0
             /\ W(k).len <= TokenLimit /\ W(k).len > 0 /\ (k > 1 => W(k).ws > 0)
  <2>1. RawOf(o, k) \in 1 .. 45
    BY RawBounds DEF RawChunk
  <2>2. \A x \in 1 .. 45 : /\ 12 + 4 * ((x + 2) \div 3) \in Nat
                           /\ 12 + 4 * ((x + 2) \div 3) <= 900
                           /\ 12 + 4 * ((x + 2) \div 3) > 0
    OBVIOUS
  <2>3. WordOverhead = 12 /\ TokenLimit = 900
    BY DEF WordOverhead, TokenLimit
  <2> QED BY <2>1, <2>2, <2>3 DEF Word
<1> HIDE DEF W, n, e
<1>4. e \in Seq(Word) /\ Len(e) = n /\ \A k \in 1 .. n : e[k] = W(k)
  BY <1>1, <1>2, <1>3
<1>5. Short(e)
  BY <1>3, <1>4 DEF Short, Written
<1> QED BY <1>3, <1>4, <1>5 DEF n, e

\* Together they hold the text.
LEMMA RawIsWhole ==
  ASSUME NEW o \in Nat, NEW u, SameWords(u, EncodedWords(o), Chunks(o))
  PROVE  RawOctets(u) = o
<1> DEFINE n == Chunks(o)
           g == [k \in 0 .. n |-> IF k * RawChunk <= o THEN k * RawChunk ELSE o]
<1>1. n \in Nat /\ o <= n * 45 /\ \A k \in 1 .. n : (k - 1) * 45 < o
  BY ChunkBounds DEF RawChunk
<1>2. u \in Seq(Word) /\ Len(u) = n /\ \A k \in 1 .. n : u[k].raw = RawOf(o, k)
  <2>1. \A k \in 1 .. n : EncodedWords(o)[k].raw = RawOf(o, k)
    BY EncodedShort
  <2> QED BY <2>1 DEF SameWords
<1>3. DOMAIN u = 1 .. n
  BY <1>2
<1>4. RawRun(g, u, n)
  <2>1. g[0] = 0
    BY <1>1 DEF RawChunk
  <2>2. ASSUME NEW k \in 1 .. n PROVE g[k] = g[k - 1] + u[k].raw
    <3>1. g[k - 1] = (k - 1) * 45
      BY <1>1 DEF RawChunk
    <3>2. CASE k * 45 <= o
      <4>1. g[k] = k * 45 /\ u[k].raw = 45
        BY <1>1, <1>2, <3>2 DEF RawOf, RawChunk
      <4> QED BY <3>1, <4>1
    <3>3. CASE ~(k * 45 <= o)
      <4>1. g[k] = o
        BY <1>1, <3>3 DEF RawChunk
      <4>2. u[k].raw = o - (k - 1) * 45
        <5>1. k * RawChunk > o
          BY <1>1, <3>3 DEF RawChunk
        <5> QED BY <1>2, <5>1, RawBounds DEF RawChunk
      <4> QED BY <1>1, <3>1, <4>1, <4>2
    <3> QED BY <3>2, <3>3
  <2> HIDE DEF g
  <2> QED BY <2>1, <2>2 DEF RawRun
<1>5. g[n] = o
  BY <1>1 DEF RawChunk
<1> HIDE DEF g
<1> QED BY <1>1, <1>3, <1>4, <1>5, RawSteps

\* Runs of a value as they are counted.
LEMMA TextSizes ==
  ASSUME NEW r \in HeaderText
  PROVE  Octets(r) \in Nat /\ (Octets(r) = 0 => r = <<>>)
<1>1. r \in Seq(TextRun) /\ Len(r) \in Nat
  BY DEF HeaderText
<1>2. \A x \in TextRun : Size(x) \in Nat
  BY DEF TextRun, Size
<1>3. CASE r = <<>>
  BY <1>3, OctetsEmpty
<1>4. CASE r # <<>>
  <2> DEFINE f == Front(r)
             x == r[Len(r)]
  <2>1. f \in Seq(TextRun) /\ x \in TextRun /\ r = Append(f, x)
    BY <1>1, <1>4, SplitLast
  <2>2. Len(r) \in DOMAIN r
    BY <1>1, <1>4
  <2>3. Size(x) > 0
    BY <2>2 DEF HeaderText, Size
  <2> HIDE DEF f, x
  <2>4. Octets(f) \in Nat /\ Octets(Append(f, x)) = Octets(f) + Size(x)
    BY <1>2, <2>1, OctetsAppend
  <2> QED BY <1>2, <2>1, <2>3, <2>4
<1> QED BY <1>3, <1>4

\* A value without overlong words is written as it is.
LEMMA PlainShort ==
  ASSUME NEW r \in HeaderText, ~Overlong(r)
  PROVE  /\ Short(Plain(r)) /\ Len(Plain(r)) = Len(r)
         /\ \A k \in 1 .. Len(r) : /\ Plain(r)[k].ws = r[k].ws /\ Plain(r)[k].raw = 0
                                   /\ Plain(r)[k].len = r[k].len
<1> DEFINE n == Len(r)
           p == Plain(r)
           W(k) == [ws |-> r[k].ws, raw |-> 0, len |-> r[k].len]
<1>1. /\ n \in Nat /\ DOMAIN r = 1 .. n
      /\ \A k \in 1 .. n : /\ r[k] \in TextRun /\ (k > 1 => r[k].ws > 0)
                           /\ (k < n => r[k].len > 0)
  BY DEF HeaderText
<1>2. \A k \in 1 .. n : r[k].ws \in Nat /\ r[k].len \in Nat /\ r[k].len <= TokenLimit
  <2>1. \A k \in 1 .. n : r[k].ws \in Nat /\ r[k].len \in Nat
    BY <1>1 DEF TextRun
  <2>2. \A k \in 1 .. n : ~(r[k].len > TokenLimit)
    BY <1>1 DEF Overlong
  <2> QED BY <2>1, <2>2 DEF TokenLimit
<1>3. p = [k \in 1 .. n |-> W(k)]
  BY <1>1 DEF Plain
<1>4. \A k \in 1 .. n : W(k) \in Word /\ W(k).ws = r[k].ws /\ W(k).len = r[k].len
                        /\ W(k).raw = 0
  BY <1>2 DEF Word
<1> HIDE DEF W, p, n
<1>5. p \in Seq(Word) /\ Len(p) = n /\ \A k \in 1 .. n : p[k] = W(k)
  BY <1>1, <1>3, <1>4
<1>6. Short(p)
  BY <1>1, <1>2, <1>4, <1>5 DEF Short, Written
<1> QED BY <1>4, <1>5, <1>6 DEF n, p

\* What encodeHeaderWord returns has no long word.
LEMMA ValueShort ==
  ASSUME NEW v \in HeaderValue
  PROVE  Short(EncodeHeaderWord(v))
<1>1. v.runs \in HeaderText /\ Octets(v.runs) \in Nat
  BY TextSizes DEF HeaderValue
<1> QED BY <1>1, PlainShort, EncodedShort DEF EncodeHeaderWord

\* The words of an address list.
LEMMA AddressesWritten ==
  ASSUME NEW list \in Seq(Address)
  PROVE  /\ Written(EncodeAddressList(list))
         /\ \A k \in 1 .. Len(EncodeAddressList(list)) : EncodeAddressList(list)[k].raw = 0
         /\ AddressLength < TokenLimit => Short(EncodeAddressList(list))
<1> DEFINE n == Len(list)
           p == EncodeAddressList(list)
           W(k) == [ws |-> IF k = 1 THEN 0 ELSE 1, raw |-> 0,
                    len |-> AddressLength + IF k = Len(list) THEN 0 ELSE 1]
<1>1. n \in Nat /\ DOMAIN list = 1 .. n /\ AddressLength \in Nat
  BY CallsAssumption
<1>2. p = [k \in 1 .. n |-> W(k)]
  BY <1>1 DEF EncodeAddressList
<1>3. ASSUME NEW k \in 1 .. n
      PROVE  /\ W(k) \in Word /\ W(k).raw = 0 /\ (k > 1 => W(k).ws > 0)
             /\ (AddressLength < 900 => W(k).len <= 900) /\ (k < n => W(k).len > 0)
  <2>1. /\ W(k).ws = IF k = 1 THEN 0 ELSE 1
        /\ W(k).len = AddressLength + IF k = n THEN 0 ELSE 1
        /\ W(k).raw = 0 /\ W(k) = [ws |-> W(k).ws, raw |-> 0, len |-> W(k).len]
    OBVIOUS
  <2> HIDE DEF W, n
  <2>2. /\ W(k).ws \in Nat /\ W(k).len \in Nat /\ (k > 1 => W(k).ws > 0)
        /\ (AddressLength < 900 => W(k).len <= 900) /\ (k < n => W(k).len > 0)
    BY <1>1, <2>1
  <2> QED BY <2>1, <2>2 DEF Word
<1> HIDE DEF W, p, n
<1>4. p \in Seq(Word) /\ Len(p) = n /\ \A k \in 1 .. n : p[k] = W(k)
  BY <1>1, <1>2, <1>3
<1>5. Written(p) /\ \A k \in 1 .. Len(p) : p[k].raw = 0
  BY <1>1, <1>3, <1>4 DEF Written
<1>6. AddressLength < TokenLimit => Short(p)
  BY <1>1, <1>3, <1>4, <1>5 DEF Short, TokenLimit
<1> QED BY <1>5, <1>6 DEF p

\* A reader that unfolds the lines of a field finds its value.
LEMMA ValueReads ==
  ASSUME NEW v \in HeaderValue, NEW lines,
         SameWords(FlattenSeq(lines), EncodeHeaderWord(v), Len(EncodeHeaderWord(v)))
  PROVE  Reads(lines, v)
<1> DEFINE u == FlattenSeq(lines)
           e == EncodeHeaderWord(v)
<1>1. v.runs \in HeaderText /\ Octets(v.runs) \in Nat
      /\ (Octets(v.runs) = 0 => v.runs = <<>>)
  BY TextSizes DEF HeaderValue
<1>2. Reads(lines, v) = IF \E k \in DOMAIN u : u[k].raw > 0
                        THEN RawOctets(u) = Octets(v.runs) ELSE SameText(u, v.runs)
  BY DEF Reads, Unfold
<1>3. /\ u \in Seq(Word) /\ Len(u) = Len(e) /\ DOMAIN u = 1 .. Len(e) /\ Len(e) \in Nat
      /\ \A i \in 1 .. Len(e) : /\ u[i].len = e[i].len /\ u[i].raw = e[i].raw
                                /\ (u[i].ws = 0 <=> e[i].ws = 0)
  BY DEF SameWords
<1>4. CASE v.kind = "plain" /\ ~Overlong(v.runs)
  <2>1. e = Plain(v.runs)
    BY <1>4 DEF EncodeHeaderWord
  <2>2. /\ Len(e) = Len(v.runs)
        /\ \A k \in 1 .. Len(e) : /\ e[k].ws = v.runs[k].ws /\ e[k].raw = 0
                                  /\ e[k].len = v.runs[k].len
    BY <1>1, <1>4, <2>1, PlainShort
  <2>3. ~ \E k \in DOMAIN u : u[k].raw > 0
    BY <1>3, <2>2
  <2>4. DOMAIN v.runs = 1 .. Len(e)
    BY <1>1, <2>2 DEF HeaderText
  <2> HIDE DEF u, e
  <2>5. SameText(u, v.runs)
    BY <1>3, <2>2, <2>4 DEF SameText
  <2> QED BY <1>2, <2>3, <2>5
<1>5. CASE ~(v.kind = "plain" /\ ~Overlong(v.runs))
  <2> DEFINE o == Octets(v.runs)
  <2>1. e = EncodedWords(o)
    BY <1>5 DEF EncodeHeaderWord
  <2>2. Len(e) = Chunks(o) /\ \A k \in 1 .. Chunks(o) : e[k].raw > 0
    BY <1>1, <2>1, EncodedShort
  <2>3. RawOctets(u) = o
    BY <1>1, <2>1, <2>2, RawIsWhole
  <2>4. CASE o = 0
    <3>1. Chunks(0) = 0
      BY DEF Chunks, RawChunk
    <3>2. DOMAIN u = {} /\ v.runs = <<>>
      BY <1>1, <1>3, <2>2, <2>4, <3>1
    <3> HIDE DEF u
    <3> QED BY <1>2, <3>2 DEF SameText
  <2>5. CASE o # 0
    <3>1. 1 \in 1 .. Chunks(o)
      BY <1>1, <2>5 DEF Chunks, RawChunk
    <3>2. 1 \in DOMAIN u /\ u[1].raw > 0
      BY <1>3, <2>2, <3>1
    <3> HIDE DEF u
    <3> QED BY <1>2, <2>3, <3>2
  <2> QED BY <2>4, <2>5
<1> QED BY <1>4, <1>5

\* And for the list of addresses.
LEMMA AddressesRead ==
  ASSUME NEW list \in Seq(Address), NEW lines,
         SameWords(FlattenSeq(lines), EncodeAddressList(list), Len(EncodeAddressList(list)))
  PROVE  Reads(lines, [runs |-> EncodeAddressList(list)])
<1> DEFINE u == FlattenSeq(lines)
           e == EncodeAddressList(list)
<1>1. Reads(lines, [runs |-> e]) =
         IF \E k \in DOMAIN u : u[k].raw > 0
         THEN RawOctets(u) = Octets(e) ELSE SameText(u, e)
  BY DEF Reads, Unfold
<1>2. /\ u \in Seq(Word) /\ Len(u) = Len(e) /\ DOMAIN u = 1 .. Len(e)
      /\ \A i \in 1 .. Len(e) : /\ u[i].len = e[i].len /\ u[i].raw = e[i].raw
                                /\ (u[i].ws = 0 <=> e[i].ws = 0)
  BY DEF SameWords
<1>3. e \in Seq(Word) /\ \A k \in 1 .. Len(e) : e[k].raw = 0
  BY AddressesWritten DEF Written
<1> HIDE DEF u, e
<1>4. DOMAIN e = 1 .. Len(e)
  BY <1>3
<1>5. SameText(u, e) /\ ~ \E k \in DOMAIN u : u[k].raw > 0
  BY <1>2, <1>3, <1>4 DEF SameText
<1>6. Reads(lines, [runs |-> e])
  BY <1>1, <1>5
<1> QED BY <1>6 DEF e

------------------------------------------------------------------------------
(* What a loop keeps of a sequence.                                        *)

\* t has the elements of s at the places I, each once.
Picks(e, s, I, t) ==
    /\ e \in [1 .. Len(t) -> I] /\ Len(t) \in Nat
    /\ \A j \in 1 .. Len(t) : t[j] = s[e[j]]
    /\ \A i, j \in 1 .. Len(t) : e[i] = e[j] => i = j
    /\ \A i \in I : \E j \in 1 .. Len(t) : e[j] = i

\* What is kept is what is at these places, each once and nothing else.
LEMMA KeptPlaces ==
  ASSUME NEW X, NEW s \in Seq(X), NEW I, I \subseteq DOMAIN s
  PROVE  Kept(s, I) \in Seq(X) /\ \E e : Picks(e, s, I, Kept(s, I))
<1> DEFINE n == Len(s)
<1>1. n \in Nat /\ DOMAIN s = 1 .. n /\ \A k \in 1 .. n : s[k] \in X
  OBVIOUS
<1>2. PICK g : KeepRun(g, s, I, n) /\ Kept(s, I) = g[n]
  BY <1>1, KeepSteps
<1> DEFINE J(k) == {i \in I : i <= k}
           T == {k \in 0 .. n : g[k] \in Seq(X) /\ \E e : Picks(e, s, J(k), g[k])}
<1>3. 0 \in T
  <2> DEFINE e == [j \in 1 .. 0 |-> 0]
  <2>1. J(0) = {} /\ g[0] = <<>> /\ <<>> \in Seq(X) /\ Len(<<>>) = 0
    BY <1>1, <1>2 DEF KeepRun
  <2>2. Picks(e, s, {}, <<>>)
    BY <2>1 DEF Picks
  <2> HIDE DEF J, e
  <2>3. 0 \in 0 .. n
    BY <1>1
  <2> QED BY <2>1, <2>2, <2>3
<1>4. ASSUME NEW k \in 1 .. n, k - 1 \in T PROVE k \in T
  <2> DEFINE t == g[k - 1]
             m == Len(t)
  <2>1. t \in Seq(X) /\ m \in Nat /\ k \in Nat /\ k \in 0 .. n
    BY <1>1, <1>4
  <2>2. PICK e : Picks(e, s, J(k - 1), t)
    BY <1>4
  <2>3. g[k] = IF k \in I THEN Append(t, s[k]) ELSE t
    BY <1>2 DEF KeepRun
  <2>4. \A i \in I : i \in Nat
    BY <1>1
  <2>5. CASE k \notin I
    <3>1. J(k) = J(k - 1)
      BY <2>1, <2>4, <2>5
    <3> HIDE DEF J
    <3> QED BY <2>1, <2>2, <2>3, <2>5, <3>1
  <2>6. CASE k \in I
    <3> DEFINE d == [j \in 1 .. m + 1 |-> IF j = m + 1 THEN k ELSE e[j]]
               a == Append(t, s[k])
    <3>1. J(k) = J(k - 1) \cup {k} /\ k \notin J(k - 1)
      BY <2>1, <2>4, <2>6
    <3>2. /\ a \in Seq(X) /\ Len(a) = m + 1
          /\ \A j \in 1 .. m + 1 : a[j] = IF j = m + 1 THEN s[k] ELSE t[j]
      BY <1>1, <2>1, AppendOf
    <3>3. /\ e \in [1 .. m -> J(k - 1)] /\ \A j \in 1 .. m : t[j] = s[e[j]]
          /\ \A i, j \in 1 .. m : e[i] = e[j] => i = j
          /\ \A i \in J(k - 1) : \E j \in 1 .. m : e[j] = i
      BY <2>2 DEF Picks
    <3> HIDE DEF J, a, m
    <3>4. /\ m + 1 \in 1 .. m + 1 /\ d[m + 1] = k
          /\ \A j \in 1 .. m : j \in 1 .. m + 1 /\ j # m + 1 /\ d[j] = e[j]
          /\ \A j \in 1 .. m + 1 : j # m + 1 => j \in 1 .. m
      BY <2>1 DEF m
    <3>5. DOMAIN d = 1 .. m + 1 /\ d = [j \in 1 .. m + 1 |-> d[j]]
      OBVIOUS
    <3> HIDE DEF d
    <3>6. d \in [1 .. m + 1 -> J(k)]
      <4>1. \A j \in 1 .. m : e[j] \in J(k)
        BY <3>1, <3>3
      <4>2. \A j \in 1 .. m + 1 : d[j] \in J(k)
        BY <3>1, <3>4, <4>1
      <4> QED BY <3>5, <4>2
    <3>7. \A j \in 1 .. m + 1 : a[j] = s[d[j]]
      BY <3>2, <3>3, <3>4
    <3>8. \A i, j \in 1 .. m + 1 : d[i] = d[j] => i = j
      BY <3>1, <3>3, <3>4
    <3>9. ASSUME NEW i \in J(k) PROVE \E j \in 1 .. m + 1 : d[j] = i
      BY <3>1, <3>3, <3>4
    <3>10. m + 1 \in Nat
      BY <2>1 DEF m
    <3>11. Picks(d, s, J(k), a)
      BY <3>2, <3>6, <3>7, <3>8, <3>9, <3>10 DEF Picks
    <3>12. g[k] = a
      BY <2>3, <2>6 DEF a
    <3> QED BY <2>1, <3>2, <3>11, <3>12
  <2> QED BY <2>5, <2>6
<1>5. \A k \in 0 .. n : k \in T
  <2> HIDE DEF T, n
  <2> QED BY <1>1, <1>3, <1>4, UpTo_n
<1>6. n \in T /\ J(n) = I
  <2>1. n \in 0 .. n /\ \A i \in I : i <= n
    BY <1>1
  <2>2. J(n) = I
    BY <2>1
  <2> HIDE DEF T, J
  <2> QED BY <1>5, <2>1, <2>2
<1> HIDE DEF J, n
<1> QED BY <1>2, <1>6

\* The elements of s that are in E.
Those(s, E) == Kept(s, {i \in DOMAIN s : s[i] \in E})

\* They are of the same kind.
LEMMA ThoseType ==
  ASSUME NEW X, NEW s \in Seq(X), NEW E
  PROVE  Those(s, E) \in Seq(X)
<1> DEFINE I == {i \in DOMAIN s : s[i] \in E}
<1>1. I \subseteq DOMAIN s
  OBVIOUS
<1> HIDE DEF I
<1>2. Kept(s, I) \in Seq(X)
  BY <1>1, KeptPlaces
<1> QED BY <1>2 DEF Those, I

\* Keeping none of them, and all of them.
LEMMA KeepNone ==
  ASSUME NEW X, NEW s \in Seq(X), NEW E, \A i \in 1 .. Len(s) : s[i] \notin E
  PROVE  Those(s, E) = <<>>
<1> DEFINE n == Len(s)
           I == {i \in DOMAIN s : s[i] \in E}
           g == [k \in 0 .. n |-> <<>>]
<1>1. n \in Nat /\ DOMAIN s = 1 .. n /\ I = {}
  OBVIOUS
<1>2. g[0] = <<>> /\ g[n] = <<>> /\ \A k \in 1 .. n : g[k] = <<>> /\ g[k - 1] = <<>>
  BY <1>1
<1> HIDE DEF g, I, n
<1>3. KeepRun(g, s, I, n)
  BY <1>1, <1>2 DEF KeepRun
<1>4. Kept(s, I) = g[n]
  BY <1>1, <1>3, KeepSteps
<1> QED BY <1>2, <1>4 DEF Those, I

\* Keeping all of them.
LEMMA KeepAll ==
  ASSUME NEW X, NEW s \in Seq(X), NEW E, \A i \in 1 .. Len(s) : s[i] \in E
  PROVE  Those(s, E) = s
<1> DEFINE n == Len(s)
           I == {i \in DOMAIN s : s[i] \in E}
           g == [k \in 0 .. n |-> SubSeq(s, 1, k)]
<1>1. n \in Nat /\ DOMAIN s = 1 .. n /\ I = 1 .. n
  OBVIOUS
<1>2. g[0] = <<>> /\ g[n] = s
  BY <1>1
<1>3. ASSUME NEW k \in 1 .. n PROVE g[k] = Append(g[k - 1], s[k])
  <2>1. g[k] = SubSeq(s, 1, k) /\ g[k - 1] = SubSeq(s, 1, k - 1)
    BY <1>1
  <2>2. SubSeq(s, 1, k) = Append(SubSeq(s, 1, k - 1), s[k])
    BY <1>1
  <2> QED BY <2>1, <2>2
<1> HIDE DEF g, I, n
<1>4. KeepRun(g, s, I, n)
  BY <1>1, <1>2, <1>3 DEF KeepRun
<1>5. Kept(s, I) = g[n]
  BY <1>1, <1>4, KeepSteps
<1> QED BY <1>2, <1>5 DEF Those, I

\* What is kept of two sequences.
LEMMA KeepConcat ==
  ASSUME NEW X, NEW a \in Seq(X), NEW b \in Seq(X), NEW E
  PROVE  Those(a \o b, E) = Those(a, E) \o Those(b, E)
<1> DEFINE n == Len(a)
           m == Len(b)
           c == a \o b
           I(s) == {i \in DOMAIN s : s[i] \in E}
<1>1. n \in Nat /\ DOMAIN a = 1 .. n /\ m \in Nat /\ DOMAIN b = 1 .. m /\ n + m \in Nat
  OBVIOUS
<1>2. /\ c \in Seq(X) /\ Len(c) = n + m /\ DOMAIN c = 1 .. n + m
      /\ \A k \in 1 .. n + m : c[k] = IF k <= n THEN a[k] ELSE b[k - n]
  OBVIOUS
<1>3. PICK g : DOMAIN g = 0 .. n /\ KeepRun(g, a, I(a), n) /\ Kept(a, I(a)) = g[n]
  <2> HIDE DEF I, n, m
  <2> QED BY <1>1, KeepSteps
<1>4. PICK h : DOMAIN h = 0 .. m /\ KeepRun(h, b, I(b), m) /\ Kept(b, I(b)) = h[m]
  <2> HIDE DEF I, n, m
  <2> QED BY <1>1, KeepSteps
<1> HIDE DEF c, n, m
<1> DEFINE f == [k \in 0 .. n + m |-> IF k <= n THEN g[k] ELSE g[n] \o h[k - n]]
<1>5. g[n] \in Seq(X)
  <2>1. Those(a, E) \in Seq(X)
    BY ThoseType
  <2> QED BY <1>3, <2>1 DEF Those
<1>6. \A k \in 0 .. m : h[k] \in Seq(X)
  <2> DEFINE T == {k \in 0 .. m : h[k] \in Seq(X)}
  <2>1. 0 \in T
    <3>1. h[0] = <<>> /\ <<>> \in Seq(X) /\ 0 \in 0 .. m
      BY <1>1, <1>4 DEF KeepRun
    <3> QED BY <3>1
  <2>2. ASSUME NEW k \in 1 .. m, k - 1 \in T PROVE k \in T
    <3>1. h[k] = (IF k \in I(b) THEN Append(h[k - 1], b[k]) ELSE h[k - 1])
      BY <1>4 DEF KeepRun
    <3>2. h[k - 1] \in Seq(X) /\ k \in 0 .. m /\ b[k] \in X
      BY <1>1, <2>2
    <3>3. Append(h[k - 1], b[k]) \in Seq(X)
      BY <3>2
    <3> QED BY <3>1, <3>2, <3>3
  <2>3. \A k \in 0 .. m : k \in T
    <3> HIDE DEF T
    <3> QED BY <1>1, <2>1, <2>2, UpTo_n
  <2> QED BY <2>3
<1>7. /\ f[0] = g[0]
      /\ \A k \in 1 .. n + m : /\ k <= n => f[k] = g[k] /\ f[k - 1] = g[k - 1]
                               /\ ~(k <= n) => f[k] = g[n] \o h[k - n]
  <2>1. /\ 0 \in 0 .. n + m /\ 0 <= n
        /\ \A k \in 1 .. n + m : /\ k \in 0 .. n + m /\ k - 1 \in 0 .. n + m
                                 /\ k <= n => k - 1 <= n
    BY <1>1
  <2> QED BY <2>1
<1>8. ASSUME NEW k \in 1 .. n + m, ~(k <= n)
      PROVE  f[k - 1] = g[n] \o h[(k - n) - 1] /\ k - n \in 1 .. m
  <2>1. k - n \in 1 .. m
    BY <1>1, <1>8
  <2>2. CASE k = n + 1
    <3>1. k - 1 = n /\ (k - n) - 1 = 0 /\ k - 1 \in 0 .. n + m
      BY <1>1, <2>2
    <3>2. f[k - 1] = g[n]
      BY <1>1, <3>1
    <3>3. h[0] = <<>> /\ g[n] \o <<>> = g[n]
      BY <1>4, <1>5 DEF KeepRun
    <3> HIDE DEF f
    <3> QED BY <2>1, <3>1, <3>2, <3>3
  <2>3. CASE k # n + 1
    <3>1. ~(k - 1 <= n) /\ (k - 1) - n = (k - n) - 1 /\ k - 1 \in 0 .. n + m
      BY <1>1, <1>8, <2>3
    <3>2. f[k - 1] = g[n] \o h[(k - 1) - n]
      BY <3>1
    <3> HIDE DEF f
    <3> QED BY <2>1, <3>1, <3>2
  <2> QED BY <2>2, <2>3
<1>9. f[n + m] = g[n] \o h[m]
  <2>1. CASE m = 0
    <3>1. f[n + m] = g[n] /\ h[m] = <<>>
      BY <1>1, <1>4, <2>1 DEF KeepRun
    <3>2. g[n] \o <<>> = g[n]
      BY <1>5
    <3> HIDE DEF f
    <3> QED BY <3>1, <3>2
  <2>2. CASE m # 0
    <3>1. ~(n + m <= n) /\ (n + m) - n = m /\ n + m \in 0 .. n + m
      BY <1>1, <2>2
    <3> QED BY <3>1
  <2> QED BY <2>1, <2>2
<1> HIDE DEF f
<1>10. KeepRun(f, c, I(c), n + m)
  <2>1. f[0] = <<>>
    BY <1>3, <1>7 DEF KeepRun
  <2>2. ASSUME NEW k \in 1 .. n + m
        PROVE  f[k] = (IF k \in I(c) THEN Append(f[k - 1], c[k]) ELSE f[k - 1])
    <3>1. CASE k <= n
      <4>1. k \in 1 .. n /\ c[k] = a[k] /\ (k \in I(c) <=> k \in I(a))
        BY <1>1, <1>2, <3>1
      <4>2. g[k] = (IF k \in I(a) THEN Append(g[k - 1], a[k]) ELSE g[k - 1])
        BY <1>3, <4>1 DEF KeepRun
      <4> HIDE DEF I
      <4> QED BY <1>7, <3>1, <4>1, <4>2
    <3>2. CASE ~(k <= n)
      <4> DEFINE j == k - n
      <4>1. j \in 1 .. m /\ c[k] = b[j] /\ (k \in I(c) <=> j \in I(b))
        BY <1>1, <1>2, <1>8, <3>2
      <4>2. f[k - 1] = g[n] \o h[j - 1] /\ f[k] = g[n] \o h[j]
        BY <1>7, <1>8, <3>2
      <4>3. h[j] = (IF j \in I(b) THEN Append(h[j - 1], b[j]) ELSE h[j - 1])
        BY <1>4, <4>1 DEF KeepRun
      <4>4. h[j - 1] \in Seq(X) /\ b[j] \in X
        BY <1>1, <1>6, <4>1
      <4>5. \A p, q \in Seq(X) : \A x \in X : p \o Append(q, x) = Append(p \o q, x)
        OBVIOUS
      <4> HIDE DEF I, j
      <4>6. g[n] \o Append(h[j - 1], b[j]) = Append(g[n] \o h[j - 1], b[j])
        BY <1>5, <4>4, <4>5
      <4> QED BY <4>1, <4>2, <4>3, <4>6
    <3> QED BY <3>1, <3>2
  <2> HIDE DEF I
  <2> QED BY <2>1, <2>2 DEF KeepRun
<1>11. Kept(c, I(c)) = f[n + m]
  <2> HIDE DEF I
  <2> QED BY <1>1, <1>2, <1>10, KeepSteps
<1> QED BY <1>3, <1>4, <1>9, <1>11 DEF Those, c

------------------------------------------------------------------------------
(* The header.                                                             *)

\* A custom header.
Header == [name : FieldName, value : HeaderValue]

\* The headers have one name each, and the values the caller has set.
HeadersInv(hs, w) ==
    /\ hs \in Seq(Header)
    /\ \A i, j \in 1 .. Len(hs) : hs[i].name.canon = hs[j].name.canon => i = j
    /\ \A i \in 1 .. Len(hs) :
          hs[i].name.canon \in DOMAIN w /\ w[hs[i].name.canon] = hs[i].value
    /\ \A c \in DOMAIN w : \E i \in 1 .. Len(hs) : hs[i].name.canon = c

\* What SetHeader makes of the headers the caller has set.
SetIn(w, n, v) ==
    [c \in DOMAIN w \cup {n.canon} |-> IF c = n.canon THEN v ELSE w[c]]

\* Setting a header replaces the one of that name or adds one.
LEMMA SetHeaderKeeps ==
  ASSUME NEW hs, NEW w, HeadersInv(hs, w), NEW n \in FieldName, NEW v \in HeaderValue
  PROVE  HeadersInv(HeadersWith(hs, n, v), SetIn(w, n, v))
<1> DEFINE at == {k \in DOMAIN hs : SameName(hs[k].name, n)}
           first == CHOOSE k \in at : \A j \in at : k <= j
           w1 == SetIn(w, n, v)
           L == Len(hs)
<1>1. /\ hs \in Seq(Header) /\ L \in Nat /\ DOMAIN hs = 1 .. L
      /\ \A i \in 1 .. L : hs[i] \in Header
  BY DEF HeadersInv
<1>2. /\ \A i, j \in 1 .. L : hs[i].name.canon = hs[j].name.canon => i = j
      /\ \A i \in 1 .. L : hs[i].name.canon \in DOMAIN w
                           /\ w[hs[i].name.canon] = hs[i].value
      /\ \A c \in DOMAIN w : \E i \in 1 .. L : hs[i].name.canon = c
  BY DEF HeadersInv
<1>3. /\ DOMAIN w1 = DOMAIN w \cup {n.canon}
      /\ \A c \in DOMAIN w1 : w1[c] = IF c = n.canon THEN v ELSE w[c]
  BY DEF SetIn
<1>4. \A k \in 1 .. L : k \in at <=> hs[k].name.canon = n.canon
  BY <1>1 DEF SameName
<1>5. HeadersWith(hs, n, v) = IF at = {} THEN Append(hs, [name |-> n, value |-> v])
                              ELSE [hs EXCEPT ![first].value = v]
  BY DEF HeadersWith
<1>6. at \subseteq 1 .. L
  BY <1>1
<1>7. CASE at = {}
  <2> DEFINE x == [name |-> n, value |-> v]
             a == Append(hs, x)
  <2>1. x \in Header /\ x.name = n /\ x.value = v
    BY DEF Header
  <2>2. /\ a \in Seq(Header) /\ Len(a) = L + 1
        /\ \A j \in 1 .. L + 1 : a[j] = IF j = L + 1 THEN x ELSE hs[j]
    BY <1>1, <2>1, AppendOf
  <2>3. \A i \in 1 .. L : hs[i].name.canon # n.canon
    BY <1>4, <1>7
  <2>4. /\ \A j \in 1 .. L + 1 : j # L + 1 => j \in 1 .. L
        /\ \A j \in 1 .. L : j \in 1 .. L + 1 /\ j # L + 1
        /\ L + 1 \in 1 .. L + 1
    BY <1>1
  <2>5. HeadersWith(hs, n, v) = a
    BY <1>5, <1>7
  <2> HIDE DEF x, a, at, first, w1, L
  <2>6. \A i, j \in 1 .. L + 1 : a[i].name.canon = a[j].name.canon => i = j
    BY <1>2, <2>1, <2>2, <2>3, <2>4
  <2>7. \A i \in 1 .. L + 1 : /\ a[i].name.canon \in DOMAIN w1
                              /\ w1[a[i].name.canon] = a[i].value
    BY <1>2, <1>3, <2>1, <2>2, <2>3, <2>4
  <2>8. ASSUME NEW c \in DOMAIN w1 PROVE \E i \in 1 .. L + 1 : a[i].name.canon = c
    <3>1. CASE c = n.canon
      BY <2>1, <2>2, <2>4, <3>1
    <3>2. CASE c # n.canon
      <4>1. PICK i \in 1 .. L : hs[i].name.canon = c
        BY <1>2, <1>3, <3>2
      <4>2. a[i] = hs[i] /\ i \in 1 .. L + 1
        BY <2>2, <2>4
      <4> QED BY <4>1, <4>2
    <3> QED BY <3>1, <3>2
  <2>9. HeadersInv(a, w1)
    BY <2>2, <2>6, <2>7, <2>8 DEF HeadersInv
  <2> QED BY <2>5, <2>9 DEF w1
<1>8. CASE at # {}
  <2> DEFINE e == [hs EXCEPT ![first].value = v]
             x == [hs[first] EXCEPT !.value = v]
  <2>1. PICK k \in at : TRUE
    BY <1>8
  <2>2. at = {k}
    <3>1. \A j \in at : j \in 1 .. L /\ hs[j].name.canon = n.canon
      BY <1>4, <1>6
    <3> HIDE DEF at, L
    <3>2. \A j \in at : j = k
      BY <1>2, <2>1, <3>1
    <3> QED BY <2>1, <3>2
  <2>3. k \in 1 .. L /\ hs[k].name.canon = n.canon
    BY <1>4, <1>6, <2>1
  <2>4. first = k
    <3>1. k <= k
      BY <1>1, <2>3
    <3> HIDE DEF at
    <3> QED BY <2>2, <3>1
  <2>5. x \in Header /\ x.name = hs[k].name /\ x.value = v
    <3>1. hs[k] \in Header
      BY <1>1, <2>3
    <3> HIDE DEF first
    <3> QED BY <2>4, <3>1 DEF Header
  <2>6. /\ e \in Seq(Header) /\ Len(e) = L
        /\ \A j \in 1 .. L : e[j] = IF j = k THEN x ELSE hs[j]
    <3>1. e = [hs EXCEPT ![k] = x]
      <4> HIDE DEF first
      <4> QED BY <2>4
    <3> HIDE DEF e, x
    <3>2. e = [j \in 1 .. L |-> IF j = k THEN x ELSE hs[j]]
      BY <1>1, <3>1
    <3> HIDE DEF L
    <3> QED BY <1>1, <2>5, <3>2
  <2>7. HeadersWith(hs, n, v) = e
    BY <1>5, <1>8
  <2> HIDE DEF x, e, at, first, w1, L
  <2>8. \A j \in 1 .. L : e[j].name = hs[j].name
    BY <2>5, <2>6
  <2>9. \A i, j \in 1 .. L : e[i].name.canon = e[j].name.canon => i = j
    BY <1>2, <2>8
  <2>10. \A i \in 1 .. L : /\ e[i].name.canon \in DOMAIN w1
                           /\ w1[e[i].name.canon] = e[i].value
    <3>1. \A i \in 1 .. L : i # k => hs[i].name.canon # n.canon
      BY <1>2, <2>3
    <3>2. ASSUME NEW i \in 1 .. L
          PROVE e[i].name.canon \in DOMAIN w1 /\ w1[e[i].name.canon] = e[i].value
      <4>1. CASE i = k
        <5>1. e[i].name.canon = n.canon /\ e[i].value = v
          BY <2>3, <2>5, <2>6, <4>1
        <5> QED BY <1>3, <5>1
      <4>2. CASE i # k
        <5>1. e[i] = hs[i] /\ hs[i].name.canon # n.canon
          BY <2>6, <3>1, <4>2
        <5>2. hs[i].name.canon \in DOMAIN w /\ w[hs[i].name.canon] = hs[i].value
          BY <1>2
        <5> QED BY <1>3, <5>1, <5>2
      <4> QED BY <4>1, <4>2
    <3> QED BY <3>2
  <2>11. \A c \in DOMAIN w1 : \E i \in 1 .. L : e[i].name.canon = c
    BY <1>2, <1>3, <2>3, <2>8
  <2>12. HeadersInv(e, w1)
    BY <2>6, <2>9, <2>10, <2>11 DEF HeadersInv
  <2> QED BY <2>7, <2>12 DEF w1
<1> QED BY <1>7, <1>8

\* Removing one leaves the others.
LEMMA RemoveHeaderKeeps ==
  ASSUME NEW hs, NEW w, HeadersInv(hs, w), NEW n \in FieldName
  PROVE  HeadersInv(HeadersWithout(hs, n), [c \in DOMAIN w \ {n.canon} |-> w[c]])
<1> DEFINE L == Len(hs)
           I == {k \in DOMAIN hs : ~SameName(hs[k].name, n)}
           t == HeadersWithout(hs, n)
           w1 == [c \in DOMAIN w \ {n.canon} |-> w[c]]
<1>1. /\ hs \in Seq(Header) /\ DOMAIN hs = 1 .. L
      /\ \A i, j \in 1 .. L : hs[i].name.canon = hs[j].name.canon => i = j
      /\ \A i \in 1 .. L : hs[i].name.canon \in DOMAIN w
                           /\ w[hs[i].name.canon] = hs[i].value
      /\ \A c \in DOMAIN w : \E i \in 1 .. L : hs[i].name.canon = c
  BY DEF HeadersInv
<1>2. I \subseteq DOMAIN hs /\ \A k \in 1 .. L : k \in I <=> hs[k].name.canon # n.canon
  BY <1>1 DEF SameName
<1>3. t = Kept(hs, I)
  BY DEF HeadersWithout
<1>4. /\ DOMAIN w1 = DOMAIN w \ {n.canon} /\ \A c \in DOMAIN w1 : w1[c] = w[c]
  OBVIOUS
<1> HIDE DEF I, t, w1
<1>5. t \in Seq(Header) /\ \E e : Picks(e, hs, I, t)
  BY <1>1, <1>2, <1>3, KeptPlaces
<1>6. PICK e : Picks(e, hs, I, t)
  BY <1>5
<1>7. /\ \A j \in 1 .. Len(t) : e[j] \in I /\ t[j] = hs[e[j]]
      /\ \A i, j \in 1 .. Len(t) : e[i] = e[j] => i = j
      /\ \A i \in I : \E j \in 1 .. Len(t) : e[j] = i
  BY <1>6 DEF Picks
<1> HIDE DEF L
<1>8. \A j \in 1 .. Len(t) : e[j] \in 1 .. L /\ hs[e[j]].name.canon # n.canon
  BY <1>1, <1>2, <1>7
<1>9. ASSUME NEW i \in 1 .. Len(t), NEW j \in 1 .. Len(t),
             t[i].name.canon = t[j].name.canon
      PROVE  i = j
  <2>1. e[i] = e[j]
    <3>1. /\ e[i] \in 1 .. L /\ e[j] \in 1 .. L
          /\ hs[e[i]].name.canon = hs[e[j]].name.canon
      BY <1>7, <1>8, <1>9
    <3>2. \A x, y \in 1 .. L : hs[x].name.canon = hs[y].name.canon => x = y
      BY <1>1
    <3> QED BY <3>1, <3>2, Zenon
  <2> QED BY <1>7, <2>1
<1>10. ASSUME NEW j \in 1 .. Len(t)
       PROVE  t[j].name.canon \in DOMAIN w1 /\ w1[t[j].name.canon] = t[j].value
  <2>1. t[j] = hs[e[j]] /\ e[j] \in 1 .. L /\ hs[e[j]].name.canon # n.canon
    BY <1>7, <1>8
  <2>2. /\ hs[e[j]].name.canon \in DOMAIN w
        /\ w[hs[e[j]].name.canon] = hs[e[j]].value
    BY <1>1, <2>1
  <2> QED BY <1>4, <2>1, <2>2
<1>11. ASSUME NEW c \in DOMAIN w1 PROVE \E j \in 1 .. Len(t) : t[j].name.canon = c
  <2>1. PICK i \in 1 .. L : hs[i].name.canon = c
    BY <1>1, <1>4
  <2>2. i \in I
    BY <1>2, <1>4, <2>1
  <2>3. PICK j \in 1 .. Len(t) : e[j] = i
    BY <1>7, <2>2
  <2> QED BY <1>7, <2>1, <2>3
<1>12. HeadersInv(t, w1)
  BY <1>5, <1>9, <1>10, <1>11 DEF HeadersInv
<1> QED BY <1>12 DEF t, w1

\* A Message.
MessageType ==
    [addr : [AddressHeaders -> Seq(Address)], subject : HeaderValue, headers : Seq(Header),
     text : Seq(BodyLine), html : Seq(BodyLine), attachments : Seq(AttachedFile)]

\* Addresses are the only words that may be longer than TokenLimit.
FieldToWrite ==
    {f \in [name : FieldName, runs : Seq(Word)] :
       Written(f.runs) /\ (AddressLength < TokenLimit => Short(f.runs))}

\* x is the one field called c of F; there is none.
Once(F, c, x) ==
    \E k \in 1 .. Len(F) : /\ F[k] = x
                           /\ \A j \in 1 .. Len(F) : F[j].name.canon = c <=> j = k
Never(F, c) == \A j \in 1 .. Len(F) : F[j].name.canon # c

\* The fields of two parts of a header.
LEMMA FieldsOfTwo ==
  ASSUME NEW X, NEW a \in Seq(X), NEW b \in Seq(X), NEW c, NEW x
  PROVE  /\ a \o b \in Seq(X)
         /\ Never(a, c) /\ Never(b, c) => Never(a \o b, c)
         /\ Once(a, c, x) /\ Never(b, c) => Once(a \o b, c, x)
         /\ Never(a, c) /\ Once(b, c, x) => Once(a \o b, c, x)
<1> DEFINE n == Len(a)
           m == Len(b)
           d == a \o b
<1>1. /\ n \in Nat /\ m \in Nat /\ d \in Seq(X) /\ Len(d) = n + m
      /\ \A k \in 1 .. n + m : d[k] = IF k <= n THEN a[k] ELSE b[k - n]
  OBVIOUS
<1> HIDE DEF n, m, d
<1>2. \A k \in 1 .. n + m : \/ k \in 1 .. n /\ d[k] = a[k]
                            \/ k - n \in 1 .. m /\ d[k] = b[k - n] /\ k \notin 1 .. n
  BY <1>1
<1>3. \A k \in 1 .. n : k \in 1 .. n + m /\ d[k] = a[k]
  BY <1>1
<1>4. \A k \in 1 .. m : /\ k + n \in 1 .. n + m /\ d[k + n] = b[k] /\ k + n \notin 1 .. n
                        /\ \A j \in 1 .. n + m : j - n = k <=> j = k + n
  <2>1. ASSUME NEW k \in 1 .. m
        PROVE  /\ k + n \in 1 .. n + m /\ ~(k + n <= n) /\ (k + n) - n = k
               /\ k + n \notin 1 .. n
               /\ \A j \in 1 .. n + m : j - n = k <=> j = k + n
    BY <1>1
  <2> QED BY <1>1, <2>1
<1>5. ASSUME Never(a, c), Never(b, c) PROVE Never(d, c)
  BY <1>1, <1>2, <1>5 DEF Never, n, m
<1>6. ASSUME Once(a, c, x), Never(b, c) PROVE Once(d, c, x)
  <2>1. PICK k \in 1 .. n : a[k] = x /\ \A j \in 1 .. n : a[j].name.canon = c <=> j = k
    BY <1>6 DEF Once, n
  <2>2. \A j \in 1 .. m : b[j].name.canon # c
    BY <1>6 DEF Never, m
  <2>3. \A j \in 1 .. n + m : d[j].name.canon = c <=> j = k
    BY <1>2, <2>1, <2>2
  <2>4. k \in 1 .. n + m /\ d[k] = x
    BY <1>3, <2>1
  <2> QED BY <1>1, <2>3, <2>4 DEF Once
<1>7. ASSUME Never(a, c), Once(b, c, x) PROVE Once(d, c, x)
  <2>1. PICK k \in 1 .. m : b[k] = x /\ \A j \in 1 .. m : b[j].name.canon = c <=> j = k
    BY <1>7 DEF Once, m
  <2>2. \A j \in 1 .. n : a[j].name.canon # c
    BY <1>7 DEF Never, n
  <2>3. \A j \in 1 .. n + m : d[j].name.canon = c <=> j = k + n
    BY <1>2, <1>4, <2>1, <2>2
  <2>4. k + n \in 1 .. n + m /\ d[k + n] = x
    BY <1>4, <2>1
  <2> QED BY <1>1, <2>3, <2>4 DEF Once
<1> QED BY <1>1, <1>5, <1>6, <1>7 DEF d

\* A part of one field or of none.
OneField(F, c, x) == F = <<>> \/ (F = <<x>> /\ x.name.canon = c)

\* Such a part has the field once, and no other.
LEMMA FieldOfOne ==
  ASSUME NEW F, NEW h, NEW x \in FieldToWrite, OneField(F, h, x)
  PROVE  /\ F \in Seq(FieldToWrite)
         /\ F # <<>> => Once(F, h, x)
         /\ \A c : c # h => Never(F, c)
<1>1. CASE F = <<>>
  BY <1>1 DEF Never
<1>2. CASE F = <<x>> /\ x.name.canon = h
  <2>1. F \in Seq(FieldToWrite) /\ Len(F) = 1 /\ F[1] = x
    BY <1>2
  <2>2. 1 .. 1 = {1}
    OBVIOUS
  <2>3. Once(F, h, x)
    BY <1>2, <2>1, <2>2 DEF Once
  <2> QED BY <1>2, <2>1, <2>2, <2>3 DEF Never
<1> QED BY <1>1, <1>2 DEF OneField

\* The field of an address header.
AddressFieldOf(m, h, prefix) ==
    [name |-> Field(h, prefix), runs |-> EncodeAddressList(m.addr[h])]

\* An address header is written if it has addresses.
LEMMA AddressFieldIs ==
  ASSUME NEW m \in MessageType, NEW h \in AddressHeaders, NEW prefix \in Nat \ {0, 1}
  PROVE  /\ AddressFieldOf(m, h, prefix) \in FieldToWrite
         /\ OneField(AddressField(m, h, prefix), h, AddressFieldOf(m, h, prefix))
         /\ AddressField(m, h, prefix) = <<>> <=> m.addr[h] = <<>>
<1>1. m.addr[h] \in Seq(Address) /\ h \in Structural
  BY DEF MessageType, AddressHeaders, Structural
<1>2. Field(h, prefix) \in FieldName /\ Field(h, prefix).canon = h
  BY <1>1 DEF Field, FieldName
<1>3. /\ Written(EncodeAddressList(m.addr[h]))
      /\ AddressLength < TokenLimit => Short(EncodeAddressList(m.addr[h]))
  BY <1>1, AddressesWritten
<1>4. AddressFieldOf(m, h, prefix) \in FieldToWrite
  BY <1>2, <1>3 DEF AddressFieldOf, FieldToWrite, Written
<1> QED BY <1>2, <1>4 DEF OneField, AddressField, AddressFieldOf

\* The field of the subject, and what is written of it.
SubjectField(m) == [name |-> Field("Subject", 9), runs |-> EncodeHeaderWord(m.subject)]
SubjectPart(m) == IF m.subject.runs = <<>> THEN <<>> ELSE <<SubjectField(m)>>

\* The subject is written if it is not empty.
LEMMA SubjectFieldIs ==
  ASSUME NEW m \in MessageType
  PROVE  /\ SubjectField(m) \in FieldToWrite
         /\ OneField(SubjectPart(m), "Subject", SubjectField(m))
         /\ SubjectPart(m) = <<>> <=> m.subject.runs = <<>>
<1>1. m.subject \in HeaderValue
  BY DEF MessageType
<1>2. Field("Subject", 9) \in FieldName /\ Field("Subject", 9).canon = "Subject"
  BY DEF Field, FieldName, Structural
<1>3. Short(EncodeHeaderWord(m.subject)) /\ Written(EncodeHeaderWord(m.subject))
  BY <1>1, ValueShort DEF Short
<1>4. SubjectField(m) \in FieldToWrite
  BY <1>2, <1>3 DEF SubjectField, FieldToWrite, Written
<1> QED BY <1>2, <1>4 DEF OneField, SubjectPart, SubjectField

\* The fields of the custom headers.
CustomField(x) == [name |-> x.name, runs |-> EncodeHeaderWord(x.value)]
CustomPart(m) == [k \in DOMAIN CustomHeaders(m) |-> CustomField(CustomHeaders(m)[k])]

\* The custom headers that are not structural are written, each once.
LEMMA CustomFieldsAre ==
  ASSUME NEW m \in MessageType, NEW w, HeadersInv(m.headers, w)
  PROVE  /\ CustomPart(m) \in Seq(FieldToWrite)
         /\ \A c \in Structural : Never(CustomPart(m), c)
         /\ \A c : c \notin DOMAIN w => Never(CustomPart(m), c)
         /\ \A c \in DOMAIN w \ Structural :
               \E x \in FieldToWrite :
                  x.runs = EncodeHeaderWord(w[c]) /\ Once(CustomPart(m), c, x)
         /\ \A c \in DOMAIN w : w[c] \in HeaderValue
<1> DEFINE hs == m.headers
           L == Len(hs)
           I == {k \in DOMAIN hs : ~IsStructural(hs[k].name)}
           t == CustomHeaders(m)
           F == CustomPart(m)
           N == Len(t)
<1>1. /\ hs \in Seq(Header) /\ DOMAIN hs = 1 .. L
      /\ \A i \in 1 .. L : hs[i] \in Header
      /\ \A i, j \in 1 .. L : hs[i].name.canon = hs[j].name.canon => i = j
      /\ \A i \in 1 .. L : hs[i].name.canon \in DOMAIN w
                           /\ w[hs[i].name.canon] = hs[i].value
      /\ \A c \in DOMAIN w : \E i \in 1 .. L : hs[i].name.canon = c
  BY DEF HeadersInv
<1>2. I \subseteq DOMAIN hs
      /\ \A k \in 1 .. L : k \in I <=> hs[k].name.canon \notin Structural
  BY <1>1 DEF IsStructural
<1>3. t = Kept(hs, I)
  BY DEF CustomHeaders
<1>4. F = [k \in DOMAIN t |-> CustomField(t[k])]
  BY DEF CustomPart
<1> HIDE DEF I, t, F, L, hs
<1>5. t \in Seq(Header) /\ \E e : Picks(e, hs, I, t)
  BY <1>1, <1>2, <1>3, KeptPlaces
<1>6. PICK e : Picks(e, hs, I, t)
  BY <1>5
<1>7. /\ \A j \in 1 .. N : e[j] \in I /\ t[j] = hs[e[j]]
      /\ \A i, j \in 1 .. N : e[i] = e[j] => i = j
      /\ \A i \in I : \E j \in 1 .. N : e[j] = i
  BY <1>6 DEF Picks
<1>8. N \in Nat /\ DOMAIN t = 1 .. N /\ \A j \in 1 .. N : t[j] \in Header
  BY <1>5
<1> HIDE DEF N
<1>9. \A x \in Header : /\ CustomField(x) \in FieldToWrite
                        /\ CustomField(x).name = x.name
                        /\ CustomField(x).runs = EncodeHeaderWord(x.value)
  <2> SUFFICES ASSUME NEW x \in Header
               PROVE  /\ CustomField(x) \in FieldToWrite
                      /\ CustomField(x).name = x.name
                      /\ CustomField(x).runs = EncodeHeaderWord(x.value)
    OBVIOUS
  <2>1. x.name \in FieldName /\ x.value \in HeaderValue
    BY DEF Header
  <2>2. Short(EncodeHeaderWord(x.value)) /\ Written(EncodeHeaderWord(x.value))
    BY <2>1, ValueShort DEF Short
  <2> QED BY <2>1, <2>2 DEF CustomField, FieldToWrite, Written
<1>10. /\ F \in Seq(FieldToWrite) /\ Len(F) = N
       /\ \A j \in 1 .. N : F[j] = CustomField(t[j])
  BY <1>4, <1>8, <1>9
<1>11. \A j \in 1 .. N : /\ F[j].name = hs[e[j]].name /\ e[j] \in 1 .. L
                         /\ F[j].name.canon \notin Structural
                         /\ F[j].name.canon \in DOMAIN w
  BY <1>1, <1>2, <1>7, <1>8, <1>9, <1>10
<1>12. \A c \in Structural : Never(F, c)
  BY <1>10, <1>11 DEF Never
<1>13. \A c : c \notin DOMAIN w => Never(F, c)
  BY <1>10, <1>11 DEF Never
<1>14. ASSUME NEW c \in DOMAIN w \ Structural
       PROVE  \E x \in FieldToWrite : x.runs = EncodeHeaderWord(w[c]) /\ Once(F, c, x)
  <2>1. PICK i \in 1 .. L : hs[i].name.canon = c
    BY <1>1
  <2>2. i \in I
    BY <1>2, <2>1
  <2>3. PICK k \in 1 .. N : e[k] = i
    BY <1>7, <2>2
  <2>4. F[k] \in FieldToWrite /\ F[k].runs = EncodeHeaderWord(w[c])
    BY <1>1, <1>7, <1>8, <1>9, <1>10, <2>1, <2>3
  <2>5. ASSUME NEW j \in 1 .. N PROVE F[j].name.canon = c <=> j = k
    <3>1. e[j] \in 1 .. L /\ F[j].name.canon = hs[e[j]].name.canon
      BY <1>11
    <3>2. hs[e[j]].name.canon = c <=> e[j] = i
      BY <1>1, <2>1, <3>1
    <3> QED BY <1>7, <2>3, <3>1, <3>2
  <2>6. Once(F, c, F[k])
    BY <1>10, <2>5 DEF Once
  <2> QED BY <2>4, <2>6
<1>15. ASSUME NEW c \in DOMAIN w PROVE w[c] \in HeaderValue
  <2>1. PICK i \in 1 .. L : hs[i].name.canon = c
    BY <1>1
  <2>2. w[c] = hs[i].value /\ hs[i] \in Header
    BY <1>1, <2>1
  <2> QED BY <2>2 DEF Header
<1> QED BY <1>10, <1>12, <1>13, <1>14, <1>15 DEF F

\* Which fields the header has.
LEMMA FieldsAre ==
  ASSUME NEW m \in MessageType, NEW w, HeadersInv(m.headers, w)
  PROVE  /\ Fields(m) \in Seq(FieldToWrite)
         /\ \A c \in DOMAIN w \ Structural :
               \E x \in FieldToWrite :
                  x.runs = EncodeHeaderWord(w[c]) /\ Once(Fields(m), c, x)
         /\ m.subject.runs # <<>> => Once(Fields(m), "Subject", SubjectField(m))
         /\ \A h \in AddressHeaders \ {"Bcc"} : m.addr[h] # <<>> =>
               \E x \in FieldToWrite :
                  x.runs = EncodeAddressList(m.addr[h]) /\ Once(Fields(m), h, x)
         /\ \A c : c \notin DOMAIN w \cup {"Subject", "From", "Reply-To", "To", "Cc"}
                      => Never(Fields(m), c)
         /\ Never(Fields(m), "Bcc") /\ Never(Fields(m), "Content-Type")
<1> DEFINE F == FieldToWrite
           s == SubjectPart(m)
           a == AddressField(m, "From", 6)
           b == AddressField(m, "Reply-To", 10)
           c == AddressField(m, "To", 4)
           d == AddressField(m, "Cc", 4)
           e == CustomPart(m)
           p == s \o a
           q == p \o b
           r == q \o c
           t == r \o d
<1>1. Fields(m) = t \o e
  BY DEF Fields, SubjectPart, SubjectField, CustomPart, CustomField
<1>2. ASSUME NEW h \in AddressHeaders, NEW prefix \in Nat \ {0, 1}
      PROVE  /\ AddressField(m, h, prefix) \in Seq(F)
             /\ m.addr[h] # <<>> =>
                   Once(AddressField(m, h, prefix), h, AddressFieldOf(m, h, prefix))
             /\ \A n : n # h => Never(AddressField(m, h, prefix), n)
             /\ AddressFieldOf(m, h, prefix) \in F
             /\ AddressFieldOf(m, h, prefix).runs = EncodeAddressList(m.addr[h])
  <2>1. /\ AddressFieldOf(m, h, prefix) \in FieldToWrite
        /\ OneField(AddressField(m, h, prefix), h, AddressFieldOf(m, h, prefix))
        /\ AddressField(m, h, prefix) = <<>> <=> m.addr[h] = <<>>
    BY AddressFieldIs
  <2>2. AddressFieldOf(m, h, prefix).runs = EncodeAddressList(m.addr[h])
    BY DEF AddressFieldOf
  <2> QED BY <2>1, <2>2, FieldOfOne
<1>3. /\ s \in Seq(F) /\ SubjectField(m) \in F
      /\ m.subject.runs # <<>> => Once(s, "Subject", SubjectField(m))
      /\ \A n : n # "Subject" => Never(s, n)
  BY SubjectFieldIs, FieldOfOne
<1>4. /\ e \in Seq(F)
      /\ \A n \in Structural : Never(e, n)
      /\ \A n : n \notin DOMAIN w => Never(e, n)
      /\ \A n \in DOMAIN w \ Structural :
            \E x \in F : x.runs = EncodeHeaderWord(w[n]) /\ Once(e, n, x)
  BY CustomFieldsAre
<1> DEFINE x1 == AddressFieldOf(m, "From", 6)
           x2 == AddressFieldOf(m, "Reply-To", 10)
           x3 == AddressFieldOf(m, "To", 4)
           x4 == AddressFieldOf(m, "Cc", 4)
<1>5. /\ a \in Seq(F) /\ b \in Seq(F) /\ c \in Seq(F) /\ d \in Seq(F)
      /\ x1 \in F /\ x2 \in F /\ x3 \in F /\ x4 \in F
      /\ x1.runs = EncodeAddressList(m.addr["From"])
      /\ x2.runs = EncodeAddressList(m.addr["Reply-To"])
      /\ x3.runs = EncodeAddressList(m.addr["To"])
      /\ x4.runs = EncodeAddressList(m.addr["Cc"])
      /\ m.addr["From"] # <<>> => Once(a, "From", x1)
      /\ m.addr["Reply-To"] # <<>> => Once(b, "Reply-To", x2)
      /\ m.addr["To"] # <<>> => Once(c, "To", x3)
      /\ m.addr["Cc"] # <<>> => Once(d, "Cc", x4)
      /\ \A n : /\ n # "From" => Never(a, n)
                /\ n # "Reply-To" => Never(b, n)
                /\ n # "To" => Never(c, n)
                /\ n # "Cc" => Never(d, n)
  <2>1. /\ "From" \in AddressHeaders /\ "Reply-To" \in AddressHeaders
        /\ "To" \in AddressHeaders /\ "Cc" \in AddressHeaders
        /\ 6 \in Nat \ {0, 1} /\ 10 \in Nat \ {0, 1} /\ 4 \in Nat \ {0, 1}
    BY DEF AddressHeaders
  <2> HIDE DEF F
  <2> QED BY <1>2, <2>1
<1> HIDE DEF F, s, a, b, c, d, e, x1, x2, x3, x4
<1>6. \A u, v \in Seq(F) : \A n, x :
         /\ u \o v \in Seq(F)
         /\ Never(u, n) /\ Never(v, n) => Never(u \o v, n)
         /\ Once(u, n, x) /\ Never(v, n) => Once(u \o v, n, x)
         /\ Never(u, n) /\ Once(v, n, x) => Once(u \o v, n, x)
  BY FieldsOfTwo
<1>7. /\ p \in Seq(F) /\ q \in Seq(F) /\ r \in Seq(F) /\ t \in Seq(F) /\ t \o e \in Seq(F)
  BY <1>3, <1>4, <1>5, <1>6
<1>8. ASSUME NEW u \in Seq(F), NEW v \in Seq(F), NEW n
      PROVE  Never(u, n) /\ Never(v, n) => Never(u \o v, n)
  BY <1>6
<1>9. ASSUME NEW u \in Seq(F), NEW v \in Seq(F), NEW n, NEW x
      PROVE  /\ Once(u, n, x) /\ Never(v, n) => Once(u \o v, n, x)
             /\ Never(u, n) /\ Once(v, n, x) => Once(u \o v, n, x)
  BY <1>6
<1>10. /\ \A n : n \notin {"Subject", "From"} => Never(p, n)
       /\ m.subject.runs # <<>> => Once(p, "Subject", SubjectField(m))
       /\ m.addr["From"] # <<>> => Once(p, "From", x1)
  BY <1>3, <1>5, <1>8, <1>9
<1> HIDE DEF p
<1>11. /\ \A n : n \notin {"Subject", "From", "Reply-To"} => Never(q, n)
       /\ m.subject.runs # <<>> => Once(q, "Subject", SubjectField(m))
       /\ m.addr["From"] # <<>> => Once(q, "From", x1)
       /\ m.addr["Reply-To"] # <<>> => Once(q, "Reply-To", x2)
  BY <1>5, <1>7, <1>8, <1>9, <1>10
<1> HIDE DEF q
<1>12. /\ \A n : n \notin {"Subject", "From", "Reply-To", "To"} => Never(r, n)
       /\ m.subject.runs # <<>> => Once(r, "Subject", SubjectField(m))
       /\ m.addr["From"] # <<>> => Once(r, "From", x1)
       /\ m.addr["Reply-To"] # <<>> => Once(r, "Reply-To", x2)
       /\ m.addr["To"] # <<>> => Once(r, "To", x3)
  BY <1>5, <1>7, <1>8, <1>9, <1>11
<1> HIDE DEF r
<1>13. /\ \A n : n \notin {"Subject", "From", "Reply-To", "To", "Cc"} => Never(t, n)
       /\ m.subject.runs # <<>> => Once(t, "Subject", SubjectField(m))
       /\ m.addr["From"] # <<>> => Once(t, "From", x1)
       /\ m.addr["Reply-To"] # <<>> => Once(t, "Reply-To", x2)
       /\ m.addr["To"] # <<>> => Once(t, "To", x3)
       /\ m.addr["Cc"] # <<>> => Once(t, "Cc", x4)
  <2>1. \A n, x : Once(r, n, x) /\ n # "Cc" => Once(t, n, x)
    BY <1>5, <1>7, <1>9
  <2>2. m.addr["Cc"] # <<>> => Once(t, "Cc", x4)
    <3>1. Never(r, "Cc")
      BY <1>12
    <3>2. Once(d, "Cc", x4) => Once(t, "Cc", x4)
      BY <1>5, <1>7, <1>9, <3>1
    <3> QED BY <1>5, <3>2
  <2>3. \A n : n \notin {"Subject", "From", "Reply-To", "To", "Cc"} => Never(t, n)
    BY <1>5, <1>7, <1>8, <1>12
  <2> HIDE DEF t
  <2> QED BY <1>12, <2>1, <2>2, <2>3
<1> HIDE DEF t
<1> DEFINE A == t \o e
<1>14. /\ m.subject.runs # <<>> => Once(A, "Subject", SubjectField(m))
       /\ m.addr["From"] # <<>> => Once(A, "From", x1)
       /\ m.addr["Reply-To"] # <<>> => Once(A, "Reply-To", x2)
       /\ m.addr["To"] # <<>> => Once(A, "To", x3)
       /\ m.addr["Cc"] # <<>> => Once(A, "Cc", x4)
       /\ Never(A, "Bcc") /\ Never(A, "Content-Type")
  <2>1. /\ "Subject" \in Structural /\ "From" \in Structural /\ "Reply-To" \in Structural
        /\ "To" \in Structural /\ "Cc" \in Structural /\ "Bcc" \in Structural
        /\ "Content-Type" \in Structural
    BY DEF Structural
  <2>2. \A n \in Structural : \A x : Once(t, n, x) => Once(A, n, x)
    BY <1>4, <1>7, <1>9
  <2>3. Never(A, "Bcc") /\ Never(A, "Content-Type")
    BY <1>4, <1>7, <1>8, <1>13, <2>1
  <2> HIDE DEF A
  <2> QED BY <1>13, <2>1, <2>2, <2>3
<1>15. \A n : n \notin DOMAIN w \cup {"Subject", "From", "Reply-To", "To", "Cc"}
                 => Never(A, n)
  BY <1>4, <1>7, <1>8, <1>13
<1>16. ASSUME NEW n \in DOMAIN w \ Structural
       PROVE  \E x \in F : x.runs = EncodeHeaderWord(w[n]) /\ Once(A, n, x)
  <2>1. PICK x \in F : x.runs = EncodeHeaderWord(w[n]) /\ Once(e, n, x)
    BY <1>4
  <2>2. n \notin {"Subject", "From", "Reply-To", "To", "Cc"}
    BY DEF Structural
  <2>3. Once(A, n, x)
    BY <1>4, <1>7, <1>9, <1>13, <2>1, <2>2
  <2> QED BY <2>1, <2>3
<1>17. ASSUME NEW h \in AddressHeaders \ {"Bcc"}, m.addr[h] # <<>>
       PROVE  \E x \in F : x.runs = EncodeAddressList(m.addr[h]) /\ Once(A, h, x)
  <2>1. h \in {"From", "Reply-To", "To", "Cc"}
    BY DEF AddressHeaders
  <2> HIDE DEF A
  <2> QED BY <1>5, <1>14, <1>17, <2>1
<1> HIDE DEF A
<1>18. Fields(m) = A /\ A \in Seq(F)
  BY <1>1, <1>7 DEF A
<1> QED BY <1>14, <1>15, <1>16, <1>17, <1>18 DEF F
==============================================================================
