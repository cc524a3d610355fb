------------------------- MODULE TransportPoolProofs -------------------------
(***************************************************************************)
(* Proofs about both composites for every number of transports, retry      *)
(* period and attempt time.                                                *)
(***************************************************************************)
EXTENDS TransportPool, TLAPS

\* How many times moveCursor takes c to i.
Distance(c, i) == IF i >= c THEN i - c ELSE i - c + N

\* The loop invariant of nextTransportLocked: what the scan has passed is dead
\* and not due.
Scanned ==
    pc = "scan" =>
       \A j \in Transports : Distance(cursor, j) < Distance(cursor, scan) => ~Eligible(j)

\* How far ahead of the cursor a transport is, once the cursor is seeded.
Ahead(i) == IF cursor = None THEN 0 ELSE Distance(cursor, i)

\* The strengthening of NoStarvation: a usable transport that has waited for
\* since[i] selections is at most N - 1 - since[i] places ahead of the cursor.
Turn == \A i \in Transports : since[i] + Ahead(i) <= N - 1

\* Nothing has been selected before the cursor is seeded.
Unseeded == cursor = None => \A i \in Transports : since[i] = 0

\* The strengthening of StickyAfterSuccess: the transport of a failover that is
\* being tried, or that delivered the last message, is current and live, so that
\* no scan begins before it has failed.
Stays ==
    sticky =>
       /\ pc = "attempt" \/ (result = "ok" /\ (pc = "idle" \/ agg = "none"))
            => idx \in Transports /\ current = idx /\ dead[idx] = Live
       /\ pc = "scan" => agg # "none" \/ result # "ok"

------------------------------------------------------------------------------

\* The distance from the cursor to a transport is less than N, moveCursor stays
\* within the list, and the transport just passed becomes the farthest one.
LEMMA DistanceFacts ==
  ASSUME NEW c \in Transports, NEW i \in Transports
  PROVE  /\ Distance(c, i) \in 0 .. N - 1
         /\ MoveCursor(i) \in Transports
         /\ Distance(MoveCursor(i), i) = N - 1
BY NAssumption DEF Distance, MoveCursor, Transports

\* Moving the cursor past j brings every transport beyond j closer by at least
\* one place.
LEMMA MovingPast ==
  ASSUME NEW c \in Transports, NEW i \in Transports, NEW j \in Transports,
         Distance(c, j) < Distance(c, i)
  PROVE  Distance(MoveCursor(j), i) + 1 <= Distance(c, i)
BY NAssumption DEF Distance, MoveCursor, Transports

\* The scan moves on by one place, until the next place is where it began; then
\* it has been everywhere.
LEMMA ScanFacts ==
  ASSUME NEW c \in Transports, NEW s \in Transports
  PROVE  /\ MoveCursor(s) # c => Distance(c, MoveCursor(s)) = Distance(c, s) + 1
         /\ MoveCursor(s) = c => Distance(c, s) = N - 1
         /\ Distance(c, c) = 0
BY NAssumption DEF Distance, MoveCursor, Transports

\* Distances from one cursor tell transports apart.
LEMMA DistanceInjective ==
  ASSUME NEW c \in Transports, NEW i \in Transports, NEW j \in Transports,
         Distance(c, i) = Distance(c, j)
  PROVE  i = j
BY NAssumption DEF Distance, Transports

\* A scan begins within the list.
LEMMA CursorsInRange ==
  ASSUME TypeOK
  PROVE  Cursors \subseteq Transports
<1>1. 0 \in Transports
  BY NAssumption DEF Transports
<1>2. cursor # None => cursor \in Transports
  BY DEF TypeOK
<1> QED BY <1>1, <1>2 DEF Cursors

\* Close and the members' connections do not touch the state of Send.
LEMMA ReleaseKeepsSend ==
  ASSUME Release
  PROVE  UNCHANGED sendVars
BY DEF Release, Connect, CallClose, CloseMember

\* Type correctness of the state of both composites.
THEOREM TypeCorrect == Spec => []TypeOK
<1> USE NAssumption, PeriodAssumption
        DEF TypeOK, Transports, None, Live, Aged, SendError
<1>1. Init => TypeOK
  BY DEF Init
<1>2. TypeOK /\ [Next]_vars => TypeOK'
  <2> SUFFICES ASSUME TypeOK, [Next]_vars PROVE TypeOK'
    OBVIOUS
  <2>1. CASE ScanTakes
    <3>1. scan \in Transports
      BY <2>1 DEF ScanTakes
    <3>2. cursor' \in Transports /\ dead' \in [Transports -> {Live} \cup 0 .. Aged]
      BY <2>1, <3>1 DEF ScanTakes, MoveCursor
    <3>3. /\ since' \in [Transports -> Nat] /\ UNCHANGED sticky
          /\ current' \in Transports \cup {None}
      BY <2>1, <3>1 DEF ScanTakes
    <3>4. /\ pc' = "attempt" /\ idx' = scan /\ spent' = 0 /\ scan' = None
          /\ UNCHANGED <<agg, result, codes, open, closer>>
          /\ spared' \subseteq Transports
      BY <2>1, <3>1 DEF ScanTakes, Attempt
    <3>5. idx' \in Transports \cup {None} /\ idx' # None
      BY <3>1, <3>4
    <3> QED BY <3>2, <3>3, <3>4, <3>5
  <2>2. CASE ScanEnds
    BY <2>2 DEF ScanEnds, closeVars
  <2>begin. CASE ScanBegins
    <3>1. Cursors \subseteq Transports /\ cursor' \in Cursors /\ scan' = cursor'
      BY <2>begin, CursorsInRange DEF ScanBegins
    <3> QED BY <2>begin, <3>1 DEF ScanBegins, choiceVars, closeVars
  <2>move. CASE ScanMoves
    <3>1. scan \in Transports /\ scan' \in Transports
      BY <2>move DEF ScanMoves, MoveCursor
    <3> QED BY <2>move, <3>1 DEF ScanMoves, choiceVars, closeVars
  <2>3. CASE Call
    BY <2>3 DEF Call, choiceVars, closeVars
  <2>4. CASE AttemptSucceeds
    BY <2>4 DEF AttemptSucceeds, choiceVars, closeVars
  <2>5. ASSUME NEW e \in SendError, AttemptFails(e)
        PROVE TypeOK'
    <3>1. codes' \subseteq {"4xx", "5xx"}
      BY <2>5 DEF AttemptFails
    <3>2. dead' \in [Transports -> {Live} \cup 0 .. Aged]
      BY <2>5 DEF AttemptFails, MarkDead
    <3>3. /\ pc' \in {"idle", "select"} /\ result' \in SendError \cup {"none", "ok"}
          /\ agg' \in {"none", "4xx", "5xx", "code0"}
          /\ UNCHANGED <<choiceVars, closeVars, cursor, scan, idx, spent>> /\ pc # "scan"
      BY <2>5 DEF AttemptFails, AggregateCode
    <3> QED BY <3>1, <3>2, <3>3 DEF choiceVars, closeVars
  <2>6. CASE Tick
    <3>1. dead' \in [Transports -> {Live} \cup 0 .. Aged] /\ spent' \in Nat
      BY <2>6 DEF Tick
    <3>2. UNCHANGED <<choiceVars, closeVars, cursor, pc, scan, idx, agg, result, codes>>
      BY <2>6 DEF Tick
    <3> QED BY <3>1, <3>2 DEF choiceVars, closeVars
  <2>7. CASE UNCHANGED vars
    BY <2>7 DEF vars, choiceVars, closeVars
  <2>8. CASE SelectCurrent
    BY <2>8 DEF SelectCurrent, CurrentUsable, Attempt, choiceVars
  <2>9. CASE Release
    <3>1. UNCHANGED sendVars
      BY <2>9, ReleaseKeepsSend
    <3>2. /\ open' \subseteq Transports /\ spared' \subseteq Transports
          /\ closer' \in {None} \cup 0 .. N
      <4>1. CASE Connect
        BY <2>9, <4>1 DEF Connect
      <4>2. CASE CallClose
        BY <4>2 DEF CallClose
      <4>3. CASE CloseMember
        <5>1. closer \in Transports /\ closer' = closer + 1
          BY <4>3 DEF CloseMember
        <5>2. /\ open' \subseteq open
              /\ spared' \subseteq spared \cup {closer}
          BY <4>3 DEF CloseMember
        <5> QED BY <5>1, <5>2
      <4> QED BY <2>9, <4>1, <4>2, <4>3 DEF Release
    <3> QED BY <3>1, <3>2 DEF sendVars, choiceVars
  <2> QED
    BY <2>1, <2>2, <2>begin, <2>move, <2>3, <2>4, <2>5, <2>6, <2>7, <2>8, <2>9
       DEF Next, Choose, AttemptReturns
<1> QED BY <1>1, <1>2, PTL DEF Spec

\* The loop of nextTransportLocked leaves out nothing, wherever it begins.
THEOREM ScanInvariant == Spec => []Scanned
<1>1. Init => Scanned
  BY DEF Init, Scanned
<1>2. TypeOK /\ TypeOK' /\ Scanned /\ [Next]_vars => Scanned'
  <2> SUFFICES ASSUME TypeOK, TypeOK', Scanned, [Next]_vars, pc' = "scan",
                      NEW j \in Transports,
                      Distance(cursor', j) < Distance(cursor', scan')
               PROVE  ~Eligible(j)'
    BY DEF Scanned
  <2>1. CASE ScanBegins
    <3>1. cursor' \in Transports /\ scan' = cursor'
      BY <2>1 DEF ScanBegins, TypeOK
    <3>2. Distance(cursor', scan') = 0 /\ Distance(cursor', j) \in 0 .. N - 1
      BY <3>1, ScanFacts, DistanceFacts
    <3> QED BY <3>2, NAssumption
  <2>2. CASE ScanMoves
    <3>1. /\ cursor \in Transports /\ scan \in Transports /\ pc = "scan"
          /\ ~Eligible(scan) /\ MoveCursor(scan) # cursor
          /\ scan' = MoveCursor(scan) /\ UNCHANGED <<cursor, dead>>
      BY <2>2 DEF ScanMoves, BackAtStart, TypeOK
    <3>2. Distance(cursor, scan') = Distance(cursor, scan) + 1
      BY <3>1, ScanFacts
    <3>3. Distance(cursor, j) \in 0 .. N - 1 /\ Distance(cursor, scan) \in 0 .. N - 1
      BY <3>1, DistanceFacts
    <3>4. CASE Distance(cursor, j) = Distance(cursor, scan)
      BY <3>1, <3>4, DistanceInjective DEF Eligible, Due
    <3>5. CASE Distance(cursor, j) < Distance(cursor, scan)
      BY <3>1, <3>5 DEF Scanned, Eligible, Due
    <3> QED BY <3>1, <3>2, <3>3, <3>4, <3>5, NAssumption
  <2>3. CASE UNCHANGED vars \/ Release
    BY <2>3, ReleaseKeepsSend DEF vars, sendVars, Scanned, Eligible, Due
  <2>4. CASE SelectCurrent \/ ScanTakes \/ ScanEnds \/ Call \/ AttemptReturns \/ Tick
    BY <2>4 DEF SelectCurrent, ScanTakes, ScanEnds, Attempt, Call, AttemptReturns,
                AttemptSucceeds, AttemptFails, Tick
  <2> QED BY <2>1, <2>2, <2>3, <2>4 DEF Next, Choose
<1> QED BY <1>1, <1>2, TypeCorrect, PTL DEF Spec

\* The load is spread (NoStarvation): a transport that stays usable is selected
\* at least once in every N selections of nextTransportLocked.
THEOREM LoadIsSpread == Spec => []NoStarvation
<1>1. Init => Turn /\ Unseeded
  BY NAssumption DEF Init, Turn, Unseeded, Ahead, Transports
<1>2. TypeOK /\ Scanned /\ Turn /\ Unseeded /\ [Next]_vars => Turn' /\ Unseeded'
  <2> SUFFICES ASSUME TypeOK, Scanned, Turn, Unseeded, [Next]_vars
               PROVE  Turn' /\ Unseeded'
    OBVIOUS
  <2>1. CASE ScanTakes
    <3>1. /\ pc = "scan" /\ cursor \in Transports /\ cursor # None
          /\ scan \in Transports
      BY <2>1 DEF ScanTakes, TypeOK
    <3>2. cursor' = MoveCursor(scan) /\ cursor' \in Transports /\ cursor' # None
      BY <2>1, <3>1, DistanceFacts DEF ScanTakes, Transports, None
    <3>3. ASSUME NEW k \in Transports
          PROVE since'[k] + Distance(cursor', k) <= N - 1
      <4>1. since[k] \in Nat /\ Distance(cursor, k) \in 0 .. N - 1
            /\ Distance(cursor, scan) \in 0 .. N - 1
            /\ Distance(cursor', k) \in 0 .. N - 1
        BY <3>1, <3>2, DistanceFacts DEF TypeOK
      <4>2. CASE ~sticky /\ k # scan /\ Eligible(k)
        <5>1. since'[k] = since[k] + 1
          BY <2>1, <4>2 DEF ScanTakes
        <5>2. Distance(cursor, scan) < Distance(cursor, k)
          BY <3>1, <4>1, <4>2, DistanceInjective DEF Scanned
        <5>3. Distance(cursor', k) + 1 <= Distance(cursor, k)
          BY <3>1, <3>2, <5>2, MovingPast
        <5>4. since[k] + Distance(cursor, k) <= N - 1
          BY <3>1 DEF Turn, Ahead
        <5> QED BY <4>1, <5>1, <5>3, <5>4, NAssumption
      <4>3. CASE ~(~sticky /\ k # scan /\ Eligible(k))
        <5>1. since'[k] = 0
          BY <2>1, <4>3 DEF ScanTakes
        <5> QED BY <4>1, <5>1, NAssumption
      <4> QED BY <4>2, <4>3
    <3> QED BY <3>2, <3>3 DEF Turn, Unseeded, Ahead
  <2>2. CASE ScanBegins
    <3>1. cursor' \in Transports /\ UNCHANGED since
      <4>1. Cursors \subseteq Transports
        BY CursorsInRange
      <4> QED BY <2>2, <4>1 DEF ScanBegins, choiceVars
    <3>2. CASE cursor = None
      <4>1. \A i \in Transports : since'[i] = 0 /\ Distance(cursor', i) \in 0 .. N - 1
        BY <3>1, <3>2, DistanceFacts DEF Unseeded
      <4>2. cursor' # None
        BY <3>1 DEF Transports, None
      <4> QED BY <4>1, <4>2, NAssumption DEF Turn, Unseeded, Ahead
    <3>3. CASE cursor # None
      <4>1. cursor' = cursor
        BY <2>2, <3>3 DEF ScanBegins, Cursors
      <4> QED BY <3>1, <4>1 DEF Turn, Unseeded, Ahead
    <3> QED BY <3>2, <3>3
  <2>3. ASSUME UNCHANGED <<cursor, since>> PROVE Turn' /\ Unseeded'
    BY <2>3 DEF Turn, Unseeded, Ahead
  <2>4. CASE ScanMoves \/ ScanEnds
    BY <2>3, <2>4 DEF ScanMoves, ScanEnds, choiceVars
  <2>5. CASE SelectCurrent \/ Call \/ AttemptReturns \/ Tick
    BY <2>3, <2>5 DEF SelectCurrent, Call, AttemptReturns, AttemptSucceeds,
                      AttemptFails, Tick, choiceVars
  <2>6. CASE UNCHANGED vars \/ Release
    BY <2>3, <2>6, ReleaseKeepsSend DEF vars, sendVars, choiceVars
  <2> QED BY <2>1, <2>2, <2>4, <2>5, <2>6 DEF Next, Choose
<1>3. TypeOK /\ Turn => NoStarvation
  <2> SUFFICES ASSUME TypeOK, Turn, NEW i \in Transports
               PROVE  since[i] <= N - 1
    BY DEF NoStarvation
  <2>1. since[i] \in Nat /\ Ahead(i) \in Nat
    BY DistanceFacts DEF TypeOK, Ahead
  <2> QED BY <2>1, NAssumption DEF Turn
<1> QED BY <1>1, <1>2, <1>3, TypeCorrect, ScanInvariant, PTL DEF Spec

\* A Send gives up only when no transport is usable (FailureMeansAllDead): the
\* scan that returns nil has passed every one of them.
THEOREM FailureIsExhaustive == Spec => FailureMeansAllDead
<1>1. TypeOK /\ Scanned /\ [Next]_vars
        => (pc # "idle" /\ pc' = "idle" /\ result' \in {"4xx", "5xx", "code0"}
              => \A i \in Transports : ~Eligible(i))
  <2> SUFFICES ASSUME TypeOK, Scanned, [Next]_vars, pc # "idle", pc' = "idle",
                      result' \in {"4xx", "5xx", "code0"}, NEW i \in Transports
               PROVE  ~Eligible(i)
    OBVIOUS
  <2>1. CASE ScanEnds
    <3>1. /\ cursor \in Transports /\ scan \in Transports /\ pc = "scan"
          /\ ~Eligible(scan) /\ MoveCursor(scan) = cursor
      BY <2>1 DEF ScanEnds, BackAtStart, TypeOK
    <3>2. Distance(cursor, scan) = N - 1 /\ Distance(cursor, i) \in 0 .. N - 1
      BY <3>1, ScanFacts, DistanceFacts
    <3>3. CASE Distance(cursor, i) = Distance(cursor, scan)
      BY <3>1, <3>3, DistanceInjective
    <3>4. CASE Distance(cursor, i) < Distance(cursor, scan)
      BY <3>1, <3>4 DEF Scanned
    <3> QED BY <3>2, <3>3, <3>4, NAssumption
  <2>2. CASE AttemptReturns
    BY <2>2 DEF AttemptReturns, AttemptSucceeds, AttemptFails, IsTransportError
  <2>3. CASE UNCHANGED vars \/ Release
    BY <2>3, ReleaseKeepsSend DEF vars, sendVars
  <2> QED
    BY <2>1, <2>2, <2>3 DEF Next, Choose, SelectCurrent, ScanBegins, ScanTakes,
                            ScanMoves, Attempt, Call, Tick
<1> QED BY <1>1, TypeCorrect, ScanInvariant, PTL DEF Spec, FailureMeansAllDead

\* A failover stays with the transport that works (StickyAfterSuccess): the
\* first attempt after a success goes to the same transport.
THEOREM FailoverIsSticky == Spec => StickyAfterSuccess
<1>1. Init => Stays
  BY DEF Init, Stays
<1>2. TypeOK /\ Stays /\ [Next]_vars => Stays'
  <2> SUFFICES ASSUME TypeOK, Stays, [Next]_vars PROVE Stays'
    OBVIOUS
  <2>1. CASE ScanTakes
    BY <2>1 DEF ScanTakes, Attempt, Stays, TypeOK
  <2>2. CASE SelectCurrent
    BY <2>2 DEF SelectCurrent, CurrentUsable, Attempt, Stays, TypeOK, choiceVars
  <2>3. CASE ScanEnds
    <3>1. result' # "ok" /\ pc' = "idle"
      BY <2>3 DEF ScanEnds, TypeOK
    <3> QED BY <3>1 DEF Stays
  <2>begin. CASE ScanBegins
    <3>1. sticky => agg # "none" \/ result # "ok"
      BY <2>begin DEF ScanBegins, CurrentUsable, Stays, Transports, None
    <3> QED BY <2>begin, <3>1 DEF ScanBegins, Stays, choiceVars
  <2>move. CASE ScanMoves
    BY <2>move DEF ScanMoves, Stays, choiceVars
  <2>4. CASE Call
    BY <2>4 DEF Call, Stays, choiceVars
  <2>5. CASE AttemptSucceeds
    BY <2>5 DEF AttemptSucceeds, Stays, choiceVars
  <2>6. ASSUME NEW e \in SendError, AttemptFails(e) PROVE Stays'
    <3>1. CASE IsTransportError(e)
      BY <2>6, <3>1 DEF AttemptFails, AggregateCode, Stays, TypeOK
    <3>2. CASE ~IsTransportError(e)
      BY <2>6, <3>2 DEF AttemptFails, Stays, SendError
    <3> QED BY <3>1, <3>2
  <2>7. CASE Tick
    BY <2>7 DEF Tick, Stays, TypeOK, choiceVars
  <2>8. CASE UNCHANGED vars \/ Release
    BY <2>8, ReleaseKeepsSend DEF Stays, vars, sendVars, choiceVars
  <2> QED
    BY <2>1, <2>2, <2>3, <2>begin, <2>move, <2>4, <2>5, <2>6, <2>7, <2>8
       DEF Next, Choose, AttemptReturns
<1>3. TypeOK /\ Stays /\ [Next]_vars
        => (sticky /\ pc # "attempt" /\ pc' = "attempt" /\ agg = "none"
            /\ result = "ok" => idx' = idx)
  <2> SUFFICES ASSUME TypeOK, Stays, [Next]_vars, sticky, pc # "attempt",
                      pc' = "attempt", agg = "none", result = "ok"
               PROVE  idx' = idx
    OBVIOUS
  <2>1. idx \in Transports /\ current = idx /\ pc # "scan"
    BY DEF Stays
  <2>2. CASE SelectCurrent
    BY <2>1, <2>2 DEF SelectCurrent, Attempt
  <2>3. CASE ScanBegins \/ ScanTakes \/ ScanMoves \/ ScanEnds
    BY <2>1, <2>3 DEF ScanBegins, ScanTakes, ScanMoves, ScanEnds
  <2>4. CASE Call \/ AttemptReturns \/ Tick
    BY <2>4 DEF Call, AttemptReturns, AttemptSucceeds, AttemptFails, Tick
  <2>5. CASE UNCHANGED vars \/ Release
    BY <2>5, ReleaseKeepsSend DEF vars, sendVars
  <2> QED BY <2>2, <2>3, <2>4, <2>5 DEF Next, Choose
<1> QED BY <1>1, <1>2, <1>3, TypeCorrect, PTL DEF Spec, StickyAfterSuccess

\* The strengthening of CodeIsLifted: the aggregate carries a code of this Send
\* as soon as there is one.
Lifted ==
    pc # "idle" => IF codes = {} THEN agg \in {"none", "code0"} ELSE agg \in codes

\* The aggregate error carries a code if a transport returned one (CodeIsLifted),
\* for any number of transports and attempts.
THEOREM CodeReachesCaller == Spec => []CodeIsLifted
<1> DEFINE IInv == Lifted /\ CodeIsLifted
<1>1. Init => IInv
  BY DEF Init, Lifted, CodeIsLifted
<1>2. TypeOK /\ IInv /\ [Next]_vars => IInv'
  <2> SUFFICES ASSUME TypeOK, Lifted, CodeIsLifted, [Next]_vars PROVE IInv'
    OBVIOUS
  <2>1. CASE SelectCurrent \/ ScanBegins \/ ScanTakes \/ ScanMoves
    BY <2>1 DEF SelectCurrent, ScanBegins, ScanTakes, ScanMoves, Attempt, Lifted,
                CodeIsLifted
  <2>2. CASE ScanEnds
    BY <2>2 DEF ScanEnds, Lifted, CodeIsLifted, TypeOK
  <2>3. CASE Call
    BY <2>3 DEF Call, Lifted, CodeIsLifted
  <2>4. CASE AttemptSucceeds
    BY <2>4 DEF AttemptSucceeds, Lifted, CodeIsLifted
  <2>5. ASSUME NEW e \in SendError, AttemptFails(e) PROVE IInv'
    <3>1. CASE IsTransportError(e)
      BY <2>5, <3>1 DEF AttemptFails, AggregateCode, Lifted, CodeIsLifted, TypeOK,
                        SendError
    <3>2. CASE ~IsTransportError(e)
      BY <2>5, <3>2 DEF AttemptFails, IsTransportError, Lifted, CodeIsLifted
    <3> QED BY <3>1, <3>2
  <2>6. CASE Tick
    BY <2>6 DEF Tick, Lifted, CodeIsLifted
  <2>7. CASE UNCHANGED vars \/ Release
    BY <2>7, ReleaseKeepsSend DEF vars, sendVars, Lifted, CodeIsLifted
  <2> QED
    BY <2>1, <2>2, <2>3, <2>4, <2>5, <2>6, <2>7
       DEF Next, Choose, AttemptReturns
<1> QED BY <1>1, <1>2, TypeCorrect, PTL DEF Spec

\* The strengthening of CloseReleases: a transport that is in use and that
\* closeAll has passed is spared.
InUseIsSpared == pc = "attempt" /\ idx < closer => idx \in spared

\* Close releases the connections of all transports that are not in use
\* (CloseReleases), for any number of transports, however Close, Send and the
\* failures of members interleave.
THEOREM CloseIsComplete == Spec => []CloseReleases
<1> DEFINE IInv == InUseIsSpared /\ CloseReleases
<1>1. Init => IInv
  BY DEF Init, InUseIsSpared, CloseReleases
<1>2. TypeOK /\ IInv /\ [Next]_vars => IInv'
  <2> SUFFICES ASSUME TypeOK, InUseIsSpared, CloseReleases, [Next]_vars PROVE IInv'
    OBVIOUS
  <2>1. ASSUME NEW i \in Transports, Attempt(i) PROVE IInv'
    BY <2>1 DEF Attempt, InUseIsSpared, CloseReleases
  <2>2. ASSUME UNCHANGED closeVars, pc' # "attempt" \/ (pc = "attempt" /\ idx' = idx)
        PROVE IInv'
    BY <2>2 DEF closeVars, InUseIsSpared, CloseReleases
  <2>3. CASE Choose
    <3>1. CASE SelectCurrent
      BY <2>1, <3>1 DEF SelectCurrent, CurrentUsable, TypeOK
    <3>2. CASE ScanTakes
      BY <2>1, <3>2 DEF ScanTakes, TypeOK
    <3>3. CASE ScanBegins \/ ScanMoves \/ ScanEnds
      BY <2>2, <3>3 DEF ScanBegins, ScanMoves, ScanEnds
    <3> QED BY <2>3, <3>1, <3>2, <3>3 DEF Choose
  <2>4. CASE Call \/ AttemptReturns \/ Tick \/ UNCHANGED vars
    BY <2>2, <2>4 DEF Call, AttemptReturns, AttemptSucceeds, AttemptFails, Tick, vars
  <2>5. CASE Connect
    <3>1. UNCHANGED <<pc, idx, closer, spared>> /\ open' \subseteq open \cup {idx}
      BY <2>5 DEF Connect, sendVars
    <3>2. idx < closer => idx \in spared
      BY <2>5 DEF Connect, InUseIsSpared
    <3> QED BY <3>1, <3>2 DEF InUseIsSpared, CloseReleases
  <2>6. CASE CallClose
    BY <2>6, NAssumption
       DEF CallClose, sendVars, InUseIsSpared, CloseReleases, TypeOK, Transports, None
  <2>7. CASE CloseMember
    <3>1. /\ closer \in Int /\ closer' = closer + 1 /\ UNCHANGED <<pc, idx>>
          /\ idx \in Int /\ open \subseteq Int
      BY <2>7, NAssumption DEF CloseMember, sendVars, TypeOK, Transports, None
    <3>2. open' \subseteq open /\ spared \subseteq spared'
      BY <2>7 DEF CloseMember
    <3>3. closer \in open' => closer \in spared'
      BY <2>7 DEF CloseMember
    <3>4. pc = "attempt" /\ idx = closer => idx \in spared'
      BY <2>7 DEF CloseMember, InUse
    <3>5. InUseIsSpared'
      BY <3>1, <3>2, <3>4 DEF InUseIsSpared
    <3>6. CloseReleases'
      BY <3>1, <3>2, <3>3 DEF CloseReleases
    <3> QED BY <3>5, <3>6
  <2> QED BY <2>3, <2>4, <2>5, <2>6, <2>7 DEF Next, Release
<1> QED BY <1>1, <1>2, TypeCorrect, PTL DEF Spec
==============================================================================
