---------------------------- MODULE TransportPool ----------------------------
(***************************************************************************)
(* RoundRobinTransport and FailoverTransport (src/transport/roundrobin.go, *)
(* src/transport/failover.go): the list of transports, the record of which *)
(* are dead and since when, the rotation, and the loop of Send that tries  *)
(* transports until one delivers, one reports an error that is not a       *)
(* transport error, or all are dead.                                       *)
(*                                                                         *)
(* A RoundRobinTransport starts every Send at the transport after the one  *)
(* used last.  A FailoverTransport (sticky) wraps a round-robin pool and   *)
(* uses the current transport until it is marked dead.                     *)
(*                                                                         *)
(* sendMu serialises Send, so one call is in flight at a time.  Close runs *)
(* beside it without that mutex (src/transport/close.go).  Time is         *)
(* counted in ticks; dead[i] is how long ago transport i was marked dead,  *)
(* and ages beyond the retry period need not be told apart.                *)
(***************************************************************************)
EXTENDS Integers

CONSTANTS
    N,              \* number of transports
    RetryPeriod,    \* ticks after which a dead transport is tried again
    AttemptTime     \* ticks one attempt may take at most

ASSUME NAssumption == N \in Nat \ {0}
ASSUME PeriodAssumption == RetryPeriod \in Nat /\ AttemptTime \in Nat

Transports == 0 .. N - 1
None == -1

\* dead[i] = Live: no entry for i in t.dead.
Live == -1
Aged == RetryPeriod + 1

\* What a transport's Send may return.  "4xx" stands for any response code below
\* 500, "5xx" for one from 500; "code0" is a transport error without a
\* response code; "invalid" is the ErrInvalidArgument of a DoSend hook, which
\* BaseTransport wraps into a TransportError; "other" is any error outside
\* ErrTransport (a context error, validation before DoSend).
SendError == {"4xx", "5xx", "code0", "invalid", "other"}

VARIABLES
    sticky,     \* TRUE: FailoverTransport, FALSE: RoundRobinTransport
    cursor,     \* t.cursor; None: not initialized
    dead,       \* t.dead
    pc,         \* "idle", "select", "scan" (in nextTransportLocked) or "attempt"
    scan,       \* the local cursor of nextTransportLocked; None outside its loop
    idx,        \* transport of the current or last attempt
    agg,        \* code of aggErr; "none": aggErr is nil
    result,     \* what the last completed Send returned
    spent,      \* ticks spent in the current attempt
    codes,      \* response codes the transports returned to the current Send
    current,    \* FailoverTransport.currentIndex; None: t.current is nil
    since,      \* round-robin selections since i was last selected or not eligible
    open,       \* transports with an open connection
    closer,     \* closeAll has closed the transports before this one; None: no Close yet
    spared      \* of those, the ones in use since then or whose Close failed

choiceVars == <<sticky, current, since>>
closeVars == <<open, closer, spared>>
vars == <<choiceVars, closeVars, cursor, dead, pc, scan, idx, agg, result, spent,
          codes>>

Init ==
    /\ sticky \in BOOLEAN /\ current = None
    /\ cursor = None /\ dead = [i \in Transports |-> Live]
    /\ pc = "idle" /\ scan = None /\ idx = None /\ agg = "none" /\ result = "none"
    /\ spent = 0 /\ codes = {}
    /\ since = [i \in Transports |-> 0]
    /\ open = {} /\ closer = None /\ spared = {}

------------------------------------------------------------------------------
(* Rotation and dead tracking.                                             *)

\* Mutations: the wrap-around comes one too late; the cursor does not move.
MoveCursorLate(c) == IF c + 1 > N THEN 0 ELSE c + 1
MoveCursorStays(c) == c

\* moveCursor
MoveCursor(c) == IF c + 1 >= N THEN 0 ELSE c + 1

Due(i) == dead[i] > RetryPeriod

\* A transport nextTransportLocked would return.
Eligible(i) == dead[i] = Live \/ Due(i)

\* isTransportError
IsTransportError(e) == e # "other"

\* Mutation: a failure without a response code overwrites the code.
LastCode(e) == IF e \in {"4xx", "5xx"} THEN e ELSE "code0"

\* smtpCode: the aggregate keeps the last code that is not 0.
AggregateCode(e) ==
    IF e \in {"4xx", "5xx"} THEN e
    ELSE IF agg = "none" THEN "code0" ELSE agg

------------------------------------------------------------------------------
(* The loop of Send.                                                       *)

Call ==
    /\ pc = "idle"
    /\ pc' = "select" /\ agg' = "none"
    /\ codes' = {}
    /\ UNCHANGED <<choiceVars, closeVars, cursor, dead, scan, idx, result, spent>>

Attempt(i) ==
    /\ pc' = "attempt" /\ idx' = i /\ spent' = 0 /\ scan' = None
    /\ spared' = IF i < closer THEN spared \cup {i} ELSE spared
    /\ UNCHANGED <<agg, result, codes, open, closer>>

\* The seed of the cursor is random, and 0 in a FailoverTransport.
Cursors == IF cursor # None THEN {cursor} ELSE IF sticky THEN {0} ELSE Transports

\* Mutation: every Send moves on.
NeverUsable == FALSE

\* FailoverTransport.nextTransport: t.current is set and isCurrentDead is false.
CurrentUsable == sticky /\ current # None /\ dead[current] = Live

SelectCurrent ==
    /\ pc = "select" /\ CurrentUsable
    /\ Attempt(current)
    /\ UNCHANGED <<choiceVars, cursor, dead>>

\* nextTransportLocked begins its scan at the cursor.
ScanBegins ==
    /\ pc = "select" /\ ~CurrentUsable
    /\ pc' = "scan" /\ cursor' \in Cursors /\ scan' = cursor'
    /\ UNCHANGED <<choiceVars, closeVars, dead, idx, agg, result, spent, codes>>

\* It returns a transport that is live, or revives one that is due.
ScanTakes ==
    /\ pc = "scan" /\ Eligible(scan)
    /\ cursor' = MoveCursor(scan) /\ dead' = [dead EXCEPT ![scan] = Live]
    /\ Attempt(scan)
    /\ current' = IF sticky THEN scan ELSE None
    /\ since' = [k \in Transports |->
                   IF ~sticky /\ k # scan /\ Eligible(k) THEN since[k] + 1 ELSE 0]
    /\ UNCHANGED sticky

\* Mutation: the last transport before the start is not looked at.
BackAtStartEarly == MoveCursor(MoveCursor(scan)) = cursor

\* The scan has come round to where it started.
BackAtStart == MoveCursor(scan) = cursor

ScanMoves ==
    /\ pc = "scan" /\ ~Eligible(scan) /\ ~BackAtStart
    /\ scan' = MoveCursor(scan)
    /\ UNCHANGED <<choiceVars, closeVars, cursor, dead, pc, idx, agg, result, spent,
                   codes>>

\* It returns nil, and Send the aggregate, or "No transports found" (code 0)
\* when it has tried none.
ScanEnds ==
    /\ pc = "scan" /\ ~Eligible(scan) /\ BackAtStart
    /\ pc' = "idle" /\ scan' = None /\ current' = None
    /\ result' = IF agg = "none" THEN "code0" ELSE agg
    /\ UNCHANGED <<sticky, since, closeVars, cursor, dead, idx, agg, spent, codes>>

Choose == SelectCurrent \/ ScanBegins \/ ScanTakes \/ ScanMoves \/ ScanEnds

AttemptSucceeds ==
    /\ pc = "attempt"
    /\ pc' = "idle" /\ result' = "ok"
    /\ UNCHANGED <<choiceVars, closeVars, cursor, dead, scan, idx, agg, spent, codes>>

\* Mutation: the failed transport stays in rotation.
LeaveLive(i) == UNCHANGED dead

\* markDead
MarkDead(i) == dead' = [dead EXCEPT ![i] = 0]

AttemptFails(e) ==
    /\ pc = "attempt"
    /\ codes' = codes \cup ({e} \cap {"4xx", "5xx"})
    /\ IF IsTransportError(e)
       THEN MarkDead(idx) /\ pc' = "select" /\ agg' = AggregateCode(e)
            /\ UNCHANGED result
       ELSE pc' = "idle" /\ result' = e /\ UNCHANGED <<dead, agg>>
    /\ UNCHANGED <<choiceVars, closeVars, cursor, scan, idx, spent>>

\* Time passes between calls and while a transport is sending; a scan, which
\* holds the mutex and waits for nothing, takes none.
Tick ==
    /\ pc = "idle" \/ (pc = "attempt" /\ spent < AttemptTime)
    /\ dead' = [i \in Transports |->
                  IF dead[i] \in {Live, Aged} THEN dead[i] ELSE dead[i] + 1]
    /\ spent' = IF pc = "attempt" THEN spent + 1 ELSE spent
    /\ UNCHANGED <<choiceVars, closeVars, cursor, pc, scan, idx, agg, result, codes>>

AttemptReturns == AttemptSucceeds \/ \E e \in SendError : AttemptFails(e)

------------------------------------------------------------------------------
(* Close, which does not wait for the Send in flight.                      *)

sendVars == <<choiceVars, cursor, dead, pc, scan, idx, agg, result, spent, codes>>

\* The transport that is sending opens or loses its connection.
Connect ==
    /\ pc = "attempt" /\ open' \in {open \cup {idx}, open \ {idx}}
    /\ UNCHANGED <<sendVars, closer, spared>>

CallClose ==
    /\ closer \in {None, N}
    /\ closer' = 0 /\ spared' = {}
    /\ UNCHANGED <<sendVars, open>>

InUse == IF pc = "attempt" THEN {idx} ELSE {}

\* Mutation: an error ends the loop.
CloseMemberOrStop ==
    /\ closer \in Transports
    /\ \/ /\ open' = open \ {closer}
          /\ closer' = closer + 1
          /\ spared' = spared \cup ({closer} \cap InUse)
       \/ /\ UNCHANGED open /\ spared' = spared \cup {closer}
          /\ closer' = N
    /\ UNCHANGED sendVars

\* One turn of closeAll.  A member's own mutex lets Close in between two tries
\* of a Send that goes on.  A transport that is no io.Closer has no connection.
CloseMember ==
    /\ closer \in Transports
    /\ closer' = closer + 1
    /\ \/ /\ open' = open \ {closer}
          /\ spared' = spared \cup ({closer} \cap InUse)
       \/ UNCHANGED open /\ spared' = spared \cup {closer}
    /\ UNCHANGED sendVars

Release == Connect \/ CallClose \/ CloseMember

Next == Choose \/ Call \/ AttemptReturns \/ Tick \/ Release

Spec == Init /\ [][Next]_vars

\* Send runs, and every transport's Send returns.
FairSpec == Spec /\ WF_vars(Choose) /\ WF_vars(AttemptReturns)

------------------------------------------------------------------------------

TypeOK ==
    /\ sticky \in BOOLEAN
    /\ cursor \in Transports \cup {None}
    /\ dead \in [Transports -> {Live} \cup 0 .. Aged]
    /\ pc \in {"idle", "select", "scan", "attempt"}
    /\ scan \in Transports \cup {None} /\ (pc = "scan" <=> scan # None)
    /\ pc = "scan" => cursor # None
    /\ idx \in Transports \cup {None} /\ (pc = "attempt" => idx # None)
    /\ agg \in {"none", "4xx", "5xx", "code0"}
    /\ result \in SendError \cup {"none", "ok"}
    /\ spent \in Nat
    /\ codes \subseteq {"4xx", "5xx"}
    /\ current \in Transports \cup {None}
    /\ since \in [Transports -> Nat]
    /\ open \subseteq Transports /\ spared \subseteq Transports
    /\ closer \in {None} \cup 0 .. N

\* The load is spread: a transport of a RoundRobinTransport that stays usable is
\* selected at least once in every N selections, whichever others fail, die or
\* come back meanwhile.
NoStarvation == \A i \in Transports : since[i] <= N - 1

\* The transport that delivered the last message is the first one the next Send
\* of a FailoverTransport tries, however much time has passed and whichever
\* others have become usable again.
StickyAfterSuccess ==
    [][(sticky /\ pc # "attempt" /\ pc' = "attempt" /\ agg = "none"
        /\ result = "ok")
          => idx' = idx]_vars

\* A Send that gives up has left no transport untried: at that moment every one
\* of them, wherever the scan began and whichever were marked dead or have come
\* back during this Send, is dead and not due.
FailureMeansAllDead ==
    [][(pc # "idle" /\ pc' = "idle" /\ result' \in {"4xx", "5xx", "code0"})
          => \A i \in Transports : ~Eligible(i)]_vars

\* The code of the aggregate error tells the caller whether to retry: it is the
\* code of one of the transports tried, and 0 only if none returned a code,
\* whatever the order of failures with and without one.
CodeIsLifted ==
    pc = "idle" /\ result \in {"4xx", "5xx", "code0"} =>
       IF codes = {} THEN result = "code0" ELSE result \in codes

\* Close releases connections although Send goes on beside it and members fail
\* to close: a transport closeAll has passed has an open connection only if it
\* has been in use since, or if its own Close failed.
CloseReleases == \A i \in open : i < closer => i \in spared

\* Every Send returns.
SendReturns == pc = "select" ~> pc = "idle"
==============================================================================
