---------------------------- MODULE BaseTransport ----------------------------
(***************************************************************************)
(* BaseTransport of src/transport.go: the pipeline every transport's Send  *)
(* goes through (validation, throttle, the DoSend hook), run by any number *)
(* of goroutines, while SetMaxPerSecond changes the rate.                  *)
(*                                                                         *)
(* A goroutine that has to wait for its slot sleeps while it holds         *)
(* throttleMu.  Time is counted in ticks; age is the time since lastSent,  *)
(* and ages from MaxInterval on need not be told apart.                    *)
(***************************************************************************)
EXTENDS Integers

CONSTANTS
    Callers,        \* goroutines that call Send
    Nobody,         \* holder of a free mutex, not a caller
    MaxInterval     \* longest interval between messages, in ticks

ASSUME CallersAssumption == Nobody \notin Callers
ASSUME IntervalAssumption == MaxInterval \in Nat

\* lastSent is the zero time.
Never == -1

VARIABLES
    interval,       \* 1 / maxPerSecond in ticks; 0: no throttle
    age,            \* ticks since lastSent, or Never
    throttleMu,     \* holder of throttleMu
    timer,          \* ticks until the sleeper's timer fires
    pc,             \* control point of each caller
    done            \* the context of its call was cancelled or has expired

vars == <<interval, age, throttleMu, timer, pc, done>>

Init ==
    /\ interval = 0 /\ age = Never /\ throttleMu = Nobody /\ timer = 0
    /\ pc = [p \in Callers |-> "idle"]
    /\ done = [p \in Callers |-> FALSE]

Goto(p, next) == pc' = [pc EXCEPT ![p] = next]

\* Send returns; its context concerns nobody any more.
Return(p) == Goto(p, "idle") /\ done' = [done EXCEPT ![p] = FALSE]

------------------------------------------------------------------------------

\* A new call; its context may be done already.
Call(p) ==
    /\ pc[p] = "idle"
    /\ Goto(p, "prepare")
    /\ \E d \in BOOLEAN : done' = [done EXCEPT ![p] = d]
    /\ UNCHANGED <<interval, age, throttleMu, timer>>

CtxDone(p) ==
    /\ pc[p] # "idle" /\ ~done[p]
    /\ done' = [done EXCEPT ![p] = TRUE]
    /\ UNCHANGED <<interval, age, throttleMu, timer, pc>>

\* The context check, the copies of message and envelope, NewSentMessage: each
\* may end the call before the throttle sees it.
Prepare(p) ==
    /\ pc[p] = "prepare"
    /\ \/ Return(p)
       \/ ~done[p] /\ Goto(p, "throttle") /\ UNCHANGED done
    /\ UNCHANGED <<interval, age, throttleMu, timer>>

\* checkThrottling returns ctx.Err(); without an error DoSend is called.
LeaveThrottle(p) ==
    IF done[p] THEN Return(p) ELSE Goto(p, "deliver") /\ UNCHANGED done

\* checkThrottling without a rate.
Unthrottled(p) ==
    /\ pc[p] = "throttle" /\ throttleMu = Nobody /\ interval = 0
    /\ LeaveThrottle(p)
    /\ UNCHANGED <<interval, age, throttleMu, timer>>

\* checkThrottling when the slot is free: lastSent = now.
TakeSlot(p) ==
    /\ pc[p] = "throttle" /\ throttleMu = Nobody /\ interval # 0
    /\ age = Never \/ age >= interval
    /\ age' = 0
    /\ LeaveThrottle(p)
    /\ UNCHANGED <<interval, throttleMu, timer>>

\* Mutation: throttleMu is released during the sleep.
HoldNothing(p) == throttleMu' = Nobody

\* The sleeper keeps throttleMu.
HoldThrottle(p) == throttleMu' = p

\* checkThrottling when the slot is taken: start a timer and wait.
Sleep(p) ==
    /\ pc[p] = "throttle" /\ throttleMu = Nobody /\ interval # 0
    /\ age # Never /\ age < interval
    /\ HoldThrottle(p) /\ timer' = interval - age
    /\ Goto(p, "sleep")
    /\ UNCHANGED <<interval, age, done>>

\* The timer has fired.
Wake(p) ==
    /\ pc[p] = "sleep" /\ timer = 0
    /\ age' = 0 /\ throttleMu' = Nobody
    /\ LeaveThrottle(p)
    /\ UNCHANGED <<interval, timer>>

\* Mutation: the interrupted sleeper leaves without unlocking.
InterruptLocked(p) ==
    /\ pc[p] = "sleep" /\ done[p]
    /\ timer' = 0
    /\ Return(p)
    /\ UNCHANGED <<interval, age, throttleMu>>

\* Mutation: the interrupted sleeper advances the throttle clock.
InterruptTakesSlot(p) ==
    /\ pc[p] = "sleep" /\ done[p]
    /\ timer' = 0 /\ throttleMu' = Nobody /\ age' = 0
    /\ Return(p)
    /\ UNCHANGED interval

\* The context ends the wait; lastSent is left alone.
Interrupt(p) ==
    /\ pc[p] = "sleep" /\ done[p]
    /\ timer' = 0 /\ throttleMu' = Nobody
    /\ Return(p)
    /\ UNCHANGED <<interval, age>>

\* DoSend returns, and Send with it.
Deliver(p) ==
    /\ pc[p] = "deliver"
    /\ Return(p)
    /\ UNCHANGED <<interval, age, throttleMu, timer>>

SetMaxPerSecond(i) ==
    /\ throttleMu = Nobody
    /\ interval' = i /\ age' = Never
    /\ UNCHANGED <<throttleMu, timer, pc, done>>

\* A tick of the clock; a timer that has fired stays at 0.
Tick ==
    /\ age' = IF age \in {Never, MaxInterval} THEN age ELSE age + 1
    /\ timer' = IF timer = 0 THEN 0 ELSE timer - 1
    /\ UNCHANGED <<interval, throttleMu, pc, done>>

------------------------------------------------------------------------------

\* Steps that need throttleMu.
Acquire(p) == Unthrottled(p) \/ TakeSlot(p) \/ Sleep(p)

\* Steps of a caller on its own; DoSend is taken to return.
Run(p) == Prepare(p) \/ Wake(p) \/ Interrupt(p) \/ Deliver(p)

Next ==
    \/ Tick
    \/ \E i \in 0 .. MaxInterval : SetMaxPerSecond(i)
    \/ \E p \in Callers : Call(p) \/ CtxDone(p) \/ Acquire(p) \/ Run(p)

Spec == Init /\ [][Next]_vars

\* Time passes, goroutines run, sync.Mutex does not starve a waiter.
FairSpec ==
    /\ Spec /\ WF_vars(Tick)
    /\ \A p \in Callers : WF_vars(Run(p)) /\ SF_vars(Acquire(p))

------------------------------------------------------------------------------

TypeOK ==
    /\ interval \in 0 .. MaxInterval /\ age \in {Never} \cup 0 .. MaxInterval
    /\ throttleMu \in Callers \cup {Nobody} /\ timer \in 0 .. MaxInterval
    /\ pc \in [Callers -> {"idle", "prepare", "throttle", "sleep", "deliver"}]
    /\ done \in [Callers -> BOOLEAN]

\* Two messages are let through at least an interval apart, whichever callers
\* wait, are cancelled or change the rate: lastSent is Never only until the
\* first message after SetMaxPerSecond.
RateLimit ==
    [][\A p \in Callers :
          pc[p] # "deliver" /\ pc'[p] = "deliver"
             => interval = 0 \/ age = Never \/ age >= interval]_vars

\* The throttle clock moves on only when the slot is due: a wait that its
\* context interrupts does not push back the callers behind it.
ClockMovesWhenDue == [][age > 0 /\ age' = 0 => age >= interval]_vars

\* Every Send returns once its slot comes, also one that waits behind sleepers
\* whose contexts end.
SendReturns == \A p \in Callers : pc[p] = "throttle" ~> pc[p] = "idle"
==============================================================================
