------------------------- MODULE BaseTransportProofs -------------------------
(***************************************************************************)
(* Proofs about the throttle of BaseTransport, for any number of callers   *)
(* and any rates.                                                          *)
(***************************************************************************)
EXTENDS BaseTransport, TLAPS

\* Inductive: the only sleeper holds throttleMu, so neither the rate nor
\* lastSent changes under it, and its timer does not fire before its slot.
Sleeper ==
    /\ \A p \in Callers : pc[p] = "sleep" <=> throttleMu = p
    /\ throttleMu # Nobody => /\ interval # 0 /\ age # Never
                              /\ age + timer >= interval

IInv == TypeOK /\ Sleeper

\* The invariant holds initially.
LEMMA InitInv == Init => IInv
BY CallersAssumption, IntervalAssumption DEF Init, IInv, TypeOK, Sleeper, Never

\* Every step keeps the invariant.
LEMMA NextInv == IInv /\ [Next]_vars => IInv'
<1> SUFFICES ASSUME IInv, [Next]_vars PROVE IInv'
  OBVIOUS
<1> USE CallersAssumption, IntervalAssumption DEF IInv, TypeOK, Sleeper, Never
<1>1. CASE Tick
  BY <1>1 DEF Tick
<1>2. ASSUME NEW i \in 0 .. MaxInterval, SetMaxPerSecond(i) PROVE IInv'
  BY <1>2 DEF SetMaxPerSecond
<1>3. ASSUME NEW p \in Callers, Call(p) PROVE IInv'
  BY <1>3 DEF Call, Goto
<1>4. ASSUME NEW p \in Callers, CtxDone(p) PROVE IInv'
  BY <1>4 DEF CtxDone
<1>5. ASSUME NEW p \in Callers, Unthrottled(p) PROVE IInv'
  BY <1>5 DEF Unthrottled, LeaveThrottle, Return, Goto
<1>6. ASSUME NEW p \in Callers, TakeSlot(p) PROVE IInv'
  <2>1. /\ pc' \in [Callers -> {"idle", "prepare", "throttle", "sleep",
                                "deliver"}]
        /\ done' \in [Callers -> BOOLEAN]
        /\ \A q \in Callers : pc[q] # "sleep" /\ pc'[q] # "sleep"
    BY <1>6 DEF TakeSlot, LeaveThrottle, Return, Goto
  <2>2. age' = 0 /\ UNCHANGED <<interval, throttleMu, timer>>
        /\ throttleMu = Nobody
    BY <1>6 DEF TakeSlot
  <2> QED BY <2>1, <2>2
<1>7. ASSUME NEW p \in Callers, Sleep(p) PROVE IInv'
  BY <1>7 DEF Sleep, HoldThrottle, Goto
<1>8. ASSUME NEW p \in Callers, Prepare(p) PROVE IInv'
  BY <1>8 DEF Prepare, Return, Goto
<1>9. ASSUME NEW p \in Callers, Wake(p) PROVE IInv'
  BY <1>9 DEF Wake, LeaveThrottle, Return, Goto
<1>10. ASSUME NEW p \in Callers, Interrupt(p) PROVE IInv'
  BY <1>10 DEF Interrupt, Return, Goto
<1>11. ASSUME NEW p \in Callers, Deliver(p) PROVE IInv'
  BY <1>11 DEF Deliver, Return, Goto
<1>12. CASE UNCHANGED vars
  BY <1>12 DEF vars
<1> QED
  BY <1>1, <1>2, <1>3, <1>4, <1>5, <1>6, <1>7, <1>8, <1>9, <1>10, <1>11, <1>12
     DEF Next, Acquire, Run

\* Type correctness of the throttle's state.
THEOREM TypeCorrect == Spec => []TypeOK
<1>1. IInv => TypeOK
  BY DEF IInv
<1> QED BY InitInv, NextInv, <1>1, PTL DEF Spec

\* A caller is let through only when its slot is due.
LEMMA StepIsDue ==
  ASSUME IInv, Next
  PROVE  /\ \A p \in Callers : pc[p] # "deliver" /\ pc'[p] = "deliver"
               => interval = 0 \/ age = Never \/ age >= interval
         /\ age > 0 /\ age' = 0 => age >= interval
<1> USE CallersAssumption, IntervalAssumption DEF IInv, TypeOK, Sleeper, Never
<1>1. CASE Tick
  BY <1>1 DEF Tick
<1>2. ASSUME NEW i \in 0 .. MaxInterval, SetMaxPerSecond(i)
      PROVE  age' # 0 /\ pc' = pc
  BY <1>2 DEF SetMaxPerSecond
<1>3. ASSUME NEW p \in Callers,
             Call(p) \/ CtxDone(p) \/ Prepare(p) \/ Interrupt(p)
             \/ Deliver(p) \/ Sleep(p)
      PROVE  age' = age /\ \A q \in Callers : pc'[q] \in {pc[q], "idle",
                                     "prepare", "throttle", "sleep"}
  BY <1>3 DEF Call, CtxDone, Prepare, Interrupt, Deliver, Sleep, Return, Goto
<1>4. ASSUME NEW p \in Callers, Unthrottled(p)
      PROVE  interval = 0 /\ age' = age
  BY <1>4 DEF Unthrottled
<1>5. ASSUME NEW p \in Callers, TakeSlot(p)
      PROVE  age = Never \/ age >= interval
  BY <1>5 DEF TakeSlot
<1>6. ASSUME NEW p \in Callers, Wake(p)
      PROVE  age >= interval
  BY <1>6 DEF Wake
<1> QED BY <1>1, <1>2, <1>3, <1>4, <1>5, <1>6 DEF Next, Acquire, Run

\* Two messages are let through at least an interval apart (RateLimit), and the
\* throttle clock moves only when a slot is due (ClockMovesWhenDue), whichever
\* callers wait, are cancelled or change the rate.
THEOREM ThrottleIsKept == Spec => RateLimit /\ ClockMovesWhenDue
<1>1. IInv /\ [Next]_vars =>
         /\ [\A p \in Callers : pc[p] # "deliver" /\ pc'[p] = "deliver"
               => interval = 0 \/ age = Never \/ age >= interval]_vars
         /\ [age > 0 /\ age' = 0 => age >= interval]_vars
  BY StepIsDue DEF vars
<1> QED BY InitInv, NextInv, <1>1, PTL DEF Spec, RateLimit, ClockMovesWhenDue
==============================================================================
