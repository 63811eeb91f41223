--------------------------- MODULE Deadline_proofs ---------------------------
(***************************************************************************)
(* Proofs about the read deadline: type correctness, and that a Read never *)
(* fails with ETIMEDOUT unless the deadline in force has passed, for every *)
(* number of SetReadDeadline calls and messages, and with either channel   *)
(* semantics of time.Timer.                                                *)
(***************************************************************************)
EXTENDS Deadline, TLAPS

USE DeadlineAssumption

\* a timer that can still deliver a value: it will fire or it has fired
Live(t) == tmr[t] \in {"active", "fired"}

\* TypeOK split into the Boolean variables, which Zenon handles, and the
\* rest, which SMT handles.
BoolTypes == passed \in BOOLEAN /\ expired \in BOOLEAN

DataTypes ==
    /\ field \in Timers \cup {NoTimer}
    /\ tmr \in [Timers -> {"none", "active", "fired", "idle"}]
    /\ made \in 0 .. MaxCalls
    /\ upc \in {"idle", "drain", "reset"}
    /\ udl \in Deadlines
    /\ uold \in Timers \cup {NoTimer}
    /\ calls \in 0 .. MaxCalls
    /\ rpc \in {"top", "select", "ticked", "returned"}
    /\ rcap \in Timers \cup {NoTimer}
    /\ rres \in {"none", "data", "timeout"}
    /\ msgs \in 0 .. MaxMsgs
    /\ sent \in 0 .. MaxMsgs

LEMMA TypeSplit == TypeOK <=> BoolTypes /\ DataTypes
  BY Zenon DEF TypeOK, BoolTypes, DataTypes

(***************************************************************************)
(* The strengthening of TypeOK.  Timers are created in order, one per    *)
(* call at most, and the only active one is the field's.  A fired timer    *)
(* belongs to an expired deadline, and is the field's timer or the one a   *)
(* pending setDeadline is draining.  Once timerPassed is set, no timer is  *)
(* active again and the field stays set: a tick that set it was consumed,  *)
(* and a past deadline's call drains the timer and does not Reset it.  A   *)
(* past deadline's call has expired the deadline from its start.  A       *)
(* reader that took a tick sees no live timer and no user about to Reset   *)
(* or to create a timer; a user about to Reset sees no live timer.  These  *)
(* are what let a later step clear expired.                                *)
(***************************************************************************)
Strength ==
    /\ made <= calls
    /\ msgs <= sent
    /\ \A t \in Timers : (tmr[t] = "none") <=> (t > made)
    /\ field # NoTimer => tmr[field] # "none"
    /\ \A t \in Timers : tmr[t] = "active" => t = field
    /\ \A t \in Timers : tmr[t] = "fired" =>
           expired /\ (t = field \/ (upc = "drain" /\ t = uold))
    /\ passed => expired
    /\ (upc = "drain" /\ udl = "past") => expired
    /\ passed => (upc = "drain" \/ field # NoTimer)
    /\ passed => \A t \in Timers :
           /\ tmr[t] # "active"
           /\ tmr[t] = "fired" => (upc = "drain" /\ udl = "past" /\ t = uold)
    /\ rpc = "ticked" =>
           /\ expired
           /\ \A t \in Timers : ~Live(t)
           /\ upc # "reset"
           /\ upc = "idle" => field # NoTimer
    /\ upc = "drain" =>
           /\ uold \in Timers
           /\ tmr[uold] # "none"
           /\ field = IF udl = "zero" THEN NoTimer ELSE uold
    /\ upc = "reset" =>
           /\ udl = "future"
           /\ uold \in Timers
           /\ field = uold
           /\ \A t \in Timers : ~Live(t)

\* The inductive invariant.
IInv == BoolTypes /\ DataTypes /\ Strength

LEMMA IInit == Init => IInv
<1> SUFFICES ASSUME Init PROVE IInv
  OBVIOUS
<1>1. BoolTypes
  BY Zenon DEF Init, BoolTypes
<1>2. DataTypes
  BY DEF Init, DataTypes, Timers, NoTimer, Deadlines
<1>3. Strength
  BY DEF Init, Strength, Timers, NoTimer, Live
<1>4. QED
  BY <1>1, <1>2, <1>3 DEF IInv

\* What Stop leaves of a timer's state.
LEMMA StoppedRange ==
  ASSUME NEW st \in {"none", "active", "fired", "idle"}
  PROVE  /\ Stopped(st) \in {"none", "active", "fired", "idle"}
         /\ Stopped(st) # "active"
         /\ Stopped(st) = "none" <=> st = "none"
         /\ Stopped(st) = "fired" => st = "fired"
  BY DEF Stopped

\* Every step keeps the Boolean variables Boolean.
LEMMA BoolStep == BoolTypes /\ [Next]_vars => BoolTypes'
  BY Zenon DEF BoolTypes, Next, vars, SetCall, Drain, ResetTimer, Fire, Arrive,
               RdTop, RdMsg, RdTick, RdTimedOut, RdAgain

LEMMA IStep == IInv /\ [Next]_vars => IInv'
<1> SUFFICES ASSUME BoolTypes, DataTypes, Strength, [Next]_vars
             PROVE  BoolTypes' /\ DataTypes' /\ Strength'
  BY DEF IInv
<1>0. BoolTypes'
  BY BoolStep
<1> USE <1>0 DEF BoolTypes, DataTypes, Strength, Timers, NoTimer, Deadlines, Live
<1>1. ASSUME NEW dl \in Deadlines, SetCall(dl) PROVE DataTypes' /\ Strength'
  <2>1. CASE field = NoTimer /\ dl = "zero"
    <3>1. DataTypes'
      BY <1>1, <2>1 DEF SetCall
    <3>2. Strength'
      BY <1>1, <2>1 DEF SetCall
    <3>3. QED
      BY <3>1, <3>2
  <2>2. CASE field = NoTimer /\ dl # "zero"
    <3>1. DataTypes'
      BY <1>1, <2>2 DEF SetCall
    <3>2. Strength'
      BY <1>1, <2>2 DEF SetCall
    <3>3. QED
      BY <3>1, <3>2
  <2>3. CASE field # NoTimer
    <3>1. tmr[field] \in {"none", "active", "fired", "idle"}
      BY <2>3
    <3>2. QED
      BY <1>1, <2>3, <3>1, StoppedRange DEF SetCall
  <2>4. QED
    BY <2>1, <2>2, <2>3
<1>2. CASE Drain
  <2>1. DataTypes'
    BY <1>2 DEF Drain
  <2>2. Strength'
    BY <1>2 DEF Drain
  <2>3. QED
    BY <2>1, <2>2
<1>3. CASE ResetTimer
  <2>1. DataTypes'
    BY <1>3 DEF ResetTimer
  <2>2. Strength'
    BY <1>3 DEF ResetTimer
  <2>3. QED
    BY <2>1, <2>2
<1>4. ASSUME NEW t \in Timers, Fire(t) PROVE DataTypes' /\ Strength'
  <2>1. DataTypes'
    BY <1>4 DEF Fire
  <2>2. Strength'
    BY Zenon, <1>4 DEF Fire
  <2>3. QED
    BY <2>1, <2>2
<1>5. CASE Arrive
  BY <1>5 DEF Arrive
<1>6. CASE RdTop
  BY <1>6 DEF RdTop
<1>7. CASE RdMsg
  BY <1>7 DEF RdMsg
<1>8. CASE RdTick
  BY <1>8 DEF RdTick
<1>9. CASE RdTimedOut
  BY <1>9 DEF RdTimedOut
<1>10. CASE RdAgain
  BY <1>10 DEF RdAgain
<1>11. CASE UNCHANGED vars
  BY <1>11 DEF vars
<1>12. QED
  BY <1>0, <1>1, <1>2, <1>3, <1>4, <1>5, <1>6, <1>7, <1>8, <1>9, <1>10, <1>11
     DEF Next

\* The variables of the read deadline keep their types (TypeOK).
THEOREM TypeCorrect == Spec => []TypeOK
<1>1. Spec => []IInv
  BY IInit, IStep, PTL DEF Spec
<1>2. QED
  BY <1>1, TypeSplit, PTL DEF IInv

\* The step a Read returns ETIMEDOUT in.
ReturnsTimeout == rpc # "returned" /\ rpc' = "returned" /\ rres' = "timeout"

\* Only fetchReadPacket's two timeout returns end a Read with ETIMEDOUT, and
\* each is reached from a state whose deadline has passed.
LEMMA TimeoutStep ==
  IInv /\ [Next]_vars => [ReturnsTimeout => expired]_vars
<1> SUFFICES ASSUME IInv, [Next]_vars, ReturnsTimeout PROVE expired
  BY DEF ReturnsTimeout
<1> USE DEF ReturnsTimeout
<1>1. CASE RdTop
  BY <1>1 DEF RdTop, IInv, Strength
<1>2. CASE RdTimedOut
  BY <1>2 DEF RdTimedOut, IInv, Strength
<1>3. CASE RdMsg
  BY <1>3 DEF RdMsg
<1>4. CASE ~RdTop /\ ~RdTimedOut /\ ~RdMsg
  \* every other step leaves rpc alone or leaves "returned"
  BY Zenon, <1>4 DEF Next, vars, SetCall, Drain, ResetTimer, Fire, Arrive, RdTick,
              RdAgain
<1>5. QED
  BY <1>1, <1>2, <1>3, <1>4

\* A Read fails with a timeout only after its deadline has passed, for every
\* number of calls and messages (fetchReadPacket against setDeadline).
THEOREM NoSpuriousTimeout == Spec => TimeoutOnlyAfterExpiry
<1>1. Spec => []IInv
  BY IInit, IStep, PTL DEF Spec
<1>2. IInv /\ [Next]_vars => [ReturnsTimeout => expired]_vars
  BY TimeoutStep
<1>3. QED
  BY <1>1, <1>2, PTL DEF Spec, TimeoutOnlyAfterExpiry, ReturnsTimeout

-----------------------------------------------------------------------------
(* Refinement *)

LEMMA RefInit == Init => Abs!Init
  BY DEF Init, Abs!Init, AbsDl, TargetOf, NoTimer

\* Every step of setDeadline, of the timers and of fetchReadPacket is a step
\* of the abstract read deadline or leaves its variables alone.
LEMMA RefStep == IInv /\ [Next]_vars => [Abs!Next]_Abs!avars
<1> SUFFICES ASSUME BoolTypes, DataTypes, Strength, [Next]_vars
             PROVE  [Abs!Next]_Abs!avars
  BY DEF IInv
<1> USE DEF BoolTypes, DataTypes, Strength, Timers, NoTimer, Deadlines, Live,
            AbsDl, TargetOf, Abs!avars, Abs!DlStates
<1>1. ASSUME NEW dl \in Deadlines, SetCall(dl) PROVE [Abs!Next]_Abs!avars
  <2>1. CASE field = NoTimer
    <3>1. Abs!SetDeadline(TargetOf(dl))
      BY <1>1, <2>1 DEF SetCall, Abs!SetDeadline, Abs!Effect
    <3>2. QED
      BY <3>1 DEF Abs!Next
  <2>2. CASE field # NoTimer
    <3>1. Abs!BeginSet(TargetOf(dl))
      BY <1>1, <2>2 DEF SetCall, Abs!BeginSet
    <3>2. QED
      BY <3>1 DEF Abs!Next
  <2>3. QED
    BY <2>1, <2>2
<1>2. CASE Drain
  <2>1. CASE udl = "future"
    BY <1>2, <2>1 DEF Drain
  <2>2. CASE udl # "future"
    <3>1. Abs!EndSet
      BY <1>2, <2>2 DEF Drain, Abs!EndSet
    <3>2. QED
      BY <3>1 DEF Abs!Next
  <2>3. QED
    BY <2>1, <2>2
<1>3. CASE ResetTimer
  <2>1. Abs!EndSet
    BY <1>3 DEF ResetTimer, Abs!EndSet
  <2>2. QED
    BY <2>1 DEF Abs!Next
<1>4. ASSUME NEW t \in Timers, Fire(t) PROVE [Abs!Next]_Abs!avars
  <2>1. CASE t = field /\ ~expired
    <3>1. expired' /\ field' = field /\ UNCHANGED <<upc, udl, msgs, rres>>
      BY <1>4, <2>1, Zenon DEF Fire
    <3>2. AbsDl = "armed" /\ AbsDl' = "expired"
      BY <2>1, <3>1
    <3>3. Abs!Expire
      BY <3>1, <3>2 DEF Abs!Expire
    <3>4. QED
      BY <3>3 DEF Abs!Next
  <2>2. CASE ~(t = field /\ ~expired)
    BY <1>4, <2>2 DEF Fire
  <2>3. QED
    BY <2>1, <2>2
<1>5. CASE Arrive
  <2>1. Abs!Arrive
    BY <1>5 DEF Arrive, Abs!Arrive
  <2>2. QED
    BY <2>1 DEF Abs!Next
<1>6. CASE RdTop
  <2>1. CASE passed
    <3>1. Abs!ReadTimeout
      BY <1>6, <2>1 DEF RdTop, Abs!ReadTimeout
    <3>2. QED
      BY <3>1 DEF Abs!Next
  <2>2. CASE ~passed
    BY <1>6, <2>2 DEF RdTop
  <2>3. QED
    BY <2>1, <2>2
<1>7. CASE RdMsg
  <2>1. Abs!ReadData
    BY <1>7 DEF RdMsg, Abs!ReadData
  <2>2. QED
    BY <2>1 DEF Abs!Next
<1>8. CASE RdTimedOut
  <2>1. Abs!ReadTimeout
    BY <1>8 DEF RdTimedOut, Abs!ReadTimeout
  <2>2. QED
    BY <2>1 DEF Abs!Next
<1>9. CASE RdTick \/ RdAgain \/ UNCHANGED vars
  BY <1>9 DEF RdTick, RdAgain, vars
<1>10. QED
  BY <1>1, <1>2, <1>3, <1>4, <1>5, <1>6, <1>7, <1>8, <1>9 DEF Next

\* The read deadline of udtSocket implements the abstract read deadline
\* (DeadlineRefines): setDeadline changes the deadline only to its call's
\* target, a timer only expires an armed deadline, and a Read times out only
\* while the deadline is expired.
THEOREM DeadlineRefinement == Spec => DeadlineRefines
<1>1. Spec => []IInv
  BY IInit, IStep, PTL DEF Spec
<1>2. QED
  BY <1>1, RefInit, RefStep, PTL DEF Spec, DeadlineRefines, Abs!Spec
=============================================================================
