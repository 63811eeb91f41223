------------------------------ MODULE Deadline ------------------------------
(***************************************************************************)
(* The read deadline of a udtSocket (src/udt/udtsocket.go): the user's     *)
(* SetReadDeadline -> setDeadline (725-750) on s.readDeadline and          *)
(* s.readDeadlinePassed, a concurrent Read blocked in fetchReadPacket      *)
(* (502-522), the time.Timer objects setDeadline creates and reuses, and   *)
(* the arrival of messages on s.messageIn.  The socket is connected, so    *)
(* Read calls fetchReadPacket(true).                                       *)
(*                                                                         *)
(* A deadline is "zero" (no deadline), "past" or "future" relative to the  *)
(* call's time.Now(); a past deadline's timer fires at once, a future      *)
(* one's at some later moment, and both are a Fire step.                   *)
(***************************************************************************)
EXTENDS Naturals

CONSTANTS
    MaxCalls,    \* number of SetReadDeadline calls the user makes
    MaxMsgs,     \* number of messages that arrive on messageIn
    TimerChan    \* "buffered": a fired value stays in C across Stop (Go
                 \* before 1.23); "sync": Stop discards it (Go 1.23 on)

ASSUME DeadlineAssumption ==
    /\ MaxCalls \in Nat \ {0}
    /\ MaxMsgs \in Nat
    /\ TimerChan \in {"buffered", "sync"}

Timers == 1 .. MaxCalls          \* setDeadline creates at most one per call
NoTimer == 0                     \* a nil *time.Timer
Deadlines == {"zero", "past", "future"}

VARIABLES
    field,      \* s.readDeadline: a timer or NoTimer
    passed,     \* s.readDeadlinePassed
    tmr,        \* state of every timer: "none" (not created), "active",
                \* "fired" (a value is waiting in its channel C), "idle"
    made,       \* timers created so far
    upc,        \* pc of the user: "idle", "drain", "reset"
    udl,        \* the deadline of the user's current call
    uold,       \* oldTime of the current call
    calls,      \* calls made
    rpc,        \* pc of the reader: "top", "select", "ticked", "returned"
    rcap,       \* the timer whose channel the reader's select waits on
    rres,       \* what the reader's last Read returned
    msgs,       \* messages waiting in messageIn
    sent,       \* messages that have arrived
    expired     \* (history) the deadline in force has passed

vars == <<field, passed, tmr, made, upc, udl, uold, calls, rpc, rcap, rres,
          msgs, sent, expired>>

TypeOK ==
    /\ field \in Timers \cup {NoTimer}
    /\ passed \in BOOLEAN
    /\ tmr \in [Timers -> {"none", "active", "fired", "idle"}]
    /\ made \in 0 .. MaxCalls
    /\ upc \in {"idle", "drain", "reset"}
    /\ udl \in Deadlines
    /\ uold \in Timers \cup {NoTimer}
    /\ calls \in 0 .. MaxCalls
    /\ rpc \in {"top", "select", "ticked", "returned"}
    /\ rcap \in Timers \cup {NoTimer}
    /\ rres \in {"none", "data", "timeout"}
    /\ msgs \in 0 .. MaxMsgs
    /\ sent \in 0 .. MaxMsgs
    /\ expired \in BOOLEAN

\* Timer.Stop: an active timer will not fire; whether a value already in C
\* survives depends on the Go version
Stopped(st) ==
    IF st = "active" \/ (st = "fired" /\ TimerChan = "sync") THEN "idle" ELSE st

Init ==
    /\ field = NoTimer
    /\ passed = FALSE
    /\ tmr = [t \in Timers |-> "none"]
    /\ made = 0
    /\ upc = "idle"
    /\ udl = "zero"
    /\ uold = NoTimer
    /\ calls = 0
    /\ rpc = "top"
    /\ rcap = NoTimer
    /\ rres = "none"
    /\ msgs = 0
    /\ sent = 0
    /\ expired = FALSE

\* mutant: the past-deadline test reads dl.After(now) for dl.Before(now)
SetCall_swapped(dl) ==
    /\ upc = "idle"
    /\ calls < MaxCalls
    /\ calls' = calls + 1
    /\ udl' = dl
    /\ \/ /\ field = NoTimer
          /\ dl = "zero"
          /\ expired' = FALSE
          /\ UNCHANGED <<field, passed, tmr, made, upc, uold>>
       \/ /\ field = NoTimer
          /\ dl # "zero"
          /\ made' = made + 1
          /\ tmr' = [tmr EXCEPT ![made + 1] = "active"]
          /\ field' = made + 1
          /\ expired' = FALSE
          /\ UNCHANGED <<passed, upc, uold>>
       \/ /\ field # NoTimer
          /\ passed' = (dl = "future" \/ passed)
          /\ expired' = (dl = "past" \/ expired)
          /\ uold' = field
          /\ field' = IF dl = "zero" THEN NoTimer ELSE field
          /\ tmr' = [tmr EXCEPT ![field] = Stopped(@)]
          /\ upc' = "drain"
          /\ UNCHANGED made
    /\ UNCHANGED <<rpc, rcap, rres, msgs, sent>>

(***************************************************************************)
(* setDeadline up to its blocking receive (725-742).  With no timer yet, a *)
(* non-zero deadline creates one and the call ends.  Otherwise a past      *)
(* deadline sets timerPassed, a zero one clears the field, and the old     *)
(* timer is stopped.                                                       *)
(***************************************************************************)
SetCall(dl) ==
    /\ upc = "idle"
    /\ calls < MaxCalls
    /\ calls' = calls + 1
    /\ udl' = dl
    /\ \/ /\ field = NoTimer
          /\ dl = "zero"
          /\ expired' = FALSE
          /\ UNCHANGED <<field, passed, tmr, made, upc, uold>>
       \/ /\ field = NoTimer
          /\ dl # "zero"
          /\ made' = made + 1
          /\ tmr' = [tmr EXCEPT ![made + 1] = "active"]
          /\ field' = made + 1
          /\ expired' = FALSE
          /\ UNCHANGED <<passed, upc, uold>>
       \/ /\ field # NoTimer
          /\ passed' = (dl = "past" \/ passed)
          /\ expired' = (dl = "past" \/ expired)
          /\ uold' = field
          /\ field' = IF dl = "zero" THEN NoTimer ELSE field
          /\ tmr' = [tmr EXCEPT ![field] = Stopped(@)]
          /\ upc' = "drain"
          /\ UNCHANGED made
    /\ UNCHANGED <<rpc, rcap, rres, msgs, sent>>

\* _, _ = <-oldTime.C (743): blocks until the old timer's channel has a value
Drain ==
    /\ upc = "drain"
    /\ tmr[uold] = "fired"
    /\ tmr' = [tmr EXCEPT ![uold] = "idle"]
    /\ upc' = IF udl = "future" THEN "reset" ELSE "idle"
    /\ expired' = IF udl = "zero" THEN FALSE ELSE expired
    /\ UNCHANGED <<field, passed, made, udl, uold, calls, rpc, rcap, rres,
                   msgs, sent>>

\* a future deadline: *timerPassed = false; oldTime.Reset(...) (744-747)
ResetTimer ==
    /\ upc = "reset"
    /\ passed' = FALSE
    /\ tmr' = [tmr EXCEPT ![uold] = "active"]
    /\ expired' = FALSE
    /\ upc' = "idle"
    /\ UNCHANGED <<field, made, udl, uold, calls, rpc, rcap, rres, msgs, sent>>

\* the runtime fires an active timer once its time has come
Fire(t) ==
    /\ tmr[t] = "active"
    /\ tmr' = [tmr EXCEPT ![t] = "fired"]
    /\ expired' = (t = field \/ expired)
    /\ UNCHANGED <<field, passed, made, upc, udl, uold, calls, rpc, rcap, rres,
                   msgs, sent>>

\* the receive processor delivers a message to messageIn
Arrive ==
    /\ sent < MaxMsgs
    /\ sent' = sent + 1
    /\ msgs' = msgs + 1
    /\ UNCHANGED <<field, passed, tmr, made, upc, udl, uold, calls, rpc, rcap,
                   rres, expired>>

(***************************************************************************)
(* fetchReadPacket(true) (505-522): a set timerPassed fails the Read;      *)
(* otherwise the loop loads s.readDeadline.C and selects on messageIn and  *)
(* that channel.  A received tick sets readDeadlinePassed.  Timer channels *)
(* are never closed, so the !ok branch does not occur.                     *)
(***************************************************************************)
RdTop ==
    /\ rpc = "top"
    /\ IF passed
         THEN /\ rpc' = "returned"
              /\ rres' = "timeout"
              /\ UNCHANGED rcap
         ELSE /\ rcap' = field
              /\ rpc' = "select"
              /\ UNCHANGED rres
    /\ UNCHANGED <<field, passed, tmr, made, upc, udl, uold, calls, msgs, sent,
                   expired>>

RdMsg ==
    /\ rpc = "select"
    /\ msgs > 0
    /\ msgs' = msgs - 1
    /\ rpc' = "returned"
    /\ rres' = "data"
    /\ UNCHANGED <<field, passed, tmr, made, upc, udl, uold, calls, rcap, sent,
                   expired>>

RdTick ==
    /\ rpc = "select"
    /\ rcap # NoTimer
    /\ tmr[rcap] = "fired"
    /\ tmr' = [tmr EXCEPT ![rcap] = "idle"]
    /\ rpc' = "ticked"
    /\ UNCHANGED <<field, passed, made, upc, udl, uold, calls, rcap, rres,
                   msgs, sent, expired>>

RdTimedOut ==
    /\ rpc = "ticked"
    /\ passed' = TRUE
    /\ rpc' = "returned"
    /\ rres' = "timeout"
    /\ UNCHANGED <<field, tmr, made, upc, udl, uold, calls, rcap, msgs, sent,
                   expired>>

\* the caller reads again
RdAgain ==
    /\ rpc = "returned"
    /\ rpc' = "top"
    /\ UNCHANGED <<field, passed, tmr, made, upc, udl, uold, calls, rcap, rres,
                   msgs, sent, expired>>

Next ==
    \/ \E dl \in Deadlines : SetCall(dl)
    \/ Drain \/ ResetTimer
    \/ \E t \in Timers : Fire(t)
    \/ Arrive
    \/ RdTop \/ RdMsg \/ RdTick \/ RdTimedOut \/ RdAgain

(***************************************************************************)
(* Fairness: a timer fires once its time has passed, and a runnable        *)
(* goroutine runs.  When the user calls and when messages arrive is up to  *)
(* the environment.                                                        *)
(***************************************************************************)
Fairness ==
    /\ \A t \in Timers : WF_vars(Fire(t))
    /\ WF_vars(Drain) /\ WF_vars(ResetTimer)
    /\ WF_vars(RdTop) /\ WF_vars(RdMsg) /\ WF_vars(RdTick) /\ WF_vars(RdTimedOut)

Spec == Init /\ [][Next]_vars /\ Fairness

-----------------------------------------------------------------------------
(* Properties *)

\* A Read fails with ETIMEDOUT only when the deadline in force has passed:
\* after SetReadDeadline clears the deadline or moves it into the future,
\* no Read times out until that deadline expires (fetchReadPacket's flag
\* test and tick, against setDeadline's writes of timerPassed).
TimeoutOnlyAfterExpiry ==
    [][(rpc # "returned" /\ rpc' = "returned" /\ rres' = "timeout") => expired]_vars

\* SetReadDeadline returns: the receive from the old timer's channel in
\* setDeadline (743) does not block forever.
SetDeadlineReturns == upc = "drain" ~> upc # "drain"

\* A Read blocked in fetchReadPacket when its deadline passes returns: the
\* comment on SetReadDeadline (749-750) promises that a new deadline applies
\* to "any currently-blocked Read call".
BlockedReadTimesOut == (rpc = "select" /\ expired) ~> rpc # "select"

-----------------------------------------------------------------------------
(* Refinement of the abstract read deadline *)

\* The deadline as the user sees it: expired once it has passed, otherwise
\* armed while s.readDeadline holds a timer.
AbsDl == IF expired THEN "expired" ELSE IF field = NoTimer THEN "none" ELSE "armed"

\* The deadline a call sets.
TargetOf(d) == IF d = "zero" THEN "none" ELSE IF d = "past" THEN "expired" ELSE "armed"

Abs == INSTANCE ReadDeadline
         WITH dl <- AbsDl, busy <- (upc # "idle"), target <- TargetOf(udl),
              queued <- msgs, result <- rres

\* setDeadline and fetchReadPacket implement the abstract read deadline:
\* the deadline changes only by a SetReadDeadline call, to that call's
\* target and by the time it returns, or by an armed deadline expiring, and
\* a Read times out only while the deadline is expired.
DeadlineRefines == Abs!Spec
=============================================================================
