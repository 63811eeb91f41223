---------------------------- MODULE ReadDeadline ----------------------------
(***************************************************************************)
(* What a read deadline promises (spec.md: "SetDeadline variants arm a     *)
(* timer; once fired, subsequent Read/Write fail with a timeout error      *)
(* until the deadline is cleared or moved into the future").  A deadline   *)
(* is none, armed or expired.  It changes only by a SetReadDeadline call,  *)
(* to the call's target, or by an armed deadline expiring.  A call takes   *)
(* effect at once or, if it is a longer operation, somewhere between its   *)
(* start and its return.  A Read returns a message that has arrived or,    *)
(* only while the deadline is expired, a timeout.                          *)
(***************************************************************************)
EXTENDS Naturals

VARIABLES
    dl,       \* "none", "armed" or "expired"
    busy,     \* a SetReadDeadline call is in progress
    target,   \* the deadline that call sets
    queued,   \* messages that have arrived and not been read
    result    \* what the last Read returned

avars == <<dl, busy, target, queued, result>>

DlStates == {"none", "armed", "expired"}

\* What a call's effect may leave: a deadline in the past is armed until
\* its timer has run, which happens at once.
Effect(d) == IF d = "expired" THEN {"armed", "expired"} ELSE {d}

Init ==
    /\ dl = "none"
    /\ busy = FALSE
    /\ target = "none"
    /\ queued = 0
    /\ result = "none"

\* a call that takes effect in one step
SetDeadline(d) ==
    /\ ~busy
    /\ dl' \in Effect(d)
    /\ target' = d
    /\ UNCHANGED <<busy, queued, result>>

\* the start of a longer call, which may already take effect
BeginSet(d) ==
    /\ ~busy
    /\ busy' = TRUE
    /\ target' = d
    /\ dl' \in {dl, d}
    /\ UNCHANGED <<queued, result>>

\* the return of a longer call, by which it has taken effect
EndSet ==
    /\ busy
    /\ busy' = FALSE
    /\ dl' = target
    /\ UNCHANGED <<target, queued, result>>

Expire ==
    /\ dl = "armed"
    /\ dl' = "expired"
    /\ UNCHANGED <<busy, target, queued, result>>

Arrive ==
    /\ queued' = queued + 1
    /\ UNCHANGED <<dl, busy, target, result>>

ReadData ==
    /\ queued > 0
    /\ queued' = queued - 1
    /\ result' = "data"
    /\ UNCHANGED <<dl, busy, target>>

ReadTimeout ==
    /\ dl = "expired"
    /\ result' = "timeout"
    /\ UNCHANGED <<dl, busy, target, queued>>

Next ==
    \/ \E d \in DlStates : SetDeadline(d) \/ BeginSet(d)
    \/ EndSet \/ Expire \/ Arrive \/ ReadData \/ ReadTimeout

Spec == Init /\ [][Next]_avars
=============================================================================
