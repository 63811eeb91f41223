----------------------------- MODULE Estimators -----------------------------
(***************************************************************************)
(* The RTT and receive-rate estimators of udtSocket (udtsocket.go          *)
(* 1088-1121): integer exponentially weighted moving averages on Go's      *)
(* uint, computed under rttProt / receiveRateProt, so each update is one   *)
(* atomic step and only its arithmetic is modelled.  The values are       *)
(* naturals: x*7 + y wraps a 32-bit uint only for an RTT above 600 s or a  *)
(* rate above 600 million packets per second, so the width is left out.    *)
(***************************************************************************)
EXTENDS Naturals, TLAPS

absdiff(a, b) == IF a < b THEN b - a ELSE a - b

\* s.rtt = (s.rtt*7 + rtt) >> 3, also deliveryRate and bandwidth
Ewma(x, y) == (x * 7 + y) \div 8

\* s.rttVar = (s.rttVar*3 + absdiff(s.rtt, rtt)) >> 2
VarEwma(v, d) == (v * 3 + d) \div 4

\* applyRTT: the variance is updated with the rtt before this sample
applyRTT(rtt, rttVar, sample) ==
    [rtt |-> Ewma(rtt, sample), rttVar |-> VarEwma(rttVar, absdiff(rtt, sample))]

\* applyReceiveRates: a zero sample leaves its estimate alone
applyRate(est, sample) == IF sample > 0 THEN Ewma(est, sample) ELSE est

-----------------------------------------------------------------------------

\* A new RTT or rate estimate lies between the old estimate and the sample,
\* so the estimators never leave the range of what they have been given
\* (applyRTT 1099, applyReceiveRates 1115, 1118).
THEOREM EwmaBetween ==
  ASSUME NEW x \in Nat, NEW y \in Nat
  PROVE  /\ x <= y => x <= Ewma(x, y) /\ Ewma(x, y) <= y
         /\ y <= x => y <= Ewma(x, y) /\ Ewma(x, y) <= x
  BY DEF Ewma

\* The estimate stands still exactly when it is at most 7 below the sample:
\* the floor of >> 3 stops an estimate that rises towards a steady sample 1
\* to 7 units short of it, while a falling estimate always reaches the sample
\* (applyRTT 1099; the same for bandwidth, which starts at 1, 807).
THEOREM EwmaFixedPoints ==
  ASSUME NEW x \in Nat, NEW y \in Nat
  PROVE  Ewma(x, y) = x <=> (x <= y /\ y < x + 8)
  BY DEF Ewma

\* The variance estimate lies between the old variance and the deviation
\* of the sample (applyRTT 1098).
THEOREM VarBetween ==
  ASSUME NEW v \in Nat, NEW d \in Nat
  PROVE  /\ v <= d => v <= VarEwma(v, d) /\ VarEwma(v, d) <= d
         /\ d <= v => d <= VarEwma(v, d) /\ VarEwma(v, d) <= v
  BY DEF VarEwma
=============================================================================
