-------------------------- MODULE UdtSocket_proofs --------------------------
(***************************************************************************)
(* Machine-checked proofs about the connection management of UdtSocket,    *)
(* for every choice of the constants that ConstAssumption allows.          *)
(***************************************************************************)
EXTENDS UdtSocket, TLAPS

USE ConstAssumption DEF Socks

\* The handshake a socket sends is a well-formed packet: the fields it
\* copies from the socket (sendHandshake) have their types.
LEMMA SendHandshakeType ==
    ASSUME TypeOK, NEW s \in Socks, NEW req \in ReqTypes
    PROVE  sendHandshake(s, req) \in Packet
BY DEF TypeOK, sendHandshake, Handshake, Packet

\* Lowering the mtu to the peer's MaxPktSize keeps it one of the MTUs.
LEMMA MinOfType ==
    ASSUME NEW a \in MTUs, NEW b \in MTUs
    PROVE  MinOf(a, b) \in MTUs
BY DEF MinOf

\* The lowered mtu is at most each of the two, and equals the smaller.
LEMMA MinOfFacts ==
    ASSUME NEW a \in MTUs, NEW b \in MTUs
    PROVE  /\ MinOf(a, b) <= a /\ MinOf(a, b) <= b
           /\ b <= a => MinOf(a, b) = b
BY DEF MinOf

\* Done either releases a WaitGroup whose counter is positive or marks the
\* host crashed: the counter stays 0 or 1 and the field stays Boolean.
LEMMA DoneType ==
    ASSUME TypeOK, NEW s \in Socks, Done(s)
    PROVE  /\ wg' \in [Socks -> {0, 1}]
           /\ connectWait' \in [Socks -> BOOLEAN]
           /\ crashed' \subseteq Socks
<1>1. CASE connectWait[s] /\ wg[s] > 0
  <2>1. wg[s] = 1
    BY <1>1 DEF TypeOK
  <2>2. /\ wg' = [wg EXCEPT ![s] = 0]
        /\ connectWait' = [connectWait EXCEPT ![s] = FALSE]
        /\ crashed' = crashed
    BY <1>1, <2>1 DEF Done
  <2>3. QED
    BY <2>2 DEF TypeOK
<1>2. CASE ~(connectWait[s] /\ wg[s] > 0)
  <2>1. /\ crashed' = crashed \cup {s}
        /\ wg' = wg /\ connectWait' = connectWait
    BY <1>2 DEF Done
  <2>2. QED
    BY <2>1 DEF TypeOK
<1>3. QED
  BY <1>1, <1>2

\* The capture of the timer channels by goManageConnection's select.
LEMMA CaptureType ==
    ASSUME NEW to \in BOOLEAN, NEW re \in BOOLEAN, NEW li \in BOOLEAN
    PROVE  Capture(to, re, li) \in SUBSET TimerKinds
BY DEF Capture

-----------------------------------------------------------------------------
\* The initial states of newSocket / the multiplexer are well typed.
LEMMA TypeInit == Init => TypeOK
<1>1. (CHOOSE p \in Packet : TRUE) \in Packet
  <2>1. Packet # {}
    <3>1. PICK q \in InitSeqs : TRUE
      BY Zenon
    <3>2. PICK m \in MTUs : TRUE
      BY Zenon
    <3>3. [src |-> A, dst |-> NoSock, req |-> "Request", seq |-> q,
           mtu |-> m, dgram |-> TRUE] \in Packet
      BY <3>1, <3>2 DEF Packet, ReqTypes
    <3>4. QED
      BY <3>3
  <2>2. QED
    BY <2>1
<1> SUFFICES ASSUME Init PROVE TypeOK
  OBVIOUS
<1>2. rlPkt \in [Socks -> Packet]
  BY <1>1 DEF Init
<1>3. sd \in [Socks -> ShutdownArgs]
  BY DEF Init, ShutdownArgs, Terminal
<1>4. sockets \subseteq Socks /\ rvSockets \subseteq Socks
  BY DEF Init
<1>5. /\ sockState \in [Socks -> States]
      /\ dialErr \in [Socks -> {"none", "nil"} \cup Terminal]
      /\ cap \in [Socks -> SUBSET TimerKinds]
  BY DEF Init, States
<1>6. QED
  BY Zenon, <1>2, <1>3, <1>4, <1>5 DEF Init, TypeOK

\* Every step of the socket, its host and the network keeps the types.
LEMMA TypeStep == TypeOK /\ [Next]_vars => TypeOK'
<1> SUFFICES ASSUME TypeOK, [Next]_vars
             PROVE  TypeOK'
  BY Zenon
<1>1. ASSUME NEW s \in Socks, StartConnect(s)
      PROVE  TypeOK'
  <2>1. sendHandshake(s, "Request") \in Packet
    BY SendHandshakeType DEF ReqTypes
  <2>2. QED
    BY <1>1, <2>1 DEF StartConnect, TypeOK, States, TimerKinds,
                       chanVars, peerVars, muxVars, rlVars
<1>2. ASSUME NEW s \in Socks, StartRendezvous(s)
      PROVE  TypeOK'
  <2>1. sendHandshake(s, "Rendezvous") \in Packet
    BY SendHandshakeType DEF ReqTypes
  <2>2. QED
    BY <1>2, <2>1 DEF StartRendezvous, TypeOK, States, TimerKinds,
                       chanVars, peerVars, rlVars
<1>3. ASSUME NEW s \in Socks, WaitReturn(s)
      PROVE  TypeOK'
  BY <1>3 DEF WaitReturn, TypeOK, connectionError, Terminal, timerVars,
              waitVars, chanVars, peerVars, muxVars, mgrVars, rlVars
<1>4. ASSUME NEW s \in Socks, RhAccept(s)
      PROVE  TypeOK'
  <2> DEFINE p == rlPkt[s]
             m == MinOf(mtu[s], p.mtu)
  <2>1. p \in Packet
    BY DEF TypeOK
  <2>2. m \in MTUs
    BY Zenon, <2>1, MinOfType DEF TypeOK, Packet
  <2>3. Handshake(s, "Response", p.src, initPktSeq[s], m, isDatagram[s]) \in Packet
    BY <2>1, <2>2 DEF TypeOK, Handshake, Packet, ReqTypes
  <2>4. net' \subseteq Packet
    BY <1>4, <2>3 DEF RhAccept, TypeOK
  <2>5. /\ mtu' \in [Socks -> MTUs]
        /\ farSockID' \in [Socks -> Socks \cup {NoSock}]
    BY <1>4, <2>1, <2>2 DEF RhAccept, TypeOK, Packet
  <2>6. /\ rvSockets' \subseteq Socks
        /\ rl' \in [Socks -> {"idle", "accept", "release"}]
    BY <1>4 DEF RhAccept, TypeOK
  <2>7. /\ sockState' \in [Socks -> States]
        /\ launched' \in [Socks -> BOOLEAN]
        /\ connRetry' \in [Socks -> BOOLEAN]
        /\ connTimeout' \in [Socks -> BOOLEAN]
    BY <1>4 DEF RhAccept, TypeOK, States
  <2>8. QED
    BY <1>4, <2>4, <2>5, <2>6, <2>7 DEF RhAccept, TypeOK, waitVars,
                                        chanVars, mgrVars, userVars
<1>5. ASSUME NEW s \in Socks, RhRelease(s)
      PROVE  TypeOK'
  <2>1. sendHandshake(s, "Response") \in Packet
    BY SendHandshakeType DEF ReqTypes
  <2>2. QED
    BY <1>5, <2>1, DoneType DEF RhRelease, TypeOK, timerVars, chanVars,
                                peerVars, muxVars, mgrVars, userVars
<1>6. ASSUME NEW s \in Socks, FireRetry(s)
      PROVE  TypeOK'
  <2>1. /\ sendHandshake(s, "Request") \in Packet
        /\ sendHandshake(s, "Rendezvous") \in Packet
    BY SendHandshakeType DEF ReqTypes
  <2>2. \A again \in BOOLEAN :
          Capture(connTimeout[s], again, lingerTimer[s]) \in SUBSET TimerKinds
    BY CaptureType DEF TypeOK
  <2>3. net' \subseteq Packet
    BY <1>6, <2>1 DEF FireRetry, TypeOK
  <2> DEFINE again == sockState[s] \in {"Connecting", "Rendezvous"}
  <2>6. Capture(connTimeout[s], again, lingerTimer[s]) \in SUBSET TimerKinds
    BY DEF Capture
  <2>7. /\ cap' = [cap EXCEPT ![s] = Capture(connTimeout[s], again, lingerTimer[s])]
        /\ connRetry' = [connRetry EXCEPT ![s] = again]
    BY <1>6 DEF FireRetry
  <2>4. /\ cap' \in [Socks -> SUBSET TimerKinds]
        /\ connRetry' \in [Socks -> BOOLEAN]
    BY <2>6, <2>7 DEF TypeOK
  <2>5. QED
    BY <1>6, <2>3, <2>4 DEF FireRetry, TypeOK, waitVars, chanVars,
                             peerVars, muxVars, rlVars, userVars
<1>7. ASSUME NEW s \in Socks, FireTimeout(s)
      PROVE  TypeOK'
  <2>1. Capture(connTimeout[s], connRetry[s], lingerTimer[s]) \in SUBSET TimerKinds
    BY CaptureType DEF TypeOK
  <2>2. [to |-> "Timeout", linger |-> TRUE] \in ShutdownArgs
    BY DEF ShutdownArgs, Terminal
  <2>3. /\ cap' \in [Socks -> SUBSET TimerKinds]
        /\ rvSockets' \subseteq Socks
        /\ sd' \in [Socks -> ShutdownArgs]
        /\ mgr' \in [Socks -> {"none", "select", "release", "finish", "exited"}]
        /\ toPending' \in [Socks -> BOOLEAN]
    <3>1. CASE ~isOpen(sockState[s])
      BY <1>7, <2>1, <3>1 DEF FireTimeout, TypeOK, isOpen
    <3>2. CASE isOpen(sockState[s])
      <4>1. /\ rvSockets' \subseteq rvSockets
            /\ sd' = [sd EXCEPT ![s] = [to |-> "Timeout", linger |-> TRUE]]
            /\ mgr' = [mgr EXCEPT ![s] = IF connectWait[s] THEN "release" ELSE "finish"]
            /\ cap' = cap /\ toPending' = [toPending EXCEPT ![s] = FALSE]
        BY <1>7, <3>2 DEF FireTimeout, isOpen
      <4>2. QED
        BY <4>1, <2>2 DEF TypeOK
    <3>3. QED
      BY <3>1, <3>2
  <2>4. QED
    BY <1>7, <2>3 DEF FireTimeout, TypeOK, waitVars, chanVars, peerVars,
                       rlVars, userVars
<1>8. ASSUME NEW s \in Socks, SdRelease(s)
      PROVE  TypeOK'
  BY SMTT(30), <1>8, DoneType DEF SdRelease, TypeOK, timerVars, chanVars, peerVars,
                        muxVars, rlVars, userVars
<1>9. ASSUME NEW s \in Socks, SdFinish(s)
      PROVE  TypeOK'
  <2>1. sd[s].to \in States /\ sd[s].linger \in BOOLEAN
    BY DEF TypeOK, ShutdownArgs, Terminal, States
  <2>2. \A li \in BOOLEAN : Capture(FALSE, FALSE, li) \in SUBSET TimerKinds
    BY Zenon, CaptureType
  <2>3. QED
    BY Zenon, <1>9, <2>1, <2>2 DEF SdFinish, TypeOK, waitVars, peerVars,
                             rlVars, userVars
<1>10. ASSUME NEW s \in Socks, FireLinger(s)
       PROVE  TypeOK'
  BY <1>10 DEF FireLinger, TypeOK, timerVars, waitVars, peerVars, rlVars,
               userVars
<1>11. ASSUME NEW s \in Socks, NEW p \in net, RhConnecting(s, p)
       PROVE  TypeOK'
  <2>1. sendHandshake(s, "Response") \in Packet
    BY SendHandshakeType DEF ReqTypes
  <2>2. p \in Packet
    BY DEF TypeOK
  <2>3. QED
    BY <1>11, <2>1, <2>2 DEF RhConnecting, TypeOK, States, timerVars,
                              waitVars, chanVars, peerVars, muxVars,
                              mgrVars, userVars, rlVars
<1>12. ASSUME NEW s \in Socks, NEW p \in net, RhRendezvous(s, p)
       PROVE  TypeOK'
  <2>1. p \in Packet
    BY DEF TypeOK
  <2>2. QED
    BY <1>12, <2>1 DEF RhRendezvous, TypeOK, States, timerVars, waitVars,
                        chanVars, peerVars, muxVars, mgrVars, userVars,
                        rlVars
<1>13. ASSUME NEW s \in Socks, NEW p \in net, RhConnected(s, p)
       PROVE  TypeOK'
  <2>1. /\ sendHandshake(s, "Response") \in Packet
        /\ sendHandshake(s, "Response2") \in Packet
    BY SMTT(30), SendHandshakeType DEF ReqTypes
  <2>2. QED
    BY <1>13, <2>1 DEF RhConnected, TypeOK, timerVars, waitVars, chanVars,
                        peerVars, muxVars, mgrVars, rlVars, userVars
<1>14. ASSUME NEW p \in net, ListenerAccept(p)
       PROVE  TypeOK'
  <2>1. p \in Packet
    BY DEF TypeOK
  <2>2. MinOf(mtu[B], p.mtu) \in MTUs
    BY Zenon, <2>1, MinOfType DEF TypeOK, Packet
  <2>3. Handshake(B, "Response", A, p.seq, MinOf(mtu[B], p.mtu), p.dgram) \in Packet
    BY <2>1, <2>2 DEF Handshake, Packet, ReqTypes
  <2>4. QED
    BY <1>14, <2>1, <2>2, <2>3 DEF ListenerAccept, TypeOK, Packet, States,
                                   timerVars, waitVars, chanVars, rlVars,
                                   userVars
<1>15. ASSUME NEW p \in net, ListenerRefuse(p)
       PROVE  TypeOK'
  <2>1. p \in Packet
    BY DEF TypeOK
  <2>2. Handshake(B, "Refused", A, p.seq, mtu[B], p.dgram) \in Packet
    BY <2>1 DEF TypeOK, Handshake, Packet, ReqTypes
  <2>3. QED
    BY <1>15, <2>2 DEF ListenerRefuse, TypeOK, timerVars, waitVars,
                        chanVars, peerVars, muxVars, mgrVars, rlVars,
                        userVars
<1>16. ASSUME NEW p \in net, Lose(p)
       PROVE  TypeOK'
  BY <1>16 DEF Lose, TypeOK, timerVars, waitVars, chanVars, peerVars,
               muxVars, mgrVars, rlVars, userVars
<1>17. CASE UNCHANGED vars
  BY <1>17 DEF vars, TypeOK
<1>18. QED
  BY <1>1, <1>2, <1>3, <1>4, <1>5, <1>6, <1>7, <1>8, <1>9, <1>10, <1>11,
     <1>12, <1>13, <1>14, <1>15, <1>16, <1>17 DEF Next

\* Type correctness: every variable keeps the type TypeOK gives it, in
\* particular the connectWait counter never leaves {0, 1}: the runtime's
\* panic on a negative counter is the crash of the host, not a counter
\* below zero.
THEOREM TypeCorrect == Spec => []TypeOK
BY TypeInit, TypeStep, PTL DEF Spec

-----------------------------------------------------------------------------
(* The packet sizes of a dial.  The listener lowers B's mtu to the MaxPktSize *)
(* of A's request, which is A's own mtu while A has not launched; every       *)
(* HsResponse B sends carries B's mtu; A, accepting one, lowers its mtu to    *)
(* it.  B never runs a handshake of its own after the listener created it.    *)
\* B is created Connected by the listener and runs no handshake or timer
\* of its own: the listener's socket has no connTimeout or connRetry.
BState ==
    /\ sockState[B] \in {"Init", "Connected"}
    /\ (sockState[B] = "Connected") = accepted
    /\ rl[B] = "idle"
    /\ cap[B] = {} /\ mgr[B] \in {"none", "select"}

\* No socket of a dial ever enters sockStateRendezvous.
NoRendezvous == \A s \in Socks : sockState[s] # "Rendezvous"

\* The packet sizes the two sockets hold.
MtuOrder ==
    /\ launched[B] => accepted
    /\ launched[A] => accepted /\ mtu[A] = mtu[B]
    /\ accepted => mtu[B] <= mtu[A]

\* Every HsResponse of B in flight carries B's present mtu.
RespMtu == \A p \in net : p.src = B /\ p.req = "Response" => accepted /\ p.mtu = mtu[B]

\* Every handshake of A in flight carries A's mtu, until A launches.
ReqMtu == \A p \in net : p.src = A => p.mtu = mtu[A] \/ launched[A]

\* The response A's read loop is accepting is one of B's.
PendingResp == rl[A] # "idle" => accepted /\ rlPkt[A].src = B /\ rlPkt[A].mtu = mtu[B]

MtuInv ==
    Mode = "dial" =>
      BState /\ NoRendezvous /\ MtuOrder /\ RespMtu /\ ReqMtu /\ PendingResp

IInv == TypeOK /\ MtuInv

\* A step that leaves B's side alone and does not put A in Rendezvous.
Frame ==
    /\ sockState'[B] = sockState[B] /\ rl'[B] = rl[B]
    /\ cap'[B] = cap[B] /\ mgr'[B] = mgr[B] /\ accepted' = accepted
    /\ mtu'[B] = mtu[B] /\ launched'[B] = launched[B]
    /\ sockState'[A] # "Rendezvous"

\* In the initial state nothing has been sent, accepted or launched.
LEMMA MtuInit == Init => MtuInv
<1> SUFFICES ASSUME Init PROVE MtuInv
  OBVIOUS
<1>1. BState /\ NoRendezvous
  BY Zenon DEF Init, BState, NoRendezvous
<1>2. MtuOrder /\ PendingResp
  BY Zenon DEF Init, MtuOrder, PendingResp
<1>3. RespMtu /\ ReqMtu
  BY DEF Init, RespMtu, ReqMtu
<1>. QED
  BY <1>1, <1>2, <1>3 DEF MtuInv

\* Every step keeps MtuInv.  Each action is shown to touch only A's side
\* (the frame facts), and what it adds to the network is A's own handshake
\* or B's response with B's mtu.
LEMMA MtuStep == TypeOK /\ TypeOK' /\ MtuInv /\ [Next]_vars => MtuInv'
<1> SUFFICES ASSUME TypeOK, TypeOK', MtuInv, [Next]_vars, Mode = "dial"
             PROVE  BState' /\ NoRendezvous' /\ MtuOrder' /\ RespMtu' /\ ReqMtu'
                    /\ PendingResp'
  BY DEF MtuInv
<1> USE DEF timerVars, waitVars, chanVars, peerVars, muxVars, mgrVars, rlVars,
            userVars
<1>0. BState /\ NoRendezvous /\ MtuOrder /\ RespMtu /\ ReqMtu /\ PendingResp
  BY SMTT(30) DEF MtuInv
<1> USE DEF Frame
<1>1. ASSUME NEW s \in Socks, StartConnect(s)
      PROVE  BState' /\ NoRendezvous' /\ MtuOrder' /\ RespMtu' /\ ReqMtu'
             /\ PendingResp'
  <2>1. s = A /\ Frame /\ mtu' = mtu /\ launched' = launched /\ rl' = rl
        /\ rlPkt' = rlPkt
    BY <1>1 DEF StartConnect
  <2>2. \A q \in net' : q \in net \/ (q.src = A /\ q.mtu = mtu[A])
    BY <1>1, <2>1 DEF StartConnect, sendHandshake, Handshake
  <2>3. QED
    BY SMTT(30), <1>0, <2>1, <2>2 DEF BState, NoRendezvous, MtuOrder, RespMtu, ReqMtu, PendingResp
<1>2. ASSUME NEW s \in Socks, StartRendezvous(s)
      PROVE  FALSE
  BY <1>2 DEF StartRendezvous
<1>3. ASSUME NEW s \in Socks, WaitReturn(s)
      PROVE  BState' /\ NoRendezvous' /\ MtuOrder' /\ RespMtu' /\ ReqMtu'
             /\ PendingResp'
  BY <1>0, <1>3 DEF WaitReturn, BState, NoRendezvous, MtuOrder, RespMtu, ReqMtu, PendingResp
<1>4. ASSUME NEW s \in Socks, RhAccept(s)
      PROVE  BState' /\ NoRendezvous' /\ MtuOrder' /\ RespMtu' /\ ReqMtu'
             /\ PendingResp'
  <2>1. s = A /\ accepted /\ rlPkt[A].src = B /\ rlPkt[A].mtu = mtu[B]
    BY SMTT(30), <1>0, <1>4 DEF RhAccept, PendingResp, BState
  <2>2. mtu[B] <= mtu[A] /\ mtu[A] \in MTUs /\ mtu[B] \in MTUs
    BY <1>0, <2>1 DEF MtuOrder, TypeOK
  <2>3. MinOf(mtu[A], mtu[B]) = mtu[B]
    BY SMTT(30), <2>2, MinOfFacts
  <2>4. /\ mtu' = [mtu EXCEPT ![A] = mtu[B]]
        /\ launched' = [launched EXCEPT ![A] = TRUE]
        /\ Frame /\ rlPkt' = rlPkt
    <3>1. mtu' = [mtu EXCEPT ![A] = MinOf(mtu[A], rlPkt[A].mtu)]
      BY Zenon, <1>4, <2>1 DEF RhAccept
    <3>2. launched' = [launched EXCEPT ![A] = TRUE]
      BY <1>4, <2>1 DEF RhAccept
    <3>3. /\ sockState' = [sockState EXCEPT ![A] = "Connected"]
          /\ rl'[B] = rl[B] /\ rlPkt' = rlPkt /\ cap' = cap /\ mgr' = mgr
          /\ accepted' = accepted
      BY SMTT(30), <1>4, <2>1 DEF RhAccept
    <3>4. QED
      BY Zenon, <2>1, <2>3, <3>1, <3>2, <3>3 DEF TypeOK
  <2>5. \A q \in net' : q \in net \/ q.src = A
    BY <1>4, <2>1 DEF RhAccept, Handshake
  <2>6. MtuOrder'
    <3>1. mtu'[A] = mtu[B] /\ mtu'[B] = mtu[B] /\ launched'[B] = launched[B]
          /\ accepted' = accepted
      BY Zenon, <2>4 DEF TypeOK
    <3>2. mtu[B] \in Nat
      BY Zenon DEF TypeOK
    <3>3. QED
      BY <1>0, <2>1, <3>1, <3>2 DEF MtuOrder
  <2>7. RespMtu' /\ ReqMtu'
    BY <1>0, <2>4, <2>5 DEF RespMtu, ReqMtu, TypeOK
  <2>8. BState' /\ NoRendezvous' /\ PendingResp'
    BY Zenon, <1>0, <2>1, <2>4 DEF BState, NoRendezvous, PendingResp, TypeOK
  <2>9. QED
    BY <2>6, <2>7, <2>8
<1>5. ASSUME NEW s \in Socks, RhRelease(s)
      PROVE  BState' /\ NoRendezvous' /\ MtuOrder' /\ RespMtu' /\ ReqMtu'
             /\ PendingResp'
  <2>0. s = A
    BY Zenon, <1>0, <1>5 DEF RhRelease, BState
  <2>1. s = A /\ Frame /\ mtu' = mtu /\ launched' = launched /\ rlPkt' = rlPkt
        /\ rl'[A] = "idle"
    BY SMTT(30), <1>0, <1>5, <2>0 DEF RhRelease, TypeOK, NoRendezvous
  <2>2. \A q \in net' : q \in net \/ (q.src = A /\ q.mtu = mtu[A])
    <3>1. net' \subseteq net \cup {sendHandshake(s, "Response")}
      BY <1>5, Zenon DEF RhRelease
    <3>2. sendHandshake(s, "Response").src = A
          /\ sendHandshake(s, "Response").mtu = mtu[A]
      BY <2>0 DEF sendHandshake, Handshake
    <3>. QED
      BY <3>1, <3>2, Zenon
  <2>3. QED
    BY Zenon, <1>0, <2>1, <2>2 DEF BState, NoRendezvous, MtuOrder, RespMtu, ReqMtu, PendingResp
<1>6. ASSUME NEW s \in Socks, FireRetry(s)
      PROVE  BState' /\ NoRendezvous' /\ MtuOrder' /\ RespMtu' /\ ReqMtu'
             /\ PendingResp'
  <2>0. s = A
    BY <1>0, <1>6 DEF FireRetry, BState
  <2>1. s = A /\ Frame /\ mtu' = mtu /\ launched' = launched /\ rl' = rl
        /\ rlPkt' = rlPkt
    BY <1>0, <1>6, <2>0 DEF FireRetry, TypeOK, NoRendezvous
  <2>2. \A q \in net' : q \in net \/ (q.src = A /\ q.mtu = mtu[A])
    BY SMTT(30), <1>6, <2>1 DEF FireRetry, sendHandshake, Handshake
  <2>3. QED
    BY <1>0, <2>1, <2>2 DEF BState, NoRendezvous, MtuOrder, RespMtu, ReqMtu, PendingResp
<1>7. ASSUME NEW s \in Socks, FireTimeout(s)
      PROVE  BState' /\ NoRendezvous' /\ MtuOrder' /\ RespMtu' /\ ReqMtu'
             /\ PendingResp'
  <2>1. s = A
    BY Zenon, <1>0, <1>7 DEF FireTimeout, BState
  <2>2. /\ sockState' = sockState /\ mtu' = mtu /\ launched' = launched
        /\ rl' = rl /\ rlPkt' = rlPkt /\ net' = net /\ accepted' = accepted
        /\ cap'[B] = cap[B] /\ mgr'[B] = mgr[B]
    <3>1. CASE isOpen(sockState[s])
      BY SMTT(30), <1>7, <2>1, <3>1 DEF FireTimeout, isOpen, TypeOK
    <3>2. CASE ~isOpen(sockState[s])
      BY <1>7, <2>1, <3>2 DEF FireTimeout, isOpen, TypeOK
    <3>3. QED
      BY SMTT(30), <3>1, <3>2
  <2>3. QED
    BY SMTT(30), <1>0, <2>2 DEF BState, NoRendezvous, MtuOrder, RespMtu, ReqMtu, PendingResp
<1>8. ASSUME NEW s \in Socks, SdRelease(s)
      PROVE  BState' /\ NoRendezvous' /\ MtuOrder' /\ RespMtu' /\ ReqMtu'
             /\ PendingResp'
  <2>1. s = A
    BY <1>0, <1>8 DEF SdRelease, BState
  <2>2. /\ sockState' = sockState /\ mtu' = mtu /\ launched' = launched
        /\ rl' = rl /\ rlPkt' = rlPkt /\ net' = net /\ accepted' = accepted
        /\ cap' = cap /\ mgr'[B] = mgr[B]
    BY SMTT(30), <1>8, <2>1 DEF SdRelease
  <2>3. QED
    BY <1>0, <2>2 DEF BState, NoRendezvous, MtuOrder, RespMtu, ReqMtu, PendingResp
<1>9. ASSUME NEW s \in Socks, SdFinish(s)
      PROVE  BState' /\ NoRendezvous' /\ MtuOrder' /\ RespMtu' /\ ReqMtu'
             /\ PendingResp'
  <2>1. s = A
    BY <1>0, <1>9 DEF SdFinish, BState
  <2>2. sd[A].to \in Terminal
    BY SMTT(30) DEF TypeOK, ShutdownArgs
  <2>3. /\ Frame /\ mtu' = mtu /\ launched' = launched /\ rl' = rl
        /\ rlPkt' = rlPkt /\ net' = net
    <3>1. sockState' = [sockState EXCEPT ![A] = sd[A].to]
      BY <1>9, <2>1 DEF SdFinish
    <3>2. /\ mtu' = mtu /\ launched' = launched /\ rl' = rl /\ rlPkt' = rlPkt
          /\ net' = net /\ accepted' = accepted
          /\ mgr' = [mgr EXCEPT ![A] = "select"]
      BY SMTT(30), <1>9, <2>1 DEF SdFinish
    <3>3. cap'[B] = cap[B]
      BY Zenon, <1>9, <2>1 DEF SdFinish, TypeOK
    <3>4. QED
      BY <2>2, <3>1, <3>2, <3>3 DEF Terminal, TypeOK
  <2>4. QED
    BY SMTT(30), <1>0, <2>3 DEF BState, NoRendezvous, MtuOrder, RespMtu, ReqMtu, PendingResp
<1>10. ASSUME NEW s \in Socks, FireLinger(s)
       PROVE  BState' /\ NoRendezvous' /\ MtuOrder' /\ RespMtu' /\ ReqMtu'
              /\ PendingResp'
  <2>1. s = A
    BY <1>0, <1>10 DEF FireLinger, BState
  <2>2. /\ sockState' = sockState /\ mtu' = mtu /\ launched' = launched
        /\ rl' = rl /\ rlPkt' = rlPkt /\ net' = net /\ accepted' = accepted
        /\ cap' = cap /\ mgr'[B] = mgr[B]
    BY <1>10, <2>1 DEF FireLinger
  <2>3. QED
    BY <1>0, <2>2 DEF BState, NoRendezvous, MtuOrder, RespMtu, ReqMtu, PendingResp
<1>11. ASSUME NEW s \in Socks, NEW p \in net, RhConnecting(s, p)
       PROVE  BState' /\ NoRendezvous' /\ MtuOrder' /\ RespMtu' /\ ReqMtu'
              /\ PendingResp'
  <2>1. s = A /\ p.src = B
    BY Zenon, <1>0, <1>11 DEF RhConnecting, BState, Routed, Peer
  <2>2. /\ Frame /\ mtu' = mtu /\ launched' = launched
        /\ (rl'[A] # "idle" => \/ rl[A] # "idle" /\ rlPkt'[A] = rlPkt[A]
                               \/ p.req = "Response" /\ rlPkt'[A] = p)
    <3>1. /\ mtu' = mtu /\ launched' = launched /\ accepted' = accepted
          /\ cap' = cap /\ mgr' = mgr
      BY SMTT(30), <1>11 DEF RhConnecting
    <3>2. sockState'[B] = sockState[B] /\ sockState'[A] # "Rendezvous"
      BY <1>11, <2>1 DEF RhConnecting, TypeOK
    <3>3. rl'[B] = rl[B]
      <4>1. rl' = rl \/ rl' = [rl EXCEPT ![s] = "accept"]
        BY <1>11, Zenon DEF RhConnecting, rlVars
      <4>2. A # B /\ rl \in [Socks -> {"idle", "accept", "release"}]
        BY SMTT(30), ConstAssumption DEF TypeOK
      <4>. QED
        BY <4>1, <4>2, <2>1
    <3>4. rl'[A] # "idle" => \/ rl[A] # "idle" /\ rlPkt'[A] = rlPkt[A]
                             \/ p.req = "Response" /\ rlPkt'[A] = p
      BY Zenon, <1>11, <2>1 DEF RhConnecting, TypeOK
    <3>5. QED
      BY Zenon, <3>1, <3>2, <3>3, <3>4
  <2>3. \A q \in net' : q \in net \/ (q.src = A /\ q.mtu = mtu[A])
    BY <1>11, <2>1 DEF RhConnecting, sendHandshake, Handshake
  <2>4. p.req = "Response" => accepted /\ p.mtu = mtu[B]
    BY <1>0, <2>1 DEF RespMtu
  <2>5. QED
    BY <1>0, <2>1, <2>2, <2>3, <2>4 DEF BState, NoRendezvous, MtuOrder, RespMtu, ReqMtu, PendingResp
<1>12. ASSUME NEW s \in Socks, NEW p \in net, RhRendezvous(s, p)
       PROVE  FALSE
  BY SMTT(30), <1>0, <1>12 DEF RhRendezvous, NoRendezvous
<1>13. ASSUME NEW s \in Socks, NEW p \in net, RhConnected(s, p)
       PROVE  BState' /\ NoRendezvous' /\ MtuOrder' /\ RespMtu' /\ ReqMtu'
              /\ PendingResp'
  <2>1. /\ sockState' = sockState /\ mtu' = mtu /\ launched' = launched
        /\ rl' = rl /\ rlPkt' = rlPkt /\ accepted' = accepted
        /\ cap' = cap /\ mgr' = mgr
    BY <1>13 DEF RhConnected
  <2>2. \A q \in net' : \/ q \in net
                        \/ q.src = A /\ q.mtu = mtu[A]
                        \/ q.src = B /\ q.mtu = mtu[B] /\ sockState[B] = "Connected"
    BY <1>13 DEF RhConnected, sendHandshake, Handshake
  <2>3. QED
    BY Zenon, <1>0, <2>1, <2>2 DEF BState, NoRendezvous, MtuOrder, RespMtu, ReqMtu, PendingResp
<1>14. ASSUME NEW p \in net, ListenerAccept(p)
       PROVE  BState' /\ NoRendezvous' /\ MtuOrder' /\ RespMtu' /\ ReqMtu'
              /\ PendingResp'
  <2> DEFINE m == MinOf(mtu[B], mtu[A])
  <2>1. ~accepted /\ ~launched[A] /\ rl[A] = "idle" /\ sockState[B] = "Init"
    BY Zenon, <1>0, <1>14 DEF ListenerAccept, BState, MtuOrder, PendingResp
  <2>2. p.mtu = mtu[A]
    BY <1>0, <1>14, <2>1 DEF ListenerAccept, ReqMtu
  <2>3. m <= mtu[A] /\ m \in MTUs
    <3>1. mtu[A] \in MTUs /\ mtu[B] \in MTUs
      BY DEF TypeOK
    <3>2. QED
      BY Zenon, <3>1, MinOfFacts, MinOfType
  <2>4. /\ mtu' = [mtu EXCEPT ![B] = m]
        /\ launched' = [launched EXCEPT ![B] = TRUE]
        /\ sockState' = [sockState EXCEPT ![B] = "Connected"]
        /\ accepted' /\ rl' = rl /\ rlPkt' = rlPkt
        /\ cap' = [cap EXCEPT ![B] = {}] /\ mgr' = [mgr EXCEPT ![B] = "select"]
        /\ net' = net \cup {Handshake(B, "Response", A, p.seq, m, p.dgram)}
    BY Zenon, <1>14, <2>2 DEF ListenerAccept
  <2>5. \A q \in net : ~(q.src = B /\ q.req = "Response")
    BY Zenon, <1>0, <2>1 DEF RespMtu
  <2>6. BState' /\ NoRendezvous'
    BY Zenon, <1>0, <2>4 DEF BState, NoRendezvous, TypeOK
  <2>7. MtuOrder'
    BY Zenon, <2>1, <2>3, <2>4 DEF MtuOrder, TypeOK
  <2>8. RespMtu'
    BY SMTT(30), <2>4, <2>5 DEF RespMtu, Handshake, TypeOK
  <2>9. ReqMtu' /\ PendingResp'
    BY SMTT(30), <1>0, <2>1, <2>4 DEF ReqMtu, PendingResp, Handshake, TypeOK
  <2>10. QED
    BY <2>6, <2>7, <2>8, <2>9
<1>15. ASSUME NEW p \in net, ListenerRefuse(p)
       PROVE  BState' /\ NoRendezvous' /\ MtuOrder' /\ RespMtu' /\ ReqMtu'
              /\ PendingResp'
  <2>1. \A q \in net' : q \in net \/ (q.src = B /\ q.req = "Refused")
    BY <1>15 DEF ListenerRefuse, Handshake
  <2>2. QED
    BY <1>0, <1>15, <2>1 DEF ListenerRefuse, BState, NoRendezvous, MtuOrder, RespMtu, ReqMtu, PendingResp
<1>16. ASSUME NEW p \in net, Lose(p)
       PROVE  BState' /\ NoRendezvous' /\ MtuOrder' /\ RespMtu' /\ ReqMtu'
              /\ PendingResp'
  BY SMTT(30), <1>0, <1>16 DEF Lose, BState, NoRendezvous, MtuOrder, RespMtu, ReqMtu, PendingResp
<1>17. CASE UNCHANGED vars
  BY <1>0, <1>17 DEF vars, BState, NoRendezvous, MtuOrder, RespMtu, ReqMtu, PendingResp
<1>18. QED
  BY <1>1, <1>2, <1>3, <1>4, <1>5, <1>6, <1>7, <1>8, <1>9, <1>10, <1>11,
     <1>12, <1>13, <1>14, <1>15, <1>16, <1>17 DEF Next

\* A dial that has completed on both sides has one packet size: once both
\* sockets have launched their processors, mtu[A] = mtu[B]
\* (readHandshake's and the listener's "if s.mtu > p.MaxPktSize" lowering).
THEOREM MtuAgreeHolds == Spec => []MtuAgree
<1>1. Init => MtuInv
  BY MtuInit
<1>2. TypeOK /\ TypeOK' /\ MtuInv /\ [Next]_vars => MtuInv'
  BY MtuStep
<1>3. MtuInv => MtuAgree
  BY SMTT(30) DEF MtuInv, MtuAgree, MtuOrder
<1>4. QED
  BY <1>1, <1>2, <1>3, TypeCorrect, PTL DEF Spec

-----------------------------------------------------------------------------
(* How connectWait's release by shutdown goes wrong, for every value of  *)
(* the constants: a step of a single action from the states the          *)
(* dial_ok_early trace reaches.                                           *)

\* shutdown(Timeout) calls connectWait.Done() (1063) before it writes
\* sockState (1067): the release leaves the waiting startConnect free to
\* return while the socket is still Connecting or Rendezvous, and the
\* connectionError it then reads is nil, though the manager goes on to
\* write Timeout.
THEOREM ReleaseBeforeTimeout ==
  ASSUME TypeOK, NEW s \in Socks, SdRelease(s),
         connectWait[s], wg[s] = 1, user[s] = "waiting",
         sockState[s] \in {"Connecting", "Rendezvous"}, sd[s].to = "Timeout"
  PROVE  /\ wg'[s] = 0 /\ user'[s] = "waiting" /\ s \notin crashed'
         /\ connectionError(sockState'[s]) = "nil"
         /\ mgr'[s] = "finish" /\ sd'[s].to = "Timeout"
<1>0. wg[s] > 0 /\ wg[s] - 1 = 0
  BY SMT
<1>1. s \notin crashed /\ wg' = [wg EXCEPT ![s] = wg[s] - 1] /\ crashed' = crashed
  BY <1>0, Zenon DEF SdRelease, Done
<1>2. wg'[s] = 0
  BY <1>0, <1>1 DEF TypeOK
<1>3. user'[s] = "waiting" /\ sockState'[s] = sockState[s]
      /\ mgr'[s] = "finish" /\ sd'[s].to = "Timeout"
  BY SMTT(30) DEF SdRelease, TypeOK, userVars, mgrVars
<1>4. connectionError(sockState'[s]) = "nil"
  BY Zenon, <1>3 DEF connectionError, Terminal
<1>. QED
  BY Zenon, <1>1, <1>2, <1>3, <1>4

-----------------------------------------------------------------------------
(* Rendezvous never completes.  The sockStateRendezvous branch of          *)
(* readHandshake ignores every HsRendezvous while s.farSockID is 0 (1003), *)
(* and the only write of farSockID a rendezvous socket can reach is the    *)
(* one after that test (1016).  So no rendezvous socket ever adopts a      *)
(* peer, launches its processors or reaches Connected; it stays in Init,   *)
(* in Rendezvous, or goes to a terminal state through shutdown or an       *)
(* HsRefused.                                                              *)

\* the states a rendezvous socket can be in
RvStates == {"Init", "Rendezvous"} \cup Terminal

RvSock(s) ==
    /\ farSockID[s] = NoSock /\ rl[s] = "idle" /\ ~launched[s]
    /\ sockState[s] \in RvStates

RvInv == Mode = "rendezvous" => \A s \in Socks : RvSock(s)

\* A step that writes no peer id, leaves the read loops idle, launches
\* nothing and moves a socket only to Rendezvous or a terminal state.
RvKeeps ==
    /\ farSockID' = farSockID /\ rl' = rl /\ launched' = launched
    /\ \A s \in Socks : sockState'[s] = sockState[s] \/ sockState'[s] \in RvStates

LEMMA RvInit == Init => RvInv
BY DEF Init, RvInv, RvSock, RvStates

LEMMA RvKeepsInv == RvInv /\ RvKeeps => RvInv'
BY DEF RvInv, RvSock, RvKeeps

LEMMA RvStep == TypeOK /\ RvInv /\ [Next]_vars => RvInv'
<1> SUFFICES ASSUME TypeOK, RvInv, [Next]_vars, Mode = "rendezvous"
             PROVE  RvInv'
  BY DEF RvInv
<1>0. \A s \in Socks : RvSock(s)
  BY SMTT(30) DEF RvInv
<1> USE DEF peerVars, rlVars
<1>1. ASSUME NEW s \in Socks, StartConnect(s) \/ \E p \in net : RhConnecting(s, p)
      PROVE  FALSE
  BY <1>0, <1>1, ConstAssumption DEF StartConnect, RhConnecting, RvSock, RvStates, Terminal
<1>2. ASSUME NEW s \in Socks,
             RhAccept(s) \/ RhRelease(s) \/ \E p \in net : RhConnected(s, p)
      PROVE  FALSE
  BY <1>0, <1>2 DEF RhAccept, RhRelease, RhConnected, RvSock, RvStates, Terminal
<1>3. ASSUME NEW p \in net, ListenerAccept(p) \/ ListenerRefuse(p)
      PROVE  FALSE
  BY <1>3, ConstAssumption DEF ListenerAccept, ListenerRefuse
<1>4. ASSUME NEW s \in Socks, StartRendezvous(s) PROVE RvKeeps
  BY <1>4 DEF StartRendezvous, RvKeeps, RvStates, TypeOK
<1>5. ASSUME NEW s \in Socks, SdFinish(s) PROVE RvKeeps
  <2>1. sd[s].to \in Terminal
    BY DEF TypeOK, ShutdownArgs
  <2>. QED
    BY <1>5, <2>1 DEF SdFinish, RvKeeps, RvStates, TypeOK
<1>6. ASSUME NEW s \in Socks, NEW p \in net, RhRendezvous(s, p) PROVE RvKeeps
  <2>1. farSockID[s] = NoSock
    BY <1>0 DEF RvSock
  <2>2. sockState' = sockState \/ sockState' = [sockState EXCEPT ![s] = "Refused"]
    BY <1>6, <2>1, Zenon DEF RhRendezvous
  <2>3. farSockID' = farSockID /\ launched' = launched
    BY Zenon, <1>6 DEF RhRendezvous
  <2>4. rl' = rl
    BY <1>6, <2>1, Zenon DEF RhRendezvous
  <2>. QED
    BY <2>2, <2>3, <2>4 DEF RvKeeps, RvStates, Terminal, TypeOK
<1>7. ASSUME NEW s \in Socks,
             WaitReturn(s) \/ FireRetry(s) \/ FireTimeout(s) \/ SdRelease(s)
             \/ FireLinger(s)
      PROVE  RvKeeps
  BY <1>7 DEF WaitReturn, FireRetry, FireTimeout, SdRelease, FireLinger, RvKeeps
<1>8. ASSUME NEW p \in net, Lose(p) PROVE RvKeeps
  BY <1>8 DEF Lose, RvKeeps
<1>9. CASE UNCHANGED vars
  BY <1>9, <1>0 DEF vars, RvInv, RvSock
<1>. QED
  BY <1>1, <1>2, <1>3, <1>4, <1>5, <1>6, <1>7, <1>8, <1>9, RvKeepsInv DEF Next

\* No rendezvous socket ever adopts a peer id, launches its processors or
\* becomes Connected (readHandshake, 1003 and 1016): startRendezvous never
\* completes a connection, whatever the peers send.
THEOREM RendezvousNeverConnects ==
    Spec => [](Mode = "rendezvous" =>
                 \A s \in Socks : farSockID[s] = NoSock /\ ~launched[s]
                                  /\ sockState[s] # "Connected")
<1>1. Spec => [](TypeOK /\ RvInv)
  BY TypeCorrect, RvInit, RvStep, PTL DEF Spec
<1>2. RvInv => (Mode = "rendezvous" =>
                 \A s \in Socks : farSockID[s] = NoSock /\ ~launched[s]
                                  /\ sockState[s] # "Connected")
  BY DEF RvInv, RvSock, RvStates, Terminal
<1>. QED
  BY <1>1, <1>2, PTL


-----------------------------------------------------------------------------
(* A refused dial blocks for ever.  The HsRefused branch of the Connecting *)
(* case (961-963) writes sockStateRefused and returns without releasing    *)
(* connectWait; goManageConnection's timeout then calls shutdown, which    *)
(* returns at once since the socket is no longer open (1051-1053).  Unless *)
(* a shutdown was already under way when the refusal came, nothing ever    *)
(* calls Done, and startConnect stays blocked in connectWait.Wait().       *)

RefusedBlocked ==
    /\ sockState[A] = "Refused" /\ user[A] = "waiting" /\ wg[A] = 1
    /\ mgr[A] = "select" /\ ~lingerTimer[A] /\ "linger" \notin cap[A]
    /\ rl[A] = "idle" /\ A \notin crashed

\* a step that leaves A's state, user, counter, manager, linger timer and
\* read loop alone and does not let A's select wait on the linger timer
AKeeps ==
    /\ sockState'[A] = sockState[A] /\ user'[A] = user[A] /\ wg'[A] = wg[A]
    /\ mgr'[A] = mgr[A] /\ lingerTimer'[A] = lingerTimer[A]
    /\ "linger" \notin cap'[A] /\ rl'[A] = rl[A] /\ A \notin crashed'

LEMMA AKeepsBlocked == RefusedBlocked /\ AKeeps => RefusedBlocked'
BY DEF RefusedBlocked, AKeeps

\* Done on B touches only B's counter or crashes B's host.
LEMMA DoneOther ==
    ASSUME TypeOK, Done(B)
    PROVE  wg'[A] = wg[A] /\ crashed' \subseteq crashed \cup {B}
BY ConstAssumption DEF Done, TypeOK

\* the parts of A that RefusedBlocked reads, left alone
AUnchanged ==
    /\ sockState'[A] = sockState[A] /\ user'[A] = user[A] /\ wg'[A] = wg[A]
    /\ mgr'[A] = mgr[A] /\ lingerTimer'[A] = lingerTimer[A] /\ cap'[A] = cap[A]
    /\ rl'[A] = rl[A] /\ A \notin crashed'

LEMMA AUnchangedKeeps == RefusedBlocked /\ AUnchanged => AKeeps
BY DEF RefusedBlocked, AUnchanged, AKeeps

LEMMA RefusedStep == TypeOK /\ RefusedBlocked /\ [Next]_vars => RefusedBlocked'
<1> SUFFICES ASSUME TypeOK, RefusedBlocked, [Next]_vars PROVE RefusedBlocked'
  OBVIOUS
<1> USE DEF userVars, mgrVars, rlVars, waitVars, timerVars
<1>1. ASSUME StartConnect(A) \/ StartRendezvous(A) \/ WaitReturn(A)
             \/ RhAccept(A) \/ RhRelease(A) \/ SdRelease(A) \/ SdFinish(A)
             \/ FireLinger(A)
             \/ \E p \in net : RhConnecting(A, p) \/ RhRendezvous(A, p)
                               \/ RhConnected(A, p)
      PROVE  FALSE
  <2>1. ~(StartConnect(A) \/ StartRendezvous(A) \/ WaitReturn(A))
    BY DEF RefusedBlocked, StartConnect, StartRendezvous, WaitReturn
  <2>2. ~(RhAccept(A) \/ RhRelease(A) \/ SdRelease(A) \/ SdFinish(A)
          \/ FireLinger(A))
    BY Zenon DEF RefusedBlocked, RhAccept, RhRelease, SdRelease, SdFinish,
                 FireLinger
  <2>3. \A p \in net : ~(RhConnecting(A, p) \/ RhRendezvous(A, p)
                          \/ RhConnected(A, p))
    BY DEF RefusedBlocked, RhConnecting, RhRendezvous, RhConnected
  <2>. QED
    BY <1>1, <2>1, <2>2, <2>3
<1>2. ASSUME FireRetry(A) \/ FireTimeout(A) PROVE AKeeps
  <2>1. ~isOpen(sockState[A])
    BY DEF RefusedBlocked, isOpen, Terminal
  <2>3. CASE FireRetry(A)
    <3>0. cap' = [cap EXCEPT ![A] = Capture(connTimeout[A],
                      sockState[A] \in {"Connecting", "Rendezvous"},
                      lingerTimer[A])]
      BY Zenon, <2>3 DEF FireRetry
    <3>1. cap'[A] = Capture(connTimeout[A],
                      sockState[A] \in {"Connecting", "Rendezvous"},
                      lingerTimer[A])
      BY <3>0 DEF TypeOK, Socks
    <3>2. "linger" \notin cap'[A]
      BY <3>1 DEF RefusedBlocked, Capture
    <3>. QED
      BY <2>3, <3>2 DEF FireRetry, RefusedBlocked, AKeeps
  <2>4. CASE FireTimeout(A)
    <3>1. cap'[A] = Capture(connTimeout[A], connRetry[A], lingerTimer[A])
          /\ UNCHANGED <<mgr, sd>>
      BY <2>4, <2>1 DEF FireTimeout, TypeOK, Socks
    <3>2. "linger" \notin cap'[A]
      BY <3>1 DEF RefusedBlocked, Capture
    <3>. QED
      BY <2>4, <3>1, <3>2 DEF FireTimeout, RefusedBlocked, AKeeps
  <2>. QED
    BY <1>2, <2>3, <2>4
<1>3. ASSUME ~(StartConnect(A) \/ StartRendezvous(A) \/ WaitReturn(A)
               \/ FireRetry(A) \/ FireTimeout(A) \/ FireLinger(A)
               \/ RhAccept(A) \/ RhRelease(A) \/ SdRelease(A) \/ SdFinish(A)
               \/ \E p \in net : RhConnecting(A, p) \/ RhRendezvous(A, p)
                                 \/ RhConnected(A, p)),
             Next
      PROVE  AUnchanged
  <2>1. ASSUME StartConnect(B) PROVE AUnchanged
    BY <2>1, ConstAssumption DEF StartConnect, AUnchanged, RefusedBlocked, TypeOK
  <2>2. ASSUME StartRendezvous(B) PROVE AUnchanged
    BY <2>2, ConstAssumption DEF StartRendezvous, AUnchanged, RefusedBlocked, TypeOK
  <2>3. ASSUME WaitReturn(B) PROVE AUnchanged
    BY <2>3, ConstAssumption DEF WaitReturn, AUnchanged, RefusedBlocked, TypeOK
  <2>4. ASSUME FireRetry(B) PROVE AUnchanged
    BY <2>4, ConstAssumption DEF FireRetry, AUnchanged, RefusedBlocked, TypeOK
  <2>5. ASSUME FireTimeout(B) PROVE AUnchanged
    BY <2>5, ConstAssumption DEF FireTimeout, AUnchanged, RefusedBlocked, TypeOK
  <2>6. ASSUME FireLinger(B) PROVE AUnchanged
    BY <2>6, ConstAssumption DEF FireLinger, AUnchanged, RefusedBlocked, TypeOK
  <2>7. ASSUME RhAccept(B) PROVE AUnchanged
    BY <2>7, ConstAssumption DEF RhAccept, AUnchanged, RefusedBlocked, TypeOK
  <2>8. ASSUME SdFinish(B) PROVE AUnchanged
    BY <2>8, ConstAssumption DEF SdFinish, AUnchanged, RefusedBlocked, TypeOK
  <2>9. ASSUME RhRelease(B) PROVE AUnchanged
    <3>1. wg'[A] = wg[A] /\ A \notin crashed'
      BY <2>9, DoneOther, ConstAssumption DEF RhRelease, RefusedBlocked
    <3>. QED
      BY <2>9, <3>1, ConstAssumption DEF RhRelease, AUnchanged, TypeOK
  <2>10. ASSUME SdRelease(B) PROVE AUnchanged
    <3>1. wg'[A] = wg[A] /\ A \notin crashed'
      BY <2>10, DoneOther, ConstAssumption DEF SdRelease, RefusedBlocked
    <3>. QED
      BY <2>10, <3>1, ConstAssumption DEF SdRelease, AUnchanged, TypeOK
  <2>11. ASSUME NEW p \in net, RhConnecting(B, p) PROVE AUnchanged
    BY <2>11, ConstAssumption DEF RhConnecting, AUnchanged, RefusedBlocked, TypeOK
  <2>12. ASSUME NEW p \in net, RhRendezvous(B, p) PROVE AUnchanged
    BY <2>12, ConstAssumption DEF RhRendezvous, AUnchanged, RefusedBlocked, TypeOK
  <2>13. ASSUME NEW p \in net, RhConnected(B, p) PROVE AUnchanged
    BY <2>13, ConstAssumption DEF RhConnected, AUnchanged, RefusedBlocked, TypeOK
  <2>14. ASSUME NEW p \in net, ListenerAccept(p) PROVE AUnchanged
    BY <2>14, ConstAssumption DEF ListenerAccept, AUnchanged, RefusedBlocked, TypeOK
  <2>15. ASSUME NEW p \in net, ListenerRefuse(p) PROVE AUnchanged
    BY <2>15, ConstAssumption DEF ListenerRefuse, AUnchanged, RefusedBlocked, TypeOK
  <2>16. ASSUME NEW p \in net, Lose(p) PROVE AUnchanged
    BY <2>16, ConstAssumption DEF Lose, AUnchanged, RefusedBlocked, TypeOK
  <2>. QED
    BY <1>3, <2>1, <2>2, <2>3, <2>4, <2>5, <2>6, <2>7, <2>8, <2>9, <2>10, <2>11, <2>12, <2>13, <2>14, <2>15, <2>16 DEF Next, Socks
<1>4. ASSUME Next PROVE RefusedBlocked'
  <2>1. CASE StartConnect(A) \/ StartRendezvous(A) \/ WaitReturn(A)
             \/ FireLinger(A)
             \/ RhAccept(A) \/ RhRelease(A) \/ SdRelease(A) \/ SdFinish(A)
             \/ \E p \in net : RhConnecting(A, p) \/ RhRendezvous(A, p)
                               \/ RhConnected(A, p)
    BY <2>1, <1>1
  <2>2. CASE FireRetry(A) \/ FireTimeout(A)
    BY <2>2, <1>2, AKeepsBlocked
  <2>3. CASE ~(StartConnect(A) \/ StartRendezvous(A) \/ WaitReturn(A)
               \/ FireRetry(A) \/ FireTimeout(A) \/ FireLinger(A)
               \/ RhAccept(A) \/ RhRelease(A) \/ SdRelease(A) \/ SdFinish(A)
               \/ \E p \in net : RhConnecting(A, p) \/ RhRendezvous(A, p)
                                 \/ RhConnected(A, p))
    BY <2>3, <1>3, <1>4, AUnchangedKeeps, AKeepsBlocked
  <2>. QED
    BY <2>1, <2>2, <2>3
<1>5. CASE UNCHANGED vars
  BY Zenon, <1>5 DEF vars, RefusedBlocked
<1>. QED
  BY <1>4, <1>5

\* A startConnect whose dial is refused while its manager is idle in its
\* select (961-963) never returns, and that manager goroutine never exits:
\* once the socket is Refused with the dialler waiting on a counter of 1
\* and no linger timer armed, every later state is so too, since the
\* handshake timeout's shutdown returns at once on a socket that is not
\* open (1051-1053): neither of the two cases of the manager's select that
\* return (865-872) can fire, since only shutdown arms the linger timer
\* (1071-1075) and only the linger case closes sockClosed.
THEOREM RefusedDialBlocks == Spec => [](RefusedBlocked => []RefusedBlocked)
<1>1. Spec => []TypeOK /\ [][Next]_vars
  BY TypeCorrect DEF Spec
<1>2. TypeOK /\ RefusedBlocked /\ [Next]_vars => RefusedBlocked'
  BY RefusedStep
<1>. QED
  BY <1>1, <1>2, PTL

=============================================================================
