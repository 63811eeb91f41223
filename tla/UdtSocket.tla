----------------------------- MODULE UdtSocket -----------------------------
(***************************************************************************)
(* Connection management of one UDT socket pair, as written in             *)
(* src/udt/udtsocket.go (the revision with the eight-valued sockState,     *)
(* lines 373-1155): the dial and rendezvous handshakes, the timers of      *)
(* goManageConnection, shutdown, and the connectWait group that releases   *)
(* startConnect / startRendezvous.                                         *)
(*                                                                         *)
(* Three kinds of goroutine touch a socket without a lock, and each has    *)
(* its own program counter here:                                           *)
(*   - the user goroutine blocked in startConnect / startRendezvous (user);*)
(*   - the multiplexer read loop of the socket's host, which runs          *)
(*     readPacket / readHandshake (rl);                                    *)
(*   - goManageConnection, whose select waits on the timer channels it     *)
(*     captured when it entered the select (mgr, cap).                     *)
(* A socket pair lives on two hosts; A is the dialling client (or one      *)
(* rendezvous peer) and B the socket the listener accepts (or the other    *)
(* rendezvous peer).  Time is not modelled: a timer fires at any moment    *)
(* after it is armed, which contains every real ordering of the 250 ms     *)
(* retry and the 3 s / 30 s handshake timeout.                             *)
(***************************************************************************)
EXTENDS Naturals, FiniteSets

CONSTANTS
    A, B,            \* the two sockets (model values)
    NoSock,          \* farSockID 0: no peer id known yet
    Mode,            \* "dial": A dials B's listener; "rendezvous": both rendezvous
    InitSeqs,        \* values randUint32() may give initPktSeq
    MTUs,            \* values the multiplexer / Config may give a socket's mtu
    ListenerRefuses  \* whether the listener may answer a request with HsRefused

ASSUME ConstAssumption ==
    /\ A # B /\ NoSock \notin {A, B}
    /\ Mode \in {"dial", "rendezvous"}
    /\ InitSeqs # {}
    /\ MTUs # {} /\ MTUs \subseteq Nat \ {0}
    /\ ListenerRefuses \in BOOLEAN

Socks == {A, B}
Peer(s) == IF s = A THEN B ELSE A

\* sockState values (udtsocket.go:388-397)
States == {"Init", "Rendezvous", "Connecting", "Connected",
           "Closed", "Refused", "Corrupted", "Timeout"}
Terminal == {"Closed", "Refused", "Corrupted", "Timeout"}

\* handshake request types used by the code
ReqTypes == {"Request", "Response", "Rendezvous", "Response2", "Refused"}

\* a handshake packet on the wire: the fields readHandshake looks at
Packet == [src : Socks, dst : Socks \cup {NoSock}, req : ReqTypes,
           seq : InitSeqs, mtu : MTUs, dgram : BOOLEAN]

\* the timer channels goManageConnection's select can wait on
TimerKinds == {"timeout", "retry", "linger"}

\* the state of a running shutdown() call: target state and permitLinger
ShutdownArgs == [to : Terminal, linger : BOOLEAN]

VARIABLES
    sockState,    \* [Socks -> States]
    initPktSeq,   \* [Socks -> InitSeqs]
    mtu,          \* [Socks -> MTUs], the atomicUint32 mtu
    isDatagram,   \* [Socks -> BOOLEAN]
    farSockID,    \* [Socks -> Socks \cup {NoSock}]
    connTimeout,  \* [Socks -> BOOLEAN]: field s.connTimeout is non-nil
    toPending,    \* [Socks -> BOOLEAN]: the time.After(3s/30s) channel has not ticked
    connRetry,    \* [Socks -> BOOLEAN]: field s.connRetry is non-nil
    lingerTimer,  \* [Socks -> BOOLEAN]: field s.lingerTimer is non-nil
    connectWait,  \* [Socks -> BOOLEAN]: field s.connectWait is non-nil
    wg,           \* [Socks -> Nat]: counter of the WaitGroup it points to
    sockShutdown, \* [Socks -> BOOLEAN]: channel closed
    sockClosed,   \* [Socks -> BOOLEAN]: channel closed
    launched,     \* [Socks -> BOOLEAN]: launchProcessors has run
    sockets,      \* the sockets their multiplexer's sockets map holds
    rvSockets,    \* the sockets their multiplexer's rvSockets list holds
    accepted,     \* the listener has created B (dial mode)
    mgr,          \* [Socks -> pc of goManageConnection]
    cap,          \* [Socks -> SUBSET TimerKinds]: channels the select waits on
    sd,           \* [Socks -> ShutdownArgs]: arguments of the running shutdown()
    rl,           \* [Socks -> pc of the read loop inside readHandshake]
    rlPkt,        \* [Socks -> Packet]: the packet that readHandshake handles
    rlFrom,       \* [Socks -> {"Connecting","Rendezvous"}]: branch being accepted
    user,         \* [Socks -> pc of the user goroutine]
    dialErr,      \* [Socks -> result of startConnect / startRendezvous]
    crashed,      \* hosts whose process panicked
    net,          \* handshake packets in flight (lost, duplicated, reordered)
    rvHeard       \* [Socks -> BOOLEAN]: a compatible peer HsRendezvous was read in Rendezvous

vars == <<sockState, initPktSeq, mtu, isDatagram, farSockID, connTimeout,
          toPending, connRetry, lingerTimer, connectWait, wg, sockShutdown,
          sockClosed, launched, sockets, rvSockets, accepted, mgr, cap, sd,
          rl, rlPkt, rlFrom, user, dialErr, crashed, net, rvHeard>>

MinOf(a, b) == IF a < b THEN a ELSE b

TypeOK ==
    /\ sockState \in [Socks -> States]
    /\ initPktSeq \in [Socks -> InitSeqs]
    /\ mtu \in [Socks -> MTUs]
    /\ isDatagram \in [Socks -> BOOLEAN]
    /\ farSockID \in [Socks -> Socks \cup {NoSock}]
    /\ connTimeout \in [Socks -> BOOLEAN]
    /\ toPending \in [Socks -> BOOLEAN]
    /\ connRetry \in [Socks -> BOOLEAN]
    /\ lingerTimer \in [Socks -> BOOLEAN]
    /\ connectWait \in [Socks -> BOOLEAN]
    /\ wg \in [Socks -> {0, 1}]
    /\ sockShutdown \in [Socks -> BOOLEAN]
    /\ sockClosed \in [Socks -> BOOLEAN]
    /\ launched \in [Socks -> BOOLEAN]
    /\ sockets \subseteq Socks
    /\ rvSockets \subseteq Socks
    /\ accepted \in BOOLEAN
    /\ mgr \in [Socks -> {"none", "select", "release", "finish", "exited"}]
    /\ cap \in [Socks -> SUBSET TimerKinds]
    /\ sd \in [Socks -> ShutdownArgs]
    /\ rl \in [Socks -> {"idle", "accept", "release"}]
    /\ rlPkt \in [Socks -> Packet]
    /\ rlFrom \in [Socks -> {"Connecting", "Rendezvous"}]
    /\ user \in [Socks -> {"idle", "waiting", "returned"}]
    /\ dialErr \in [Socks -> {"none", "nil"} \cup Terminal]
    /\ crashed \subseteq Socks
    /\ net \subseteq Packet
    /\ rvHeard \in [Socks -> BOOLEAN]

-----------------------------------------------------------------------------
(* Helpers translated from the code.                                       *)

\* isOpen (udtsocket.go:675-682)
isOpen(st) == st \notin Terminal

\* connectionError (udtsocket.go:536-548): "nil" when the state is not terminal
connectionError(st) == IF st \in Terminal THEN st ELSE "nil"

\* isServer is fixed by newSocket: only the socket the listener creates
isServer(s) == Mode = "dial" /\ s = B

\* sendHandshake (udtsocket.go:897-920): the packet it hands to the
\* multiplexer, addressed to s.farSockID, from the given field values
Handshake(s, req, far, seq, m, dg) ==
    [src |-> s, dst |-> far, req |-> req, seq |-> seq, mtu |-> m, dgram |-> dg]
sendHandshake(s, req) ==
    Handshake(s, req, farSockID[s], initPktSeq[s], mtu[s], isDatagram[s])

\* the channels a select statement of goManageConnection waits on, given
\* the timer fields it reads when it is entered
Capture(to, re, li) ==
    {k \in TimerKinds : \/ k = "timeout" /\ to
                        \/ k = "retry" /\ re
                        \/ k = "linger" /\ li}

\* the part of checkValidHandshake and the address / socket-type tests that
\* the Connecting and Rendezvous branches share (udtsocket.go:923-928,
\* 965, 977, 1006): the socket's own udtVer is always 4, the sender is the
\* peer, and the socket types must agree
compatible(s, p) == p.dgram = isDatagram[s]

\* WaitGroup.Done on s.connectWait, as the two copies of
\* "if s.connectWait != nil { s.connectWait.Done(); s.connectWait = nil }"
\* do it after their nil test: a nil field is a nil-pointer panic and a
\* counter below zero panics ("sync: negative WaitGroup counter")
Done(s) ==
    IF connectWait[s] /\ wg[s] > 0
    THEN /\ wg' = [wg EXCEPT ![s] = wg[s] - 1]
         /\ connectWait' = [connectWait EXCEPT ![s] = FALSE]
         /\ UNCHANGED crashed
    ELSE /\ crashed' = crashed \cup {s}
         /\ UNCHANGED <<wg, connectWait>>

\* packets the host of s hands to s.readHandshake: readPacket for a packet
\* addressed to s (multiplexer.go:315-316, udtsocket.go:1133-1147), the
\* rendezvous list for a packet with destination 0 (multiplexer.go:296-309),
\* and the listener, which passes later requests to the socket it created
Routed(s, p) ==
    /\ p.src = Peer(s)
    /\ \/ p.dst = s /\ s \in sockets /\ sockState[s] # "Closed"
       \/ p.dst = NoSock /\ s \in rvSockets
       \/ p.dst = NoSock /\ isServer(s) /\ accepted /\ s \in sockets

-----------------------------------------------------------------------------
Init ==
    /\ sockState = [s \in Socks |-> "Init"]
    /\ initPktSeq \in [Socks -> InitSeqs]
    /\ mtu \in [Socks -> MTUs]
    /\ isDatagram \in [Socks -> BOOLEAN]
    /\ farSockID = [s \in Socks |-> NoSock]
    /\ connTimeout = [s \in Socks |-> FALSE]
    /\ toPending = [s \in Socks |-> FALSE]
    /\ connRetry = [s \in Socks |-> FALSE]
    /\ lingerTimer = [s \in Socks |-> FALSE]
    /\ connectWait = [s \in Socks |-> FALSE]
    /\ wg = [s \in Socks |-> 0]
    /\ sockShutdown = [s \in Socks |-> FALSE]
    /\ sockClosed = [s \in Socks |-> FALSE]
    /\ launched = [s \in Socks |-> FALSE]
    /\ sockets = IF Mode = "dial" THEN {A} ELSE Socks
    /\ rvSockets = {}
    /\ accepted = FALSE
    /\ mgr = [s \in Socks |-> "none"]
    /\ cap = [s \in Socks |-> {}]
    /\ sd = [s \in Socks |-> [to |-> "Closed", linger |-> FALSE]]
    /\ rl = [s \in Socks |-> "idle"]
    /\ rlPkt = [s \in Socks |-> CHOOSE p \in Packet : TRUE]
    /\ rlFrom = [s \in Socks |-> "Connecting"]
    /\ user = [s \in Socks |-> "idle"]
    /\ dialErr = [s \in Socks |-> "none"]
    /\ crashed = {}
    /\ net = {}
    /\ rvHeard = [s \in Socks |-> FALSE]


timerVars == <<connTimeout, toPending, connRetry, lingerTimer>>
waitVars == <<connectWait, wg, crashed>>
chanVars == <<sockShutdown, sockClosed>>
peerVars == <<initPktSeq, mtu, isDatagram, farSockID, launched>>
muxVars == <<sockets, rvSockets, accepted>>
mgrVars == <<mgr, cap, sd>>
rlVars == <<rl, rlPkt, rlFrom>>
userVars == <<user, dialErr>>

-----------------------------------------------------------------------------
(* The user goroutine.                                                     *)

\* startConnect (udtsocket.go:824-840) up to connectWait.Wait(): arm the
\* WaitGroup, enter Connecting, arm the 3 s timeout and the 250 ms retry,
\* start goManageConnection (its first select captures both timers) and
\* send the first HsRequest
StartConnect(s) ==
    /\ Mode = "dial" /\ s = A /\ s \notin crashed
    /\ user[s] = "idle" /\ sockState[s] = "Init"
    /\ connectWait' = [connectWait EXCEPT ![s] = TRUE]
    /\ wg' = [wg EXCEPT ![s] = 1]
    /\ sockState' = [sockState EXCEPT ![s] = "Connecting"]
    /\ connTimeout' = [connTimeout EXCEPT ![s] = TRUE]
    /\ toPending' = [toPending EXCEPT ![s] = TRUE]
    /\ connRetry' = [connRetry EXCEPT ![s] = TRUE]
    /\ mgr' = [mgr EXCEPT ![s] = "select"]
    /\ cap' = [cap EXCEPT ![s] = {"timeout", "retry"}]
    /\ net' = net \cup {sendHandshake(s, "Request")}
    /\ user' = [user EXCEPT ![s] = "waiting"]
    /\ UNCHANGED <<lingerTimer, crashed, chanVars, peerVars, muxVars, sd,
                   rlVars, dialErr, rvHeard>>

\* startRendezvous (udtsocket.go:842-858): as startConnect, with the 30 s
\* timeout, registration in the multiplexer's rendezvous list, and an
\* HsRendezvous handshake
StartRendezvous(s) ==
    /\ Mode = "rendezvous" /\ s \notin crashed
    /\ user[s] = "idle" /\ sockState[s] = "Init"
    /\ connectWait' = [connectWait EXCEPT ![s] = TRUE]
    /\ wg' = [wg EXCEPT ![s] = 1]
    /\ sockState' = [sockState EXCEPT ![s] = "Rendezvous"]
    /\ connTimeout' = [connTimeout EXCEPT ![s] = TRUE]
    /\ toPending' = [toPending EXCEPT ![s] = TRUE]
    /\ connRetry' = [connRetry EXCEPT ![s] = TRUE]
    /\ mgr' = [mgr EXCEPT ![s] = "select"]
    /\ cap' = [cap EXCEPT ![s] = {"timeout", "retry"}]
    /\ rvSockets' = rvSockets \cup {s}
    /\ net' = net \cup {sendHandshake(s, "Rendezvous")}
    /\ user' = [user EXCEPT ![s] = "waiting"]
    /\ UNCHANGED <<lingerTimer, crashed, chanVars, peerVars, sockets, accepted,
                   sd, rlVars, dialErr, rvHeard>>

\* connectWait.Wait() returns once the counter is zero; startConnect then
\* returns s.connectionError(), read at that moment (udtsocket.go:838-839)
WaitReturn(s) ==
    /\ s \notin crashed
    /\ user[s] = "waiting" /\ wg[s] = 0
    /\ user' = [user EXCEPT ![s] = "returned"]
    /\ dialErr' = [dialErr EXCEPT ![s] = connectionError(sockState[s])]
    /\ UNCHANGED <<sockState, timerVars, waitVars, chanVars, peerVars, muxVars,
                   mgrVars, rlVars, net, rvHeard>>

-----------------------------------------------------------------------------
(* The listener on B's host (listener code is not under src/: it is        *)
(* modelled from the spec).  It hands an HsRequest with destination 0 to a *)
(* new server socket, whose readHandshake takes the sockStateInit branch   *)
(* (udtsocket.go:939-957), or it refuses the request.                      *)

ListenerAccept(p) ==
    /\ Mode = "dial" /\ B \notin crashed
    /\ p.src = A /\ p.dst = NoSock /\ p.req = "Request" /\ ~accepted
    /\ accepted' = TRUE
    /\ sockets' = sockets \cup {B}
    /\ initPktSeq' = [initPktSeq EXCEPT ![B] = p.seq]
    /\ farSockID' = [farSockID EXCEPT ![B] = A]
    /\ isDatagram' = [isDatagram EXCEPT ![B] = p.dgram]
    /\ mtu' = [mtu EXCEPT ![B] = MinOf(mtu[B], p.mtu)]
    /\ launched' = [launched EXCEPT ![B] = TRUE]
    /\ sockState' = [sockState EXCEPT ![B] = "Connected"]
    /\ mgr' = [mgr EXCEPT ![B] = "select"]
    /\ cap' = [cap EXCEPT ![B] = {}]
    /\ net' = net \cup {Handshake(B, "Response", A, p.seq,
                                  MinOf(mtu[B], p.mtu), p.dgram)}
    /\ UNCHANGED <<timerVars, waitVars, chanVars, rvSockets, sd, rlVars,
                   userVars, rvHeard>>

\* the listener answers the request with HsRefused, addressed to its SockID
ListenerRefuse(p) ==
    /\ Mode = "dial" /\ ListenerRefuses /\ B \notin crashed
    /\ p.src = A /\ p.dst = NoSock /\ p.req = "Request" /\ ~accepted
    /\ net' = net \cup {Handshake(B, "Refused", A, p.seq, mtu[B], p.dgram)}
    /\ UNCHANGED <<sockState, timerVars, waitVars, chanVars, peerVars, muxVars,
                   mgrVars, rlVars, userVars, rvHeard>>

-----------------------------------------------------------------------------
(* The read loop of the socket's host: readHandshake on a routed packet.   *)
(* The branches that accept the peer write the socket in a second step and *)
(* release connectWait in a third, so that goManageConnection can run      *)
(* between them, as it can in the code.                                    *)

\* the test the sockStateConnecting branch applies to an HsRequest and an
\* HsResponse (udtsocket.go:965, 977)
ConnectingValid(s, p) == p.seq = initPktSeq[s] /\ compatible(s, p)

\* readHandshake, case sockStateConnecting (udtsocket.go:959-980)
RhConnecting(s, p) ==
    /\ s \notin crashed /\ rl[s] = "idle" /\ Routed(s, p)
    /\ sockState[s] = "Connecting"
    /\ \/ /\ p.req = "Refused"
          /\ sockState' = [sockState EXCEPT ![s] = "Refused"]
          /\ UNCHANGED <<net, rlVars>>
       \/ /\ p.req = "Request"
          /\ net' = IF ConnectingValid(s, p)
                    THEN net \cup {sendHandshake(s, "Response")} ELSE net
          /\ UNCHANGED <<sockState, rlVars>>
       \/ /\ p.req = "Response" /\ ConnectingValid(s, p)
          /\ rl' = [rl EXCEPT ![s] = "accept"]
          /\ rlPkt' = [rlPkt EXCEPT ![s] = p]
          /\ rlFrom' = [rlFrom EXCEPT ![s] = "Connecting"]
          /\ UNCHANGED <<sockState, net>>
       \/ /\ p.req \notin {"Refused", "Request"}
          /\ ~(p.req = "Response" /\ ConnectingValid(s, p))
          /\ UNCHANGED <<sockState, net, rlVars>>
    /\ UNCHANGED <<timerVars, waitVars, chanVars, peerVars, muxVars, mgrVars,
                   userVars, rvHeard>>

\* readHandshake, case sockStateRendezvous (udtsocket.go:998-1009): the
\* request is ignored unless s.farSockID is already non-zero
RhRendezvous(s, p) ==
    /\ s \notin crashed /\ rl[s] = "idle" /\ Routed(s, p)
    /\ sockState[s] = "Rendezvous"
    /\ rvHeard' = [rvHeard EXCEPT ![s] = @ \/ (p.req = "Rendezvous" /\ compatible(s, p))]
    /\ \/ /\ p.req = "Refused"
          /\ sockState' = [sockState EXCEPT ![s] = "Refused"]
          /\ UNCHANGED rlVars
       \/ /\ p.req # "Refused"
          /\ p.req # "Rendezvous" \/ farSockID[s] = NoSock \/ ~compatible(s, p)
          /\ UNCHANGED <<sockState, rlVars>>
       \/ /\ p.req = "Rendezvous" /\ farSockID[s] # NoSock /\ compatible(s, p)
          /\ rl' = [rl EXCEPT ![s] = "accept"]
          /\ rlPkt' = [rlPkt EXCEPT ![s] = p]
          /\ rlFrom' = [rlFrom EXCEPT ![s] = "Rendezvous"]
          /\ UNCHANGED sockState
    /\ UNCHANGED <<timerVars, waitVars, chanVars, peerVars, muxVars, mgrVars,
                   userVars, net>>

\* readHandshake, case sockStateConnected (udtsocket.go:1037-1045): a server
\* repeats its HsResponse to a repeated HsRequest, a non-server answers a
\* repeated HsResponse with HsResponse2
RhConnected(s, p) ==
    /\ s \notin crashed /\ rl[s] = "idle" /\ Routed(s, p)
    /\ sockState[s] = "Connected"
    /\ net' = CASE isServer(s) /\ p.req = "Request" ->
                      net \cup {sendHandshake(s, "Response")}
                [] ~isServer(s) /\ p.req = "Response" ->
                      net \cup {sendHandshake(s, "Response2")}
                [] OTHER -> net
    /\ UNCHANGED <<sockState, timerVars, waitVars, chanVars, peerVars, muxVars,
                   mgrVars, rlVars, userVars, rvHeard>>

\* mutant: the accepting branch forgets to release connectWait
RhAccept_noWait(s) ==
    /\ s \notin crashed /\ rl[s] = "accept"
    /\ LET p == rlPkt[s] IN
       /\ farSockID' = [farSockID EXCEPT ![s] = p.src]
       /\ rvSockets' = IF rlFrom[s] = "Rendezvous" THEN rvSockets \ {s} ELSE rvSockets
       /\ mtu' = [mtu EXCEPT ![s] = MinOf(mtu[s], p.mtu)]
       /\ net' = net
    /\ launched' = [launched EXCEPT ![s] = TRUE]
    /\ connRetry' = [connRetry EXCEPT ![s] = FALSE]
    /\ sockState' = [sockState EXCEPT ![s] = "Connected"]
    /\ connTimeout' = [connTimeout EXCEPT ![s] = FALSE]
    /\ rl' = [rl EXCEPT ![s] = "idle"]
    /\ UNCHANGED <<toPending, lingerTimer, waitVars, chanVars, initPktSeq,
                   isDatagram, sockets, accepted, mgrVars, rlPkt, rlFrom,
                   userVars, rvHeard>>

\* mutant: the dialler does not lower its mtu to the peer's MaxPktSize
RhAccept_keepMtu(s) ==
    /\ s \notin crashed /\ rl[s] = "accept"
    /\ LET p == rlPkt[s]
           m == MinOf(mtu[s], p.mtu) IN
       /\ farSockID' = [farSockID EXCEPT ![s] = p.src]
       /\ rvSockets' = IF rlFrom[s] = "Rendezvous" THEN rvSockets \ {s} ELSE rvSockets
       /\ UNCHANGED mtu
       /\ net' = IF rlFrom[s] = "Rendezvous" /\ ~connectWait[s]
                 THEN net \cup {Handshake(s, "Response", p.src, initPktSeq[s],
                                          m, isDatagram[s])}
                 ELSE net
    /\ launched' = [launched EXCEPT ![s] = TRUE]
    /\ connRetry' = [connRetry EXCEPT ![s] = FALSE]
    /\ sockState' = [sockState EXCEPT ![s] = "Connected"]
    /\ connTimeout' = [connTimeout EXCEPT ![s] = FALSE]
    /\ rl' = [rl EXCEPT ![s] = IF connectWait[s] THEN "release" ELSE "idle"]
    /\ UNCHANGED <<toPending, lingerTimer, waitVars, chanVars, initPktSeq,
                   isDatagram, sockets, accepted, mgrVars, rlPkt, rlFrom,
                   userVars, rvHeard>>

\* the accepting tail of the Connecting and Rendezvous branches
\* (udtsocket.go:981-995, 1016-1034) up to the nil test of s.connectWait:
\* adopt the peer's id, lower the mtu, launch the processors, clear the
\* timer fields and enter Connected.  A rendezvous socket leaves the
\* rendezvous list first and, with no WaitGroup to release, sends its final
\* HsResponse at once.
RhAccept(s) ==
    /\ s \notin crashed /\ rl[s] = "accept"
    /\ LET p == rlPkt[s]
           m == MinOf(mtu[s], p.mtu) IN
       /\ farSockID' = [farSockID EXCEPT ![s] = p.src]
       /\ rvSockets' = IF rlFrom[s] = "Rendezvous" THEN rvSockets \ {s} ELSE rvSockets
       /\ mtu' = [mtu EXCEPT ![s] = m]
       /\ net' = IF rlFrom[s] = "Rendezvous" /\ ~connectWait[s]
                 THEN net \cup {Handshake(s, "Response", p.src, initPktSeq[s],
                                          m, isDatagram[s])}
                 ELSE net
    /\ launched' = [launched EXCEPT ![s] = TRUE]
    /\ connRetry' = [connRetry EXCEPT ![s] = FALSE]
    /\ sockState' = [sockState EXCEPT ![s] = "Connected"]
    /\ connTimeout' = [connTimeout EXCEPT ![s] = FALSE]
    /\ rl' = [rl EXCEPT ![s] = IF connectWait[s] THEN "release" ELSE "idle"]
    /\ UNCHANGED <<toPending, lingerTimer, waitVars, chanVars, initPktSeq,
                   isDatagram, sockets, accepted, mgrVars, rlPkt, rlFrom,
                   userVars, rvHeard>>

\* connectWait.Done(); connectWait = nil, then, for a rendezvous, the final
\* HsResponse (udtsocket.go:992-995, 1028-1034)
RhRelease(s) ==
    /\ s \notin crashed /\ rl[s] = "release"
    /\ Done(s)
    /\ net' = IF rlFrom[s] = "Rendezvous" /\ connectWait[s] /\ wg[s] > 0
              THEN net \cup {sendHandshake(s, "Response")} ELSE net
    /\ rl' = [rl EXCEPT ![s] = "idle"]
    /\ UNCHANGED <<sockState, timerVars, chanVars, peerVars, muxVars, mgrVars,
                   rlPkt, rlFrom, userVars, rvHeard>>

-----------------------------------------------------------------------------
(* goManageConnection (udtsocket.go:860-895).  Its select waits on the      *)
(* channels it read from s.connTimeout, s.connRetry and s.lingerTimer when *)
(* it was entered (cap): clearing a field from another goroutine does not  *)
(* take the channel out of a select that is already waiting on it.  Each   *)
(* case body ends by entering the select again, which reads the fields     *)
(* anew.                                                                   *)

\* case <-s.connRetry: resend the handshake of a connecting or rendezvous
\* socket and arm a fresh 250 ms retry
FireRetry(s) ==
    /\ s \notin crashed /\ mgr[s] = "select" /\ "retry" \in cap[s]
    /\ LET again == sockState[s] \in {"Connecting", "Rendezvous"} IN
       /\ connRetry' = [connRetry EXCEPT ![s] = again]
       /\ cap' = [cap EXCEPT ![s] = Capture(connTimeout[s], again, lingerTimer[s])]
    /\ net' = CASE sockState[s] = "Connecting" -> net \cup {sendHandshake(s, "Request")}
                [] sockState[s] = "Rendezvous" -> net \cup {sendHandshake(s, "Rendezvous")}
                [] OTHER -> net
    /\ UNCHANGED <<sockState, connTimeout, toPending, lingerTimer, waitVars,
                   chanVars, peerVars, muxVars, mgr, sd, rlVars, userVars, rvHeard>>

\* mutant: shutdown skips the release of connectWait
FireTimeout_noRelease(s) ==
    /\ s \notin crashed /\ mgr[s] = "select" /\ "timeout" \in cap[s] /\ toPending[s]
    /\ toPending' = [toPending EXCEPT ![s] = FALSE]
    /\ \/ /\ ~isOpen(sockState[s])
          /\ cap' = [cap EXCEPT ![s] = Capture(connTimeout[s], connRetry[s], lingerTimer[s])]
          /\ UNCHANGED <<rvSockets, mgr, sd>>
       \/ /\ isOpen(sockState[s])
          /\ rvSockets' = IF sockState[s] = "Rendezvous" THEN rvSockets \ {s} ELSE rvSockets
          /\ sd' = [sd EXCEPT ![s] = [to |-> "Timeout", linger |-> TRUE]]
          /\ mgr' = [mgr EXCEPT ![s] = "finish"]
          /\ UNCHANGED cap
    /\ UNCHANGED <<sockState, connTimeout, connRetry, lingerTimer, waitVars,
                   chanVars, peerVars, sockets, accepted, rlVars, userVars, net, rvHeard>>

\* case <-s.connTimeout: shutdown(sockStateTimeout, true, nil), up to its
\* nil test of s.connectWait (udtsocket.go:1051-1063): a socket that is no
\* longer open returns at once; a rendezvous socket leaves the rendezvous list
FireTimeout(s) ==
    /\ s \notin crashed /\ mgr[s] = "select" /\ "timeout" \in cap[s] /\ toPending[s]
    /\ toPending' = [toPending EXCEPT ![s] = FALSE]
    /\ \/ /\ ~isOpen(sockState[s])
          /\ cap' = [cap EXCEPT ![s] = Capture(connTimeout[s], connRetry[s], lingerTimer[s])]
          /\ UNCHANGED <<rvSockets, mgr, sd>>
       \/ /\ isOpen(sockState[s])
          /\ rvSockets' = IF sockState[s] = "Rendezvous" THEN rvSockets \ {s} ELSE rvSockets
          /\ sd' = [sd EXCEPT ![s] = [to |-> "Timeout", linger |-> TRUE]]
          /\ mgr' = [mgr EXCEPT ![s] = IF connectWait[s] THEN "release" ELSE "finish"]
          /\ UNCHANGED cap
    /\ UNCHANGED <<sockState, connTimeout, connRetry, lingerTimer, waitVars,
                   chanVars, peerVars, sockets, accepted, rlVars, userVars, net, rvHeard>>

\* shutdown: s.connectWait.Done(); s.connectWait = nil (udtsocket.go:1063-1066)
SdRelease(s) ==
    /\ s \notin crashed /\ mgr[s] = "release"
    /\ Done(s)
    /\ mgr' = [mgr EXCEPT ![s] = "finish"]
    /\ UNCHANGED <<sockState, timerVars, chanVars, peerVars, muxVars, cap, sd,
                   rlVars, userVars, net, rvHeard>>

\* mutant: shutdown forgets to arm the linger timer
SdFinish_noLinger(s) ==
    /\ s \notin crashed /\ mgr[s] = "finish"
    /\ sockState' = [sockState EXCEPT ![s] = sd[s].to]
    /\ connTimeout' = [connTimeout EXCEPT ![s] = FALSE]
    /\ connRetry' = [connRetry EXCEPT ![s] = FALSE]
    /\ sockShutdown' = [sockShutdown EXCEPT ![s] = @ \/ sd[s].linger]
    /\ sockClosed' = [sockClosed EXCEPT ![s] = @ \/ ~sd[s].linger]
    /\ sockets' = IF sd[s].linger THEN sockets ELSE sockets \ {s}
    /\ mgr' = [mgr EXCEPT ![s] = "select"]
    /\ cap' = [cap EXCEPT ![s] = Capture(FALSE, FALSE, lingerTimer[s])]
    /\ UNCHANGED <<toPending, lingerTimer, waitVars, peerVars, rvSockets,
                   accepted, sd, rlVars, userVars, net, rvHeard>>

\* the rest of shutdown (udtsocket.go:1067-1086): enter the target state,
\* arm the linger timer, clear the handshake timers, and either close
\* sockShutdown (linger) or deregister the socket and close sockClosed;
\* then the select is entered again
SdFinish(s) ==
    /\ s \notin crashed /\ mgr[s] = "finish"
    /\ LET li == lingerTimer[s] \/ sd[s].linger IN
       /\ lingerTimer' = [lingerTimer EXCEPT ![s] = li]
       /\ cap' = [cap EXCEPT ![s] = Capture(FALSE, FALSE, li)]
    /\ sockState' = [sockState EXCEPT ![s] = sd[s].to]
    /\ connTimeout' = [connTimeout EXCEPT ![s] = FALSE]
    /\ connRetry' = [connRetry EXCEPT ![s] = FALSE]
    /\ sockShutdown' = [sockShutdown EXCEPT ![s] = @ \/ sd[s].linger]
    /\ sockClosed' = [sockClosed EXCEPT ![s] = @ \/ ~sd[s].linger]
    /\ sockets' = IF sd[s].linger THEN sockets ELSE sockets \ {s}
    /\ mgr' = [mgr EXCEPT ![s] = "select"]
    /\ UNCHANGED <<toPending, waitVars, peerVars, rvSockets, accepted, sd,
                   rlVars, userVars, net, rvHeard>>

\* case <-s.lingerTimer: closeSocket, close sockClosed, and return
FireLinger(s) ==
    /\ s \notin crashed /\ mgr[s] = "select" /\ "linger" \in cap[s]
    /\ sockets' = sockets \ {s}
    /\ sockClosed' = [sockClosed EXCEPT ![s] = TRUE]
    /\ mgr' = [mgr EXCEPT ![s] = "exited"]
    /\ UNCHANGED <<sockState, timerVars, waitVars, sockShutdown, peerVars,
                   rvSockets, accepted, cap, sd, rlVars, userVars, net, rvHeard>>

-----------------------------------------------------------------------------
(* The network loses a datagram; delivery leaves it in flight, so that it  *)
(* may be delivered again.                                                 *)

Lose(p) ==
    /\ net' = net \ {p}
    /\ UNCHANGED <<sockState, timerVars, waitVars, chanVars, peerVars, muxVars,
                   mgrVars, rlVars, userVars, rvHeard>>

Next ==
    \/ \E s \in Socks :
          \/ StartConnect(s) \/ StartRendezvous(s) \/ WaitReturn(s)
          \/ RhAccept(s) \/ RhRelease(s)
          \/ FireRetry(s) \/ FireTimeout(s) \/ SdRelease(s) \/ SdFinish(s)
          \/ FireLinger(s)
          \/ \E p \in net : RhConnecting(s, p) \/ RhRendezvous(s, p) \/ RhConnected(s, p)
    \/ \E p \in net : ListenerAccept(p) \/ ListenerRefuse(p) \/ Lose(p)

\* Go timers fire once their delay has passed and a goroutine woken by a
\* timer, a WaitGroup or the scheduler runs: every step of the manage
\* goroutine, of an accept already under way in the read loop, and the
\* return from Wait is weakly fair.  The network and the users are not.
Fairness ==
    \A s \in Socks :
        /\ WF_vars(WaitReturn(s))
        /\ WF_vars(RhAccept(s)) /\ WF_vars(RhRelease(s))
        /\ WF_vars(FireRetry(s)) /\ WF_vars(FireTimeout(s))
        /\ WF_vars(SdRelease(s)) /\ WF_vars(SdFinish(s)) /\ WF_vars(FireLinger(s))

Spec == Init /\ [][Next]_vars /\ Fairness

-----------------------------------------------------------------------------
(* Properties.                                                             *)

\* Dial handshake: once both ends have launched their processors they use
\* the same packet size, the minimum of what each offered (readHandshake
\* lowers s.mtu from the peer's MaxPktSize on both sides).
MtuAgree ==
    (Mode = "dial" /\ launched[A] /\ launched[B]) => mtu[A] = mtu[B]

\* startConnect / startRendezvous returns (or the process has panicked):
\* connectWait is released on every path that leaves the handshake.
DialReturns ==
    \A s \in Socks : user[s] = "waiting" ~> (user[s] = "returned" \/ s \in crashed)

\* A socket that has reached a terminal state is eventually dropped from its
\* multiplexer and its goManageConnection returns: the linger timer fires.
ManageExits ==
    \A s \in Socks :
        sockState[s] \in Terminal ~> (mgr[s] = "exited" \/ s \in crashed)

\* startConnect returns a nil error only for a socket that is Connected
\* (connectWait is released after sockState is written).
DialOkOnlyWhenConnected ==
    [][\A s \in Socks :
         (user[s] = "waiting" /\ user'[s] = "returned" /\ dialErr'[s] = "nil")
            => sockState[s] = "Connected"]_vars

\* connectWait.Done is called at most once per WaitGroup, so that no host
\* panics with a negative counter or a nil connectWait.
NoWaitGroupPanic == crashed = {}

\* The state machine only moves from non-terminal to terminal states: a
\* socket that has timed out, been refused or closed is never reopened.
TerminalStateFinal ==
    [][\A s \in Socks : sockState[s] \in Terminal => sockState'[s] \in Terminal]_vars

\* The handshake timeout only ends a handshake: it never shuts down a
\* socket that is already Connected.
HandshakeTimeoutOnlyWhileConnecting ==
    [][\A s \in Socks :
         (sockState'[s] = "Timeout" /\ sockState[s] # "Timeout")
            => sockState[s] \in {"Connecting", "Rendezvous"}]_vars

\* A rendezvous socket that has read a compatible HsRendezvous from its peer
\* goes on to Connected.
RendezvousCompletes ==
    \A s \in Socks : rvHeard[s] ~> (sockState[s] = "Connected" \/ s \in crashed)

=============================================================================
