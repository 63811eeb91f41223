---------------------------- MODULE Multiplexer ----------------------------
(***************************************************************************)
(* The lifetime of one multiplexer of src/udt/multiplexer.go: the sockets  *)
(* registered in it and their ids, its listener and rendezvous list, the   *)
(* servSockMutex that guards those two, the dest-0 branch of the read loop *)
(* that takes the mutex, and checkLive's teardown, all run by goroutines   *)
(* that share the multiplexer's fields without any other synchronisation. *)
(*                                                                         *)
(* Processes: every user in Users dials one socket through this            *)
(* multiplexer (multiplexerFor, newSocket, sendPacket, later closeSocket); *)
(* Lsn is a listener (multiplexerFor, listenUDT, later unlistenUDT); the   *)
(* read loop goRead is the variable rd.  The packets themselves are        *)
(* abstracted away: only whether a dest-0 handshake arrives and whether it *)
(* matches a rendezvous socket's peer address is kept.                     *)
(***************************************************************************)
EXTENDS Integers, FiniteSets

CONSTANTS
    Users,            \* the goroutines that dial a socket on this multiplexer
    RvUsers,          \* those of them that dial in rendezvous mode
    Lsn,              \* the listener goroutine
    SidBits,          \* the width of the socket-id counter (32 in the code)
    Listener,         \* "initial": the listener created the multiplexer,
                      \* "late": it arrives later, "none": there is none
    MayUnlisten,      \* whether the listener may close
    DestZeroTraffic   \* whether datagrams with destination 0 reach the loop

ASSUME MuxAssumption ==
    /\ RvUsers \subseteq Users
    /\ Lsn \notin Users
    /\ SidBits \in Nat \ {0}
    /\ 2^SidBits \in Nat \ {0}     \* the modulus of the id counter
    /\ Listener \in {"initial", "late", "none"}
    /\ MayUnlisten \in BOOLEAN
    /\ DestZeroTraffic \in BOOLEAN

Procs == Users \cup {Lsn}

\* the values of a uint32 of SidBits bits
Sids == 0 .. (2^SidBits - 1)
NoSid == -1

\* the goroutine that called multiplexerFor first and so created it
Creator == CHOOSE u \in Users : TRUE

VARIABLES
    registered,   \* multiplexers holds this multiplexer under its key
    conn,         \* m.conn: "open", "closed" (Close called) or "nil"
    pktOut,       \* m.pktOut: "open", "closed" or "nil"
    socks,        \* the keys of m.sockets
    nextSid,      \* m.nextSid
    listenSock,   \* m.listenSock != nil
    rvList,       \* the sockets in m.rvSockets
    holder,       \* who holds servSockMutex: "none", "read" or a process
    rd,           \* pc of goRead: "recv", "lock" or "route"
    pc,           \* pc of every process
    mysid,        \* the sid a user's newSocket allocated
    panics        \* the runtime panics that happened (the program dies)

vars == <<registered, conn, pktOut, socks, nextSid, listenSock, rvList,
          holder, rd, pc, mysid, panics>>

UserPcs == {"idle", "alloc", "store", "rvStart", "send", "live", "rvEnd",
            "close", "blocked"}
ListenerPcs == {"idle", "listen", "listening"}
CheckLivePcs == {"cl_conn", "cl_live1", "cl_del", "cl_live2",
                 "td_close", "td_connnil", "td_pkt", "td_pktnil", "done"}
PanicKinds == {"readNilConn", "sendClosed", "closeNil"}

TypeOK ==
    /\ registered \in BOOLEAN
    /\ conn \in {"open", "closed", "nil"}
    /\ pktOut \in {"open", "closed", "nil"}
    /\ socks \subseteq Sids
    /\ nextSid \in Sids
    /\ listenSock \in BOOLEAN
    /\ rvList \subseteq RvUsers
    /\ holder \in {"none", "read"} \cup Procs
    /\ rd \in {"recv", "lock", "route"}
    /\ pc \in [Procs -> UserPcs \cup ListenerPcs \cup CheckLivePcs]
    /\ mysid \in [Users -> Sids \cup {NoSid}]
    /\ panics \subseteq PanicKinds

\* once a goroutine panics the whole program stops
Dead == panics # {}

\* isLive (243-269): false on a nil conn, otherwise evaluated under the mutex
IsLive == conn # "nil" /\ (listenSock \/ rvList # {} \/ socks # {})

\* isLive blocks on servSockMutex unless conn is nil
CanCheckLive == conn = "nil" \/ holder = "none"

Init ==
    /\ registered = TRUE
    /\ conn = "open"
    /\ pktOut = "open"
    /\ socks = {}
    /\ nextSid \in Sids                  \* randUint32()
    /\ listenSock = (Listener = "initial")
    /\ rvList = {}
    /\ holder = "none"
    /\ rd = "recv"
    /\ pc = [p \in Procs |->
               IF p = Lsn
                 THEN CASE Listener = "initial" -> "listening"
                        [] Listener = "late"    -> "idle"
                        [] OTHER                -> "done"
                 ELSE IF p = Creator THEN "alloc" ELSE "idle"]
    /\ mysid = [u \in Users |-> NoSid]
    /\ panics = {}

(***************************************************************************)
(* multiplexerFor (51-58): Load the registry entry and return it if isLive *)
(* says so; otherwise the caller creates a fresh multiplexer, which is not *)
(* this one, and the process leaves this model.                           *)
(***************************************************************************)
MuxFor(p) ==
    /\ ~Dead
    /\ pc[p] = "idle"
    /\ \/ /\ registered
          /\ CanCheckLive
          /\ pc' = [pc EXCEPT ![p] = IF ~IsLive THEN "done"
                                     ELSE IF p = Lsn THEN "listen" ELSE "alloc"]
       \/ /\ ~registered
          /\ pc' = [pc EXCEPT ![p] = "done"]
    /\ UNCHANGED <<registered, conn, pktOut, socks, nextSid, listenSock,
                   rvList, holder, rd, mysid, panics>>

\* newSocket (196-197): sid := atomic.AddUint32(&m.nextSid, ^uint32(0))
Alloc(u) ==
    /\ ~Dead
    /\ pc[u] = "alloc"
    /\ LET sid == (nextSid - 1) % (2^SidBits) IN
         /\ nextSid' = sid
         /\ mysid' = [mysid EXCEPT ![u] = sid]
    /\ pc' = [pc EXCEPT ![u] = "store"]
    /\ UNCHANGED <<registered, conn, pktOut, socks, listenSock, rvList,
                   holder, rd, panics>>

\* newSocket (204): m.sockets.Store(sid, s)
Store(u) ==
    /\ ~Dead
    /\ pc[u] = "store"
    /\ socks' = socks \cup {mysid[u]}
    /\ pc' = [pc EXCEPT ![u] = IF u \in RvUsers THEN "rvStart" ELSE "send"]
    /\ UNCHANGED <<registered, conn, pktOut, nextSid, listenSock, rvList,
                   holder, rd, mysid, panics>>

\* m.startRendezvous (udtsocket.go 853): appends to rvSockets under the mutex
RvStart(u) ==
    /\ ~Dead
    /\ pc[u] = "rvStart"
    /\ holder = "none"
    /\ rvList' = rvList \cup {u}
    /\ pc' = [pc EXCEPT ![u] = "send"]
    /\ UNCHANGED <<registered, conn, pktOut, socks, nextSid, listenSock,
                   holder, rd, mysid, panics>>

(***************************************************************************)
(* sendPacket (350-354), reached by the first handshake: a send on a      *)
(* closed channel panics, a send on a nil channel blocks forever.         *)
(***************************************************************************)
Send(u) ==
    /\ ~Dead
    /\ pc[u] = "send"
    /\ \/ /\ pktOut = "open"
          /\ pc' = [pc EXCEPT ![u] = "live"]
          /\ UNCHANGED panics
       \/ /\ pktOut = "closed"
          /\ panics' = panics \cup {"sendClosed"}
          /\ UNCHANGED pc
       \/ /\ pktOut = "nil"
          /\ pc' = [pc EXCEPT ![u] = "blocked"]
          /\ UNCHANGED panics
    /\ UNCHANGED <<registered, conn, pktOut, socks, nextSid, listenSock,
                   rvList, holder, rd, mysid>>

\* shutdown of a socket still in Rendezvous (udtsocket.go 1060-1061)
RvEnd(u) ==
    /\ ~Dead
    /\ pc[u] = "rvEnd"
    /\ holder = "none"
    /\ rvList' = rvList \ {u}
    /\ pc' = [pc EXCEPT ![u] = "close"]
    /\ UNCHANGED <<registered, conn, pktOut, socks, nextSid, listenSock,
                   holder, rd, mysid, panics>>

\* the socket ends: its manager calls closeSocket (udtsocket.go 866, 1083)
Finish(u) ==
    /\ ~Dead
    /\ pc[u] = "live"
    /\ pc' = [pc EXCEPT ![u] = IF u \in RvUsers THEN "rvEnd" ELSE "close"]
    /\ UNCHANGED <<registered, conn, pktOut, socks, nextSid, listenSock,
                   rvList, holder, rd, mysid, panics>>

\* closeSocket (208-215): Load, Delete, checkLive
CloseSocket(u) ==
    /\ ~Dead
    /\ pc[u] = "close"
    /\ IF mysid[u] \in socks
         THEN /\ socks' = socks \ {mysid[u]}
              /\ pc' = [pc EXCEPT ![u] = "cl_conn"]
         ELSE /\ pc' = [pc EXCEPT ![u] = "done"]
              /\ UNCHANGED socks
    /\ UNCHANGED <<registered, conn, pktOut, nextSid, listenSock, rvList,
                   holder, rd, mysid, panics>>

\* listenUDT (124-132), for the only listener of this multiplexer
ListenUDT ==
    /\ ~Dead
    /\ pc[Lsn] = "listen"
    /\ holder = "none"
    /\ listenSock' = TRUE
    /\ pc' = [pc EXCEPT ![Lsn] = "listening"]
    /\ UNCHANGED <<registered, conn, pktOut, socks, nextSid, rvList,
                   holder, rd, mysid, panics>>

\* mutant: unlistenUDT returns without calling checkLive
UnlistenUDT_noCheck ==
    /\ ~Dead
    /\ MayUnlisten
    /\ pc[Lsn] = "listening"
    /\ holder = "none"
    /\ listenSock' = FALSE
    /\ pc' = [pc EXCEPT ![Lsn] = "done"]
    /\ UNCHANGED <<registered, conn, pktOut, socks, nextSid, rvList,
                   holder, rd, mysid, panics>>

\* unlistenUDT (134-146): clear listenSock under the mutex, then checkLive
UnlistenUDT ==
    /\ ~Dead
    /\ MayUnlisten
    /\ pc[Lsn] = "listening"
    /\ holder = "none"
    /\ listenSock' = FALSE
    /\ pc' = [pc EXCEPT ![Lsn] = "cl_conn"]
    /\ UNCHANGED <<registered, conn, pktOut, socks, nextSid, rvList,
                   holder, rd, mysid, panics>>

(***************************************************************************)
(* checkLive (217-241), one step per access to a shared field.  isLive is  *)
(* one step: it holds the mutex for its whole evaluation.                  *)
(***************************************************************************)
ClConn(p) ==
    /\ ~Dead
    /\ pc[p] = "cl_conn"
    /\ pc' = [pc EXCEPT ![p] = IF conn = "nil" THEN "done" ELSE "cl_live1"]
    /\ UNCHANGED <<registered, conn, pktOut, socks, nextSid, listenSock,
                   rvList, holder, rd, mysid, panics>>

\* mutant: isLive without its deferred Unlock
ClLive1_keepLock(p) ==
    /\ ~Dead
    /\ pc[p] = "cl_live1"
    /\ CanCheckLive
    /\ holder' = IF conn = "nil" THEN holder ELSE p
    /\ pc' = [pc EXCEPT ![p] = IF IsLive THEN "done" ELSE "cl_del"]
    /\ UNCHANGED <<registered, conn, pktOut, socks, nextSid, listenSock,
                   rvList, rd, mysid, panics>>

ClLive1(p) ==
    /\ ~Dead
    /\ pc[p] = "cl_live1"
    /\ CanCheckLive
    /\ pc' = [pc EXCEPT ![p] = IF IsLive THEN "done" ELSE "cl_del"]
    /\ UNCHANGED <<registered, conn, pktOut, socks, nextSid, listenSock,
                   rvList, holder, rd, mysid, panics>>

\* multiplexers.Delete(key)
ClDel(p) ==
    /\ ~Dead
    /\ pc[p] = "cl_del"
    /\ registered' = FALSE
    /\ pc' = [pc EXCEPT ![p] = "cl_live2"]
    /\ UNCHANGED <<conn, pktOut, socks, nextSid, listenSock, rvList, holder,
                   rd, mysid, panics>>

\* the re-check: a live multiplexer is stored back under its key
ClLive2(p) ==
    /\ ~Dead
    /\ pc[p] = "cl_live2"
    /\ CanCheckLive
    /\ IF IsLive
         THEN /\ registered' = TRUE
              /\ pc' = [pc EXCEPT ![p] = "done"]
         ELSE /\ pc' = [pc EXCEPT ![p] = "td_close"]
              /\ UNCHANGED registered
    /\ UNCHANGED <<conn, pktOut, socks, nextSid, listenSock, rvList, holder,
                   rd, mysid, panics>>

\* m.conn.Close(): a method call on a nil interface panics
TdClose(p) ==
    /\ ~Dead
    /\ pc[p] = "td_close"
    /\ IF conn = "nil"
         THEN /\ panics' = panics \cup {"closeNil"}
              /\ UNCHANGED <<conn, pc>>
         ELSE /\ conn' = "closed"
              /\ pc' = [pc EXCEPT ![p] = "td_connnil"]
              /\ UNCHANGED panics
    /\ UNCHANGED <<registered, pktOut, socks, nextSid, listenSock, rvList,
                   holder, rd, mysid>>

\* m.conn = nil
TdConnNil(p) ==
    /\ ~Dead
    /\ pc[p] = "td_connnil"
    /\ conn' = "nil"
    /\ pc' = [pc EXCEPT ![p] = "td_pkt"]
    /\ UNCHANGED <<registered, pktOut, socks, nextSid, listenSock, rvList,
                   holder, rd, mysid, panics>>

\* close(m.pktOut): closing a closed or a nil channel panics
TdPkt(p) ==
    /\ ~Dead
    /\ pc[p] = "td_pkt"
    /\ IF pktOut = "open"
         THEN /\ pktOut' = "closed"
              /\ pc' = [pc EXCEPT ![p] = "td_pktnil"]
              /\ UNCHANGED panics
         ELSE /\ panics' = panics \cup {"closeNil"}
              /\ UNCHANGED <<pktOut, pc>>
    /\ UNCHANGED <<registered, conn, socks, nextSid, listenSock, rvList,
                   holder, rd, mysid>>

\* m.pktOut = nil; close(m.shutdown); m.shutdown = nil.  The shutdown
\* channel is closed only by the goroutine that has just closed pktOut, so
\* it cannot be closed twice and is not a variable of its own.
TdPktNil(p) ==
    /\ ~Dead
    /\ pc[p] = "td_pktnil"
    /\ pktOut' = "nil"
    /\ pc' = [pc EXCEPT ![p] = "done"]
    /\ UNCHANGED <<registered, conn, socks, nextSid, listenSock, rvList,
                   holder, rd, mysid, panics>>

(***************************************************************************)
(* goRead (271-323).  A datagram is read through m.conn, which the loop    *)
(* loads afresh in every iteration: once teardown has set it to nil, the   *)
(* call panics.  While it is only closed, ReadFrom fails and the loop      *)
(* continues, which changes nothing.  A datagram with a non-zero           *)
(* destination goes to sockets.Load and changes nothing modelled here.     *)
(***************************************************************************)
ReadDestZero ==
    /\ ~Dead
    /\ DestZeroTraffic
    /\ rd = "recv"
    /\ conn = "open"
    /\ rd' = "lock"
    /\ UNCHANGED <<registered, conn, pktOut, socks, nextSid, listenSock,
                   rvList, holder, pc, mysid, panics>>

ReadNilConn ==
    /\ ~Dead
    /\ rd = "recv"
    /\ conn = "nil"
    /\ panics' = panics \cup {"readNilConn"}
    /\ UNCHANGED <<registered, conn, pktOut, socks, nextSid, listenSock,
                   rvList, holder, rd, pc, mysid>>

\* m.servSockMutex.Lock() (296)
ReadLock ==
    /\ ~Dead
    /\ rd = "lock"
    /\ holder = "none"
    /\ holder' = "read"
    /\ rd' = "route"
    /\ UNCHANGED <<registered, conn, pktOut, socks, nextSid, listenSock,
                   rvList, pc, mysid, panics>>

\* mutant: the listener branch forgets servSockMutex.Unlock()
ReadRoute_noUnlock ==
    /\ ~Dead
    /\ rd = "route"
    /\ rd' = "recv"
    /\ \/ /\ rvList # {}
          /\ holder' = "none"
       \/ /\ listenSock
          /\ UNCHANGED holder
       \/ /\ ~listenSock
          /\ UNCHANGED holder
    /\ UNCHANGED <<registered, conn, pktOut, socks, nextSid, listenSock,
                   rvList, pc, mysid, panics>>

(***************************************************************************)
(* 297-318: a rendezvous socket whose peer sent the handshake takes it and *)
(* the mutex is released (306); otherwise the listener takes it and the    *)
(* mutex is released (312); with no listener nothing releases it.          *)
(***************************************************************************)
ReadRoute ==
    /\ ~Dead
    /\ rd = "route"
    /\ rd' = "recv"
    /\ \/ /\ rvList # {}               \* from the peer of a rendezvous socket
          /\ holder' = "none"
       \/ /\ listenSock                \* from anyone else, with a listener
          /\ holder' = "none"
       \/ /\ ~listenSock               \* from anyone else, no listener
          /\ UNCHANGED holder
    /\ UNCHANGED <<registered, conn, pktOut, socks, nextSid, listenSock,
                   rvList, pc, mysid, panics>>

UserStep(u) ==
    \/ MuxFor(u) \/ Alloc(u) \/ Store(u) \/ RvStart(u) \/ Send(u)
    \/ Finish(u) \/ RvEnd(u) \/ CloseSocket(u)

CheckLiveStep(p) ==
    \/ ClConn(p) \/ ClLive1(p) \/ ClDel(p) \/ ClLive2(p)
    \/ TdClose(p) \/ TdConnNil(p) \/ TdPkt(p) \/ TdPktNil(p)

ListenerStep == MuxFor(Lsn) \/ ListenUDT \/ UnlistenUDT

ReadStep == ReadDestZero \/ ReadNilConn \/ ReadLock \/ ReadRoute

Next ==
    \/ \E u \in Users : UserStep(u)
    \/ ListenerStep
    \/ \E p \in Procs : CheckLiveStep(p)
    \/ ReadStep

(***************************************************************************)
(* Fairness.  Once a goroutine has started an operation it runs it to the  *)
(* end: weak fairness on every step after the first.  A step that takes    *)
(* servSockMutex gets strong fairness, since Go's sync.Mutex hands the     *)
(* lock to a waiter that has waited for over a millisecond.  When users    *)
(* dial, when a socket ends, when a listener closes and when datagrams     *)
(* arrive are up to the environment: MuxFor, Finish, UnlistenUDT and       *)
(* ReadDestZero are not fair.                                              *)
(***************************************************************************)
Fairness ==
    /\ \A u \in Users :
         /\ WF_vars(Alloc(u)) /\ WF_vars(Store(u)) /\ WF_vars(Send(u))
         /\ WF_vars(CloseSocket(u))
         /\ SF_vars(RvStart(u)) /\ SF_vars(RvEnd(u))
    /\ SF_vars(ListenUDT)
    /\ \A p \in Procs :
         /\ WF_vars(ClConn(p)) /\ SF_vars(ClLive1(p)) /\ WF_vars(ClDel(p))
         /\ SF_vars(ClLive2(p)) /\ WF_vars(TdClose(p))
         /\ WF_vars(TdConnNil(p)) /\ WF_vars(TdPkt(p)) /\ WF_vars(TdPktNil(p))
    /\ WF_vars(ReadNilConn) /\ SF_vars(ReadLock) /\ WF_vars(ReadRoute)

Spec == Init /\ [][Next]_vars /\ Fairness

-----------------------------------------------------------------------------
(* Properties *)

\* The read loop gives servSockMutex back after every dest-0 handshake, so
\* the next handshake, isLive, listenUDT and the rendezvous list never wait
\* on a lock nobody will release.
NoLockLeak == rd = "recv" => holder # "read"

\* closeSocket and unlistenUDT return: checkLive's two isLive calls get the
\* mutex and its teardown ends, unless the program has died.
CloseCompletes ==
    \A p \in Procs :
        pc[p] \in {"close", "cl_conn"} ~> (pc[p] = "done" \/ Dead)

\* The lifetime rule: a multiplexer whose endpoint has been closed holds no
\* socket, no listener and no rendezvous socket.
MuxLifetime ==
    conn # "open" => (socks = {} /\ ~listenSock /\ rvList = {})

\* No goroutine is in the middle of an operation on the multiplexer
QuiescentMux ==
    \A p \in Procs : pc[p] \in {"idle", "done", "listening", "live", "blocked"}

\* The UDP endpoint is not leaked: once no socket, listener or rendezvous
\* socket uses the multiplexer and every closeSocket and unlistenUDT has
\* returned, one of their checkLive calls has torn it down (conn and pktOut
\* are nil), whatever the order in which the last users left and however
\* their two isLive checks interleaved.  A dead program holds no endpoint.
NoEndpointLeak ==
    (QuiescentMux /\ socks = {} /\ ~listenSock /\ rvList = {} /\ ~Dead)
        => (conn = "nil" /\ pktOut = "nil")

\* No goroutine of the program panics on the multiplexer's fields: the read
\* loop survives the teardown, sendPacket never sends into the closed
\* pktOut, and the teardown never runs twice (Close on a nil conn or a
\* second close of pktOut).
NoPanic == panics = {}

\* No socket gets id 0, the id that goRead routes as "no destination".
NoZeroSid == 0 \notin socks
=============================================================================
