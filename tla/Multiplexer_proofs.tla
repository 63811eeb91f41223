------------------------- MODULE Multiplexer_proofs -------------------------
(***************************************************************************)
(* Proofs about the multiplexer's lifetime model: type correctness, and    *)
(* that a multiplexer whose listener stays for its whole life never leaks  *)
(* servSockMutex from its read loop.                                       *)
(***************************************************************************)
EXTENDS Multiplexer, TLAPS

USE MuxAssumption

\* The group of variables a step of a user or of checkLive leaves alone.
MutexVars == <<holder, rd>>

\* newSocket's decrement with wrap-around stays within the id range.
LEMMA SidWrap == \A x \in Sids : (x - 1) % (2^SidBits) \in Sids
  BY DEF Sids

(***************************************************************************)
(* TypeOK is not inductive by itself: Store adds the id the user's Alloc   *)
(* chose, and RvStart adds the user to the rendezvous list.  TypeInv adds  *)
(* that a user about to Store has allocated an id, and that only the       *)
(* rendezvous users reach RvStart.                                         *)
(***************************************************************************)
TypeInv ==
    /\ TypeOK
    /\ \A u \in Users : pc[u] = "store" => mysid[u] \in Sids
    /\ \A u \in Users \ RvUsers : pc[u] # "rvStart"

LEMMA TypeInit == Init => TypeInv
<1> SUFFICES ASSUME Init PROVE TypeInv
  OBVIOUS
<1>1. pc \in [Procs -> UserPcs \cup ListenerPcs \cup CheckLivePcs]
  BY DEF Init, UserPcs, ListenerPcs, CheckLivePcs
<1>2. nextSid \in Sids /\ mysid \in [Users -> Sids \cup {NoSid}]
  BY DEF Init
<1>3. \A u \in Users : pc[u] \in {"alloc", "idle"}
  BY DEF Init, Procs
<1>4. QED
  BY <1>1, <1>2, <1>3 DEF Init, TypeOK, TypeInv

\* Every step keeps the variables in their types.
LEMMA TypeStep == TypeInv /\ [Next]_vars => TypeInv'
<1> SUFFICES ASSUME TypeInv, [Next]_vars PROVE TypeInv'
  OBVIOUS
<1> USE DEF TypeInv, TypeOK, UserPcs, ListenerPcs, CheckLivePcs, Procs, PanicKinds
<1>1. ASSUME NEW u \in Users, UserStep(u) PROVE TypeInv'
  <2>1. CASE MuxFor(u)
    BY <2>1 DEF MuxFor
  <2>2. CASE Alloc(u)
    BY <2>2, SidWrap DEF Alloc
  <2>3. CASE Store(u)
    BY <2>3 DEF Store
  <2>4. CASE RvStart(u)
    BY <2>4 DEF RvStart
  <2>5. CASE Send(u)
    <3>1. CASE pktOut = "open"
      BY Zenon, <2>5, <3>1 DEF Send
    <3>2. CASE pktOut = "closed"
      BY Zenon, <2>5, <3>2 DEF Send
    <3>3. CASE pktOut = "nil"
      BY Zenon, <2>5, <3>3 DEF Send
    <3>4. QED
      BY <3>1, <3>2, <3>3
  <2>6. CASE Finish(u)
    BY <2>6 DEF Finish
  <2>7. CASE RvEnd(u)
    BY <2>7 DEF RvEnd
  <2>8. CASE CloseSocket(u)
    BY <2>8 DEF CloseSocket
  <2>9. QED
    BY <1>1, <2>1, <2>2, <2>3, <2>4, <2>5, <2>6, <2>7, <2>8 DEF UserStep
<1>2. CASE ListenerStep
  <2>1. CASE MuxFor(Lsn)
    BY <2>1 DEF MuxFor
  <2>2. CASE ListenUDT
    BY <2>2 DEF ListenUDT
  <2>3. CASE UnlistenUDT
    BY Zenon, <2>3 DEF UnlistenUDT
  <2>4. QED
    BY <1>2, <2>1, <2>2, <2>3 DEF ListenerStep
<1>3. ASSUME NEW p \in Procs, CheckLiveStep(p) PROVE TypeInv'
  <2>1. CASE ClConn(p)
    BY <2>1 DEF ClConn
  <2>2. CASE ClLive1(p)
    BY <2>2 DEF ClLive1
  <2>3. CASE ClDel(p)
    BY Zenon, <2>3 DEF ClDel
  <2>4. CASE ClLive2(p)
    BY Zenon, <2>4 DEF ClLive2
  <2>5. CASE TdClose(p)
    BY Zenon, <2>5 DEF TdClose
  <2>6. CASE TdConnNil(p)
    BY <2>6 DEF TdConnNil
  <2>7. CASE TdPkt(p)
    BY Zenon, <2>7 DEF TdPkt
  <2>8. CASE TdPktNil(p)
    BY <2>8 DEF TdPktNil
  <2>9. QED
    BY <1>3, <2>1, <2>2, <2>3, <2>4, <2>5, <2>6, <2>7, <2>8 DEF CheckLiveStep
<1>4. CASE ReadStep
  BY Zenon, <1>4 DEF ReadStep, ReadDestZero, ReadNilConn, ReadLock, ReadRoute
<1>5. CASE UNCHANGED vars
  BY <1>5 DEF vars
<1>6. QED
  BY <1>1, <1>2, <1>3, <1>4, <1>5 DEF Next

\* The model's variables always have the types TypeOK gives them.
THEOREM TypeCorrect == Spec => []TypeOK
<1>1. Spec => []TypeInv
  BY TypeInit, TypeStep, PTL DEF Spec
<1>2. QED
  BY <1>1, PTL DEF TypeInv

-----------------------------------------------------------------------------
(***************************************************************************)
(* A multiplexer created by its listener, which never closes, keeps        *)
(* listenSock set; then every dest-0 handshake leaves ReadRoute through a  *)
(* branch that unlocks, so the read loop holds the mutex only between its  *)
(* Lock (296) and the end of the routing.                                  *)
(***************************************************************************)
ListenerInv == listenSock /\ (holder = "read" => rd = "route")

LEMMA ListenerInvInit ==
  ASSUME Listener = "initial" PROVE Init => ListenerInv
  BY Zenon DEF Init, ListenerInv

LEMMA ListenerInvStep ==
  ASSUME ~MayUnlisten PROVE ListenerInv /\ [Next]_vars => ListenerInv'
<1> SUFFICES ASSUME ListenerInv, [Next]_vars PROVE ListenerInv'
  OBVIOUS
<1>1. ASSUME NEW u \in Users, UserStep(u) PROVE ListenerInv'
  BY Zenon, <1>1 DEF UserStep, MuxFor, Alloc, Store, RvStart, Send, Finish, RvEnd,
             CloseSocket, ListenerInv
<1>2. CASE ListenerStep
  BY Zenon, <1>2 DEF ListenerStep, MuxFor, ListenUDT, UnlistenUDT, ListenerInv
<1>3. ASSUME NEW p \in Procs, CheckLiveStep(p) PROVE ListenerInv'
  BY Zenon, <1>3 DEF CheckLiveStep, ClConn, ClLive1, ClDel, ClLive2, TdClose,
             TdConnNil, TdPkt, TdPktNil, ListenerInv
<1>4. CASE ReadStep
  <2>1. CASE ReadDestZero \/ ReadNilConn
    BY Zenon, <2>1 DEF ReadDestZero, ReadNilConn, ListenerInv
  <2>2. CASE ReadLock
    BY <2>2 DEF ReadLock, ListenerInv
  <2>3. CASE ReadRoute
    \* the branch without a listener is disabled
    BY <2>3 DEF ReadRoute, ListenerInv
  <2>4. QED
    BY <1>4, <2>1, <2>2, <2>3 DEF ReadStep
<1>5. CASE UNCHANGED vars
  BY <1>5 DEF vars, ListenerInv
<1>6. QED
  BY <1>1, <1>2, <1>3, <1>4, <1>5 DEF Next

\* With a listener for the multiplexer's whole life, the read loop never
\* keeps servSockMutex locked past a handshake (goRead, 296-313).
THEOREM NoLockLeakWithListener ==
  ASSUME Listener = "initial", ~MayUnlisten PROVE Spec => []NoLockLeak
<1>1. Spec => []ListenerInv
  BY ListenerInvInit, ListenerInvStep, PTL DEF Spec
<1>2. ListenerInv => NoLockLeak
  BY DEF ListenerInv, NoLockLeak
<1>3. QED
  BY <1>1, <1>2, PTL
=============================================================================
