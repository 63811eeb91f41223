----------------------------- MODULE SocketRead -----------------------------
(***************************************************************************)
(* The user side of a socket's inbound data path (udtsocket.go): Read in   *)
(* both modes (556-611), the non-blocking and the deadline-free blocking   *)
(* paths of fetchReadPacket (502-534), and what shutdown does to the data  *)
(* path (1051-1086): it makes the state terminal and then sends nil into   *)
(* messageIn to wake a blocked Read.  Deadlines are modelled in Deadline;  *)
(* here no deadline is set, so a blocking fetch waits for messageIn only.  *)
(*                                                                         *)
(* A message is named by its arrival number k and has lens[k] bytes; its   *)
(* j-th byte is <<k, j>>.  messageIn is a sequence of arrival numbers, and *)
(* 0 stands for the nil that shutdown sends.  currPartialRead, always a    *)
(* tail of one message, is the record [msg |-> k, from |-> j] (bytes j ..  *)
(* lens[k] of message k); msg = 0 is the nil slice.  out records every     *)
(* byte Read has copied to the caller, in order.                           *)
(***************************************************************************)
EXTENDS Naturals, Sequences

CONSTANTS
    MaxMsgs,    \* messages the peer delivers in a run
    MaxReads,   \* Read calls the user makes in a run
    MsgLens,    \* payload lengths of a delivered message
    BufLens,    \* lengths of the buffer passed to Read
    MsgCap      \* capacity of messageIn (256 in newSocket, 829)

ASSUME SocketReadAssumption ==
    /\ MaxMsgs \in Nat /\ MaxReads \in Nat
    /\ MsgLens \subseteq Nat \ {0} /\ BufLens \subseteq Nat
    /\ MsgCap \in Nat \ {0}

VARIABLES
    isDatagram,  \* the socket's mode, fixed when the socket is made
    open,        \* isOpen(): sockState is not terminal
    sdpc,        \* shutdown: "none", "marker" (nil still to send), "done"
    messageIn,   \* the channel s.messageIn
    sent,        \* messages delivered into messageIn so far
    lens,        \* lens[k]: the length of message k
    cur,         \* s.currPartialRead
    rpc,         \* the Read caller: "idle", "dgram", "loop" or "copy"
    connErr,     \* Read's connErr != nil, taken when the call starts (557)
    l,           \* len(p)
    n,           \* bytes copied by this call (idx is always equal to n)
    reads,       \* Read calls made
    rres,        \* the result of the last Read: "none", "ok", "trunc", "err"
    out          \* every byte copied to the caller so far

vars == <<isDatagram, open, sdpc, messageIn, sent, lens, cur, rpc, connErr,
          l, n, reads, rres, out>>

NoMsg == 0
NilSlice == [msg |-> NoMsg, from |-> 1]

\* bytes a .. a + t - 1 of message k, as copy() hands them to the caller
Bytes(k, a, t) == [i \in 1 .. t |-> <<k, a + i - 1>>]

\* what is left of a slice: len(currPartialRead)
Avail(c) == IF c.msg = NoMsg THEN 0 ELSE lens[c.msg] - c.from + 1

MinOf(a, b) == IF a < b THEN a ELSE b

TypeOK ==
    /\ isDatagram \in BOOLEAN /\ open \in BOOLEAN /\ connErr \in BOOLEAN
    /\ sdpc \in {"none", "marker", "done"}
    /\ sent \in 0 .. MaxMsgs
    /\ lens \in Seq(MsgLens) /\ Len(lens) = sent
    /\ messageIn \in Seq(0 .. sent) /\ Len(messageIn) <= MsgCap
    /\ cur \in [msg : 0 .. sent, from : Nat \ {0}]
    /\ rpc \in {"idle", "dgram", "loop", "copy"}
    /\ l \in Nat /\ n \in Nat /\ reads \in 0 .. MaxReads
    /\ rres \in {"none", "ok", "trunc", "err"}
    /\ out \in Seq(Nat \X Nat)

Init ==
    /\ isDatagram \in BOOLEAN
    /\ open = TRUE
    /\ sdpc = "none"
    /\ messageIn = <<>>
    /\ sent = 0
    /\ lens = <<>>
    /\ cur = NilSlice
    /\ rpc = "idle"
    /\ connErr = FALSE
    /\ l = 0 /\ n = 0
    /\ reads = 0
    /\ rres = "none"
    /\ out = <<>>

-----------------------------------------------------------------------------
(* The peer side.                                                          *)

\* udtSocketRecv.ingestData hands a payload to messageIn (not under src/)
Arrive(len) ==
    /\ sent < MaxMsgs
    /\ Len(messageIn) < MsgCap
    /\ sent' = sent + 1
    /\ lens' = Append(lens, len)
    /\ messageIn' = Append(messageIn, sent + 1)
    /\ UNCHANGED <<isDatagram, open, sdpc, cur, rpc, connErr, l, n, reads,
                   rres, out>>

\* shutdown: the isOpen guard, then s.sockState = sockState
ShutdownState ==
    /\ open
    /\ open' = FALSE
    /\ sdpc' = "marker"
    /\ UNCHANGED <<isDatagram, messageIn, sent, lens, cur, rpc, connErr, l,
                   n, reads, rres, out>>

\* shutdown's last statement, s.messageIn <- nil, which blocks while full
ShutdownWake ==
    /\ sdpc = "marker"
    /\ Len(messageIn) < MsgCap
    /\ messageIn' = Append(messageIn, NoMsg)
    /\ sdpc' = "done"
    /\ UNCHANGED <<isDatagram, open, sent, lens, cur, rpc, connErr, l, n,
                   reads, rres, out>>

-----------------------------------------------------------------------------
(* The Read caller.                                                        *)

\* Read(p) with len(p) = len: connErr is taken from sockState once
ReadCall(len) ==
    /\ rpc = "idle"
    /\ reads < MaxReads
    /\ reads' = reads + 1
    /\ connErr' = ~open
    /\ l' = len
    /\ n' = 0
    /\ rpc' = IF isDatagram THEN "dgram" ELSE "loop"
    /\ UNCHANGED <<isDatagram, open, sdpc, messageIn, sent, lens, cur, rres,
                   out>>

\* fetchReadPacket(blocking): a blocking fetch waits for a message; a
\* non-blocking one takes what is there or returns nil
Fetch(blocking) ==
    /\ blocking => messageIn # <<>>
    /\ messageIn' = IF messageIn = <<>> THEN messageIn ELSE Tail(messageIn)

Fetched == IF messageIn = <<>> THEN NoMsg ELSE Head(messageIn)

\* the datagram branch: one message, truncated to the buffer
ReadDatagram ==
    /\ rpc = "dgram"
    /\ Fetch(~connErr)
    /\ rpc' = "idle"
    /\ IF Fetched = NoMsg /\ connErr
       THEN /\ rres' = "err"
            /\ UNCHANGED <<n, out>>
       ELSE LET len == IF Fetched = NoMsg THEN 0 ELSE lens[Fetched]
                cnt == MinOf(l, len)
            IN  /\ n' = cnt
                /\ out' = out \o Bytes(Fetched, 1, cnt)
                /\ rres' = IF cnt < len THEN "trunc" ELSE "ok"
    /\ UNCHANGED <<isDatagram, open, sdpc, sent, lens, cur, connErr, l, reads>>

\* (a mutant: the fetch blocks whenever connErr is nil, whatever n is)
ReadLoop_alwaysblock ==
    /\ rpc = "loop"
    /\ \/ /\ n >= l
          /\ rpc' = "idle" /\ rres' = "ok"
          /\ UNCHANGED <<messageIn, cur>>
       \/ /\ n < l /\ cur.msg # NoMsg
          /\ rpc' = "copy"
          /\ UNCHANGED <<messageIn, cur, rres>>
       \/ /\ n < l /\ cur.msg = NoMsg
          /\ Fetch(~connErr)
          /\ cur' = [msg |-> Fetched, from |-> 1]
          /\ IF Fetched = NoMsg /\ (n # 0 \/ connErr)
             THEN rpc' = "idle" /\ rres' = IF n # 0 THEN "ok" ELSE "err"
             ELSE rpc' = "copy" /\ UNCHANGED rres
    /\ UNCHANGED <<isDatagram, open, sdpc, sent, lens, connErr, l, n, reads,
                   out>>

\* the top of the stream loop: leave it, keep the partial read, or fetch
ReadLoop ==
    /\ rpc = "loop"
    /\ \/ /\ n >= l
          /\ rpc' = "idle" /\ rres' = "ok"
          /\ UNCHANGED <<messageIn, cur>>
       \/ /\ n < l /\ cur.msg # NoMsg
          /\ rpc' = "copy"
          /\ UNCHANGED <<messageIn, cur, rres>>
       \/ /\ n < l /\ cur.msg = NoMsg
          /\ Fetch(n = 0 /\ ~connErr)
          /\ cur' = [msg |-> Fetched, from |-> 1]
          /\ IF Fetched = NoMsg /\ (n # 0 \/ connErr)
             THEN rpc' = "idle" /\ rres' = IF n # 0 THEN "ok" ELSE "err"
             ELSE rpc' = "copy" /\ UNCHANGED rres
    /\ UNCHANGED <<isDatagram, open, sdpc, sent, lens, connErr, l, n, reads,
                   out>>

\* (a mutant: an exhausted packet is not reset to nil)
ReadCopy_noreset ==
    /\ rpc = "copy"
    /\ LET thisN == MinOf(l - n, Avail(cur))
       IN  /\ out' = out \o Bytes(cur.msg, cur.from, thisN)
           /\ n' = n + thisN
           /\ cur' = IF n + thisN >= Avail(cur) THEN cur
                     ELSE [cur EXCEPT !.from = @ + n + thisN]
    /\ rpc' = "loop"
    /\ UNCHANGED <<isDatagram, open, sdpc, messageIn, sent, lens, connErr, l,
                   reads, rres>>

\* copy(p[idx:], s.currPartialRead), then the slice is advanced by n
ReadCopy ==
    /\ rpc = "copy"
    /\ LET thisN == MinOf(l - n, Avail(cur))
       IN  /\ out' = out \o Bytes(cur.msg, cur.from, thisN)
           /\ n' = n + thisN
           /\ cur' = IF n + thisN >= Avail(cur) THEN NilSlice
                     ELSE [cur EXCEPT !.from = @ + n + thisN]
    /\ rpc' = "loop"
    /\ UNCHANGED <<isDatagram, open, sdpc, messageIn, sent, lens, connErr, l,
                   reads, rres>>

ReadStep == ReadDatagram \/ ReadLoop \/ ReadCopy

Next ==
    \/ \E len \in MsgLens : Arrive(len)
    \/ ShutdownState \/ ShutdownWake
    \/ \E len \in BufLens : ReadCall(len)
    \/ ReadStep

\* A started Read runs on its caller's goroutine and shutdown on the
\* manager's; the peer and the user may stop at any time.
Spec == Init /\ [][Next]_vars /\ WF_vars(ReadStep) /\ WF_vars(ShutdownWake)

-----------------------------------------------------------------------------
(* Properties.                                                             *)

\* byte a was delivered into messageIn before byte b
Before(a, b) == a[1] < b[1] \/ (a[1] = b[1] /\ a[2] < b[2])

\* Read hands the caller the bytes of the arrived messages in the order
\* they arrived, each at most once, however the slicing of
\* currPartialRead (599-607) and the message boundaries fall.
DeliveredInOrder ==
    \A i \in 1 .. Len(out) - 1 : Before(out[i], out[i + 1])

\* A Read that has copied some bytes returns without waiting for more:
\* after the first packet fetchReadPacket is called non-blocking (583).
ReadReturnsOnceCopied == (rpc # "idle" /\ n > 0) ~> rpc = "idle"

\* the byte that follows byte a in the stream of arrived messages
Succ(a) == IF a[2] < lens[a[1]] THEN <<a[1], a[2] + 1>> ELSE <<a[1] + 1, 1>>

\* A stream socket hands over the bytes of its messages with nothing left
\* out: the stream coalesces packets (spec.md, section 6), so what Read
\* has copied, followed by what currPartialRead still holds, is the start
\* of the concatenated messages, and with no partial read pending the last
\* byte copied ends its message.
StreamIntact ==
    ~isDatagram =>
        /\ out # <<>> => out[1] = <<1, 1>>
        /\ \A i \in 1 .. Len(out) - 1 : out[i + 1] = Succ(out[i])
        /\ cur.msg # NoMsg /\ out # <<>> => <<cur.msg, cur.from>> = Succ(out[Len(out)])
        /\ cur.msg = NoMsg /\ out # <<>> => out[Len(out)][2] = lens[out[Len(out)][1]]

\* Close and a peer shutdown must unblock a concurrent Read (spec.md,
\* section 5): once shutdown has sent its nil into messageIn, a Read in
\* progress returns.
ShutdownUnblocksRead == (rpc # "idle" /\ sdpc = "done") ~> rpc = "idle"
=============================================================================
