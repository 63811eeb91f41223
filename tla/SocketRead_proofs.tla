-------------------------- MODULE SocketRead_proofs --------------------------
(***************************************************************************)
(* Proofs about SocketRead for every value of its constants: the bytes a   *)
(* Read hands over come in arrival order, each at most once.  The          *)
(* invariant DeliveredInOrder is not inductive by itself; Strength adds    *)
(* what a step needs to know about the bytes not yet copied:              *)
(*   - every byte copied belongs to a message that has arrived;           *)
(*   - the messages waiting in messageIn are in arrival order;            *)
(*   - a partial read is a non-empty tail of a message older than every   *)
(*     waiting one, and starts after the last byte copied;                *)
(*   - every waiting message is newer than the last byte copied;          *)
(*   - the copy step is entered with room left in the buffer.             *)
(***************************************************************************)
EXTENDS SocketRead, SequenceTheorems, TLAPS

USE SocketReadAssumption

Bytes2 == Nat \X Nat

\* the bytes of out are in arrival order
Sorted(s) == \A i \in 1 .. Len(s) - 1 : Before(s[i], s[i + 1])

LastOut == out[Len(out)]

\* every byte copied belongs to a message that has arrived
OutArrived == \A i \in 1 .. Len(out) : out[i][1] \in 1 .. sent

\* the messages of a queue q are in arrival order (nil markers aside)
Ordered(q) ==
    \A i, j \in 1 .. Len(q) :
        i < j /\ q[i] # NoMsg /\ q[j] # NoMsg => q[i] < q[j]

\* every message of a queue q is newer than message x
Above(q, x) == \A i \in 1 .. Len(q) : q[i] # NoMsg => x < q[i]

\* the messages waiting in messageIn are in arrival order
InboxOrdered == Ordered(messageIn)

\* a partial read is a non-empty tail of a message older than every waiting
\* one, and it starts after the last byte copied
PartialFresh ==
    cur.msg # NoMsg =>
        /\ cur.from <= lens[cur.msg]
        /\ Above(messageIn, cur.msg)
        /\ out # <<>> => Before(LastOut, <<cur.msg, cur.from>>)

\* every waiting message is newer than the last byte copied
InboxFresh == out # <<>> => Above(messageIn, LastOut[1])

\* the copy step is entered with room left in the buffer
CopyRoom == rpc = "copy" => n < l

\* a datagram socket never holds a partial read nor runs the stream loop
ModeShape ==
    /\ isDatagram => cur.msg = NoMsg /\ rpc \in {"idle", "dgram"}
    /\ ~isDatagram => rpc # "dgram"

Strength ==
    OutArrived /\ InboxOrdered /\ PartialFresh /\ InboxFresh /\ CopyRoom
    /\ ModeShape

IInv == TypeOK /\ DeliveredInOrder /\ Strength

\* TypeOK split in its Boolean part (left to Zenon) and the rest (to SMT)
BoolTypes == isDatagram \in BOOLEAN /\ open \in BOOLEAN /\ connErr \in BOOLEAN

DataTypes ==
    /\ sdpc \in {"none", "marker", "done"}
    /\ sent \in 0 .. MaxMsgs
    /\ lens \in Seq(MsgLens) /\ Len(lens) = sent
    /\ messageIn \in Seq(0 .. sent) /\ Len(messageIn) <= MsgCap
    /\ cur \in [msg : 0 .. sent, from : Nat \ {0}]
    /\ rpc \in {"idle", "dgram", "loop", "copy"}
    /\ l \in Nat /\ n \in Nat /\ reads \in 0 .. MaxReads
    /\ rres \in {"none", "ok", "trunc", "err"}
    /\ out \in Seq(Nat \X Nat)

LEMMA TypeSplit == TypeOK <=> BoolTypes /\ DataTypes
  BY Zenon DEF TypeOK, BoolTypes, DataTypes

-----------------------------------------------------------------------------
(* Copying bytes to the caller.                                            *)

\* Bytes(k, a, t) is the sequence of the t bytes of message k from byte a.
LEMMA BytesProps ==
  ASSUME NEW k \in Nat, NEW a \in Nat, NEW t \in Nat
  PROVE  /\ Bytes(k, a, t) \in Seq(Bytes2)
         /\ Len(Bytes(k, a, t)) = t
         /\ \A i \in 1 .. t : Bytes(k, a, t)[i] = <<k, a + i - 1>>
<1>1. Bytes(k, a, t) \in [1 .. t -> Bytes2]
  BY DEF Bytes, Bytes2
<1>2. Bytes(k, a, t) \in Seq(Bytes2)
  BY <1>1, SeqDef
<1>. QED
  BY <1>2, <1>1 DEF Bytes

\* Appending bytes a, a+1, ... of message k to a sorted sequence whose last
\* byte comes before <<k, a>> keeps it sorted; the result is described
\* element by element.
LEMMA AppendBytes ==
  ASSUME NEW s \in Seq(Bytes2), Sorted(s),
         NEW k \in Nat, NEW a \in Nat, NEW t \in Nat,
         s # <<>> /\ t > 0 => Before(s[Len(s)], <<k, a>>)
  PROVE  /\ s \o Bytes(k, a, t) \in Seq(Bytes2)
         /\ Len(s \o Bytes(k, a, t)) = Len(s) + t
         /\ \A i \in 1 .. Len(s) + t :
                (s \o Bytes(k, a, t))[i] =
                    IF i <= Len(s) THEN s[i] ELSE <<k, a + i - Len(s) - 1>>
         /\ Sorted(s \o Bytes(k, a, t))
<1> DEFINE B == Bytes(k, a, t)
<1> DEFINE r == s \o B
<1>0. Len(s) \in Nat /\ (Len(s) = 0 <=> s = <<>>)
  BY LenProperties, EmptySeq
<1>1. B \in Seq(Bytes2) /\ Len(B) = t /\ \A i \in 1 .. t : B[i] = <<k, a + i - 1>>
  BY Zenon, BytesProps
<1>2. r \in Seq(Bytes2) /\ Len(r) = Len(s) + t
      /\ \A i \in 1 .. Len(s) + t : r[i] = IF i <= Len(s) THEN s[i] ELSE B[i - Len(s)]
  BY Zenon, <1>1, ConcatProperties
<1>3. \A i \in 1 .. Len(r) :
          r[i] = IF i <= Len(s) THEN s[i] ELSE <<k, a + i - Len(s) - 1>>
  <2> SUFFICES ASSUME NEW i \in 1 .. Len(r)
               PROVE  r[i] = IF i <= Len(s) THEN s[i] ELSE <<k, a + i - Len(s) - 1>>
    OBVIOUS
  <2>1. CASE i <= Len(s)
    BY <2>1, <1>0, <1>2
  <2>2. CASE i > Len(s)
    <3>1. i - Len(s) \in 1 .. t /\ r[i] = B[i - Len(s)]
      BY <2>2, <1>0, <1>2
    <3>2. B[i - Len(s)] = <<k, a + (i - Len(s)) - 1>>
      BY <3>1, <1>1
    <3>3. a + (i - Len(s)) - 1 = a + i - Len(s) - 1
      BY <2>2, <1>0
    <3>4. ~(i <= Len(s))
      BY <2>2, <1>0
    <3>. QED
      BY <3>1, <3>2, <3>3, <3>4, Zenon
  <2>. QED
    BY <2>1, <2>2, <1>0
<1>4. Sorted(r)
  <2> SUFFICES ASSUME NEW i \in 1 .. Len(r) - 1 PROVE Before(r[i], r[i + 1])
    BY DEF Sorted
  <2>1. Len(s) \in Nat /\ (Len(s) = 0 <=> s = <<>>)
    BY <1>0
  <2>2. i \in 1 .. Len(s) + t - 1
    BY <1>2
  <2>3. CASE i < Len(s)
    BY <2>1, <2>2, <2>3, <1>2, <1>3 DEF Sorted
  <2>4. CASE i = Len(s)
    <3>1. r[i] = s[Len(s)] /\ r[i + 1] = <<k, a>>
      BY <2>1, <2>2, <2>4, <1>2, <1>3, SMTT(20)
    <3>2. s # <<>> /\ t > 0
      BY <2>1, <2>2, <2>4
    <3>. QED
      BY <3>1, <3>2
  <2>5. CASE i > Len(s)
    <3>0. i \in 1 .. Len(r) /\ i + 1 \in 1 .. Len(r) /\ ~(i <= Len(s)) /\ ~(i + 1 <= Len(s))
      BY <2>1, <2>2, <2>5, <1>2
    <3>a. r[i] = <<k, a + i - Len(s) - 1>>
      BY <3>0, <1>3, Zenon
    <3>b. r[i + 1] = <<k, a + (i + 1) - Len(s) - 1>>
      BY <3>0, <1>3, Zenon
    <3>c. a + (i + 1) - Len(s) - 1 = a + i - Len(s)
      BY <2>1, <2>2
    <3>1. r[i] = <<k, a + i - Len(s) - 1>> /\ r[i + 1] = <<k, a + i - Len(s)>>
      BY <3>a, <3>b, <3>c, Zenon
    <3>2. a + i - Len(s) - 1 < a + i - Len(s)
      BY <2>1, <2>5
    <3>. QED
      BY <3>1, <3>2 DEF Before
  <2>. QED
    BY <2>1, <2>2, <2>3, <2>4, <2>5
<1>. QED
  BY <1>2, <1>3, <1>4

-----------------------------------------------------------------------------

LEMMA IInit == Init => IInv
<1> SUFFICES ASSUME Init PROVE IInv
  OBVIOUS
<1>1. BoolTypes
  BY Zenon DEF Init, BoolTypes
<1>2. DataTypes
  BY EmptySeq DEF Init, DataTypes, NilSlice, NoMsg
<1>3. DeliveredInOrder /\ Strength
  BY DEF Init, DeliveredInOrder, Strength, OutArrived, InboxOrdered,
     PartialFresh, InboxFresh, CopyRoom, ModeShape, NilSlice, NoMsg,
     Ordered, Above
<1>. QED
  BY <1>1, <1>2, <1>3, TypeSplit DEF IInv

\* copying nothing leaves what the caller holds unchanged
LEMMA BytesNone ==
  ASSUME NEW s \in Seq(Bytes2), NEW k \in Nat, NEW a \in Nat
  PROVE  s \o Bytes(k, a, 0) = s
<1>1. Bytes(k, a, 0) = << >>
  BY DEF Bytes
<1>. QED
  BY <1>1, ConcatEmptySeq

(* The queue messageIn.                                                   *)

\* sending a message newer than all waiting ones (or a nil) keeps the
\* queue ordered and keeps every bound below the new message
LEMMA AppendQueue ==
  ASSUME NEW q \in Seq(Nat), NEW e \in Nat, Ordered(q),
         e # NoMsg => \A i \in 1 .. Len(q) : q[i] < e
  PROVE  /\ Ordered(Append(q, e))
         /\ \A x \in Nat : Above(q, x) /\ (e # NoMsg => x < e)
                            => Above(Append(q, e), x)
<1>1. /\ Len(Append(q, e)) = Len(q) + 1
      /\ \A i \in 1 .. Len(q) : Append(q, e)[i] = q[i]
      /\ Append(q, e)[Len(q) + 1] = e
      /\ Len(q) \in Nat
  BY AppendProperties, LenProperties
<1>2. \A i \in 1 .. Len(q) : q[i] \in Nat
  BY ElementOfSeq
<1>3. Ordered(Append(q, e))
  <2> SUFFICES ASSUME NEW i \in 1 .. Len(q) + 1, NEW j \in 1 .. Len(q) + 1,
                      i < j, Append(q, e)[i] # NoMsg, Append(q, e)[j] # NoMsg
               PROVE  Append(q, e)[i] < Append(q, e)[j]
    BY Zenon, <1>1 DEF Ordered
  <2>1. CASE j <= Len(q)
    BY <2>1, <1>1 DEF Ordered
  <2>2. CASE j = Len(q) + 1
    BY <2>2, <1>1, <1>2 DEF NoMsg
  <2>. QED
    BY <2>1, <2>2, <1>1
<1>. QED
  BY <1>1, <1>2, <1>3 DEF Above

\* receiving from the queue keeps it ordered, keeps the bounds, and the
\* message received is older than every message left
LEMMA TailQueue ==
  ASSUME NEW q \in Seq(Nat), q # << >>, Ordered(q)
  PROVE  /\ Ordered(Tail(q))
         /\ \A x \in Nat : Above(q, x) => Above(Tail(q), x)
         /\ Head(q) # NoMsg => Above(Tail(q), Head(q))
         /\ Head(q) \in Nat /\ Tail(q) \in Seq(Nat)
<1>1. /\ Head(q) \in Nat /\ Tail(q) \in Seq(Nat)
      /\ Len(Tail(q)) = Len(q) - 1
      /\ \A i \in 1 .. Len(Tail(q)) : Tail(q)[i] = q[i + 1]
      /\ Head(q) = q[1] /\ Len(q) \in Nat \ {0}
  BY HeadTailProperties, LenProperties, EmptySeq
<1>. QED
  BY <1>1 DEF Ordered, Above

\* what fetchReadPacket does to the queue, blocking or not
LEMMA FetchFacts ==
  ASSUME DataTypes, InboxOrdered, NEW b, Fetch(b)
  PROVE  /\ messageIn' \in Seq(0 .. sent)
         /\ Len(messageIn') <= Len(messageIn)
         /\ Ordered(messageIn')
         /\ \A x \in Nat : Above(messageIn, x) => Above(messageIn', x)
         /\ Fetched \in 0 .. sent
         /\ Fetched # NoMsg =>
                /\ Above(messageIn', Fetched)
                /\ \A x \in Nat : Above(messageIn, x) => x < Fetched
<1>1. messageIn \in Seq(0 .. sent) /\ messageIn \in Seq(Nat) /\ Ordered(messageIn)
  BY SeqMonotonic DEF DataTypes, InboxOrdered
<1>2. CASE messageIn = << >>
  BY <1>1, <1>2 DEF Fetch, Fetched, NoMsg, DataTypes
<1>3. CASE messageIn # << >>
  <2>1. messageIn' = Tail(messageIn) /\ Fetched = Head(messageIn)
    BY <1>3 DEF Fetch, Fetched
  <2>2. /\ Head(messageIn) \in 0 .. sent /\ Tail(messageIn) \in Seq(0 .. sent)
        /\ Len(Tail(messageIn)) = Len(messageIn) - 1
    BY Zenon, <1>1, <1>3, HeadTailProperties
  <2>5. Head(messageIn) = messageIn[1] /\ Len(messageIn) \in Nat \ {0}
    BY <1>1, <1>3, LenProperties, EmptySeq
  <2>3. /\ Ordered(Tail(messageIn))
        /\ \A x \in Nat : Above(messageIn, x) => Above(Tail(messageIn), x)
        /\ Head(messageIn) # NoMsg => Above(Tail(messageIn), Head(messageIn))
    BY <1>1, <1>3, TailQueue
  <2>4. Head(messageIn) # NoMsg =>
            \A x \in Nat : Above(messageIn, x) => x < Head(messageIn)
    BY <2>5 DEF Above
  <2>. QED
    BY <2>1, <2>2, <2>3, <2>4
<1>. QED
  BY <1>2, <1>3

\* the invariant in the form the steps prove it
IInvParts == BoolTypes /\ DataTypes /\ DeliveredInOrder /\ Strength

LEMMA IStep == IInv /\ [Next]_vars => IInv'
<1> SUFFICES ASSUME IInv, [Next]_vars PROVE IInvParts'
  BY Zenon DEF IInvParts, IInv, TypeOK, BoolTypes, DataTypes
<1>0. BoolTypes /\ DataTypes /\ DeliveredInOrder /\ Strength
  BY TypeSplit DEF IInv
<1>L. \A i \in 1 .. sent : lens[i] \in Nat \ {0}
  <2> SUFFICES ASSUME NEW i \in 1 .. sent PROVE lens[i] \in Nat \ {0}
    OBVIOUS
  <2>1. lens[i] \in MsgLens
    BY <1>0, ElementOfSeq DEF DataTypes
  <2>. QED
    BY Zenon, <2>1
<1>1. ASSUME NEW len \in MsgLens, Arrive(len) PROVE IInvParts'
  <2>1. BoolTypes'
    BY <1>0, <1>1, Zenon DEF Arrive, BoolTypes
  <2>2. messageIn \in Seq(0 .. sent + 1) /\ lens \in Seq(MsgLens)
        /\ Len(lens) = sent /\ sent \in Nat
    BY <1>0, SeqMonotonic DEF DataTypes
  <2>a. /\ messageIn' \in Seq(0 .. sent + 1)
        /\ Len(messageIn') = Len(messageIn) + 1
        /\ \A i \in 1 .. Len(messageIn) : messageIn'[i] = messageIn[i]
        /\ messageIn'[Len(messageIn) + 1] = sent + 1
    <3>1. sent + 1 \in 0 .. sent + 1
      BY <2>2
    <3>. QED
      BY <1>1, <2>2, <3>1, AppendProperties DEF Arrive
  <2>b. /\ lens' \in Seq(MsgLens) /\ Len(lens') = sent + 1
        /\ \A i \in 1 .. sent : lens'[i] = lens[i]
    BY <1>1, <2>2, AppendProperties DEF Arrive
  <2>c. \A i \in 1 .. Len(messageIn) : messageIn[i] \in 0 .. sent
    BY <1>0, ElementOfSeq DEF DataTypes
  <2>d. /\ Ordered(messageIn')
        /\ \A x \in Nat : Above(messageIn, x) /\ x < sent + 1
                           => Above(messageIn', x)
    <3>1. messageIn \in Seq(Nat) /\ Ordered(messageIn)
      BY <1>0, SeqMonotonic DEF DataTypes, Strength, InboxOrdered
    <3>2. sent + 1 \in Nat /\ \A i \in 1 .. Len(messageIn) : messageIn[i] < sent + 1
      BY <2>2, <2>c
    <3>3. /\ Ordered(Append(messageIn, sent + 1))
          /\ \A x \in Nat : Above(messageIn, x) /\ (sent + 1 # NoMsg => x < sent + 1)
                             => Above(Append(messageIn, sent + 1), x)
      BY <3>1, <3>2, AppendQueue
    <3>. QED
      BY <1>1, <3>3 DEF Arrive
  <2>3. DataTypes'
    BY <1>0, <1>1, <2>2, <2>a, <2>b DEF Arrive, DataTypes
  <2>4. DeliveredInOrder' /\ CopyRoom' /\ OutArrived'
    <3>1. DeliveredInOrder'
      BY <1>0, <1>1 DEF Arrive, DeliveredInOrder
    <3>2. CopyRoom'
      BY <1>0, <1>1 DEF Arrive, CopyRoom, Strength
    <3>3. OutArrived'
      BY <1>0, <1>1, <2>2 DEF Arrive, OutArrived, Strength
    <3>. QED
      BY <3>1, <3>2, <3>3
  <2>8. ModeShape'
    BY <1>0, <1>1, Zenon DEF Arrive, ModeShape, Strength
  <2>5. InboxOrdered'
    BY <2>d DEF InboxOrdered
  <2>6. InboxFresh'
    <3> SUFFICES ASSUME out # << >> PROVE Above(messageIn', LastOut[1])
      BY <1>1 DEF Arrive, InboxFresh, LastOut
    <3>1. LastOut[1] \in 1 .. sent /\ Above(messageIn, LastOut[1])
      BY <1>0, LenProperties, EmptySeq
         DEF DataTypes, Strength, OutArrived, InboxFresh, LastOut
    <3>. QED
      BY <3>1, <2>2, <2>d
  <2>7. PartialFresh'
    <3> SUFFICES ASSUME cur.msg # NoMsg
                 PROVE  /\ cur.from <= lens'[cur.msg]
                        /\ Above(messageIn', cur.msg)
                        /\ out # <<>> => Before(LastOut, <<cur.msg, cur.from>>)
      BY Zenon, <1>1 DEF Arrive, PartialFresh, LastOut
    <3>1. cur.msg \in 1 .. sent
      BY <1>0 DEF DataTypes, NoMsg
    <3>2. cur.from <= lens[cur.msg] /\ Above(messageIn, cur.msg)
          /\ (out # <<>> => Before(LastOut, <<cur.msg, cur.from>>))
      BY <1>0 DEF Strength, PartialFresh
    <3>. QED
      BY <3>1, <3>2, <2>2, <2>b, <2>d
  <2>. QED
    BY <2>1, <2>3, <2>4, <2>5, <2>6, <2>7, <2>8 DEF IInvParts, Strength
<1>2. ASSUME ShutdownState PROVE IInvParts'
  <2>1. BoolTypes'
    BY <1>0, <1>2, Zenon DEF ShutdownState, BoolTypes
  <2>2. DataTypes' /\ DeliveredInOrder' /\ Strength'
    BY <1>0, <1>2 DEF ShutdownState, DataTypes, DeliveredInOrder, Strength,
       OutArrived, InboxOrdered, PartialFresh, InboxFresh, CopyRoom,
       ModeShape, LastOut
  <2>. QED
    BY <2>1, <2>2 DEF IInvParts
<1>3. ASSUME ShutdownWake PROVE IInvParts'
  <2>1. BoolTypes'
    BY <1>0, <1>3, Zenon DEF ShutdownWake, BoolTypes
  <2>a. /\ messageIn' \in Seq(0 .. sent)
        /\ Len(messageIn') = Len(messageIn) + 1
        /\ \A i \in 1 .. Len(messageIn) : messageIn'[i] = messageIn[i]
        /\ messageIn'[Len(messageIn) + 1] = NoMsg
    BY <1>0, <1>3, AppendProperties DEF ShutdownWake, DataTypes, NoMsg
  <2>2. DataTypes'
    BY <1>0, <1>3, <2>a DEF ShutdownWake, DataTypes
  <2>3. DeliveredInOrder' /\ OutArrived' /\ CopyRoom' /\ ModeShape'
    BY <1>0, <1>3 DEF ShutdownWake, DeliveredInOrder, Strength, OutArrived,
       CopyRoom, ModeShape
  <2>b. /\ \A x \in Nat : Above(messageIn, x) => Above(messageIn', x)
        /\ Ordered(messageIn')
    <3>1. messageIn \in Seq(Nat) /\ Ordered(messageIn)
      BY <1>0, SeqMonotonic DEF DataTypes, Strength, InboxOrdered
    <3>2. /\ Ordered(Append(messageIn, NoMsg))
          /\ \A x \in Nat : Above(messageIn, x) /\ (NoMsg # NoMsg => x < NoMsg)
                             => Above(Append(messageIn, NoMsg), x)
      BY <3>1, AppendQueue DEF NoMsg
    <3>. QED
      BY <1>3, <3>2 DEF ShutdownWake
  <2>4. InboxOrdered' /\ PartialFresh' /\ InboxFresh'
    <3>1. cur.msg \in Nat /\ (out # << >> => LastOut[1] \in Nat)
      BY <1>0 DEF DataTypes, Strength, OutArrived, LastOut
    <3>2. InboxOrdered'
      BY <2>b DEF InboxOrdered
    <3>3. InboxFresh'
      <4>1. out # << >> => Above(messageIn, LastOut[1])
        BY <1>0 DEF Strength, InboxFresh
      <4>. QED
        BY <4>1, <3>1, <2>b, <1>3 DEF ShutdownWake, InboxFresh, LastOut
    <3>4. PartialFresh'
      <4>1. cur.msg # NoMsg => Above(messageIn, cur.msg)
        BY <1>0 DEF Strength, PartialFresh
      <4>2. cur.msg # NoMsg => Above(messageIn', cur.msg)
        BY <4>1, <3>1, <2>b
      <4>. QED
        BY <4>2, <1>0, <1>3 DEF ShutdownWake, PartialFresh, LastOut, Strength
    <3>. QED
      BY <3>2, <3>3, <3>4
  <2>. QED
    BY <2>1, <2>2, <2>3, <2>4 DEF IInvParts, Strength
<1>4. ASSUME NEW len \in BufLens, ReadCall(len) PROVE IInvParts'
  <2>1. BoolTypes'
    BY <1>0, <1>4, Zenon DEF ReadCall, BoolTypes
  <2>2. DataTypes'
    BY <1>0, <1>4 DEF ReadCall, DataTypes
  <2>3. DeliveredInOrder' /\ OutArrived' /\ InboxOrdered' /\ PartialFresh'
        /\ InboxFresh' /\ CopyRoom'
    BY <1>0, <1>4 DEF ReadCall, DeliveredInOrder, Strength, OutArrived,
       InboxOrdered, PartialFresh, InboxFresh, CopyRoom, LastOut
  <2>4. ModeShape'
    BY <1>0, <1>4 DEF ReadCall, Strength, ModeShape
  <2>. QED
    BY <2>1, <2>2, <2>3, <2>4 DEF IInvParts, Strength
<1>5. ASSUME ReadDatagram PROVE IInvParts'
  <2> DEFINE F == Fetched
             dlen == IF F = NoMsg THEN 0 ELSE lens[F]
             cnt == MinOf(l, dlen)
  <2>0. isDatagram /\ cur.msg = NoMsg
    BY <1>0, <1>5, Zenon DEF ReadDatagram, Strength, ModeShape
  <2>1. /\ messageIn' \in Seq(0 .. sent)
        /\ Len(messageIn') <= Len(messageIn)
        /\ Ordered(messageIn')
        /\ \A x \in Nat : Above(messageIn, x) => Above(messageIn', x)
        /\ F \in 0 .. sent
        /\ F # NoMsg =>
               /\ Above(messageIn', F)
               /\ \A x \in Nat : Above(messageIn, x) => x < F
    <3>1. Fetch(~connErr) /\ InboxOrdered
      BY <1>0, <1>5 DEF ReadDatagram, Strength
    <3>. QED
      BY <1>0, <3>1, FetchFacts
  <2>2. BoolTypes' /\ ModeShape'
    BY <1>0, <1>5, <2>0, Zenon DEF ReadDatagram, BoolTypes, ModeShape
  <2>3. out # << >> => LastOut[1] \in 1 .. sent /\ Above(messageIn, LastOut[1])
    BY <1>0, LenProperties, EmptySeq
       DEF DataTypes, Strength, OutArrived, InboxFresh, LastOut
  <2>4. PartialFresh' /\ CopyRoom' /\ InboxOrdered'
    BY <1>5, <2>0, <2>1 DEF ReadDatagram, PartialFresh, CopyRoom, InboxOrdered
  <2>5. CASE F = NoMsg /\ connErr
    <3>1. out' = out /\ n' = n /\ rres' = "err"
      BY <1>5, <2>5 DEF ReadDatagram
    <3>2. DataTypes'
      BY <1>0, <1>5, <2>1, <3>1 DEF ReadDatagram, DataTypes
    <3>3. DeliveredInOrder' /\ OutArrived' /\ InboxFresh'
      BY <1>0, <1>5, <2>1, <2>3, <3>1
         DEF ReadDatagram, DeliveredInOrder, Strength, OutArrived, InboxFresh,
         LastOut
    <3>. QED
      BY <2>2, <2>4, <3>2, <3>3 DEF IInvParts, Strength
  <2>6. CASE ~(F = NoMsg /\ connErr)
    <3>1. out' = out \o Bytes(F, 1, cnt) /\ n' = cnt
          /\ rres' \in {"trunc", "ok"}
      BY <1>5, <2>6, SMTT(20) DEF ReadDatagram
    <3>2. cnt \in Nat /\ (cnt > 0 => F \in 1 .. sent)
      <4>1. F # NoMsg => lens[F] \in Nat
        BY <1>L, <2>1 DEF NoMsg
      <4>. QED
        BY <1>0, <2>1, <4>1 DEF DataTypes, MinOf, NoMsg
    <3>3. out # << >> /\ cnt > 0 => Before(out[Len(out)], <<F, 1>>)
      BY <2>1, <2>3, <3>2 DEF Before, LastOut, NoMsg
    <3>4. /\ out' \in Seq(Bytes2)
          /\ Len(out') = Len(out) + cnt
          /\ \A i \in 1 .. Len(out') :
                 out'[i] = IF i <= Len(out) THEN out[i]
                           ELSE <<F, 1 + i - Len(out) - 1>>
          /\ Sorted(out')
      <4>1. out \in Seq(Bytes2) /\ Sorted(out)
        BY <1>0 DEF DataTypes, Bytes2, DeliveredInOrder, Sorted
      <4>2. F \in Nat /\ 1 \in Nat
        BY <2>1
      <4>3. \A k, t \in Nat :
              (out # << >> /\ t > 0 => Before(out[Len(out)], <<k, 1>>)) =>
                /\ out \o Bytes(k, 1, t) \in Seq(Bytes2)
                /\ Len(out \o Bytes(k, 1, t)) = Len(out) + t
                /\ \A i \in 1 .. Len(out) + t :
                       (out \o Bytes(k, 1, t))[i] =
                           IF i <= Len(out) THEN out[i]
                           ELSE <<k, 1 + i - Len(out) - 1>>
                /\ Sorted(out \o Bytes(k, 1, t))
        BY Zenon, <4>1, AppendBytes
      <4>4. /\ out \o Bytes(F, 1, cnt) \in Seq(Bytes2)
            /\ Len(out \o Bytes(F, 1, cnt)) = Len(out) + cnt
            /\ \A i \in 1 .. Len(out) + cnt :
                   (out \o Bytes(F, 1, cnt))[i] =
                       IF i <= Len(out) THEN out[i]
                       ELSE <<F, 1 + i - Len(out) - 1>>
            /\ Sorted(out \o Bytes(F, 1, cnt))
        <5>1. out # << >> /\ cnt > 0 => Before(out[Len(out)], <<F, 1>>)
          BY <3>3
        <5>. QED
          BY <4>2, <4>3, <3>2, <5>1, Zenon
      <4>. QED
        BY <4>4, <3>1
    <3>5. DataTypes'
      BY <1>0, <1>5, <2>1, <3>1, <3>2, <3>4 DEF ReadDatagram, DataTypes, Bytes2
    <3>6. DeliveredInOrder'
      BY <3>4 DEF DeliveredInOrder, Sorted
    <3>7. OutArrived'
      BY <1>0, <1>5, <3>2, <3>4 DEF ReadDatagram, OutArrived, Strength
    <3>8. InboxFresh'
      <4> SUFFICES ASSUME out' # << >> PROVE Above(messageIn', out'[Len(out')][1])
        BY DEF InboxFresh, LastOut
      <4>1. CASE cnt = 0
        BY <4>1, <3>4, <2>1, <2>3, LenProperties, EmptySeq DEF LastOut
      <4>2. CASE cnt > 0
        <5>1. out'[Len(out')][1] = F /\ F # NoMsg
          BY <4>2, <3>2, <3>4, LenProperties DEF NoMsg
        <5>. QED
          BY <5>1, <2>1
      <4>. QED
        BY <4>1, <4>2, <3>2
    <3>. QED
      BY <2>2, <2>4, <3>5, <3>6, <3>7, <3>8 DEF IInvParts, Strength
  <2>. QED
    BY <2>5, <2>6
<1>6. ASSUME ReadLoop PROVE IInvParts'
  <2>0. ~isDatagram /\ rpc = "loop"
    BY <1>0, <1>6, Zenon DEF ReadLoop, Strength, ModeShape
  <2>1. BoolTypes'
    BY <1>0, <1>6, Zenon DEF ReadLoop, BoolTypes
  <2>2. rpc' \in {"idle", "copy"} /\ (rpc' = "copy" => n < l)
        /\ out' = out /\ n' = n /\ l' = l /\ lens' = lens /\ sent' = sent
        /\ rres' \in {"none", "ok", "trunc", "err"}
    BY <1>0, <1>6 DEF ReadLoop, DataTypes
  <2>3. ModeShape'
    BY <2>0, <2>2, <1>6, Zenon DEF ReadLoop, ModeShape
  <2>4. DeliveredInOrder' /\ OutArrived' /\ CopyRoom'
    BY <1>0, <2>2 DEF DeliveredInOrder, OutArrived, CopyRoom, Strength
  <2>5. CASE UNCHANGED <<messageIn, cur>>
    <3>1. DataTypes'
      BY <1>0, <1>6, <2>2, <2>5 DEF ReadLoop, DataTypes
    <3>2. InboxOrdered' /\ PartialFresh' /\ InboxFresh'
      BY <1>0, <2>2, <2>5
         DEF Strength, InboxOrdered, PartialFresh, InboxFresh, LastOut
    <3>. QED
      BY <2>1, <2>3, <2>4, <3>1, <3>2 DEF IInvParts, Strength
  <2>6. CASE /\ n < l /\ cur.msg = NoMsg
             /\ Fetch(n = 0 /\ ~connErr)
             /\ cur' = [msg |-> Fetched, from |-> 1]
    <3>1. /\ messageIn' \in Seq(0 .. sent)
          /\ Len(messageIn') <= Len(messageIn)
          /\ Ordered(messageIn')
          /\ \A x \in Nat : Above(messageIn, x) => Above(messageIn', x)
          /\ Fetched \in 0 .. sent
          /\ Fetched # NoMsg =>
                 /\ Above(messageIn', Fetched)
                 /\ \A x \in Nat : Above(messageIn, x) => x < Fetched
      BY <1>0, <2>6, FetchFacts DEF Strength
    <3>2. DataTypes'
      BY <1>0, <1>6, <2>2, <2>6, <3>1 DEF ReadLoop, DataTypes
    <3>3. out # << >> => LastOut[1] \in 1 .. sent /\ Above(messageIn, LastOut[1])
      BY <1>0, LenProperties, EmptySeq
         DEF DataTypes, Strength, OutArrived, InboxFresh, LastOut
    <3>4. InboxOrdered' /\ InboxFresh'
      BY <2>2, <3>1, <3>3 DEF InboxOrdered, InboxFresh, LastOut
    <3>5. PartialFresh'
      <4> SUFFICES ASSUME Fetched # NoMsg
                   PROVE  /\ 1 <= lens[Fetched]
                          /\ Above(messageIn', Fetched)
                          /\ out # << >> => Before(LastOut, <<Fetched, 1>>)
        BY <2>2, <2>6 DEF PartialFresh, LastOut
      <4>1. Fetched \in 1 .. sent
        BY <3>1 DEF NoMsg
      <4>. QED
        BY <4>1, <1>L, <3>1, <3>3 DEF Before
    <3>. QED
      BY <2>1, <2>3, <2>4, <3>2, <3>4, <3>5 DEF IInvParts, Strength
  <2>. QED
    BY <2>0, <2>5, <2>6, <1>6 DEF ReadLoop
<1>7. ASSUME ReadCopy PROVE IInvParts'
  <2> DEFINE thisN == MinOf(l - n, Avail(cur))
  <2>0. ~isDatagram /\ rpc = "copy" /\ n < l
    BY <1>0, <1>7, Zenon DEF ReadCopy, Strength, ModeShape, CopyRoom
  <2>1. BoolTypes' /\ ModeShape'
    BY <1>0, <1>7, <2>0, Zenon DEF ReadCopy, BoolTypes, ModeShape
  <2>9. out' = out \o Bytes(cur.msg, cur.from, thisN)
    BY <1>7 DEF ReadCopy
  <2>2. /\ n' = n + thisN
        /\ cur' = IF n + thisN >= Avail(cur) THEN NilSlice
                   ELSE [cur EXCEPT !.from = @ + n + thisN]
        /\ rpc' = "loop"
        /\ UNCHANGED <<messageIn, sent, lens, l, rres, sdpc, reads>>
    BY <1>7 DEF ReadCopy
  <2>3. CopyRoom' /\ InboxOrdered'
    BY <1>0, <2>2 DEF CopyRoom, InboxOrdered, Strength
  <2>4. out \in Seq(Bytes2) /\ Sorted(out) /\ l \in Nat /\ n \in Nat
        /\ cur.msg \in 0 .. sent /\ cur.from \in Nat \ {0} /\ sent \in Nat
        /\ cur \in [msg : 0 .. sent, from : Nat \ {0}]
    BY <1>0 DEF DataTypes, Bytes2, DeliveredInOrder, Sorted
  <2>5. out # << >> => LastOut[1] \in 1 .. sent /\ Above(messageIn, LastOut[1])
    BY <1>0, LenProperties, EmptySeq
       DEF DataTypes, Strength, OutArrived, InboxFresh, LastOut
  <2>6. CASE cur.msg = NoMsg
    <3>1. thisN = 0 /\ out' = out /\ n' = n /\ cur' = NilSlice
      <4>1. thisN = 0
        BY <2>6, <2>0, <2>4 DEF Avail, MinOf
      <4>2. \A k, a \in Nat : out \o Bytes(k, a, 0) = out
        BY Zenon, <2>4, BytesNone
      <4>3. out \o Bytes(cur.msg, cur.from, 0) = out
        <5>1. cur.msg \in Nat /\ cur.from \in Nat
          BY <2>4
        <5>. QED
          BY <4>2, <5>1, Zenon
      <4>4. n + thisN >= Avail(cur)
        BY <4>1, <2>4, <2>6 DEF Avail
      <4>5. out' = out
        BY <4>1, <4>3, <2>9, Zenon
      <4>6. cur' = NilSlice
        BY <4>4, <2>2, Zenon
      <4>7. n' = n
        BY <4>1, <2>2, <2>4
      <4>. QED
        BY <4>1, <4>5, <4>6, <4>7
    <3>2. DataTypes'
      <4>1. NilSlice \in [msg : 0 .. sent, from : Nat \ {0}]
        BY <2>4 DEF NilSlice, NoMsg
      <4>. QED
        BY <1>0, <2>2, <3>1, <4>1, Zenon DEF DataTypes
    <3>3. DeliveredInOrder' /\ OutArrived' /\ PartialFresh' /\ InboxFresh'
      BY <1>0, <2>2, <3>1
         DEF DeliveredInOrder, OutArrived, PartialFresh, InboxFresh, LastOut,
         Strength, NilSlice, NoMsg
    <3>. QED
      BY <2>1, <2>3, <3>2, <3>3 DEF IInvParts, Strength
  <2>7. CASE cur.msg # NoMsg
    <3>1. /\ cur.msg \in 1 .. sent
          /\ cur.from <= lens[cur.msg]
          /\ Above(messageIn, cur.msg)
          /\ out # << >> => Before(out[Len(out)], <<cur.msg, cur.from>>)
      BY <1>0, <2>4, <2>7 DEF Strength, PartialFresh, LastOut, NoMsg
    <3>2. lens[cur.msg] \in Nat
      BY <3>1, <1>L
    <3>3. /\ Avail(cur) = lens[cur.msg] - cur.from + 1
          /\ thisN \in Nat /\ thisN >= 1 /\ thisN <= Avail(cur)
      BY <2>0, <2>4, <2>7, <3>1, <3>2 DEF Avail, MinOf
    <3>4. /\ out' \in Seq(Bytes2)
          /\ Len(out') = Len(out) + thisN
          /\ out'[Len(out')] = <<cur.msg, cur.from + thisN - 1>>
          /\ \A i \in 1 .. Len(out') : out'[i][1] = cur.msg \/ i <= Len(out)
          /\ \A i \in 1 .. Len(out) : out'[i] = out[i]
          /\ Sorted(out')
      <4>1. \A k, a, t \in Nat :
              (out # << >> /\ t > 0 => Before(out[Len(out)], <<k, a>>)) =>
                /\ out \o Bytes(k, a, t) \in Seq(Bytes2)
                /\ Len(out \o Bytes(k, a, t)) = Len(out) + t
                /\ \A i \in 1 .. Len(out) + t :
                       (out \o Bytes(k, a, t))[i] =
                           IF i <= Len(out) THEN out[i]
                           ELSE <<k, a + i - Len(out) - 1>>
                /\ Sorted(out \o Bytes(k, a, t))
        BY Zenon, <2>4, AppendBytes
      <4>2. /\ out' \in Seq(Bytes2)
            /\ Len(out') = Len(out) + thisN
            /\ \A i \in 1 .. Len(out) + thisN :
                   out'[i] = IF i <= Len(out) THEN out[i]
                             ELSE <<cur.msg, cur.from + i - Len(out) - 1>>
            /\ Sorted(out')
        <5>1. cur.msg \in Nat /\ cur.from \in Nat
          BY <2>4
        <5>2. out # << >> /\ thisN > 0 => Before(out[Len(out)], <<cur.msg, cur.from>>)
          BY <3>1
        <5>3. /\ out \o Bytes(cur.msg, cur.from, thisN) \in Seq(Bytes2)
              /\ Len(out \o Bytes(cur.msg, cur.from, thisN)) = Len(out) + thisN
              /\ \A i \in 1 .. Len(out) + thisN :
                     (out \o Bytes(cur.msg, cur.from, thisN))[i] =
                         IF i <= Len(out) THEN out[i]
                         ELSE <<cur.msg, cur.from + i - Len(out) - 1>>
              /\ Sorted(out \o Bytes(cur.msg, cur.from, thisN))
          BY <4>1, <5>1, <5>2, <3>3, Zenon
        <5>. QED
          BY <5>3, <2>9, Zenon
      <4>3. Len(out) \in Nat
        BY <2>4, LenProperties
      <4>. QED
        BY <4>2, <4>3, <3>3
    <3>5. DataTypes'
      <4>1. cur' \in [msg : 0 .. sent, from : Nat \ {0}]
        <5>1. NilSlice \in [msg : 0 .. sent, from : Nat \ {0}]
          BY <2>4 DEF NilSlice, NoMsg
        <5>2. [cur EXCEPT !.from = @ + n + thisN] \in [msg : 0 .. sent, from : Nat \ {0}]
          BY <2>4, <3>3, SMTT(20)
        <5>. QED
          BY <5>1, <5>2, <2>2
      <4>2. n' \in Nat
        BY <2>2, <2>4, <3>3
      <4>. QED
        BY <1>0, <2>2, <3>4, <4>1, <4>2, Zenon DEF DataTypes, Bytes2
    <3>6. DeliveredInOrder'
      BY <3>4 DEF DeliveredInOrder, Sorted
    <3>7. OutArrived'
      <4> SUFFICES ASSUME NEW i \in 1 .. Len(out') PROVE out'[i][1] \in 1 .. sent
        BY <2>2 DEF OutArrived
      <4>1. CASE i <= Len(out)
        BY <4>1, <1>0, <3>4 DEF OutArrived, Strength
      <4>2. CASE ~(i <= Len(out))
        BY <4>2, <3>1, <3>4
      <4>. QED
        BY <4>1, <4>2
    <3>8. InboxFresh'
      <4>1. out'[Len(out')][1] = cur.msg /\ out' # << >>
        BY <3>3, <3>4, <2>4, LenProperties, EmptySeq
      <4>. QED
        BY <4>1, <3>1, <2>2 DEF InboxFresh, LastOut
    <3>9. PartialFresh'
      <4>1. CASE n + thisN >= Avail(cur)
        BY <4>1, <2>2 DEF PartialFresh, NilSlice, NoMsg
      <4>2. CASE ~(n + thisN >= Avail(cur))
        <5>1. cur' = [msg |-> cur.msg, from |-> cur.from + n + thisN]
          BY Zenon, <4>2, <2>2, <1>0 DEF DataTypes
        <5>2. cur.from + n + thisN <= lens[cur.msg]
          BY <4>2, <3>2, <3>3, <2>4
        <5>3. Before(out'[Len(out')], <<cur.msg, cur.from + n + thisN>>)
          BY <3>4, <2>4, <3>3 DEF Before
        <5>. QED
          BY <5>1, <5>2, <5>3, <3>1, <2>2 DEF PartialFresh, LastOut
      <4>. QED
        BY <4>1, <4>2
    <3>. QED
      BY <2>1, <2>3, <3>5, <3>6, <3>7, <3>8, <3>9 DEF IInvParts, Strength
  <2>. QED
    BY <2>6, <2>7
<1>9. CASE UNCHANGED vars
  <2>1. BoolTypes'
    BY <1>0, <1>9, Zenon DEF vars, BoolTypes
  <2>2. DataTypes' /\ DeliveredInOrder' /\ Strength'
    BY <1>0, <1>9 DEF vars, DataTypes, DeliveredInOrder, Strength,
       OutArrived, InboxOrdered, PartialFresh, InboxFresh, CopyRoom,
       ModeShape, LastOut
  <2>. QED
    BY <2>1, <2>2 DEF IInvParts
<1>. QED
  BY <1>1, <1>2, <1>3, <1>4, <1>5, <1>6, <1>7, <1>9 DEF Next, ReadStep
-----------------------------------------------------------------------------

\* The strengthened invariant holds in every state of every behaviour.
THEOREM InvariantHolds == Spec => []IInv
<1>1. Init => IInv
  BY IInit
<1>2. IInv /\ [Next]_vars => IInv'
  BY IStep
<1>. QED
  BY <1>1, <1>2, PTL DEF Spec

\* Read, the peer's deliveries and shutdown keep every variable in its type.
THEOREM TypeCorrect == Spec => []TypeOK
<1>1. IInv => TypeOK
  BY DEF IInv
<1>. QED
  BY <1>1, InvariantHolds, PTL

\* The bytes Read hands to its callers, over all calls and in both modes,
\* come in arrival order: a byte is never handed over twice and never after
\* a later one, whatever the buffer lengths, the message lengths and the
\* interleaving with ingestData and shutdown.
THEOREM InOrder == Spec => []DeliveredInOrder
<1>1. IInv => DeliveredInOrder
  BY DEF IInv
<1>. QED
  BY <1>1, InvariantHolds, PTL

\* shutdown sends the nil only after its state change: a nil in the
\* channel means the socket is no longer open
MarkerInv ==
    /\ sdpc # "none" => ~open
    /\ \A i \in 1 .. Len(messageIn) : messageIn[i] = NoMsg => sdpc = "done"

LEMMA MarkerInit == Init => MarkerInv
  BY DEF Init, MarkerInv

LEMMA MarkerStep == TypeOK /\ MarkerInv /\ [Next]_vars => MarkerInv'
<1> SUFFICES ASSUME TypeOK, MarkerInv, [Next]_vars PROVE MarkerInv'
  OBVIOUS
<1>0. messageIn \in Seq(Nat) /\ sent \in Nat
  BY SeqMonotonic DEF TypeOK
<1>1. ASSUME NEW len \in MsgLens, Arrive(len) PROVE MarkerInv'
  <2>1. /\ Len(messageIn') = Len(messageIn) + 1
        /\ \A i \in 1 .. Len(messageIn) : messageIn'[i] = messageIn[i]
        /\ messageIn'[Len(messageIn) + 1] = sent + 1
    BY <1>0, <1>1, AppendProperties DEF Arrive
  <2>. QED
    BY <1>1, <1>0, <2>1, LenProperties DEF Arrive, MarkerInv, NoMsg
<1>2. ASSUME ShutdownState PROVE MarkerInv'
  BY <1>2 DEF ShutdownState, MarkerInv
<1>3. ASSUME ShutdownWake PROVE MarkerInv'
  <2>1. /\ Len(messageIn') = Len(messageIn) + 1
        /\ \A i \in 1 .. Len(messageIn) : messageIn'[i] = messageIn[i]
    BY <1>0, <1>3, AppendProperties DEF ShutdownWake
  <2>. QED
    BY <1>3, <1>0, <2>1, LenProperties DEF ShutdownWake, MarkerInv
<1>4. ASSUME NEW len \in BufLens, ReadCall(len) PROVE MarkerInv'
  BY <1>4 DEF ReadCall, MarkerInv
\* a fetch leaves the channel or its tail
<1>5. ASSUME NEW b, Fetch(b), UNCHANGED <<open, sdpc>> PROVE MarkerInv'
  <2>1. CASE messageIn = << >>
    BY <1>5, <2>1 DEF Fetch, MarkerInv
  <2>2. CASE messageIn # << >>
    <3>1. /\ Len(Tail(messageIn)) = Len(messageIn) - 1
          /\ \A i \in 1 .. Len(Tail(messageIn)) :
                 Tail(messageIn)[i] = messageIn[i + 1]
          /\ Len(messageIn) \in Nat
      BY <1>0, <2>2, HeadTailProperties, LenProperties
    <3>. QED
      BY <1>5, <2>2, <3>1 DEF Fetch, MarkerInv
  <2>. QED
    BY <2>1, <2>2
<1>6. ASSUME ReadDatagram PROVE MarkerInv'
  BY <1>6, <1>5 DEF ReadDatagram
<1>7. ASSUME ReadLoop PROVE MarkerInv'
  <2>1. CASE UNCHANGED messageIn
    BY <1>7, <2>1 DEF ReadLoop, MarkerInv
  <2>2. CASE \E b : Fetch(b)
    BY <1>7, <2>2, <1>5 DEF ReadLoop
  <2>. QED
    BY <1>7, <2>1, <2>2 DEF ReadLoop
<1>8. ASSUME ReadCopy PROVE MarkerInv'
  BY <1>8 DEF ReadCopy, MarkerInv
<1>9. CASE UNCHANGED vars
  BY <1>9 DEF vars, MarkerInv
<1>. QED
  BY <1>1, <1>2, <1>3, <1>4, <1>6, <1>7, <1>8, <1>9 DEF Next, ReadStep

\* The nil that wakes a blocked Read is only ever in messageIn once
\* shutdown has made the socket's state terminal (1051-1086).
THEOREM MarkerHolds == Spec => []MarkerInv
<1>1. Spec => []TypeOK
  BY TypeCorrect
<1>2. TypeOK /\ MarkerInv /\ [Next]_vars => MarkerInv'
  BY MarkerStep
<1>. QED
  BY <1>1, <1>2, MarkerInit, PTL DEF Spec

\* The stream copy of Read (udtsocket.go 597-603) loses data whenever a
\* call that has already copied n > 0 bytes fills the buffer from a packet
\* with more left than fits: it copies l - n bytes, and then keeps, as the
\* rest of the packet, not the bytes from cur.from + (l - n) on but those
\* from cur.from + l (or nothing when l reaches the packet's length), since
\* it compares and slices by the running total n instead of thisN.
THEOREM ReadCopyLosesTail ==
  ASSUME TypeOK, ReadCopy, cur.msg # NoMsg, n > 0, n < l,
         l - n < Avail(cur)
  PROVE  /\ n' = l
         /\ cur' # [msg |-> cur.msg, from |-> cur.from + (l - n)]
<1> DEFINE thisN == MinOf(l - n, Avail(cur))
<1>1. cur \in [msg : 0 .. sent, from : Nat \ {0}] /\ n \in Nat /\ l \in Nat
  BY DEF TypeOK
<1>0. Avail(cur) \in Int
  <2>1. cur.msg \in 1 .. Len(lens) /\ lens \in Seq(MsgLens)
    BY <1>1 DEF TypeOK, NoMsg
  <2>2. lens[cur.msg] \in Nat
    BY Zenon, <2>1, ElementOfSeq
  <2>. QED
    BY <1>1, <2>2 DEF Avail
<1>2. thisN = l - n /\ n + thisN = l
  BY <1>1 DEF MinOf
<1>3. n' = n + thisN
      /\ cur' = IF n + thisN >= Avail(cur) THEN NilSlice
                ELSE [cur EXCEPT !.from = @ + n + thisN]
  BY DEF ReadCopy
<1>4. CASE l >= Avail(cur)
  <2>1. cur' = NilSlice
    BY <1>2, <1>3, <1>4
  <2>. QED
    BY <1>2, <1>3, <2>1 DEF NilSlice, NoMsg
<1>5. CASE l < Avail(cur)
  <2>1. cur' = [msg |-> cur.msg, from |-> cur.from + l]
    <3>0. ~(n + thisN >= Avail(cur)) /\ cur.from + n + thisN = cur.from + l
      BY <1>0, <1>1, <1>2, <1>5
    <3>a. cur' = [cur EXCEPT !.from = @ + n + thisN]
      BY <3>0, <1>3, Zenon
    <3>1. cur' = [cur EXCEPT !.from = @ + l]
      BY <3>a, <3>0, <1>1
    <3>2. [cur EXCEPT !.from = @ + l] = [msg |-> cur.msg, from |-> cur.from + l]
      BY <1>1
    <3>. QED
      BY <3>1, <3>2
  <2>2. cur.from + l # cur.from + (l - n)
    BY <1>1
  <2>. QED
    BY <1>2, <1>3, <2>1, <2>2
<1>. QED
  BY <1>0, <1>1, <1>4, <1>5
=============================================================================
