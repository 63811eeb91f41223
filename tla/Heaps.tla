------------------------------- MODULE Heaps --------------------------------
(***************************************************************************)
(* The searches of the two packet heaps: dataPacketHeap (datapacket_heap.go) *)
(* and packetIDHeap (part_000).  Both are slices kept in heap order by       *)
(* container/heap with Less comparing Seq, so the root h[0] is the smallest *)
(* element.  A heap is a function from the indices 0 .. n-1 to sequence     *)
(* numbers.  Each search is a loop over an index; one iteration is an      *)
(* operator from the index to an Outcome: go on at another index, return   *)
(* the element at an index, or panic on an index out of range.  A loop     *)
(* whose iteration from index 0 goes on at index 0, with 0 < n so that the *)
(* loop condition still holds, never returns.                              *)
(***************************************************************************)
EXTENDS Integers, TLAPS

Heap(n) == [0 .. n - 1 -> Nat]

\* the container/heap invariant for Less = Seq <: the root is the minimum
RootIsMin(h, n) == \A i \in 0 .. n - 1 : h[0] <= h[i]

Continue(i)  == [kind |-> "next", idx |-> i]
Found(i) == [kind |-> "found", idx |-> i]
Panic    == [kind |-> "panic", idx |-> 0]

\* dataPacketHeap.Min: the body of its "for" loop
DMinIter(n, idx) ==
    IF idx * 2 >= n THEN (IF idx < n THEN Found(idx) ELSE Panic)
    ELSE Continue(idx * 2)

\* dataPacketHeap.Find (and the search of Remove): one iteration, idx < len
DFindIter(h, id, idx) ==
    IF h[idx] = id THEN Found(idx)
    ELSE IF h[idx] > id THEN Continue(idx * 2)
    ELSE Continue(idx * 2 + 1)

\* packetIDHeap.compare(pktID, idx)
compare(h, pktID, idx) ==
    IF pktID < h[idx] THEN -1 ELSE IF pktID > h[idx] THEN 1 ELSE 0

\* packetIDHeap.Find: one iteration, idx < len
PFindIter(h, pktID, idx) ==
    IF compare(h, pktID, idx) = 0 THEN Found(idx)
    ELSE IF compare(h, pktID, idx) > 0 THEN Continue(idx * 2)
    ELSE Continue(idx * 2 + 1)

\* packetIDHeap.Min: one iteration of its first loop, idx < len
PMinIter(h, n, ge, le, idx) ==
    LET wrapped == ge > le
        next == IF h[idx] >= ge THEN idx * 2 ELSE idx * 2 + 1
    IN  IF h[idx] = ge THEN Found(idx)
        ELSE IF next >= n /\ h[idx] > ge /\ (wrapped \/ h[idx] <= le)
             THEN Found(idx)
        ELSE Continue(next)

\* packetIDHeap.Min: one iteration of the wrap-around loop
PWrapIter(h, n, le, idx) ==
    IF idx * 2 >= n /\ h[idx] <= le THEN Found(idx) ELSE Continue(idx * 2)

-----------------------------------------------------------------------------

\* dataPacketHeap.Min never returns on a heap that holds a packet: from
\* index 0 its loop goes on at 0 for ever; on an empty heap it reads h[0]
\* out of range and panics.
THEOREM DMinNeverReturns ==
  ASSUME NEW n \in Nat
  PROVE  /\ n > 0 => DMinIter(n, 0) = Continue(0)
         /\ n = 0 => DMinIter(n, 0) = Panic
  BY DEF DMinIter, Continue, Panic

\* packetIDHeap.Find hangs when asked for any stored packet id other than
\* the smallest: the id is above the root, compare returns +1, and the
\* search goes on at index 0 * 2 = 0.  Only the root is ever found.
THEOREM PFindOnlyRoot ==
  ASSUME NEW n \in Nat \ {0}, NEW h \in Heap(n), RootIsMin(h, n),
         NEW i \in 0 .. n - 1, h[i] # h[0]
  PROVE  PFindIter(h, h[i], 0) = Continue(0)
  BY DEF PFindIter, compare, Continue, Heap, RootIsMin

\* packetIDHeap.Min hangs whenever the lower bound lies below every stored
\* id: the root is above it, so next = 0 < len and the loop goes on at 0.
THEOREM PMinBelowRootHangs ==
  ASSUME NEW n \in Nat \ {0}, NEW h \in Heap(n), NEW ge \in Nat,
         NEW le \in Nat, h[0] > ge
  PROVE  PMinIter(h, n, ge, le, 0) = Continue(0)
  BY DEF PMinIter, Continue, Heap

\* The wrap-around loop of packetIDHeap.Min, entered with a non-empty heap,
\* never returns: next = 0 < len at index 0.
THEOREM PWrapHangs ==
  ASSUME NEW n \in Nat \ {0}, NEW h \in Heap(n), NEW le \in Nat
  PROVE  PWrapIter(h, n, le, 0) = Continue(0)
  BY DEF PWrapIter, Continue, Heap

\* dataPacketHeap.Find (and so Remove) misses a stored packet: in the heap
\* 1, 2, 3 the search for 3 goes 0 -> 1 -> 3 and leaves the loop at 3 >= len,
\* returning nil, -1, though 3 is at index 2.  A search for an id below the
\* root hangs at index 0.
THEOREM DFindMisses ==
  LET h == [i \in 0 .. 2 |-> i + 1]
  IN  /\ h \in Heap(3) /\ RootIsMin(h, 3) /\ h[2] = 3
      /\ DFindIter(h, 3, 0) = Continue(1)
      /\ DFindIter(h, 3, 1) = Continue(3)
      /\ \A id \in Nat : id < h[0] => DFindIter(h, id, 0) = Continue(0)
  BY DEF Heap, RootIsMin, DFindIter, Continue
=============================================================================
