--------------------------- MODULE SpscRingProofs ---------------------------
(***************************************************************************)
(* Proofs about SpscRing, for every capacity, index width and request size *)
(* the assumptions of that module allow.                                   *)
(*                                                                         *)
(* The invariant that carries them orders the six indices: a stale index   *)
(* is always an earlier one of the same side, so the free space and the    *)
(* occupancy computed from it are under-estimates.                         *)
(***************************************************************************)
EXTENDS SpscRing, SequenceTheorems, TLAPS

(* Quotient and remainder are unique: what a % b and a \div b are is shown  *)
(* by writing a as a multiple of b and a remainder.                         *)
LEMMA DivUnique ==
  ASSUME NEW a \in Int, NEW b \in Nat \ {0}, NEW q \in Int, NEW r \in 0..(b - 1),
         a = b * q + r
  PROVE  a % b = r /\ a \div b = q
<1>1. a % b = r
  OBVIOUS
<1>2. a \div b = q
  OBVIOUS
<1> QED BY <1>1, <1>2

(* What dividing by a positive number yields.                               *)
LEMMA DivParts ==
  ASSUME NEW a \in Int, NEW b \in Nat \ {0}
  PROVE  /\ a = b * (a \div b) + (a % b)
         /\ a \div b \in Int
         /\ a % b \in 0..(b - 1)
OBVIOUS

-----------------------------------------------------------------------------
(* The order of the indices, published and cached, and the stores a load    *)
(* of either may still return.                                              *)
IndexOrder ==
  /\ tailCache <= tail /\ tail <= headCache /\ headCache <= head
  /\ head - tailCache <= Capacity
  /\ tailStores \subseteq tailCache..tail
  /\ headStores \subseteq headCache..head

(* What a call under way may still touch is within what it saw as free, or  *)
(* as occupied.                                                             *)
CallWindow ==
  /\ wpc = "refresh" => wi = 0
  /\ wpc = "copy" => wi <= wn /\ wn <= Capacity - (head - tailCache)
  /\ rpc = "refresh" => dst = <<>>
  /\ rpc \in {"copy", "drop"} => rn <= headCache - tail
  /\ rpc = "copy" => rn # 0 /\ Len(dst) <= rn

(* Elements the producer has put in their slots, published or not.          *)
Filled == head + (IF wpc = "copy" THEN wi ELSE 0)

(* Every element from tail up to Filled is in its slot.                     *)
Contents == \A e \in tail..(Filled - 1) : buf[e % Capacity] = e

RingInv == TypeOK /\ IndexOrder /\ CallWindow /\ Contents /\ ReadsInOrder

-----------------------------------------------------------------------------
(* Arithmetic of the indices.                                               *)

(* A difference smaller than the index range survives the wraparound.       *)
LEMMA DiffExact ==
  ASSUME NEW a \in Nat, NEW b \in Nat, b <= a, a - b <= Capacity
  PROVE  Diff(a, b) = a - b
<1> DEFINE M == IndexModulus
<1> DEFINE qa == a \div M
<1> DEFINE qb == b \div M
<1>0. M \in Nat \ {0} /\ a - b \in 0..(M - 1)
  BY ModulusAssumption, CapacityAssumption
<1>1. a = M * qa + (a % M) /\ b = M * qb + (b % M) /\ qa \in Int /\ qb \in Int
      /\ a % M \in Int /\ b % M \in Int
  BY <1>0, DivParts
<1> HIDE DEF M, qa, qb
<1>2. (a % M) - (b % M) = M * (qb - qa) + (a - b)
  <2>1. M * (qb - qa) = M * qb - M * qa
    BY <1>0, <1>1
  <2> QED BY <2>1, <1>0, <1>1
<1>3. ((a % M) - (b % M)) % M = a - b
  <2>1. (a % M) - (b % M) \in Int /\ qb - qa \in Int
    BY <1>1
  <2> QED BY <2>1, <1>0, <1>2, DivUnique
<1> QED BY <1>3 DEF Diff, Wrap, M

(* Reducing an index to the width of size_t does not move its slot: the     *)
(* capacity divides the index range.                                        *)
LEMMA SlotOfIndex ==
  ASSUME NEW x \in Nat
  PROVE  Wrap(x) % Capacity = x % Capacity
<1> DEFINE M == IndexModulus
<1> DEFINE C == Capacity
<1> DEFINE k == M \div C
<1> DEFINE w == x % M
<1> DEFINE q == x \div M
<1> DEFINE p == w \div C
<1> DEFINE d == w % C
<1>0. M \in Nat \ {0} /\ C \in Nat \ {0} /\ M % C = 0
  BY ModulusAssumption, CapacityAssumption
<1>1. M = C * k /\ k \in Int
  BY <1>0, DivParts
<1>2. x = M * q + w /\ q \in Int /\ w \in Int
  BY <1>0, DivParts
<1>3. w = C * p + d /\ p \in Int /\ d \in 0..(C - 1)
  BY <1>0, <1>2, DivParts
<1> HIDE DEF M, C, k, w, q, p, d
<1> DEFINE kq == k * q
<1>4. M * q = C * kq /\ kq \in Int
  BY <1>0, <1>1, <1>2
<1> HIDE DEF kq
<1>5. x = C * (kq + p) + d /\ kq + p \in Int
  <2>1. C * (kq + p) = C * kq + C * p
    BY <1>0, <1>3, <1>4
  <2>2. C * kq \in Int /\ C * p \in Int
    BY <1>0, <1>3, <1>4
  <2> QED BY <2>1, <2>2, <1>0, <1>2, <1>3, <1>4
<1>6. x % C = d
  <2> DEFINE r == kq + p
  <2>1. x = C * r + d /\ r \in Int
    BY <1>5
  <2> HIDE DEF r
  <2> QED BY <2>1, <1>0, <1>3, DivUnique
<1> QED BY <1>6 DEF Wrap, w, d, M, C

(* The two memcpy segments put the i-th element where its index says.       *)
LEMMA SlotIsMod ==
  ASSUME NEW x \in Nat, NEW n \in Nat, NEW i \in Nat, i < n, n <= Capacity
  PROVE  Slot(x, n, i) = (x + i) % Capacity
<1> DEFINE C == Capacity
<1> DEFINE q == x \div C
<1> DEFINE d == x % C
<1>0. C \in Nat \ {0}
  BY CapacityAssumption
<1>1. x = C * q + d /\ q \in Int /\ d \in 0..(C - 1)
  BY <1>0, DivParts
<1>2. Slot(x, n, i) = IF i < Min2(n, C - d) THEN d + i ELSE i - Min2(n, C - d)
  BY SlotOfIndex DEF Slot
<1> HIDE DEF C, q, d
<1>3. CASE d + i < C
  <2>1. i < Min2(n, C - d)
    BY <1>0, <1>1, <1>3 DEF Min2
  <2>2. x + i = C * q + (d + i) /\ d + i \in 0..(C - 1)
    BY <1>0, <1>1, <1>3
  <2>3. (x + i) % C = d + i
    <3> DEFINE y == x + i
    <3> DEFINE e == d + i
    <3>1. y = C * q + e /\ q \in Int /\ y \in Int /\ e \in 0..(C - 1)
      BY <1>1, <2>2
    <3> HIDE DEF y, e
    <3>2. y % C = e
      BY <3>1, <1>0, DivUnique
    <3> QED BY <3>2 DEF y, e
  <2> QED BY <1>2, <2>1, <2>3 DEF C
<1>4. CASE d + i >= C
  <2>1. Min2(n, C - d) = C - d /\ ~(i < C - d)
    BY <1>0, <1>1, <1>4 DEF Min2
  <2>2. i - (C - d) \in 0..(C - 1)
    BY <1>0, <1>1, <1>4 DEF C
  <2>3. x + i = C * (q + 1) + (i - (C - d)) /\ q + 1 \in Int
    <3>1. C * (q + 1) = C * q + C
      BY <1>0, <1>1
    <3> QED BY <3>1, <1>0, <1>1
  <2>4. (x + i) % C = i - (C - d)
    <3> DEFINE r == q + 1
    <3> DEFINE y == x + i
    <3> DEFINE e == i - (C - d)
    <3>1. y = C * r + e /\ r \in Int /\ y \in Int /\ e \in 0..(C - 1)
      BY <1>0, <2>2, <2>3
    <3> HIDE DEF r, y, e
    <3>2. y % C = e
      BY <3>1, <1>0, DivUnique
    <3> QED BY <3>2 DEF y, e
  <2> QED BY <1>2, <2>1, <2>4 DEF C
<1> QED BY <1>0, <1>1, <1>3, <1>4

(* Indices less than a capacity apart have slots of their own.              *)
LEMMA SlotsDistinct ==
  ASSUME NEW a \in Nat, NEW b \in Nat, a < b, b - a < Capacity
  PROVE  a % Capacity # b % Capacity
<1> DEFINE C == Capacity
<1> DEFINE qa == a \div C
<1> DEFINE qb == b \div C
<1> DEFINE k == qb - qa
<1>0. C \in Nat \ {0}
  BY CapacityAssumption
<1>1. a = C * qa + (a % C) /\ b = C * qb + (b % C) /\ qa \in Int /\ qb \in Int
      /\ a % C \in Int /\ b % C \in Int
  BY <1>0, DivParts
<1> SUFFICES ASSUME a % C = b % C PROVE FALSE
  OBVIOUS
<1>2. k \in Int
  BY <1>1
<1>3. b - a = C * k
  <2>1. C * k = C * qb - C * qa
    BY <1>0, <1>1
  <2> HIDE DEF qa, qb, k, C
  <2> QED BY <2>1, <1>0, <1>1
<1> HIDE DEF qa, qb, k
<1>4. CASE k <= 0
  <2>1. C * k <= 0
    BY <1>0, <1>2, <1>4
  <2> QED BY <2>1, <1>3
<1>5. CASE k >= 1
  <2>1. C * k >= C
    BY <1>0, <1>2, <1>5
  <2> QED BY <2>1, <1>0, <1>3
<1> QED BY <1>2, <1>4, <1>5

(* A slot of the buffer.                                                    *)
LEMMA ModIsSlot ==
  ASSUME NEW e \in Nat
  PROVE  e % Capacity \in Slots
BY CapacityAssumption, DivParts DEF Slots

-----------------------------------------------------------------------------
(* What the calls see as free and as occupied, in the states RingInv allows. *)
LEMMA FreeExact ==
  ASSUME RingInv, NEW t \in tailStores \union {tailCache}
  PROVE  /\ t \in Nat /\ t <= tail
         /\ Free(head, t) = Capacity - (head - t)
         /\ Free(head, t) \in 0..Capacity
<1>1. t \in Nat /\ t <= tail /\ t >= tailCache /\ head \in Nat /\ Capacity \in Nat
  BY CapacityAssumption DEF RingInv, TypeOK, IndexOrder
<1>2. t <= head /\ head - t <= Capacity
  BY <1>1 DEF RingInv, TypeOK, IndexOrder
<1>3. Diff(head, t) = head - t
  BY <1>1, <1>2, DiffExact
<1> QED BY <1>1, <1>2, <1>3 DEF Free

LEMMA OccupancyExact ==
  ASSUME RingInv, NEW h \in headStores \union {headCache}
  PROVE  /\ h \in Nat /\ headCache <= h /\ h <= head
         /\ Diff(h, tail) = h - tail
         /\ Diff(h, tail) \in 0..Capacity
<1>1. h \in Nat /\ headCache <= h /\ h <= head /\ tail \in Nat /\ Capacity \in Nat
  BY CapacityAssumption DEF RingInv, TypeOK, IndexOrder
<1>2. tail <= h /\ h - tail <= Capacity
  BY <1>1 DEF RingInv, TypeOK, IndexOrder
<1>3. Diff(h, tail) = h - tail
  BY <1>1, <1>2, DiffExact
<1> QED BY <1>1, <1>2, <1>3

(* What a load leaves to later ones.                                        *)
LEMMA NewerStores ==
  ASSUME NEW lo \in Nat, NEW hi \in Nat, NEW S, S \subseteq lo..hi, NEW t \in S
  PROVE  {s \in S : s >= t} \subseteq t..hi
<1> SUFFICES ASSUME NEW s \in S, s >= t PROVE s \in t..hi
  OBVIOUS
<1>1. s \in lo..hi /\ t \in lo..hi
  OBVIOUS
<1> QED BY <1>1

LEMMA InitRingInv == Init => RingInv
BY CapacityAssumption
   DEF Init, RingInv, TypeOK, IndexOrder, CallWindow, Contents, Filled, ReadsInOrder

(* The producer's calls.                                                    *)
LEMMA StartWriteKeeps ==
  ASSUME RingInv, NEW n \in Requests, StartWrite(n)
  PROVE  RingInv'
<1>1. Free(head, tailCache) = Capacity - (head - tailCache)
  BY FreeExact
<1>2. n \in Nat
  BY DEF Requests
<1>3. TypeOK' /\ IndexOrder' /\ ReadsInOrder'
  BY <1>2 DEF RingInv, TypeOK, IndexOrder, ReadsInOrder, StartWrite, consumerVars
<1>4. CallWindow'
  BY <1>1, <1>2, CapacityAssumption
     DEF RingInv, TypeOK, IndexOrder, CallWindow, StartWrite, consumerVars
<1>5. Contents'
  BY DEF RingInv, TypeOK, Contents, Filled, StartWrite, consumerVars
<1> QED BY <1>3, <1>4, <1>5 DEF RingInv

LEMMA WriteRefreshKeeps ==
  ASSUME RingInv, WriteRefresh
  PROVE  RingInv'
<1>1. PICK t \in tailStores : LoadTail(t) /\ wn' = Min2(wn, Free(head, t))
  BY DEF WriteRefresh
<1>2. /\ t \in Nat /\ t <= tail
      /\ Free(head, t) = Capacity - (head - t)
      /\ Free(head, t) \in 0..Capacity
  BY FreeExact
<1>3. wn' \in Nat /\ wn' <= Capacity - (head - t)
  BY <1>1, <1>2 DEF Min2, RingInv, TypeOK
<1>4. TypeOK' /\ ReadsInOrder'
  BY <1>1, <1>2, <1>3
     DEF RingInv, TypeOK, ReadsInOrder, WriteRefresh, LoadTail, consumerVars
<1>5. IndexOrder'
  <2>1. t >= tailCache /\ tailCache' = t /\ UNCHANGED <<head, tail, headCache, headStores>>
    BY <1>1, <1>2 DEF RingInv, TypeOK, IndexOrder, WriteRefresh, LoadTail, consumerVars
  <2>2. tailStores' \subseteq t..tail
    <3>1. tailStores' = {s \in tailStores : s >= t}
      BY <1>1 DEF LoadTail
    <3> QED BY <3>1, NewerStores DEF RingInv, TypeOK, IndexOrder
  <2> QED BY <1>2, <2>1, <2>2, CapacityAssumption DEF RingInv, TypeOK, IndexOrder
<1>6. wi = 0
  BY DEF RingInv, CallWindow, WriteRefresh
<1>7. CallWindow'
  BY <1>1, <1>2, <1>3, <1>6
     DEF RingInv, TypeOK, CallWindow, WriteRefresh, LoadTail, consumerVars
<1>8. Contents'
  BY <1>6 DEF RingInv, TypeOK, Contents, Filled, WriteRefresh, consumerVars
<1> QED BY <1>4, <1>5, <1>7, <1>8 DEF RingInv

LEMMA WriteCopyKeeps ==
  ASSUME RingInv, WriteCopy
  PROVE  RingInv'
<1> DEFINE new == head + wi
<1> DEFINE slot == new % Capacity
<1>1. /\ wpc = "copy" /\ wi < wn /\ wi \in Nat /\ wn \in Nat /\ head \in Nat /\ tail \in Nat
      /\ wn <= Capacity - (head - tailCache) /\ wn <= Capacity - (head - tail)
      /\ tail <= head /\ wn <= Capacity /\ new \in Nat
  BY CapacityAssumption DEF RingInv, TypeOK, IndexOrder, CallWindow, WriteCopy
<1>2. Slot(head, wn, wi) = slot /\ slot \in Slots
  BY <1>1, SlotIsMod, ModIsSlot
<1>3. buf' = [buf EXCEPT ![slot] = new]
  BY <1>2 DEF WriteCopy
<1>4. TypeOK'
  <2>1. buf' \in [Slots -> Nat \union {NoElement}]
    BY <1>1, <1>2, <1>3 DEF RingInv, TypeOK
  <2>2. wi' = wi + 1
    BY DEF WriteCopy
  <2> QED BY <1>1, <2>1, <2>2 DEF RingInv, TypeOK, WriteCopy, consumerVars
<1>5. IndexOrder' /\ ReadsInOrder' /\ CallWindow'
  BY <1>1 DEF RingInv, TypeOK, IndexOrder, ReadsInOrder, CallWindow, WriteCopy, consumerVars
<1>6. Contents'
  <2>1. Filled' = new + 1 /\ Filled = new /\ tail' = tail
    BY <1>1 DEF Filled, WriteCopy, consumerVars
  <2> SUFFICES ASSUME NEW e \in tail..new PROVE buf'[e % Capacity] = e
    BY <2>1, <1>1 DEF Contents
  <2>2. e \in Nat /\ e % Capacity \in Slots
    BY <1>1, ModIsSlot
  <2>3. CASE e = new
    BY <1>2, <1>3, <2>3 DEF RingInv, TypeOK
  <2>4. CASE e < new
    <3>1. new - e < Capacity
      BY <1>1, CapacityAssumption
    <3>2. e % Capacity # slot
      BY <2>2, <2>4, <3>1, <1>1, SlotsDistinct
    <3>3. buf[e % Capacity] = e
      BY <2>1, <2>4, <1>1 DEF RingInv, Contents
    <3> QED BY <3>2, <3>3, <2>2, <1>2, <1>3 DEF RingInv, TypeOK
  <2> QED BY <2>2, <2>3, <2>4, <1>1
<1> QED BY <1>4, <1>5, <1>6 DEF RingInv

LEMMA WritePublishKeeps ==
  ASSUME RingInv, WritePublish
  PROVE  RingInv'
<1>1. /\ wpc = "copy" /\ wi = wn /\ wn \in Nat /\ head' = head + wn
      /\ headStores' = headStores \union {head + wn} /\ wpc' = "idle"
      /\ UNCHANGED <<buf, tailCache, tailStores, wn, wi, tail, headCache, rpc, rn, dst, got>>
  BY DEF WritePublish, consumerVars, RingInv, TypeOK
<1>2. TypeOK' /\ ReadsInOrder' /\ CallWindow'
  BY <1>1 DEF RingInv, TypeOK, ReadsInOrder, CallWindow
<1>3. IndexOrder'
  <2>1. headStores' \subseteq headCache..(head + wn)
    BY <1>1 DEF RingInv, TypeOK, IndexOrder
  <2> QED BY <1>1, <2>1, CapacityAssumption DEF RingInv, TypeOK, IndexOrder, CallWindow
<1>4. Contents'
  BY <1>1 DEF RingInv, TypeOK, Contents, Filled
<1> QED BY <1>2, <1>3, <1>4 DEF RingInv

LEMMA WriteAvailableKeeps ==
  ASSUME RingInv, WriteAvailable
  PROVE  RingInv'
<1>1. PICK t \in tailStores : LoadTail(t)
  BY DEF WriteAvailable
<1>2. t \in Nat /\ t <= tail /\ t >= tailCache
  BY <1>1 DEF RingInv, TypeOK, IndexOrder
<1>3. /\ wpc = "idle" /\ tailCache' = t /\ tailStores' = {s \in tailStores : s >= t}
      /\ UNCHANGED <<buf, head, wpc, wn, wi, headStores, tail, headCache, rpc, rn, dst, got>>
  BY <1>1 DEF WriteAvailable, LoadTail, consumerVars
<1>4. TypeOK' /\ ReadsInOrder' /\ CallWindow' /\ Contents'
  BY <1>2, <1>3 DEF RingInv, TypeOK, ReadsInOrder, CallWindow, Contents, Filled
<1>5. IndexOrder'
  <2>1. tailStores' \subseteq t..tail
    BY <1>3, NewerStores DEF RingInv, TypeOK, IndexOrder
  <2> QED BY <1>2, <1>3, <2>1, CapacityAssumption DEF RingInv, TypeOK, IndexOrder
<1> QED BY <1>4, <1>5 DEF RingInv

(* The consumer's calls.                                                    *)
LEMMA StartReadKeeps ==
  ASSUME RingInv, NEW n \in Requests, StartRead(n) \/ StartDiscard(n)
  PROVE  RingInv'
<1>1. n \in Nat /\ n # 0 /\ Diff(headCache, tail) = headCache - tail
  BY OccupancyExact, BoundsAssumption DEF Requests
<1>2. /\ UNCHANGED <<buf, head, tailCache, wpc, wn, wi, tailStores, tail, headCache>>
      /\ UNCHANGED <<headStores, got>>
      /\ dst' \in {dst, <<>>} /\ rn' = n
      /\ rpc' \in {"refresh", "copy", "dropRefresh", "drop"}
      /\ rpc' \in {"refresh", "copy"} => dst' = <<>>
  BY DEF StartRead, StartDiscard, producerVars
<1>5. TypeOK'
  <2>1. <<>> \in Seq(Nat \union {NoElement})
    OBVIOUS
  <2>2. dst' \in Seq(Nat \union {NoElement})
    BY <1>2, <2>1 DEF RingInv, TypeOK
  <2> QED BY <1>1, <1>2, <2>2 DEF RingInv, TypeOK
<1>6. IndexOrder' /\ ReadsInOrder'
  BY <1>2 DEF RingInv, TypeOK, IndexOrder, ReadsInOrder
<1>3. CallWindow'
  BY <1>1 DEF RingInv, TypeOK, IndexOrder, CallWindow, StartRead, StartDiscard, producerVars
<1>4. Contents'
  BY DEF RingInv, Contents, Filled, StartRead, StartDiscard, producerVars
<1> QED BY <1>3, <1>4, <1>5, <1>6 DEF RingInv

LEMMA ReadRefreshKeeps ==
  ASSUME RingInv, ReadRefresh \/ DiscardRefresh
  PROVE  RingInv'
<1>1. PICK h \in headStores : LoadHead(h) /\ rn' = Min2(rn, Diff(h, tail))
  BY DEF ReadRefresh, DiscardRefresh
<1>2. /\ h \in Nat /\ headCache <= h /\ h <= head
      /\ Diff(h, tail) = h - tail /\ Diff(h, tail) \in 0..Capacity
  BY OccupancyExact
<1>3. rn' \in Nat /\ rn' <= h - tail
  BY <1>1, <1>2 DEF Min2, RingInv, TypeOK
<1>4. /\ headCache' = h /\ headStores' = {s \in headStores : s >= h}
      /\ rpc \in {"refresh", "dropRefresh"} /\ rpc' \in {"idle", "copy", "drop"}
      /\ UNCHANGED <<buf, head, tailCache, wpc, wn, wi, tailStores, tail, dst, got>>
      /\ rpc = "refresh" => dst = <<>>
      /\ rpc' = "copy" => rpc = "refresh" /\ rn' # 0
  BY <1>1 DEF ReadRefresh, DiscardRefresh, LoadHead, producerVars, RingInv, CallWindow
<1>5. TypeOK'
  BY <1>2, <1>3, <1>4 DEF RingInv, TypeOK
<1>7. ReadsInOrder' /\ CallWindow'
  BY <1>2, <1>3, <1>4 DEF RingInv, TypeOK, ReadsInOrder, CallWindow
<1>8. Contents'
  BY <1>4 DEF RingInv, Contents, Filled
<1>6. IndexOrder'
  <2>1. headStores' \subseteq h..head
    BY <1>4, NewerStores DEF RingInv, TypeOK, IndexOrder
  <2> QED BY <1>2, <1>4, <2>1, CapacityAssumption DEF RingInv, TypeOK, IndexOrder
<1> QED BY <1>5, <1>6, <1>7, <1>8 DEF RingInv

LEMMA ReadCopyKeeps ==
  ASSUME RingInv, ReadCopy
  PROVE  RingInv'
<1> DEFINE e == tail + Len(dst)
<1>1. /\ rpc = "copy" /\ Len(dst) < rn /\ Len(dst) \in Nat /\ rn \in Nat /\ tail \in Nat
      /\ rn <= headCache - tail /\ headCache <= head /\ headCache \in Nat /\ head \in Nat
      /\ rn <= Capacity /\ e \in tail..(head - 1) /\ e \in Nat
  BY CapacityAssumption DEF RingInv, TypeOK, IndexOrder, CallWindow, ReadCopy
<1>2. Slot(tail, rn, Len(dst)) = e % Capacity
  BY <1>1, SlotIsMod
<1>3. buf[e % Capacity] = e
  <2>1. e \in tail..(Filled - 1)
    BY <1>1 DEF Filled, RingInv, TypeOK
  <2> QED BY <2>1 DEF RingInv, Contents
<1>4. dst' = Append(dst, e)
  BY <1>2, <1>3 DEF ReadCopy
<1>5. /\ UNCHANGED <<buf, head, tailCache, wpc, wn, wi, tailStores, tail, headCache>>
      /\ UNCHANGED <<headStores, rpc, rn, got>>
  BY DEF ReadCopy, producerVars
<1>6. dst \in Seq(Nat \union {NoElement}) /\ dst' \in Seq(Nat \union {NoElement})
  BY <1>1, <1>4 DEF RingInv, TypeOK
<1>7. TypeOK' /\ IndexOrder' /\ Contents'
  BY <1>5, <1>6 DEF RingInv, TypeOK, IndexOrder, Contents, Filled
<1>8. /\ Len(dst') = Len(dst) + 1
      /\ dst'[Len(dst) + 1] = e
      /\ \A i \in 1..Len(dst) : dst'[i] = dst[i]
  BY <1>1, <1>4, <1>6
<1>9. CallWindow'
  BY <1>1, <1>5, <1>8 DEF RingInv, TypeOK, CallWindow
<1>10. ReadsInOrder'
  <2> SUFFICES ASSUME NEW i \in 1..(Len(dst) + 1) PROVE dst'[i] = tail + i - 1
    BY <1>1, <1>5, <1>8 DEF ReadsInOrder
  <2>1. CASE i \in 1..Len(dst)
    BY <1>1, <1>8, <2>1 DEF RingInv, ReadsInOrder
  <2>2. CASE i = Len(dst) + 1
    BY <1>1, <1>8, <2>2
  <2> QED BY <1>1, <2>1, <2>2
<1> QED BY <1>7, <1>9, <1>10 DEF RingInv

LEMMA ReadPublishKeeps ==
  ASSUME RingInv, ReadPublish \/ DiscardPublish
  PROVE  RingInv'
<1>1. /\ rpc \in {"copy", "drop"} /\ rn \in Nat /\ tail' = tail + rn
      /\ tailStores' = tailStores \union {tail + rn} /\ rpc' = "idle"
      /\ got' \in {dst, got}
      /\ UNCHANGED <<buf, head, tailCache, wpc, wn, wi, headCache, headStores, rn, dst>>
  BY DEF ReadPublish, DiscardPublish, StoreTail, producerVars, RingInv, TypeOK
<1>2. rn <= headCache - tail
  BY <1>1 DEF RingInv, CallWindow
<1>3. TypeOK' /\ ReadsInOrder' /\ CallWindow' /\ Contents'
  BY <1>1, <1>2 DEF RingInv, TypeOK, ReadsInOrder, CallWindow, Contents, Filled
<1>4. IndexOrder'
  <2>1. tailStores' \subseteq tailCache..(tail + rn)
    BY <1>1 DEF RingInv, TypeOK, IndexOrder
  <2> QED BY <1>1, <1>2, <2>1, CapacityAssumption DEF RingInv, TypeOK, IndexOrder
<1> QED BY <1>3, <1>4 DEF RingInv

LEMMA ReadAvailableKeeps ==
  ASSUME RingInv, ReadAvailable
  PROVE  RingInv'
<1>1. PICK h \in headStores : LoadHead(h)
  BY DEF ReadAvailable
<1>2. h \in Nat /\ headCache <= h /\ h <= head
  BY OccupancyExact
<1>3. /\ rpc = "idle" /\ headCache' = h /\ headStores' = {s \in headStores : s >= h}
      /\ UNCHANGED <<buf, head, tailCache, wpc, wn, wi, tailStores, tail, rpc, rn, dst, got>>
  BY <1>1 DEF ReadAvailable, LoadHead, producerVars
<1>4. TypeOK' /\ ReadsInOrder' /\ CallWindow' /\ Contents'
  BY <1>2, <1>3 DEF RingInv, TypeOK, ReadsInOrder, CallWindow, Contents, Filled
<1>5. IndexOrder'
  <2>1. headStores' \subseteq h..head
    BY <1>3, NewerStores DEF RingInv, TypeOK, IndexOrder
  <2> QED BY <1>2, <1>3, <2>1, CapacityAssumption DEF RingInv, TypeOK, IndexOrder
<1> QED BY <1>4, <1>5 DEF RingInv

-----------------------------------------------------------------------------
(* The invariant is inductive.                                              *)
LEMMA StepRingInv == RingInv /\ [Next]_vars => RingInv'
<1> SUFFICES ASSUME RingInv, [Next]_vars PROVE RingInv'
  OBVIOUS
<1>1. CASE UNCHANGED vars
  BY <1>1
     DEF vars, producerVars, consumerVars, RingInv, TypeOK, IndexOrder, CallWindow, Contents,
         Filled, ReadsInOrder
<1>2. CASE Producer
  BY <1>2, StartWriteKeeps, WriteRefreshKeeps, WriteCopyKeeps, WritePublishKeeps,
     WriteAvailableKeeps DEF Producer, ProducerStep
<1>3. CASE Consumer
  BY <1>3, StartReadKeeps, ReadRefreshKeeps, ReadCopyKeeps, ReadPublishKeeps,
     ReadAvailableKeeps DEF Consumer, ConsumerStep
<1> QED BY <1>1, <1>2, <1>3 DEF Next

(* Every reachable state of the ring satisfies the inductive invariant.     *)
THEOREM RingInvariant == Spec => []RingInv
<1> QED BY InitRingInv, StepRingInv, PTL DEF Spec

(* The state keeps its shape: indices and requests are naturals, slots hold *)
(* elements or what the constructor left.                                   *)
THEOREM TypeCorrect == Spec => []TypeOK
<1>1. RingInv => TypeOK
  BY DEF RingInv
<1> QED BY <1>1, RingInvariant, PTL

(* The wraparound of the indices is benign: occupancy and free space are    *)
(* exact differences, for every index width that holds the capacity.        *)
THEOREM WraparoundIsBenign == Spec => []WraparoundBenign
<1>1. RingInv => WraparoundBenign
  <2> SUFFICES ASSUME RingInv PROVE WraparoundBenign
    OBVIOUS
  <2>1. head \in Nat /\ tail \in Nat /\ tailCache \in Nat /\ headCache \in Nat
        /\ tailCache <= tail /\ tail <= headCache /\ headCache <= head
        /\ head - tailCache <= Capacity /\ Capacity \in Nat
    BY CapacityAssumption DEF RingInv, TypeOK, IndexOrder
  <2>2. Diff(head, tailCache) = head - tailCache /\ Diff(headCache, tail) = headCache - tail
    BY <2>1, DiffExact
  <2> QED BY <2>1, <2>2 DEF WraparoundBenign
<1> QED BY <1>1, RingInvariant, PTL

(* The two memcpys never touch the same slot: no data race on the samples.  *)
THEOREM NoRaceOnSlots == Spec => []NoSlotRace
<1>1. RingInv => NoSlotRace
  <2> SUFFICES ASSUME RingInv, wpc = "copy", rpc = "copy",
                      NEW i \in wi..(wn - 1), NEW j \in Len(dst)..(rn - 1)
               PROVE  Slot(head, wn, i) # Slot(tail, rn, j)
    BY DEF NoSlotRace, WritingSlots, ReadingSlots
  <2>1. /\ head \in Nat /\ tail \in Nat /\ wn \in Nat /\ rn \in Nat /\ wi \in Nat
        /\ Len(dst) \in Nat /\ tailCache \in Nat /\ headCache \in Nat /\ Capacity \in Nat
        /\ tailCache <= tail /\ tail <= headCache /\ headCache <= head
        /\ wn <= Capacity - (head - tailCache) /\ rn <= headCache - tail
        /\ head - tailCache <= Capacity
    BY CapacityAssumption DEF RingInv, TypeOK, IndexOrder, CallWindow
  <2>2. i \in Nat /\ i < wn /\ wn <= Capacity /\ j \in Nat /\ j < rn /\ rn <= Capacity
    BY <2>1
  <2>3. Slot(head, wn, i) = (head + i) % Capacity /\ Slot(tail, rn, j) = (tail + j) % Capacity
    BY <2>1, <2>2, SlotIsMod
  <2>4. tail + j < head + i /\ (head + i) - (tail + j) < Capacity
        /\ tail + j \in Nat /\ head + i \in Nat
    BY <2>1, <2>2
  <2> QED BY <2>3, <2>4, SlotsDistinct
<1> QED BY <1>1, RingInvariant, PTL

(* read() returns the accepted stream, exactly once and in order.           *)
THEOREM ReadsAreInOrder == Spec => []ReadsInOrder
<1>1. RingInv => ReadsInOrder
  BY DEF RingInv
<1> QED BY <1>1, RingInvariant, PTL

-----------------------------------------------------------------------------
(* The ring implements the queue.  A run of the stream is RingFifo!Batch.   *)
LEMMA RunIsSequence ==
  ASSUME NEW a \in Nat, NEW n \in Nat
  PROVE  /\ RingFifo!Batch(a, n) \in Seq(Nat)
         /\ Len(RingFifo!Batch(a, n)) = n
         /\ \A i \in 1..n : RingFifo!Batch(a, n)[i] = a + i - 1
<1>1. RingFifo!Batch(a, n) = [i \in 1..n |-> a + i - 1]
  BY DEF RingFifo!Batch
<1>2. [i \in 1..n |-> a + i - 1] \in [1..n -> Nat]
  OBVIOUS
<1>3. RingFifo!Batch(a, n) \in Seq(Nat)
  BY <1>1, <1>2, SeqDef
<1> QED BY <1>1, <1>2, <1>3, LenProperties

(* Two runs, one after the other, are one.                                  *)
LEMMA RunsJoin ==
  ASSUME NEW a \in Nat, NEW m \in Nat, NEW k \in Nat
  PROVE  RingFifo!Batch(a, m) \o RingFifo!Batch(a + m, k) = RingFifo!Batch(a, m + k)
<1> DEFINE s == RingFifo!Batch(a, m)
           t == RingFifo!Batch(a + m, k)
           u == RingFifo!Batch(a, m + k)
<1>1. s \in Seq(Nat) /\ Len(s) = m /\ \A i \in 1..m : s[i] = a + i - 1
  BY RunIsSequence
<1>2. t \in Seq(Nat) /\ Len(t) = k /\ \A i \in 1..k : t[i] = a + m + i - 1
  <2>1. a + m \in Nat
    OBVIOUS
  <2> QED BY <2>1, RunIsSequence
<1>3. u \in Seq(Nat) /\ Len(u) = m + k /\ \A i \in 1..(m + k) : u[i] = a + i - 1
  BY RunIsSequence
<1> HIDE DEF s, t, u
<1>4. s \o t \in Seq(Nat) /\ Len(s \o t) = m + k
      /\ \A i \in 1..(m + k) : (s \o t)[i] = IF i <= m THEN s[i] ELSE t[i - m]
  BY <1>1, <1>2, ConcatProperties
<1>5. \A i \in 1..(m + k) : (s \o t)[i] = u[i]
  <2> TAKE i \in 1..(m + k)
  <2>1. i \in Nat /\ i >= 1 /\ i <= m + k /\ u[i] = a + i - 1
    BY <1>3
  <2>2. CASE i <= m
    <3>1. i \in 1..m /\ (s \o t)[i] = s[i]
      BY <1>4, <2>1, <2>2
    <3> QED BY <1>1, <2>1, <3>1
  <2>3. CASE ~(i <= m)
    <3>1. i - m \in 1..k /\ (s \o t)[i] = t[i - m]
      BY <1>4, <2>1, <2>3
    <3> QED BY <1>2, <2>1, <3>1
  <2> QED BY <2>2, <2>3
<1>6. s \o t = u
  BY <1>3, <1>4, <1>5, SeqEqual
<1> QED BY <1>6 DEF s, t, u

(* The start and the rest of a run are runs.                                *)
LEMMA RunSplits ==
  ASSUME NEW a \in Nat, NEW n \in Nat, NEW k \in 0..n
  PROVE  /\ SubSeq(RingFifo!Batch(a, n), 1, k) = RingFifo!Batch(a, k)
         /\ SubSeq(RingFifo!Batch(a, n), k + 1, n) = RingFifo!Batch(a + k, n - k)
<1> DEFINE s == RingFifo!Batch(a, n)
           t == RingFifo!Batch(a, k)
           u == RingFifo!Batch(a + k, n - k)
<1>1. s \in Seq(Nat) /\ Len(s) = n /\ \A i \in 1..n : s[i] = a + i - 1
  BY RunIsSequence
<1>2. t \in Seq(Nat) /\ Len(t) = k /\ \A i \in 1..k : t[i] = a + i - 1
  BY RunIsSequence
<1>3. u \in Seq(Nat) /\ Len(u) = n - k /\ \A i \in 1..(n - k) : u[i] = a + k + i - 1
  <2>1. a + k \in Nat /\ n - k \in Nat
    OBVIOUS
  <2> QED BY <2>1, RunIsSequence
<1> HIDE DEF s, t, u
<1>4. SubSeq(s, 1, k) \in Seq(Nat) /\ Len(SubSeq(s, 1, k)) = k
      /\ \A i \in 1..k : SubSeq(s, 1, k)[i] = s[i]
  BY <1>1
<1>5. SubSeq(s, k + 1, n) \in Seq(Nat) /\ Len(SubSeq(s, k + 1, n)) = n - k
      /\ \A i \in 1..(n - k) : SubSeq(s, k + 1, n)[i] = s[k + i]
  BY <1>1
<1>6. SubSeq(s, 1, k) = t
  BY <1>1, <1>2, <1>4, SeqEqual
<1>7. SubSeq(s, k + 1, n) = u
  BY <1>1, <1>3, <1>5, SeqEqual
<1> QED BY <1>6, <1>7 DEF s, t, u

(* What the ring holds is the run from tail to head, whatever else a copy   *)
(* under way has put in the slots.                                          *)
LEMMA HeldIsRun == RingInv => Held = RingFifo!Batch(tail, head - tail)
<1> SUFFICES ASSUME RingInv PROVE Held = RingFifo!Batch(tail, head - tail)
  OBVIOUS
<1>1. head \in Nat /\ tail \in Nat /\ tail <= head /\ head <= Filled
  BY DEF RingInv, TypeOK, IndexOrder, Filled
<1>2. ASSUME NEW i \in 1..(head - tail) PROVE buf[(tail + i - 1) % Capacity] = tail + i - 1
  <2>1. tail + i - 1 \in tail..(Filled - 1)
    BY <1>1 DEF RingInv, TypeOK, Filled
  <2> QED BY <2>1 DEF RingInv, Contents
<1> QED BY <1>2 DEF Held, RingFifo!Batch

LEMMA InitIsFifo == Init => RingFifo!Init
<1> SUFFICES ASSUME Init PROVE RingFifo!Init
  OBVIOUS
<1>1. Held = RingFifo!Batch(0, 0)
  BY InitRingInv, HeldIsRun DEF Init
<1>2. RingFifo!Batch(0, 0) = <<>>
  BY RunIsSequence, EmptySeq, SeqEqual
<1> QED BY <1>1, <1>2 DEF RingFifo!Init, Init

LEMMA StepIsFifo == RingInv /\ RingInv' /\ [Next]_vars => [RingFifo!Next]_RingFifo!fifoVars
<1> SUFFICES ASSUME RingInv, RingInv', [Next]_vars PROVE [RingFifo!Next]_RingFifo!fifoVars
  OBVIOUS
<1>1. Held = RingFifo!Batch(tail, head - tail)
  BY HeldIsRun
<1>2. Held' = RingFifo!Batch(tail', head' - tail')
  <2>1. (RingInv => Held = RingFifo!Batch(tail, head - tail))'
    BY HeldIsRun, PTL
  <2> QED BY <2>1 DEF RingFifo!Batch
<1>3. /\ head \in Nat /\ tail \in Nat /\ tail <= head /\ wn \in Nat /\ rn \in Nat /\ Capacity \in Nat
      /\ head - tail <= Capacity
  BY CapacityAssumption DEF RingInv, TypeOK, IndexOrder
<1>4. Len(Held) = head - tail
  <2>1. head - tail \in Nat
    BY <1>3
  <2> QED BY <1>1, <1>3, <2>1, RunIsSequence
<1>5. CASE head' = head /\ tail' = tail /\ got' = got
  BY <1>1, <1>2, <1>5 DEF RingFifo!fifoVars
<1>6. CASE WritePublish /\ wn # 0
  <2>1. head' = head + wn /\ tail' = tail /\ got' = got
    BY <1>6 DEF WritePublish, consumerVars
  <2>2. wn \in 1..Capacity /\ wn <= Capacity - Len(Held)
    BY <1>3, <1>4, <1>6 DEF RingInv, TypeOK, IndexOrder, CallWindow, WritePublish
  <2>3. Held' = Held \o RingFifo!Batch(head, wn)
    <3> DEFINE m == head - tail
    <3>1. m \in Nat /\ tail + m = head /\ m + wn = head' - tail'
      BY <1>3, <2>1
    <3>2. Held = RingFifo!Batch(tail, m) /\ Held' = RingFifo!Batch(tail, m + wn)
      BY <1>1, <1>2, <2>1, <3>1
    <3> HIDE DEF m
    <3>3. RingFifo!Batch(tail, m) \o RingFifo!Batch(tail + m, wn) = RingFifo!Batch(tail, m + wn)
      BY <1>3, <3>1, RunsJoin
    <3> QED BY <3>1, <3>2, <3>3
  <2>4. RingFifo!Put(wn)
    BY <2>1, <2>2, <2>3 DEF RingFifo!Put
  <2> QED BY <2>2, <2>4 DEF RingFifo!Next
<1>7. CASE ReadPublish \/ (DiscardPublish /\ rn # 0)
  <2>1. head' = head /\ tail' = tail + rn
    BY <1>7 DEF ReadPublish, DiscardPublish, StoreTail, producerVars
  <2>2. rn \in 1..Capacity /\ rn <= head - tail
    BY <1>3, <1>7 DEF RingInv, TypeOK, IndexOrder, CallWindow, ReadPublish, DiscardPublish
  <2>3. Held' = SubSeq(Held, rn + 1, Len(Held)) /\ SubSeq(Held, 1, rn) = RingFifo!Batch(tail, rn)
    <3> DEFINE m == head - tail
    <3>1. m \in Nat /\ rn \in 0..m /\ m - rn = head' - tail' /\ Len(Held) = m
      BY <1>3, <1>4, <2>1, <2>2
    <3>2. Held = RingFifo!Batch(tail, m) /\ Held' = RingFifo!Batch(tail + rn, m - rn)
      BY <1>1, <1>2, <2>1, <3>1
    <3> HIDE DEF m
    <3>3. /\ SubSeq(RingFifo!Batch(tail, m), 1, rn) = RingFifo!Batch(tail, rn)
          /\ SubSeq(RingFifo!Batch(tail, m), rn + 1, m) = RingFifo!Batch(tail + rn, m - rn)
      BY <1>3, <3>1, RunSplits
    <3> QED BY <3>1, <3>2, <3>3
  <2>4. CASE ReadPublish
    <3>1. got' = dst /\ Len(dst) = rn /\ rpc = "copy"
      BY <2>4 DEF ReadPublish
    <3>2. dst = RingFifo!Batch(tail, rn)
      <4> DEFINE run == RingFifo!Batch(tail, rn)
      <4>1. run \in Seq(Nat) /\ Len(run) = rn /\ \A i \in 1..rn : run[i] = tail + i - 1
        BY <1>3, RunIsSequence
      <4>2. run \in Seq(Nat \union {NoElement}) /\ dst \in Seq(Nat \union {NoElement})
        BY <4>1, SeqMonotonic DEF RingInv, TypeOK
      <4>3. \A i \in 1..rn : dst[i] = tail + i - 1
        BY <3>1 DEF RingInv, ReadsInOrder
      <4> HIDE DEF run
      <4>4. dst = run
        BY <3>1, <4>1, <4>2, <4>3, SeqEqual
      <4> QED BY <4>4 DEF run
    <3>3. RingFifo!Take(rn)
      BY <1>4, <2>1, <2>2, <2>3, <3>1, <3>2 DEF RingFifo!Take
    <3> QED BY <2>2, <3>3 DEF RingFifo!Next
  <2>5. CASE DiscardPublish
    <3>1. RingFifo!Drop(rn)
      BY <1>4, <2>1, <2>2, <2>3, <2>5 DEF RingFifo!Drop, DiscardPublish
    <3> QED BY <2>2, <3>1 DEF RingFifo!Next
  <2> QED BY <1>7, <2>4, <2>5
<1>8. CASE (WritePublish /\ wn = 0) \/ (DiscardPublish /\ rn = 0)
  BY <1>3, <1>5, <1>8 DEF WritePublish, DiscardPublish, StoreTail, producerVars, consumerVars
<1>9. CASE ~(WritePublish \/ ReadPublish \/ DiscardPublish)
  <2>1. head' = head /\ tail' = tail /\ got' = got
    BY <1>9 DEF Next, Producer, Consumer, ProducerStep, ConsumerStep, StartWrite, WriteRefresh, WriteCopy,
                WriteAvailable, StartRead, ReadRefresh, ReadCopy, ReadAvailable, StartDiscard, DiscardRefresh,
                LoadTail, LoadHead, vars, producerVars, consumerVars
  <2> QED BY <1>5, <2>1
<1> QED BY <1>6, <1>7, <1>8, <1>9

(* spsc_ring is a first-in first-out queue of Capacity elements: write() is *)
(* its Put, read() its Take and discard() its Drop, however the two threads *)
(* interleave and however stale the indices they work from.                 *)
THEOREM RingIsFifo == Spec => ImplementsFifo
<1>1. Spec => RingFifo!Spec
  BY InitIsFifo, StepIsFifo, RingInvariant, PTL DEF Spec, RingFifo!Spec
<1> QED BY <1>1 DEF ImplementsFifo

=============================================================================
