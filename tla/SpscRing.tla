------------------------------ MODULE SpscRing ------------------------------
(***************************************************************************)
(* tap::sr::async::spsc_ring (async/include/tap/sr/async/spsc_ring.h): the *)
(* lock-free ring between the producer (input clock) and the consumer      *)
(* (output clock).                                                         *)
(*                                                                         *)
(* One action per step another thread can observe: an atomic load, the     *)
(* copy of one element (memcpy is not atomic), an atomic store.            *)
(*                                                                         *)
(* Indices.  head and tail count every element ever published and every    *)
(* element ever removed.  The code keeps them in a std::size_t, modulo     *)
(* IndexModulus = 2^bits, and every computation below sees only that       *)
(* wrapped form (Wrap), as the code does: nothing here compares or         *)
(* subtracts the unbounded counts, only the properties do.                 *)
(*                                                                         *)
(* Memory order.  The loads of the other side's index are acquire loads:   *)
(* C++ lets them return any value of that atomic's modification order not  *)
(* older than one this thread has already seen.  tailStores / headStores   *)
(* are exactly those values.  Data published by a release store is visible *)
(* to whoever acquires that value or a later one, so a slot is plain       *)
(* shared state and a race shows as both threads in it (NoSlotRace).       *)
(*                                                                         *)
(* An element is its position in the accepted stream: slot contents are    *)
(* element numbers, and NoElement the value the constructor left there.    *)
(***************************************************************************)
EXTENDS Integers, Sequences

CONSTANTS
  Capacity,     \* m_buf.size()
  IndexModulus, \* 2^bits of std::size_t
  MaxRequest,   \* bound: the largest n of one call
  MaxElements,  \* bound: elements the producer offers in all
  NoElement     \* what an unwritten slot holds

ASSUME CapacityAssumption == Capacity \in Nat /\ Capacity >= 2
(* bit_ceil makes the capacity a power of two, so it divides 2^bits, and    *)
(* no vector holds 2^bits elements.                                         *)
ASSUME ModulusAssumption ==
  /\ IndexModulus \in Nat
  /\ IndexModulus > Capacity
  /\ IndexModulus % Capacity = 0
ASSUME BoundsAssumption == MaxRequest \in Nat \ {0} /\ MaxElements \in Nat
ASSUME NoElementAssumption == NoElement \notin Nat

VARIABLES
  buf,        \* m_buf
  head,       \* m_head, unwrapped: written by the producer
  tailCache,  \* m_tail_cache, unwrapped: the producer's view of tail
  tailStores, \* values of m_tail the producer's next load may return
  wpc,        \* where write() stands: "idle", "refresh", "copy"
  wn,         \* write(): n
  wi,         \* write(): elements copied so far
  tail,       \* m_tail, unwrapped: written by the consumer
  headCache,  \* m_head_cache, unwrapped: the consumer's view of head
  headStores, \* values of m_head the consumer's next load may return
  rpc,        \* "idle", "refresh", "copy"; "dropRefresh", "drop" in discard()
  rn,         \* read() / discard(): n
  dst,        \* read(): the elements copied out so far
  got         \* history: what the last read() that moved anything returned

producerVars == <<head, tailCache, wpc, wn, wi>>
consumerVars == <<tail, headCache, rpc, rn, dst, got>>
vars == <<buf, producerVars, tailStores, consumerVars, headStores>>

-----------------------------------------------------------------------------
Min2(a, b) == IF a < b THEN a ELSE b

Wrap(i) == i % IndexModulus

(* Fault: a signed difference.                                              *)
SignedDiff(a, b) == Wrap(a) - Wrap(b)

(* Unsigned subtraction of two indices.                                     *)
Diff(a, b) == (Wrap(a) - Wrap(b)) % IndexModulus

(* Fault: one slot more than there is.                                      *)
FreeOneTooMany(h, t) == Capacity + 1 - Diff(h, t)

Free(h, t) == Capacity - Diff(h, t)

(* The slot of the i-th element of an n-element transfer at index x: the    *)
(* two memcpy segments, up to the buffer's end and from its start.          *)
Slot(x, n, i) ==
  LET idx   == Wrap(x) % Capacity
      first == Min2(n, Capacity - idx)
  IN IF i < first THEN idx + i ELSE i - first

Slots == 0..(Capacity - 1)

Init ==
  /\ buf = [s \in Slots |-> NoElement]
  /\ head = 0 /\ tailCache = 0 /\ headStores = {0}
  /\ tail = 0 /\ headCache = 0 /\ tailStores = {0}
  /\ wpc = "idle" /\ wn = 0 /\ wi = 0
  /\ rpc = "idle" /\ rn = 0 /\ dst = <<>>
  /\ got = <<>>

-----------------------------------------------------------------------------
(* Producer.                                                                *)

(* m_tail.load(acquire) into m_tail_cache: t is the value returned.         *)
LoadTail(t) ==
  /\ t \in tailStores
  /\ tailCache' = t
  /\ tailStores' = {s \in tailStores : s >= t}

(* write(src, n): the cached tail decides whether to look at the real one.  *)
StartWrite(n) ==
  /\ wpc = "idle"
  /\ head + n <= MaxElements
  /\ wn' = n
  /\ wi' = 0
  /\ wpc' = IF Free(head, tailCache) < n THEN "refresh" ELSE "copy"
  /\ UNCHANGED <<buf, head, tailCache, tailStores, headStores, consumerVars>>

(* Fault: n is not clamped to the free space.                               *)
WriteUnclamped ==
  /\ wpc = "refresh"
  /\ \E t \in tailStores : LoadTail(t)
  /\ wpc' = "copy"
  /\ UNCHANGED <<buf, head, wn, wi, headStores, consumerVars>>

WriteRefresh ==
  /\ wpc = "refresh"
  /\ \E t \in tailStores :
       /\ LoadTail(t)
       /\ wn' = Min2(wn, Free(head, t))
  /\ wpc' = IF wn' = 0 THEN "idle" ELSE "copy"
  /\ UNCHANGED <<buf, head, wi, headStores, consumerVars>>

WriteCopy ==
  /\ wpc = "copy"
  /\ wi < wn
  /\ buf' = [buf EXCEPT ![Slot(head, wn, wi)] = head + wi]
  /\ wi' = wi + 1
  /\ UNCHANGED <<head, tailCache, tailStores, wpc, wn, headStores, consumerVars>>

(* m_head.store(head + n, release); write() returns n.                      *)
WritePublish ==
  /\ wpc = "copy"
  /\ wi = wn
  /\ head' = head + wn
  /\ headStores' = headStores \union {head + wn}
  /\ wpc' = "idle"
  /\ UNCHANGED <<buf, tailCache, tailStores, wn, wi, consumerVars>>

(* write_available(): refreshes the cached tail, returns Free.              *)
WriteAvailable ==
  /\ wpc = "idle"
  /\ \E t \in tailStores : LoadTail(t)
  /\ UNCHANGED <<buf, head, wpc, wn, wi, headStores, consumerVars>>

-----------------------------------------------------------------------------
(* Consumer.                                                                *)

LoadHead(h) ==
  /\ h \in headStores
  /\ headCache' = h
  /\ headStores' = {s \in headStores : s >= h}

(* read(dst, n).                                                            *)
StartRead(n) ==
  /\ rpc = "idle"
  /\ rn' = n
  /\ dst' = <<>>
  /\ rpc' = IF Diff(headCache, tail) < n THEN "refresh" ELSE "copy"
  /\ UNCHANGED <<buf, producerVars, tailStores, tail, headCache, headStores, got>>

(* Fault: the load is not kept in m_head_cache, and decides nothing.        *)
ReadStale ==
  /\ rpc = "refresh"
  /\ rn' = Min2(rn, Diff(headCache, tail))
  /\ rpc' = IF rn' = 0 THEN "idle" ELSE "copy"
  /\ UNCHANGED <<buf, producerVars, tailStores, tail, headCache, headStores, dst, got>>

ReadRefresh ==
  /\ rpc = "refresh"
  /\ \E h \in headStores :
       /\ LoadHead(h)
       /\ rn' = Min2(rn, Diff(h, tail))
  /\ rpc' = IF rn' = 0 THEN "idle" ELSE "copy"
  /\ UNCHANGED <<buf, producerVars, tailStores, tail, dst, got>>

ReadCopy ==
  /\ rpc = "copy"
  /\ Len(dst) < rn
  /\ dst' = Append(dst, buf[Slot(tail, rn, Len(dst))])
  /\ UNCHANGED <<buf, producerVars, tailStores, tail, headCache, headStores, rpc, rn, got>>

(* m_tail.store(tail + n, release).                                         *)
StoreTail ==
  /\ tail' = tail + rn
  /\ tailStores' = tailStores \union {tail + rn}
  /\ rpc' = "idle"

ReadPublish ==
  /\ rpc = "copy"
  /\ Len(dst) = rn
  /\ StoreTail
  /\ got' = dst
  /\ UNCHANGED <<buf, producerVars, headCache, headStores, rn, dst>>

(* read_available(): refreshes the cached head, returns the occupancy.      *)
ReadAvailable ==
  /\ rpc = "idle"
  /\ \E h \in headStores : LoadHead(h)
  /\ UNCHANGED <<buf, producerVars, tailStores, tail, rpc, rn, dst, got>>

(* Fault: n is taken at its word.                                           *)
DiscardUnchecked(n) ==
  /\ rpc = "idle"
  /\ rn' = n
  /\ rpc' = "drop"
  /\ UNCHANGED <<buf, producerVars, tailStores, tail, headCache, headStores, dst, got>>

(* discard(n): the hard-resync path, no copy; it stores even when n is 0.   *)
StartDiscard(n) ==
  /\ rpc = "idle"
  /\ rn' = n
  /\ rpc' = IF Diff(headCache, tail) < n THEN "dropRefresh" ELSE "drop"
  /\ UNCHANGED <<buf, producerVars, tailStores, tail, headCache, headStores, dst, got>>

DiscardRefresh ==
  /\ rpc = "dropRefresh"
  /\ \E h \in headStores :
       /\ LoadHead(h)
       /\ rn' = Min2(rn, Diff(h, tail))
  /\ rpc' = "drop"
  /\ UNCHANGED <<buf, producerVars, tailStores, tail, dst, got>>

DiscardPublish ==
  /\ rpc = "drop"
  /\ StoreTail
  /\ UNCHANGED <<buf, producerVars, headCache, headStores, rn, dst, got>>

-----------------------------------------------------------------------------
Requests == 1..MaxRequest

ProducerStep == WriteRefresh \/ WriteCopy \/ WritePublish
ConsumerStep == ReadRefresh \/ ReadCopy \/ ReadPublish \/ DiscardRefresh \/ DiscardPublish

Producer == (\E n \in Requests : StartWrite(n)) \/ ProducerStep \/ WriteAvailable

Consumer ==
  \/ \E n \in Requests : StartRead(n) \/ StartDiscard(n)
  \/ ConsumerStep
  \/ ReadAvailable

Next == Producer \/ Consumer

Spec == Init /\ [][Next]_vars

(* Both threads run on, the consumer keeps calling read() (an audio         *)
(* callback does), and a store becomes visible to loads in finite time      *)
(* ([intro.progress]): a load repeated forever returns the newest value.    *)
Fairness ==
  /\ WF_vars(ProducerStep)
  /\ WF_vars(ConsumerStep)
  /\ SF_vars(\E n \in Requests : StartRead(n))
  /\ SF_vars(ReadRefresh /\ headCache' = head)

FairSpec == Spec /\ Fairness

-----------------------------------------------------------------------------
TypeOK ==
  /\ buf \in [Slots -> Nat \union {NoElement}]
  /\ head \in Nat /\ tailCache \in Nat /\ tailStores \subseteq Nat
  /\ tail \in Nat /\ headCache \in Nat /\ headStores \subseteq Nat
  /\ wpc \in {"idle", "refresh", "copy"} /\ wn \in Nat /\ wi \in Nat
  /\ rpc \in {"idle", "refresh", "copy", "dropRefresh", "drop"}
  /\ rn \in Nat
  /\ dst \in Seq(Nat \union {NoElement})
  /\ got \in Seq(Nat \union {NoElement})

(* The index arithmetic survives the wraparound: what the producer takes    *)
(* for its free space and the consumer for its occupancy is the true        *)
(* difference of the counts, never more than the buffer (the class comment: *)
(* "occupancy is always a difference of the two indices, exact").           *)
WraparoundBenign ==
  /\ Diff(head, tailCache) = head - tailCache
  /\ Diff(headCache, tail) = headCache - tail
  /\ head - tail \in 0..Capacity

(* Slots the producer has yet to fill / the consumer has yet to copy in     *)
(* the call under way.                                                      *)
WritingSlots == IF wpc = "copy" THEN {Slot(head, wn, i) : i \in wi..(wn - 1)} ELSE {}
ReadingSlots == IF rpc = "copy" THEN {Slot(tail, rn, i) : i \in Len(dst)..(rn - 1)} ELSE {}

(* No data race: the memcpy of write() and the memcpy of read() never       *)
(* touch the same slot, whatever stale index either side worked from.       *)
NoSlotRace == WritingSlots \intersect ReadingSlots = {}

(* Exactly once and in order: what read() copies out is the run of elements *)
(* that starts at tail, none skipped, repeated, torn or not yet written.    *)
ReadsInOrder == rpc = "copy" => \A i \in 1..Len(dst) : dst[i] = tail + i - 1

(* The ring implements the FIFO: elements [tail, head) as the slots hold    *)
(* them are its queue, and each publishing store is its Put, Take or Drop.  *)
Held == [i \in 1..(head - tail) |-> buf[(tail + i - 1) % Capacity]]

RingFifo == INSTANCE SpscFifo WITH queue <- Held, accepted <- head

ImplementsFifo == RingFifo!Spec

(* Nothing published is stuck in the ring: a consumer that keeps reading    *)
(* gets (or drops) every element the producer published, stale loads and    *)
(* cached indices notwithstanding.                                          *)
Drained == \A k \in 1..MaxElements : head >= k ~> tail >= k

=============================================================================
