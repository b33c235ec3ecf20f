------------------------------ MODULE Seqlock ------------------------------
(***************************************************************************)
(* The sequence lock two applications publish telemetry through:           *)
(* publishSnapshot() / readSnapshot() of pico2_dualcore/main.cpp and       *)
(* publish_hw() / read_hw() of alsa_bridge.cpp.  One writer, one reader,   *)
(* one action per atomic access.                                           *)
(*                                                                         *)
(* A store to seq is its number, a store to a field the number of its      *)
(* publication (0, the initial values).  A relaxed or acquire load may     *)
(* return any store from the newest the reader knows of on: seqFloor and   *)
(* fieldFloor.  What a load or a fence adds to that knowledge is what the  *)
(* C++ memory model makes happen before it, no more.                       *)
(***************************************************************************)
EXTENDS Integers

CONSTANT Fields   \* the payload's atomics

VARIABLES
  seq,        \* stores to g.seq / m_seq; odd while the writer is at it
  field,      \* the newest store to each field
  wpc,        \* the writer: "idle" or in the "payload"
  unwritten,  \* the fields this publication has still to store
  rpc,        \* the reader: "idle", at the first load of "seq", in the "payload"
  q0,         \* its first load of seq
  copy,       \* the fields loaded so far
  unread,     \* the fields to load
  seqFloor, fieldFloor,  \* the oldest stores the reader may still load
  fenced,     \* stores to seq that its relaxed loads have seen a release fence after
  got         \* the last snapshot returned

writer == <<seq, field, wpc, unwritten>>
reader == <<rpc, q0, copy, unread, seqFloor, fieldFloor, fenced, got>>

LockInit ==
  /\ seq = 0 /\ field = [f \in Fields |-> 0]
  /\ wpc = "idle" /\ unwritten = {}
  /\ rpc = "idle" /\ q0 = 0 /\ copy = [f \in Fields |-> 0] /\ unread = {}
  /\ seqFloor = 0 /\ fieldFloor = [f \in Fields |-> 0] /\ fenced = 0
  /\ got = [f \in Fields |-> 0]

Later(a, b) == IF a < b THEN b ELSE a

-----------------------------------------------------------------------------
(* Writer: the odd mark and the release fence, the payload, the even mark.  *)
MarkOdd ==
  /\ wpc = "idle"
  /\ seq' = seq + 1
  /\ wpc' = "payload" /\ unwritten' = Fields
  /\ UNCHANGED field

(* Relaxed stores: they become visible in any order. *)
StoreField ==
  /\ \E f \in unwritten :
       /\ field' = [field EXCEPT ![f] = (seq + 1) \div 2]
       /\ unwritten' = unwritten \ {f}
  /\ UNCHANGED <<seq, wpc>>

MarkEven ==
  /\ wpc = "payload" /\ unwritten = {}
  /\ seq' = seq + 1
  /\ wpc' = "idle"
  /\ UNCHANGED <<field, unwritten>>

-----------------------------------------------------------------------------
(* Reader.                                                                  *)
StartRead ==
  /\ rpc = "idle"
  /\ rpc' = "seq"
  /\ UNCHANGED <<q0, copy, unread, seqFloor, fieldFloor, fenced, got>>

(* Fault: an odd mark is not turned away.                                   *)
LoadSeqAny ==
  /\ rpc = "seq"
  /\ \E q \in seqFloor..seq :
       /\ seqFloor' = q /\ q0' = q
       /\ fieldFloor' = [f \in Fields |-> Later(fieldFloor[f], q \div 2)]
  /\ rpc' = "payload" /\ unread' = Fields /\ fenced' = 0
  /\ UNCHANGED <<copy, got>>

(* An acquire load of an even mark sees the payload stored before it.       *)
LoadSeq ==
  /\ rpc = "seq"
  /\ \E q \in seqFloor..seq :
       /\ seqFloor' = q
       /\ IF q % 2 = 1 THEN UNCHANGED <<rpc, q0, unread, fieldFloor, fenced>>
          ELSE /\ q0' = q
               /\ fieldFloor' = [f \in Fields |-> Later(fieldFloor[f], q \div 2)]
               /\ rpc' = "payload" /\ unread' = Fields /\ fenced' = 0
  /\ UNCHANGED <<copy, got>>

(* A relaxed load: publication v's store follows its odd mark 2 v - 1 and   *)
(* the release fence after it.                                              *)
LoadField ==
  /\ rpc = "payload"
  /\ \E f \in unread : \E v \in fieldFloor[f]..field[f] :
       /\ copy' = [copy EXCEPT ![f] = v]
       /\ fieldFloor' = [fieldFloor EXCEPT ![f] = v]
       /\ fenced' = Later(fenced, 2 * v - 1)
       /\ unread' = unread \ {f}
  /\ UNCHANGED <<rpc, q0, seqFloor, got>>

(* The acquire fence and the second load of seq: return, or try again.      *)
CheckSeq ==
  /\ rpc = "payload" /\ unread = {}
  /\ \E q \in Later(seqFloor, fenced)..seq :
       /\ seqFloor' = q
       /\ IF q = q0 THEN rpc' = "idle" /\ got' = copy ELSE rpc' = "seq" /\ UNCHANGED got
  /\ UNCHANGED <<q0, copy, unread, fieldFloor, fenced>>

ReadStep == LoadSeq \/ LoadField \/ CheckSeq

(* An acquire elsewhere (of a flag released after the last publication).    *)
CatchUp == seqFloor' = seq /\ fieldFloor' = field

-----------------------------------------------------------------------------
LockTypeOK ==
  /\ seq \in Nat /\ field \in [Fields -> Nat]
  /\ wpc \in {"idle", "payload"} /\ unwritten \subseteq Fields
  /\ rpc \in {"idle", "seq", "payload"} /\ q0 \in 0..seq
  /\ copy \in [Fields -> Nat] /\ unread \subseteq Fields
  /\ seqFloor \in 0..seq
  /\ fieldFloor \in [Fields -> Nat] /\ \A f \in Fields : fieldFloor[f] <= field[f]
  /\ fenced \in -1..seq /\ got \in [Fields -> Nat]

(* "One printed line describes one instant": what the reader returns is one *)
(* publication, whole, and never an older one than it returned before.      *)
OneInstant ==
  [][got' # got => \A f \in Fields : got'[f] = q0 \div 2 /\ got'[f] > got[f]]_<<writer, reader>>

=============================================================================
