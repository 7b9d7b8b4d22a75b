------------------------------ MODULE SlotPool ------------------------------
(***************************************************************************)
(* What the shared frame pool of nvmmsink / nvmmappsrc promises, without   *)
(* saying how: a set of slots, each overwritten by at most one writer and  *)
(* only while no consumer holds it, and held by any number of consumers    *)
(* only while nobody overwrites it.  A consumer may hold a slot more than  *)
(* once (two buffers of the same frame), so references are counted.        *)
(*                                                                         *)
(* shm_protocol.h:41-42 states the promise: "Readers increment before      *)
(* reading and decrement when done; the writer waits for 0 before reusing  *)
(* a slot."  NvmmIpc implements it with the CAS protocol on ref_counts.    *)
(***************************************************************************)
EXTENDS Naturals

CONSTANTS
  Slots,      (* Buffers of the pool.                                      *)
  Contents,   (* What the pixels of a slot can be.                         *)
  Blank       (* Contents of a slot never written.                         *)

VARIABLES
  content,    (* content[s]: the pixels of slot s.                         *)
  writing,    (* The slots the writer has locked.                          *)
  refs        (* refs[s]: how many references the consumers hold on s.     *)

poolVars == <<content, writing, refs>>

PoolTypeOK ==
  /\ content \in [Slots -> Contents]
  /\ writing \in SUBSET Slots
  /\ refs \in [Slots -> Nat]

PoolInit ==
  /\ content = [s \in Slots |-> Blank]
  /\ writing = {}
  /\ refs = [s \in Slots |-> 0]

(* The writer takes a slot nobody holds; it works on one slot at a time.   *)
Lock(s) ==
  /\ writing = {}
  /\ refs[s] = 0
  /\ writing' = {s}
  /\ UNCHANGED <<content, refs>>

(* The pixels change only under the lock ...                               *)
Write(s, c) ==
  /\ s \in writing
  /\ content' = [content EXCEPT ![s] = c]
  /\ UNCHANGED <<writing, refs>>

Unlock(s) ==
  /\ s \in writing
  /\ writing' = writing \ {s}
  /\ UNCHANGED <<content, refs>>

(* ... and a reference is taken only on a slot that is not locked.         *)
Hold(s) ==
  /\ s \notin writing
  /\ refs' = [refs EXCEPT ![s] = @ + 1]
  /\ UNCHANGED <<content, writing>>

Drop(s) ==
  /\ refs[s] > 0
  /\ refs' = [refs EXCEPT ![s] = @ - 1]
  /\ UNCHANGED <<content, writing>>

PoolNext ==
  \E s \in Slots :
    \/ Lock(s) \/ Unlock(s) \/ Hold(s) \/ Drop(s)
    \/ \E c \in Contents : Write(s, c)

PoolSpec == PoolInit /\ [][PoolNext]_poolVars
=============================================================================
