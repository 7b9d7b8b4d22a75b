---------------------------- MODULE SamuraiMemory ----------------------------
(***************************************************************************)
(* What SamuraiTracker remembers between its calls                         *)
(* (gst/nvmmsamurai/samurai_tracker.cpp): the conditioning frame of the    *)
(* seed, a ring of device buffers with the memories of later frames and    *)
(* the object pointers that go with them.  Its box, its Kalman filter and  *)
(* the camera motion taken out of them are module SamuraiBox.              *)
(*                                                                         *)
(* A memory or a pointer is the number of the call of seed() or track()    *)
(* whose picture it comes from; 0 is none.                                 *)
(***************************************************************************)
EXTENDS Integers, Sequences

CONSTANTS
  Ring,        (* kMask - 1: memories besides the conditioning frame.      *)
  Ptrs,        (* kPtr - 1: object pointers besides its own.               *)
  MaxCalls     (* Bound: calls of seed() and track() between two starts.   *)

ASSUME SamuraiMemoryAssumption ==
  Ring \in Nat \ {0} /\ Ptrs \in Nat \ {0} /\ MaxCalls \in Nat

VARIABLES
  seeded,      (* seeded_.                                                 *)
  frameIdx,    (* frame_idx: full inferences since the seed.               *)
  condMem,     (* d_cond_maskmem ...                                       *)
  condPtr,     (* ... and cond_obj_ptr of the conditioning frame.          *)
  bufs,        (* d_ring_bufs: what each buffer holds.                     *)
  ringWrite,   (* ring_write: the buffer written next.                     *)
  ringDev,     (* ring_dev: buffers, oldest memory first.                  *)
  ringObjptr,  (* ring_objptr.                                             *)
  (* History: *)
  call,        (* calls made since start.                                  *)
  remembered   (* The calls remembered since the last seed that succeeded. *)

memoryVars == <<seeded, frameIdx, condMem, condPtr, bufs, ringWrite, ringDev,
          ringObjptr, call, remembered>>

Slots == 0 .. Ring - 1

MemoryTypeOK ==
  /\ seeded \in BOOLEAN
  /\ call \in 0 .. MaxCalls
  /\ frameIdx \in Nat
  /\ condMem \in Nat /\ condPtr \in Nat
  /\ bufs \in [Slots -> Nat]
  /\ ringWrite \in Slots
  /\ ringDev \in Seq(Slots) /\ Len(ringDev) <= Ring
  /\ ringObjptr \in Seq(Nat) /\ Len(ringObjptr) <= Ptrs
  /\ remembered \in Seq(Nat)

MemoryInit ==
  /\ seeded = FALSE /\ frameIdx = 0 /\ condMem = 0 /\ condPtr = 0
  /\ bufs = [s \in Slots |-> 0]
  /\ ringWrite = 0 /\ ringDev = <<>> /\ ringObjptr = <<>>
  /\ call = 0 /\ remembered = <<>>

(* start() of the element makes a new tracker.                             *)
NewTracker ==
  /\ call > 0
  /\ seeded' = FALSE /\ frameIdx' = 0 /\ condMem' = 0 /\ condPtr' = 0
  /\ bufs' = [s \in Slots |-> 0]
  /\ ringWrite' = 0 /\ ringDev' = <<>> /\ ringObjptr' = <<>>
  /\ call' = 0 /\ remembered' = <<>>

-----------------------------------------------------------------------------
(* What a full inference shows to memory_attention.                        *)

(* The n-th newest of the entries e, the one from the conditioning frame   *)
(* when there are not so many.                                             *)
Newest(e, n, cond) == IF n <= Len(e) THEN e[Len(e) + 1 - n] ELSE cond

MemoriesShown == [s \in 0 .. Ring |->
  IF s = 0 THEN condMem
  ELSE Newest([i \in DOMAIN ringDev |-> bufs[ringDev[i]]], Ring + 1 - s, condMem)]

PointersShown == [p \in 0 .. Ptrs |->
  IF p = 0 THEN condPtr ELSE Newest(ringObjptr, p, condPtr)]

-----------------------------------------------------------------------------
(* One more call of seed() or track().                                     *)
NewCall == call < MaxCalls /\ call' = call + 1

memory == <<seeded, frameIdx, condMem, condPtr, bufs, ringWrite, ringDev,
            ringObjptr, remembered>>

-----------------------------------------------------------------------------
(* seed().                                                                 *)

(* Mutant of SeedsGood: the frames of the target before stay in the list.  *)
SeedKeepsList ==
  /\ NewCall
  /\ seeded' = TRUE
  /\ condPtr' = call + 1 /\ condMem' = call + 1
  /\ frameIdx' = 0 /\ ringWrite' = 0 /\ ringObjptr' = <<>> /\ remembered' = <<>>
  /\ UNCHANGED <<bufs, ringDev>>

SeedsGood ==
  /\ NewCall
  /\ seeded' = TRUE
  /\ condPtr' = call + 1 /\ condMem' = call + 1
  /\ frameIdx' = 0
  /\ ringDev' = <<>> /\ ringWrite' = 0 /\ ringObjptr' = <<>>
  /\ remembered' = <<>>
  /\ UNCHANGED bufs

(* The memory encoder fails, with the pointer replaced already.            *)
SeedsHalf ==
  /\ NewCall
  /\ condPtr' = call + 1
  /\ UNCHANGED <<seeded, frameIdx, condMem, bufs, ringWrite, ringDev, ringObjptr, remembered>>

(* The image encoder, the prompt encoder or the decoder fails.             *)
SeedFails == NewCall /\ UNCHANGED memory

-----------------------------------------------------------------------------
(* track().                                                                *)

(* A Kalman step, or run_encoder fails.                                    *)
TrackLight ==
  /\ seeded
  /\ NewCall
  /\ UNCHANGED memory

(* track_frame takes nothing into the memory: an engine fails, or the      *)
(* objectness is not a number.                                             *)
TrackForgets ==
  /\ seeded
  /\ NewCall
  /\ frameIdx' = frameIdx + 1
  /\ UNCHANGED <<seeded, condMem, condPtr, bufs, ringWrite, ringDev, ringObjptr, remembered>>

Trimmed(s, n) == IF Len(s) > n THEN Tail(s) ELSE s

Remember ==
  /\ seeded
  /\ NewCall
  /\ frameIdx' = frameIdx + 1
  /\ bufs' = [bufs EXCEPT ![ringWrite] = call + 1]
  /\ ringWrite' = (ringWrite + 1) % Ring
  /\ ringDev' = Trimmed(Append(ringDev, ringWrite), Ring)
  /\ ringObjptr' = Trimmed(Append(ringObjptr, call + 1), Ptrs)
  /\ remembered' = Append(remembered, call + 1)
  /\ UNCHANGED <<seeded, condMem, condPtr>>

MemoryNext ==
  \/ NewTracker
  \/ SeedsGood \/ SeedsHalf \/ SeedFails
  \/ TrackLight \/ TrackForgets \/ Remember

MemorySpec == MemoryInit /\ [][MemoryNext]_memoryVars

-----------------------------------------------------------------------------
(* Properties.                                                             *)

(***************************************************************************)
(* "slot 0 = cond, 1..6 oldest..newest" (samurai_memory.hpp:45): whatever  *)
(* failed, coasted or was seeded anew before, what memory_attention is     *)
(* shown are the newest frames remembered since the seed, in order, though *)
(* the list holds only pointers into buffers that are written round and    *)
(* round; the pointers are of the same frames; and the position given to   *)
(* the conditioning frame is behind them all.                              *)
(***************************************************************************)
MemoryExact ==
  seeded =>
    /\ \A s \in 1 .. Ring : MemoriesShown[s] = Newest(remembered, Ring + 1 - s, condMem)
    /\ \A p \in 1 .. Ptrs : PointersShown[p] = Newest(remembered, p, condPtr)
    /\ frameIdx >= Len(remembered)
=============================================================================
