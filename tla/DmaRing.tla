------------------------------- MODULE DmaRing --------------------------------
(***************************************************************************)
(* The DMA kernels of engine/spu_shared/spu_dma_kernel.c on one SPE, as    *)
(* benches/dma/spu_dma_main.c and benches/eib/spu_eib_main.c call them:    *)
(* a ring of local-store slots, one tag per slot, each slot refilled when  *)
(* the wait for its tag says that its last transfer is over.  The get and  *)
(* the put kernel differ in the direction of the transfers only.           *)
(*                                                                         *)
(* The MFC performs the queued commands in any order: none of them has a   *)
(* fence or a barrier.                                                     *)
(***************************************************************************)
EXTENDS Integers, FiniteSets

CONSTANTS
  DMA_MAX_QUEUE,   \* slots of dma_ls_ring
  DMA_CHUNK_MAX,   \* size of a slot
  Requests         \* parameter blocks: see RequestAssumption

(* window_size is a multiple of the chunk size in both benches: powers of  *)
(* two, and a window larger than the largest chunk.                        *)
ASSUME RingAssumption ==
  /\ DMA_MAX_QUEUE \in Nat \ {0} /\ DMA_CHUNK_MAX \in Nat \ {0}

clamp_depth(d) ==
  IF d = 0 THEN 1 ELSE IF d > DMA_MAX_QUEUE THEN DMA_MAX_QUEUE ELSE d

clamp_chunk(c) == IF c = 0 \/ c > DMA_CHUNK_MAX THEN DMA_CHUNK_MAX ELSE c

ASSUME RequestAssumption ==
  \A r \in Requests :
    /\ DOMAIN r = {"window", "iterations", "queue_depth", "chunk_size"}
    /\ r.window \in Nat /\ r.iterations \in Nat
    /\ r.queue_depth \in Nat /\ r.chunk_size \in Nat
    /\ \E m \in 1 .. r.window : r.window = m * clamp_chunk(r.chunk_size)

(* off is masked with window_size - 1, which is % window_size for a power  *)
(* of two only.                                                            *)
ASSUME MaskAssumption ==
  \A r \in Requests : \E n \in 0 .. r.window : r.window = 2^n

VARIABLES
  request,    \* ls_params, fetched by the main function
  pc,         \* "fill", "ring", "put", "returned"
  slot,       \* slot
  issued,     \* commands issued: slot in the first loop, i in the second
  off,        \* off
  inflight,   \* commands the MFC has not completed
  bytes,      \* total_bytes in the local store
  reported    \* total_bytes in main memory, -1 before the put

ringVars == <<request, pc, slot, issued, off, inflight, bytes, reported>>

depth == clamp_depth(request.queue_depth)
csize == clamp_chunk(request.chunk_size)

(* A command: the n-th transfer, between slot s and offset o.              *)
Command(n, s, o) == [n |-> n, slot |-> s, off |-> o]

(* The tag of slot s has no outstanding command: what a wait for its bit   *)
(* of the tag mask establishes.                                            *)
TagIdle(s) == \A c \in inflight : c.slot # s

-----------------------------------------------------------------------------
(* The parameters are there; a kernel with fewer iterations than slots     *)
(* returns 0.                                                              *)
RingInit ==
  /\ request \in Requests
  /\ pc = IF request.iterations < depth THEN "put" ELSE "fill"
  /\ slot = 0 /\ issued = 0 /\ off = 0
  /\ inflight = {} /\ bytes = 0 /\ reported = -1

(* Mutant of Issue: the offset runs out of the window.                     *)
Issue_Unmasked ==
  /\ inflight' = inflight \cup {Command(issued, slot, off)}
  /\ off' = off + csize
  /\ issued' = issued + 1

(* mfc_get or mfc_put; off is advanced under the window mask (see          *)
(* MaskAssumption).                                                        *)
Issue ==
  /\ inflight' = inflight \cup {Command(issued, slot, off)}
  /\ off' = (off + csize) % request.window
  /\ issued' = issued + 1

(* The first loop gives every slot its first transfer.                     *)
Fill ==
  /\ pc = "fill"
  /\ Issue
  /\ slot' = IF slot + 1 = depth THEN 0 ELSE slot + 1
  /\ pc' = IF slot + 1 = depth THEN "ring" ELSE "fill"
  /\ UNCHANGED <<request, bytes, reported>>

(* Mutant of Refill: the wait is for the slot refilled last.               *)
Refill_WrongTag ==
  /\ pc = "ring" /\ issued < request.iterations
  /\ TagIdle((slot + depth - 1) % depth)
  /\ Issue
  /\ slot' = IF slot + 1 = depth THEN 0 ELSE slot + 1
  /\ UNCHANGED <<request, pc, bytes, reported>>

(* The second loop waits for the tag of the slot before it is used again.  *)
Refill ==
  /\ pc = "ring" /\ issued < request.iterations
  /\ TagIdle(slot)
  /\ Issue
  /\ slot' = IF slot + 1 = depth THEN 0 ELSE slot + 1
  /\ UNCHANGED <<request, pc, bytes, reported>>

(* Mutant of drained: the mask misses the last slot.                       *)
drained_ShortMask == \A s \in 0 .. depth - 2 : TagIdle(s)

(* drain_mask_for: every tag of the ring.                                  *)
drained == \A s \in 0 .. depth - 1 : TagIdle(s)

Drain ==
  /\ pc = "ring" /\ issued = request.iterations
  /\ drained
  /\ bytes' = request.iterations * csize
  /\ pc' = "put"
  /\ UNCHANGED <<request, slot, issued, off, inflight, reported>>

(* The results are put to main memory and waited for.                      *)
PutResults ==
  /\ pc = "put"
  /\ reported' = bytes
  /\ pc' = "returned"
  /\ UNCHANGED <<request, slot, issued, off, inflight, bytes>>

(* The MFC completes a command.                                            *)
Complete ==
  /\ \E c \in inflight : inflight' = inflight \ {c}
  /\ UNCHANGED <<request, pc, slot, issued, off, bytes, reported>>

(* The SPE thread has returned: nothing further happens.                   *)
Returned == pc = "returned" /\ inflight = {} /\ UNCHANGED ringVars

RingNext == Fill \/ Refill \/ Drain \/ PutResults \/ Complete \/ Returned

RingSpec == RingInit /\ [][RingNext]_ringVars

-----------------------------------------------------------------------------
(* Type invariant.                                                         *)
RingTypeOK ==
  /\ request \in Requests
  /\ pc \in {"fill", "ring", "put", "returned"}
  /\ slot \in 0 .. depth - 1
  /\ issued \in 0 .. request.iterations
  /\ off \in Nat
  /\ inflight \in SUBSET [n : 0 .. request.iterations - 1, slot : 0 .. depth - 1, off : Nat]
  /\ bytes \in Nat
  /\ reported \in Nat \cup {-1}

(* No slot of dma_ls_ring is the target or the source of two transfers at  *)
(* once, however long the first of them takes and in whatever order they   *)
(* complete (so no more than depth commands are in the MFC's queue).       *)
SlotsDisjoint ==
  \A c, d \in inflight : c.slot = d.slot => c = d

(* Every transfer stays inside the window of this SPE: the neighbouring    *)
(* SPE's window begins behind it.                                          *)
InsideWindow ==
  \A c \in inflight : c.off + csize <= request.window

(* The kernel keeps the promise of ChunkStream: the bytes it reports have  *)
(* all been moved, each chunk once, and nothing is outstanding when the    *)
(* SPE returns and its group may be destroyed.                             *)
Stream == INSTANCE ChunkStream WITH
  plan    <- [chunks |-> IF request.iterations < depth THEN 0 ELSE request.iterations,
              size |-> csize],
  started <- issued,
  pending <- {c.n : c \in inflight}

StreamSpec == Stream!Spec
=============================================================================
