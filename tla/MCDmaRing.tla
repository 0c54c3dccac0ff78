------------------------------ MODULE MCDmaRing -------------------------------
(* Instance of DmaRing: a ring of three slots of at most two units, every  *)
(* depth from 0 to beyond the ring, windows of one and of four chunks (a   *)
(* power of two each), and up to eight transfers, so that the ring and the *)
(* window wrap, at different transfers.                                    *)
EXTENDS DmaRing

MCRequests ==
  {[window |-> m * clamp_chunk(c), iterations |-> n, queue_depth |-> d, chunk_size |-> c] :
     m \in {1, 4}, n \in 0 .. 8, d \in 0 .. 4, c \in 0 .. 3}
=============================================================================
