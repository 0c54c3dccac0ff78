----------------------------- MODULE ChunkStream ------------------------------
(***************************************************************************)
(* What a DMA kernel promises to the bench that times it: the chunks of    *)
(* its plan are started one after the other, complete in any order, and    *)
(* the number of bytes is reported once, when every chunk has been moved   *)
(* exactly once and none is on its way.                                    *)
(***************************************************************************)
EXTENDS Integers

VARIABLES
  plan,      \* chunks to move, and their size
  started,   \* chunks 0 .. started - 1 have been started
  pending,   \* chunks on their way
  reported   \* bytes reported, or -1

vars == <<plan, started, pending, reported>>

Init ==
  /\ plan \in [chunks : Nat, size : Nat]
  /\ started = 0 /\ pending = {} /\ reported = -1

Start ==
  /\ started < plan.chunks
  /\ started' = started + 1
  /\ pending' = pending \cup {started}
  /\ UNCHANGED <<plan, reported>>

Land ==
  /\ \E k \in pending : pending' = pending \ {k}
  /\ UNCHANGED <<plan, started, reported>>

Report ==
  /\ reported = -1 /\ started = plan.chunks /\ pending = {}
  /\ reported' = plan.chunks * plan.size
  /\ UNCHANGED <<plan, started, pending>>

Next == Start \/ Land \/ Report

Spec == Init /\ [][Next]_vars
=============================================================================
