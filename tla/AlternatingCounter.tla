------------------------- MODULE AlternatingCounter -------------------------
(***************************************************************************)
(* What the atomic benchmark measures: two SPEs that increment one counter *)
(* strictly in turn, SPE 0 first.  A batch starts from zero.               *)
(***************************************************************************)
EXTENDS Naturals

CONSTANT Spes      \* the participants, {0, 1}
VARIABLES rounds,  \* the counter
          wins     \* wins[s]: increments made by s in this batch

vars == <<rounds, wins>>

Init == rounds = 0 /\ wins = [s \in Spes |-> 0]

(* The PPU begins a batch.                                                 *)
Reset == rounds' = 0 /\ wins' = [s \in Spes |-> 0]

(* One bounce of the line: it is the turn of the SPE whose parity the      *)
(* counter has.                                                            *)
Win(s) ==
  /\ rounds % 2 = s
  /\ rounds' = rounds + 1
  /\ wins' = [wins EXCEPT ![s] = @ + 1]

Next == Reset \/ \E s \in Spes : Win(s)

Spec == Init /\ [][Next]_vars
=============================================================================
