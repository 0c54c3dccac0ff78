----------------------------- MODULE MCMemtest ------------------------------
(* Instances of Memtest for TLC.                                           *)
EXTENDS Memtest

(* Cycles of a few tests, in the order of the real one.                    *)
MCTestKinds == <<"pattern", "pipelined", "coherency", "latency">>
MCTornKinds == <<"pipelined", "coherency">>
MCCycleKinds == <<"pattern", "bandwidth", "coherency">>

(* The tests cycle undisturbed from the first start on.                    *)
CycleSpec ==
  /\ Init
  /\ [][ \/ StartGroup(MEMTEST_AUTO_CYCLE)
         \/ \E s \in Spes : SpeMain(s)
         \/ \E p \in puts : Land(p)]_vars
=============================================================================
