------------------------------- MODULE MCDisk -------------------------------
(* Instance of Disk for TLC: benches and probes that differ in kind.       *)
EXTENDS Disk

MCBenches == <<"seqWrite", "rndRead">>

MCProbe(op, slots) == [op |-> op, slots |-> slots]
MCProbes == <<MCProbe("write", {}), MCProbe("read", Slots)>>
=============================================================================
