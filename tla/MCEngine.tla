------------------------------ MODULE MCEngine ------------------------------
(* Instances of Engine for TLC.                                            *)
EXTENDS Engine

CONSTANTS A, B, C

MCCategories == {A, B, C}

(* Every registry of up to three modules over two categories and NULL,     *)
(* three pages to turn through, and one category too many for the table.   *)
MCRegistries == UNION {[1 .. n -> {A, B, NoCategory}] : n \in 0 .. 3}
                  \cup {<<A, A, B, C>>, <<A, B, C, A>>, <<B, A, NoCategory, C, B>>}
(* Single buttons, pairs that pull both ways, and the exit chord.          *)
MCPadStates == {{}, {"L2"}, {"R2"}, {"L2", "R2"}, {"L1"}, {"R1"},
                {"R2", "R1"}, {"up"}, {"down", "up"}, {"cross"},
                {"start"}, {"select", "start"}}
MCFewPadStates == {{}, {"L2"}, {"R2"}, {"L1"}, {"down"}, {"select", "start"}}
=============================================================================
