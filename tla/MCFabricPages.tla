---------------------------- MODULE MCFabricPages -----------------------------
(* Instance of FabricPages: two SPEs, so that one reads from the hot spot, *)
(* two chunk sizes of which one is the default, both ordered pairs, one    *)
(* batch at each position of a sweep and histories of two samples; three   *)
(* rounds with four tokens: as in the code, where 4096 rounds meet 2^24    *)
(* tokens, none comes twice within a batch.                                *)
EXTENDS FabricPages

MCChunks == <<1, 2>>
=============================================================================
