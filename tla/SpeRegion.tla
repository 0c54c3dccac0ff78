------------------------------- MODULE SpeRegion -------------------------------
(***************************************************************************)
(* The block of main memory that the stress group tests and the burn-in    *)
(* streams from: the allocation ladder of ppu/main.c, and the slices that  *)
(* start_spu_stress (engine/spu.c) hands to the SPEs.                      *)
(***************************************************************************)
EXTENDS Integers

MiB == 1024 * 1024

MAX_SPES == 6

DMA_MAX_SIZE == 16384

BURN_DMA_BUFFER_BYTES == 16 * MiB

(* The sizes that are tried; 0 stands for a region that was not allocated. *)
try_mb == {384, 256, 192, 128, 64, 32}

(* size & ~(MAX_SPES * DMA_MAX_SIZE - 1): the mask 0x17FFF has a hole, so  *)
(* that bit 15 survives.                                                   *)
Masked(size) == size - (size % 32768) - 65536 * ((size \div 65536) % 2)

RegionSizes == {Masked(mb * MiB) : mb \in try_mb} \cup {0}

(* Mutant of slice_size: the sixth is rounded up.                          *)
slice_size_Up(region) ==
  DMA_MAX_SIZE * ((region \div MAX_SPES + DMA_MAX_SIZE - 1) \div DMA_MAX_SIZE)

(* A sixth of the region, rounded down to whole transfers.                 *)
slice_size(region) == DMA_MAX_SIZE * ((region \div MAX_SPES) \div DMA_MAX_SIZE)

(* ea_test_region, relative to the region, and test_region_size.           *)
Slice(i, region) == [base |-> i * slice_size(region), size |-> slice_size(region)]

Slices(region) == [i \in 0 .. MAX_SPES - 1 |-> Slice(i, region)]

(* The parameters of an SPE that is given no region are zero.              *)
NoSlices == [i \in 0 .. MAX_SPES - 1 |-> [base |-> 0, size |-> 0]]
=============================================================================
