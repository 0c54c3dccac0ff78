----------------------------- MODULE MCMandelbrot -----------------------------
(* Instance of Mandelbrot: two SPEs, two areas, two palettes, one          *)
(* iteration limit and one I/O offset: a mapping that could not be undone  *)
(* leaves no room for the next buffer.                                     *)
EXTENDS Mandelbrot

MCAreas == {"home", "zoomed"}
MCPalettes == {"rainbow", "fire"}
MCIters == {"default"}
MCOffsets == {1}
=============================================================================
