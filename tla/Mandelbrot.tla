------------------------------ MODULE Mandelbrot ------------------------------
(***************************************************************************)
(* benches/mandelbrot on the display of Display.tla: one frame of the main *)
(* loop is input, tick, render, text, flip.  The tick computes the picture *)
(* of a changed view on the SPEs, into a frame buffer that the RSX reads;  *)
(* the start and stop hooks of the page allocate and map it, unmap and     *)
(* free it.                                                                *)
(***************************************************************************)
EXTENDS Display

CONSTANTS
  Areas,       \* values of centre and half extents; one is the default
  Palettes,    \* values of palette, hue and what reset_view leaves alone
  Iters,       \* iteration limits; one is the default
  HomeArea, HomeIter,
  NoView,
  Slices,      \* the SPEs, each with its rows of the picture
  Offsets      \* I/O offsets gcm_map_main_buffer may return

Views == [area : Areas, palette : Palettes, iter : Iters]

ASSUME ViewAssumption == HomeArea \in Areas /\ HomeIter \in Iters /\ NoView \notin Views
ASSUME OffsetAssumption == Offsets \subseteq Nat \ {0}

VARIABLES
  pc,          \* next step of the main loop
  running,     \* app_running
  page,        \* "mandelbrot" or "other"
  view,        \* g_center, g_half, g_max_iter, g_palette_id, g_hue_offset
  cached,      \* the g_cached_ variables, NoView while g_cache_valid is 0
  disabled,    \* g_summary.disabled
  frame,       \* g_frame_io_offset; g_frame_buf is allocated iff it is not 0
  mapped,      \* offsets mapped for the RSX
  picture,     \* what each slice of the frame buffer shows
  writing      \* SPEs of the tick's group that have not returned

mandel == <<view, cached, disabled, frame, mapped, picture, writing>>
vars == <<pc, running, page, mandel, display>>

Zeroed == [s \in Slices |-> Blank]

PictureOf(v) == [s \in Slices |-> v]

Init ==
  /\ DisplayInit
  /\ pc = "input" /\ running = TRUE /\ page = "other"
  /\ view \in {v \in Views : v.area = HomeArea /\ v.iter = HomeIter}
  /\ cached = NoView
  /\ disabled = FALSE
  /\ frame = 0 /\ mapped = {} /\ picture = Zeroed /\ writing = {}

-----------------------------------------------------------------------------
(* Hooks of the page.                                                      *)

ResetView(v) == [v EXCEPT !.area = HomeArea, !.iter = HomeIter]

(* Some resolution can be allocated and mapped: zeroed, default view.      *)
Allocated ==
  /\ \E io \in Offsets \ mapped : frame' = io /\ mapped' = mapped \cup {io}
  /\ picture' = Zeroed
  /\ view' = ResetView(view)
  /\ cached' = NoView
  /\ disabled' = FALSE

AllocationFailed ==
  /\ disabled' = TRUE
  /\ UNCHANGED <<view, cached, frame, mapped, picture>>

(* mandelbrot_start keeps a buffer that exists.                            *)
mandelbrot_start ==
  /\ IF frame # 0
       THEN UNCHANGED <<view, cached, disabled, frame, mapped, picture>>
       ELSE Allocated \/ AllocationFailed
  /\ UNCHANGED writing

(* release_frame_buffer ignores the result of the unmapping.               *)
release_frame_buffer ==
  /\ frame' = 0
  /\ mapped' \in IF frame # 0 THEN {mapped, mapped \ {frame}} ELSE {mapped}
  /\ picture' = Zeroed
  /\ cached' = NoView
  /\ UNCHANGED <<view, disabled, writing>>

(* Palette, iteration limit, and L1, which resets the view.                *)
mandelbrot_input ==
  /\ \/ \E p \in Palettes, n \in Iters :
          view' = [view EXCEPT !.palette = p, !.iter = n] /\ UNCHANGED cached
     \/ view' = ResetView(view) /\ cached' = NoView
  /\ UNCHANGED <<disabled, frame, mapped, picture, writing>>

-----------------------------------------------------------------------------
(* The main loop.                                                          *)

Input ==
  /\ pc = "input"
  /\ pc' = "tick"
  /\ running' \in BOOLEAN
  /\ \/ UNCHANGED <<page, mandel>>
     \/ page = "other" /\ page' = "mandelbrot" /\ mandelbrot_start
     \/ page = "mandelbrot" /\ page' = "other" /\ release_frame_buffer
     \/ page = "mandelbrot" /\ mandelbrot_input /\ UNCHANGED page
  /\ UNCHANGED display

(* Mutant of view_changed: the palette is not compared.                    *)
view_changed_NoPalette(v) ==
  ~(cached # NoView /\ v.area = cached.area /\ v.iter = cached.iter)

view_changed(v) == v # cached

(* Nothing to compute: another page, or this one is disabled.              *)
TickIdle ==
  /\ pc = "tick" /\ (page = "other" \/ disabled)
  /\ pc' = "render"
  /\ UNCHANGED <<running, page, mandel, display>>

(* The sticks and the held buttons move the view; up and down, the hue.    *)
HeldPad ==
  \E a \in Areas, p \in Palettes : view' = [view EXCEPT !.area = a, !.palette = p]

TickStatic ==
  /\ pc = "tick" /\ page = "mandelbrot" /\ ~disabled
  /\ HeldPad
  /\ ~view_changed(view')
  /\ pc' = "render"
  /\ UNCHANGED <<running, page, cached, disabled, frame, mapped,
                 picture, writing, display>>

(* The image, the group, its threads or its start fails.                   *)
TickFails ==
  /\ pc = "tick" /\ page = "mandelbrot" /\ ~disabled
  /\ HeldPad
  /\ view_changed(view')
  /\ disabled' = TRUE
  /\ pc' = "render"
  /\ UNCHANGED <<running, page, cached, frame, mapped, picture,
                 writing, display>>

TickStart ==
  /\ pc = "tick" /\ page = "mandelbrot" /\ ~disabled
  /\ HeldPad
  /\ view_changed(view')
  /\ writing' = Slices
  /\ pc' = "join"
  /\ UNCHANGED <<running, page, cached, disabled, frame, mapped,
                 picture, display>>

(* An SPE has put its rows, waited for the puts, and returns.              *)
SliceDone(s) ==
  /\ s \in writing
  /\ picture' = [picture EXCEPT ![s] = view]
  /\ writing' = writing \ {s}
  /\ UNCHANGED <<pc, running, page, view, cached, disabled, frame,
                 mapped, display>>

(* Mutant of TickJoin: the tick does not join its group.                   *)
TickJoin_NoWait ==
  /\ pc = "join"
  /\ cached' = view
  /\ UNCHANGED disabled
  /\ pc' = "render"
  /\ UNCHANGED <<running, page, view, frame, mapped, picture, writing, display>>

(* The join returns when the group is over; an error of the join or a      *)
(* decrementer that did not run disables the page, else commit_cache.      *)
TickJoin ==
  /\ pc = "join" /\ writing = {}
  /\ \/ disabled' = TRUE /\ UNCHANGED cached
     \/ cached' = view /\ UNCHANGED disabled
  /\ pc' = "render"
  /\ UNCHANGED <<running, page, view, frame, mapped, picture, writing, display>>

(* mandelbrot_render blits while the page is not disabled.                 *)
Blits == page = "mandelbrot" /\ ~disabled /\ frame # 0

Render ==
  /\ pc = "render"
  /\ Queue(<<Clear>> \o (IF Blits THEN <<Blit(frame)>> ELSE <<>>))
  /\ pc' = "text"
  /\ UNCHANGED <<running, page, mandel, frame_index, first_flip, scan, flipping,
                 color, sync>>

(* cellDbgFontDrawGcm queues the text ...                                  *)
DrawText ==
  /\ pc = "text"
  /\ sync = "before" => TextDrawn
  /\ Queue(<<Text>>)
  /\ pc' = "drawn"
  /\ UNCHANGED <<running, page, mandel, frame_index, first_flip, scan, flipping,
                 color, sync>>

(* ... and returns.                                                        *)
Flip ==
  /\ pc = "drawn"
  /\ sync = "after" => TextDrawn
  /\ flip_frame
  /\ pc' = IF running THEN "input" ELSE "shutdown"
  /\ UNCHANGED <<running, page, mandel>>

(* The stop hook of the page, then every cleanup hook.                     *)
Shutdown ==
  /\ pc = "shutdown"
  /\ release_frame_buffer
  /\ pc' = "exited"
  /\ UNCHANGED <<running, page, display>>

MainLoop ==
  \/ Input \/ TickIdle \/ TickStatic \/ TickFails \/ TickStart \/ TickJoin
  \/ Render \/ DrawText \/ Flip \/ Shutdown

(* What the RSX reads: the view of a whole picture, or a blank.            *)
Memory(io) ==
  IF io = frame /\ io \in mapped /\ \E v \in Views : picture = PictureOf(v)
    THEN CHOOSE v \in Views : picture = PictureOf(v)
    ELSE Blank

Rsx == RsxStep(Memory) /\ UNCHANGED <<pc, running, page, mandel>>

Vertical == VBlank /\ UNCHANGED <<pc, running, page, mandel>>

Exited == pc = "exited" /\ fifo = <<>> /\ flipping = -1 /\ UNCHANGED vars

Next ==
  \/ MainLoop \/ (\E s \in Slices : SliceDone(s)) \/ Rsx \/ Vertical \/ Exited

(* The main thread, the SPEs, the RSX and the vertical blank go on.        *)
Spec ==
  /\ Init /\ [][Next]_vars
  /\ WF_vars(MainLoop) /\ WF_vars(\E s \in Slices : SliceDone(s))
  /\ WF_vars(Rsx) /\ WF_vars(Vertical)

-----------------------------------------------------------------------------
(* Type invariant.                                                         *)
TypeOK ==
  /\ pc \in {"input", "tick", "join", "render", "text", "drawn", "shutdown", "exited"}
  /\ running \in BOOLEAN /\ page \in {"mandelbrot", "other"}
  /\ view \in Views /\ cached \in Views \cup {NoView}
  /\ disabled \in BOOLEAN
  /\ frame \in Offsets \cup {0} /\ mapped \subseteq Offsets
  /\ writing \subseteq Slices
  /\ \A s \in Slices : picture[s] \in Views \cup {Blank}
  /\ frame_index \in Buffers /\ first_flip \in BOOLEAN
  /\ scan \in Buffers \cup {-1} /\ flipping \in Buffers \cup {-1}
  /\ \A n \in DOMAIN fifo :
       /\ fifo[n].op \in DrawingOps \cup {"flip", "waitflip"}
       /\ fifo[n].buf \in Buffers

(* The display keeps the promise of FrameStream, however far the RSX lags  *)
(* behind the main thread: no frame asked for by flip_frame is lost or     *)
(* shown out of turn, and what is on the screen does not change under the  *)
(* viewer's eyes.                                                          *)
Frames == INSTANCE FrameStream WITH
  Pictures <- Views \cup {Blank},
  visible  <- OnScreen,
  shown    <- scan,
  waiting  <- FramesWaiting

FramesSpec == Frames!Spec

(* The SPEs write into a mapped frame buffer, and only while the main      *)
(* thread is in the join: it is never released or blitted under them, and  *)
(* a page that is left holds none.                                         *)
BufferOwned ==
  /\ writing # {} => pc = "join" /\ frame \in mapped
  /\ frame # 0 => page = "mandelbrot"
  /\ frame \in mapped \cup {0}

(* If the library waits for the frame's own drawing, every blit in the     *)
(* queue will read a mapped buffer with the whole picture of the view the  *)
(* user has chosen: none is released, overwritten or half written while    *)
(* the blit is outstanding.                                                *)
BlitReadsCurrentPicture ==
  sync = "after" =>
    \A n \in DOMAIN fifo : fifo[n].op = "blit" =>
      /\ fifo[n].src = frame /\ frame \in mapped
      /\ picture = PictureOf(view)

(* Every view the page renders reaches the screen; if the library waits    *)
(* only for the previous frame, unless the user has gone on in between.    *)
Shown(v) == scan # -1 /\ color[scan] = v

Overtaken(v) == view # v \/ page = "other" \/ disabled \/ ~running

EveryViewIsShown ==
  \A v \in Views :
    (pc = "text" /\ Blits /\ view = v)
      ~> (Shown(v) \/ (sync = "before" /\ Overtaken(v)))
=============================================================================
