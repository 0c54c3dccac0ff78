------------------------------- MODULE Display --------------------------------
(***************************************************************************)
(* engine/gcm.c and the frame of ppu/main.c's loop: the main thread queues *)
(* RSX commands for one of two colour buffers, asks for a flip and goes on *)
(* to the next frame; the RSX takes the commands in order, at its own      *)
(* pace; a flip takes effect at a vertical blank.                          *)
(*                                                                         *)
(* What bounds the distance between the two is cellDbgFontDrawGcm, opened  *)
(* with CELL_DBGFONT_SYNC_ON.  The repository does not say whether the     *)
(* library waits before it queues its own drawing (which protects its      *)
(* vertex buffer) or after; sync leaves both open.                         *)
(***************************************************************************)
EXTENDS Integers, SequencesExt

CONSTANT Blank    \* contents of a colour buffer without a blit

VARIABLES
  frame_index,   \* colour buffer of the frame being queued
  first_flip,    \* static of flip_frame
  fifo,          \* commands the RSX has not performed
  scan,          \* colour buffer on the screen, -1 before the first flip
  flipping,      \* colour buffer to show at the next vertical blank, or -1
  color,         \* what each colour buffer holds
  sync           \* "before" or "after": when the library waits for the RSX

display == <<frame_index, first_flip, fifo, scan, flipping, color, sync>>

FRAME_COUNT == 2

Buffers == 0 .. FRAME_COUNT - 1

DrawingOps == {"clear", "blit", "text"}

DisplayInit ==
  /\ frame_index = 0 /\ first_flip = TRUE
  /\ fifo = <<>>
  /\ scan = -1 /\ flipping = -1
  /\ color = [b \in Buffers |-> Blank]
  /\ sync \in {"before", "after"}

(* A command for colour buffer b; src is the I/O offset a blit reads.      *)
Cmd(op, b, src) == [op |-> op, buf |-> b, src |-> src]

Clear == Cmd("clear", frame_index, 0)

Text == Cmd("text", frame_index, 0)

WaitFlip == Cmd("waitflip", frame_index, 0)

(* gcm_blit_main_to_screen, gcm_blit_main_to_screen_scaled.                *)
Blit(io) == Cmd("blit", frame_index, io)

(* The RSX has drawn all the text queued so far, and what came before it.  *)
TextDrawn == \A n \in DOMAIN fifo : fifo[n].op # "text"

Queue(cmds) == fifo' = fifo \o cmds

(* Mutant of FlipCommands: no wait behind the flip.                        *)
FlipCommands_NoWait ==
  (IF first_flip THEN <<>> ELSE <<WaitFlip>>) \o <<Cmd("flip", frame_index, 0)>>

(* Mutant of FlipCommands: frame_index is toggled first.                   *)
FlipCommands_Toggled ==
  (IF first_flip THEN <<>> ELSE <<WaitFlip>>)
    \o <<Cmd("flip", 1 - frame_index, 0), WaitFlip>>

(* Mutant of FlipCommands: the flips are not waited for.                   *)
FlipCommands_Unpaced == <<Cmd("flip", frame_index, 0)>>

(* What flip_frame queues.                                                 *)
FlipCommands ==
  (IF first_flip THEN <<>> ELSE <<WaitFlip>>)
    \o <<Cmd("flip", frame_index, 0), WaitFlip>>

flip_frame ==
  /\ Queue(FlipCommands)
  /\ first_flip' = FALSE
  /\ frame_index' = 1 - frame_index
  /\ UNCHANGED <<scan, flipping, color, sync>>

-----------------------------------------------------------------------------
(* The RSX performs the command at the head of the queue; a blit reads     *)
(* what Source holds at the offset.  A wait for the flip ends when no flip *)
(* is pending.                                                             *)
RsxStep(Source(_)) ==
  /\ fifo # <<>>
  /\ LET c == Head(fifo) IN
       /\ c.op = "waitflip" => flipping = -1
       /\ flipping' = IF c.op = "flip" THEN c.buf ELSE flipping
       /\ color' = CASE c.op = "clear" -> [color EXCEPT ![c.buf] = Blank]
                     [] c.op = "blit"  -> [color EXCEPT ![c.buf] = Source(c.src)]
                     [] OTHER          -> color
  /\ fifo' = Tail(fifo)
  /\ UNCHANGED <<frame_index, first_flip, scan, sync>>

VBlank ==
  /\ flipping # -1
  /\ scan' = flipping
  /\ flipping' = -1
  /\ UNCHANGED <<frame_index, first_flip, fifo, color, sync>>

-----------------------------------------------------------------------------
(* The flips that are queued, and frames asked for that are not shown yet. *)
Flips(q) == {n \in DOMAIN q : q[n].op = "flip"}

FramesWaiting == Cardinality(Flips(fifo)) + (IF flipping = -1 THEN 0 ELSE 1)

OnScreen == IF scan = -1 THEN Blank ELSE color[scan]

(* The RSX never draws into the colour buffer on the screen, nor into the  *)
(* one about to be: no frame is shown half drawn.                          *)
OnlyWholeFramesShown ==
  (fifo # <<>> /\ Head(fifo).op \in DrawingOps) => Head(fifo).buf \notin {scan, flipping}
=============================================================================
