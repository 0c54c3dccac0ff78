----------------------------- MODULE FrameStream ------------------------------
(***************************************************************************)
(* What the display promises to whoever looks at it: every frame that was  *)
(* asked for is shown, one after the other, the two buffers in turn, and   *)
(* what is seen changes only when a new frame takes the screen.            *)
(***************************************************************************)
EXTENDS Integers

CONSTANTS
  Pictures,   \* what a frame may show
  Blank       \* the screen before the first frame

VARIABLES
  visible,    \* what is seen
  shown,      \* buffer on the screen, or -1
  waiting     \* frames asked for and not shown yet

vars == <<visible, shown, waiting>>

Init == visible = Blank /\ shown = -1 /\ waiting = 0

Ask ==
  /\ waiting' = waiting + 1
  /\ UNCHANGED <<visible, shown>>

Show ==
  /\ waiting > 0
  /\ waiting' = waiting - 1
  /\ shown' = IF shown = -1 THEN 0 ELSE 1 - shown
  /\ visible' \in Pictures

Next == Ask \/ Show

Spec == Init /\ [][Next]_vars
=============================================================================
