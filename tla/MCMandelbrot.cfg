SPECIFICATION Spec
CONSTANTS
  Blank = Blank
  NoView = NoView
  Areas <- MCAreas
  Palettes <- MCPalettes
  Iters <- MCIters
  HomeArea = "home"
  HomeIter = "default"
  Slices = {1, 2}
  Offsets <- MCOffsets
INVARIANTS
  OnlyWholeFramesShown
  BufferOwned
  BlitReadsCurrentPicture
PROPERTIES
  FramesSpec
  EveryViewIsShown
