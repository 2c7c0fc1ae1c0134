SPECIFICATION Spec
CONSTANTS
  Channels = {c1, c2}
  Latency = 1
  PrefetchMark = 1
  PrefetchAmount = 2
  Viewports <- Sizes
  TileSize <- Tile
  LastFrame = 3
INVARIANTS
  TypeOK
  TilesOfFrame
  EveryPixelOnce
PROPERTY FramesFinish
CHECK_DEADLOCK FALSE
