SPECIFICATION Spec
CONSTANTS
  LruKeys  =  {1, 2, 3}
  LruEntries  =  2
  LruSlots  =  2
  MaxNested  =  1
  LinkCapacity  =  2
  LinkIds  =  3
  MaxLinks  =  4
  LinkRequests  =  {"plain", "third", "fourth", "none"}
  FrameKinds  =  {"plain", "blank", "widePlain", "styles", "wide", "box"}
  FramePatterns  =  {"none", "one", "two"}
  FramePreedits  =  {"none", "narrow", "wide"}
  FrameScrolls  =  {0, 1}
  FrameBases  =  {0}
  FrameRanges  =  {"none", "part"}
  AtlasCapacity  =  3
  AtlasGlyphs  =  {"a", "n", "w", "x", "image"}
  MaxTilesDrawn  =  3
  MaxFrames  =  2
  MaxFonts  =  2
  TileWidths  =  {11}
  TileCounts  =  {3}
  SlotCounts  =  {513}
  BufferSize  =  4
  LineColumns  =  3
  ScreenLines2  =  2
  KeptLines  =  2
  LowWater  =  2
  MaxReads  =  3
  ReadItems  =  {"a", "b", "lf", "back"}
  MaxItems  =  2
  Racing  =  FALSE
  FlowLines  =  2
  FlowHistory  =  2
  FlowColumns  =  {2, 3, 4}
  FirstColumns  =  3
  MaxChars  =  6
  MaxReflows  =  3
  MaxPictures  =  2
  MaxChunks  =  3
  Chunks  =  {"use", "rgb", "twice", "raster", "aspect", "rewind", "newline", "second", "all"}
INVARIANTS
  CachesFindEntries
  FrameShowsPage
  TilesShowGlyphs
  LinesKeepText
  PicturesAsDrawn
PROPERTIES
  TableIsCache
  ListIsCache
  ReflowKeepsText
CHECK_DEADLOCK FALSE
