------------------------------ MODULE TileAtlas ------------------------------
(***************************************************************************)
(* The texture atlas.  A glyph or an image fragment is drawn from a tile   *)
(* of one texture on the GPU; which tile holds what is decided by an LRU   *)
(* cache (LruTable) and, for ASCII, by a fixed tile.  Nothing reaches the  *)
(* GPU before the end of a frame: configuration, uploads and draws are     *)
(* scheduled and executed in this order.                                   *)
(***************************************************************************)
EXTENDS Integers, Sequences, SequencesExt, FiniteSets, Functions, Bitwise

CONSTANTS
  AtlasCapacity,     \* tiles of the cache
  AtlasGlyphs,       \* the glyphs and images that are drawn
  MaxTilesDrawn,     \* draws in a frame
  MaxFrames,         \* frames in a behaviour
  MaxFonts,          \* changes of the font
  TileWidths,        \* the sizes of a cell that a font may give
  TileCounts,        \* configured numbers of tiles
  SlotCounts         \* configured numbers of hash slots

VARIABLE atlas

DirectGlyphs == {"a"}
Missing == {"x"}                                  \* glyphs that the font cannot rasterize
Images == {"image"}
SlicesOf(g) == IF g = "w" THEN <<"w1">> ELSE <<>> \* a wide glyph has a tile for each further cell
Stub == <<"stub", 0>>
CursorTile == AtlasCapacity + 1                   \* stands for the tiles of the cursor shapes

(***************************************************************************)
(* Layout.                                                                 *)
(***************************************************************************)
FourSteps(v) == LET a == v | shiftR(v, 1)  b == a | shiftR(a, 2)  IN b | shiftR(b, 4)
\* Only the shifts by 1, 2 and 4 are done for a 32-bit number: sizeof counts bytes.
NextPowerOfTwo(v) == FourSteps(v - 1) + 1
IsPowerOfTwo(v) == (v & (v - 1)) = 0
CeilSqrt(n) == CHOOSE k \in 0 .. n : k * k >= n /\ \A j \in 0 .. k - 1 : j * j < n
ComputeAtlasSize(tileCount, directCount, width) ==
  NextPowerOfTwo(CeilSqrt(NextPowerOfTwo(1 + tileCount + directCount)) * width)
CursorShapes == 4
ToDirectMappingIndex(shape, width, slice) == shape + slice + (width - 1) * (CursorShapes + shape)
DirectMappedTilesCount == CursorShapes * 3
\* Tile 0 is not used; the tiles of the cursor shapes come first.
DirectCount == 1 + DirectMappedTilesCount
\* Rounded by the renderer, and again by the table where that gave no power of two.
HashSlots(count) == LET n == NextPowerOfTwo(count) IN IF IsPowerOfTwo(n) THEN n ELSE NextPowerOfTwo(n)
Layout(tileCount, width) ==
  LET size == ComputeAtlasSize(tileCount, DirectCount, width)
      inX == size \div width
  IN  [size |-> size, width |-> width, tileCount |-> tileCount, inX |-> inX, capacity |-> inX * inX - DirectCount - 1]
TileLocation(layout, index) == <<(index % layout.inX) * layout.width, (index \div layout.inX) * layout.width>>

AtlasInit == atlas = [layout |-> <<>>, slots |-> 1, slotsAsked |-> 1, list |-> <<>>, direct |-> [g \in DirectGlyphs |-> FALSE], font |-> 0, fonts |-> 0,
                      gpu |-> [t \in 0 .. CursorTile |-> Stub], gpuFont |-> 0, configure |-> FALSE, uploads |-> <<>>,
                      batch |-> <<>>, pending |-> <<>>, frames |-> 0, drawing |-> FALSE, used |-> {}, shown |-> <<>>]

(***************************************************************************)
(* The cache: entries [key, tile], the most recently used first.  Tile 0   *)
(* stands for the fixed tile of the direct-mapped glyph.                   *)
(***************************************************************************)
EntryOf(s, key) == SelectSeq(s.list, LAMBDA e : e.key = key)
Touch(s, key) == [s EXCEPT !.list = EntryOf(s, key) \o SelectSeq(@, LAMBDA e : e.key # key)]
FreeTile(s) == CHOOSE t \in 1 .. AtlasCapacity : \A i \in DOMAIN s.list : s.list[i].tile # t
Allocate(s, key) ==
  LET full == Len(s.list) = AtlasCapacity
      tile == IF full THEN Last(s.list).tile ELSE FreeTile(s)
  IN  [s EXCEPT !.list = <<[key |-> key, tile |-> tile]>> \o (IF full THEN Front(@) ELSE @), !.used = @ \cup {key}]
UploadTile(s, key, tile) == [s EXCEPT !.uploads = Append(@, [tile |-> tile, bitmap |-> <<key, s.font>>, font |-> s.font])]
ConstructTile(s, key) == UploadTile(s, key, EntryOf(s, key)[1].tile)
EmplaceTile(s, key) == LET t == IF EntryOf(s, key) # <<>> THEN Touch(s, key) ELSE Allocate(s, key) IN ConstructTile(t, key)
RemoveTile(s, key) == [s EXCEPT !.list = SelectSeq(@, LAMBDA e : e.key # key)]
InitializeDirectMapping(s) == UploadTile(s, "cursor", CursorTile)
\* A wide glyph stores its further tiles while its own is being made.
CreateSlicedRasterizedGlyph(s, g) ==
  IF g \in Missing THEN RemoveTile(s, g) ELSE ConstructTile(FoldLeft(EmplaceTile, s, SlicesOf(g)), g)
GetOrTryEmplace(s, g) ==
  IF EntryOf(s, g) # <<>> THEN [Touch(s, g) EXCEPT !.used = @ \cup {g}] ELSE CreateSlicedRasterizedGlyph(Allocate(s, g), g)

(***************************************************************************)
(* Drawing.                                                                *)
(***************************************************************************)
Draw(s, key, tile) == [s EXCEPT !.batch = Append(@, [want |-> <<key, s.font>>, tile |-> tile])]
EnsureRasterizedIfDirectMapped(s, g) ==
  IF s.direct[g] THEN s ELSE [UploadTile(s, g, 0) EXCEPT !.direct[g] = TRUE]
\* The further tiles are drawn as long as they are found.
RenderSlices(s, g) ==
  FoldLeft(LAMBDA t, k : IF EntryOf(t, k) = <<>> THEN t
                         ELSE Draw([Touch(t, k) EXCEPT !.used = @ \cup {k}], k, EntryOf(t, k)[1].tile), s, SlicesOf(g))
OnAfterRenderingText(s) == [s EXCEPT !.batch = @ \o s.pending, !.pending = <<>>]
RenderGlyph(g) ==
  LET s == GetOrTryEmplace(atlas, g)
  IN  /\ atlas.drawing /\ Len(atlas.batch) + Len(atlas.pending) < MaxTilesDrawn /\ g \notin Images
      /\ atlas' = OnAfterRenderingText(
           IF g \in DirectGlyphs THEN Draw(EnsureRasterizedIfDirectMapped(atlas, g), g, 0)
           ELSE IF EntryOf(s, g) = <<>> THEN s ELSE RenderSlices(Draw(s, g, EntryOf(s, g)[1].tile), g))
\* Images wait until the next text is drawn, they go above it.
RenderImage(g) ==
  LET s == GetOrTryEmplace(atlas, g)
  IN  /\ atlas.drawing /\ Len(atlas.batch) + Len(atlas.pending) < MaxTilesDrawn /\ g \in Images
      /\ atlas' = [s EXCEPT !.pending = Append(@, [want |-> <<g, s.font>>, tile |-> EntryOf(s, g)[1].tile])]
BeginFrame ==
  /\ atlas.layout # <<>> /\ ~atlas.drawing /\ atlas.frames < MaxFrames
  /\ atlas' = [atlas EXCEPT !.drawing = TRUE, !.used = {}, !.shown = <<>>]

\* An upload that was made for another font may hit any tile of the new texture.
ExecuteUpload(gpu, font, up) ==
  IF up.font = font THEN [gpu EXCEPT ![up.tile] = up.bitmap] ELSE [t \in DOMAIN gpu |-> Stub]
Uploaded(s) ==
  LET font == IF s.configure THEN s.font ELSE s.gpuFont
      fresh == IF s.configure THEN [t \in DOMAIN s.gpu |-> Stub] ELSE s.gpu
  IN  FoldLeft(LAMBDA gpu, up : ExecuteUpload(gpu, font, up), fresh, s.uploads)
DrawnFrom(s, gpu) == [i \in DOMAIN s.batch |-> [want |-> s.batch[i].want, got |-> gpu[s.batch[i].tile]]]
Execute(s) ==
  [s EXCEPT !.gpu = Uploaded(s), !.gpuFont = s.font, !.configure = FALSE, !.uploads = <<>>, !.batch = <<>>, !.shown = DrawnFrom(s, Uploaded(s))]
EndFrame ==
  /\ atlas.drawing
  /\ atlas' = [Execute(OnAfterRenderingText(atlas)) EXCEPT !.drawing = FALSE, !.frames = @ + 1]

(***************************************************************************)
(* A new render target or font: a new atlas is scheduled.                  *)
(***************************************************************************)
ConfigureKeepingTiles(s, tileCount, width) ==
  InitializeDirectMapping([s EXCEPT !.layout = Layout(tileCount, width), !.configure = TRUE, !.font = s.fonts])
ConfigureTextureAtlas(s, tileCount, width) ==
  InitializeDirectMapping([s EXCEPT !.layout = Layout(tileCount, width), !.list = <<>>,
                                    !.direct = [g \in DirectGlyphs |-> FALSE], !.configure = TRUE, !.font = s.fonts])
SetRenderTarget(tileCount, slots, width) ==
  /\ atlas.layout = <<>>
  /\ atlas' = ConfigureTextureAtlas([atlas EXCEPT !.slots = HashSlots(slots), !.slotsAsked = slots], tileCount, width)
SetFontSize(width) ==
  /\ atlas.layout # <<>> /\ ~atlas.drawing /\ atlas.fonts < MaxFonts
  /\ atlas' = ConfigureTextureAtlas([atlas EXCEPT !.fonts = @ + 1], atlas.layout.tileCount, width)

AtlasNext ==
  \/ \E w \in TileWidths : SetFontSize(w) \/ \E n \in TileCounts, slots \in SlotCounts : SetRenderTarget(n, slots, w)
  \/ BeginFrame \/ EndFrame
  \/ \E g \in AtlasGlyphs : RenderGlyph(g) \/ RenderImage(g)

(***************************************************************************)
(* A frame that needs no more tiles than the cache has shows every glyph   *)
(* and image with its own bitmap in the present font (execute,             *)
(* constructTile): no tile is given away before it is drawn.               *)
(***************************************************************************)
FrameShowsGlyphs ==
  Cardinality(atlas.used) <= AtlasCapacity => \A i \in DOMAIN atlas.shown : atlas.shown[i].got = atlas.shown[i].want
(***************************************************************************)
(* What the cache says is in a tile is there once the scheduled uploads    *)
(* are executed, over any changes of the font, with or without a frame in  *)
(* between.                                                                *)
(***************************************************************************)
CachedTilesUploaded ==
  LET gpu == Uploaded(atlas)
  IN  /\ \A i \in DOMAIN atlas.list : gpu[atlas.list[i].tile] = <<atlas.list[i].key, atlas.font>>
      /\ \A g \in DirectGlyphs : atlas.direct[g] => gpu[0] = <<g, atlas.font>>
      /\ atlas.layout # <<>> => gpu[CursorTile] = <<"cursor", atlas.font>>
(***************************************************************************)
(* A wide glyph is drawn with all of its tiles or not at all: its first    *)
(* tile never outlives the others in the cache (renderTextGroup touches    *)
(* the first tile before the others).                                      *)
(***************************************************************************)
WideGlyphWhole ==
  \A g \in AtlasGlyphs : EntryOf(atlas, g) # <<>> => \A k \in ToSet(SlicesOf(g)) : EntryOf(atlas, k) # <<>>
(***************************************************************************)
(* The layout keeps the requirements of TextureAtlas and of                *)
(* executeConfigureAtlas: sides that are powers of two, room for the       *)
(* configured tiles beside the fixed ones, no tile at the corner, and a    *)
(* tile of its own for each slice of each cursor shape.                    *)
(***************************************************************************)
LayoutFits ==
  atlas.layout # <<>> =>
    LET l == atlas.layout
        last == DirectCount + l.capacity
        cursorTiles == {<<shape, w, i>> \in (0 .. CursorShapes - 1) \X {1, 2} \X {0, 1} : i < w}
    IN  /\ IsPowerOfTwo(l.size) /\ l.tileCount <= l.capacity /\ last < l.inX * l.inX
        /\ TileLocation(l, DirectCount + 1) # <<0, 0>>
        /\ \A x \in 1 .. 2 : TileLocation(l, last)[x] + l.width <= l.size
        /\ IsInjective([t \in cursorTiles |-> ToDirectMappingIndex(t[1], t[2], t[3])])
        /\ \A t \in cursorTiles : ToDirectMappingIndex(t[1], t[2], t[3]) < DirectMappedTilesCount
(***************************************************************************)
(* The configured number of hash slots is rounded up to a power of two, as *)
(* the hash mask needs (tile_hashtable_slots; strong_lru_hashtable::create *)
(* and its constructor's Require).                                         *)
(***************************************************************************)
SlotsRoundedUp == IsPowerOfTwo(atlas.slots) /\ atlas.slots >= atlas.slotsAsked /\ atlas.slots < 2 * atlas.slotsAsked
(***************************************************************************)
(* What does not hold: SlotsRoundedUp for 65537, FrameShowsGlyphs without  *)
(* its bound (a page grown since the atlas was made).                      *)
(***************************************************************************)
EveryFrameShowsGlyphs == \A i \in DOMAIN atlas.shown : atlas.shown[i].got = atlas.shown[i].want
=============================================================================
