-------- MODULE RenderSuite -------------------------------------------------
(***************************************************************************)
(* Components that keep the page and bring it to the GPU, each run on its  *)
(* own: `part' chooses one and the others keep their initial state.        *)
(***************************************************************************)
EXTENDS LruTable, Hyperlinks, FrameBuilder, TileAtlas, LineBuffers, Reflow, SixelImages

VARIABLE part      \* the component that runs

components == <<lru, link, frame, atlas, store, flow, sixel>>
suiteVars == <<part, components>>

Init ==
  /\ part \in {"Lru", "Link", "Frame", "Atlas", "Store", "Flow", "Sixel"}
  /\ LruInit
  /\ LinkInit
  /\ FrameInit
  /\ AtlasInit
  /\ StoreInit
  /\ FlowInit
  /\ SixelInit

Only(name, next) == part = name /\ next /\ UNCHANGED part

Next ==
  \/ Only("Lru", LruNext) /\ UNCHANGED <<link, frame, atlas, store, flow, sixel>>
  \/ Only("Link", LinkNext) /\ UNCHANGED <<lru, frame, atlas, store, flow, sixel>>
  \/ Only("Frame", FrameNext) /\ UNCHANGED <<lru, link, atlas, store, flow, sixel>>
  \/ Only("Atlas", AtlasNext) /\ UNCHANGED <<lru, link, frame, store, flow, sixel>>
  \/ Only("Store", StoreNext) /\ UNCHANGED <<lru, link, frame, atlas, flow, sixel>>
  \/ Only("Flow", FlowNext) /\ UNCHANGED <<lru, link, frame, atlas, store, sixel>>
  \/ Only("Sixel", SixelNext) /\ UNCHANGED <<lru, link, frame, atlas, store, flow>>

Spec == Init /\ [][Next]_suiteVars

-----------------------------------------------------------------------------
(* What the components promise.  Each part is stated in its own module.    *)

\* A frame shows the page: every glyph in its cell, the cursor, the selection
\* and the matches of the search painted where they are, on whichever of the
\* two ways a line takes (RenderBufferBuilder, TextClusterGrouper).
FrameShowsPage ==
  /\ GlyphsInTheirCells
  /\ CursorPainted
  /\ SelectionPainted
  /\ MatchesHighlighted

\* A tile shows the glyph it was asked for when its frame is drawn: evicted,
\* uploaded and drawn in an order that fits, after font changes too, wide
\* glyphs whole, and the atlas large enough for its tiles (TextureAtlas,
\* TextRenderer, OpenGLRenderer::execute).
TilesShowGlyphs ==
  /\ FrameShowsGlyphs
  /\ CachedTilesUploaded
  /\ WideGlyphWhole
  /\ LayoutFits
  /\ SlotsRoundedUp

\* Lines keep the text that was written to them while the buffer they refer
\* to is read into and recycled, and a page that is made narrower and wider
\* again covers its columns and has its old lines (BufferObject, Line,
\* Grid::growColumns and shrinkColumns).
LinesKeepText ==
  /\ TextKept
  /\ ShownAsWrittenWithFrames
  /\ LinesCoverPage
  /\ RoundTrip

\* A sixel picture whose size comes before its first dot, and that is higher
\* than one row, has the dots that were drawn inside its memory, in its own
\* colours where registers are private; the rows of every picture reach the
\* page or the history (SixelImageBuilder, Screen::renderImage).
PicturesAsDrawn ==
  /\ PictureAsDrawn
  /\ ImageComplete
  /\ PrivateColors
=============================================================================
