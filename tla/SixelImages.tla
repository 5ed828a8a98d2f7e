----------------------------- MODULE SixelImages -----------------------------
(***************************************************************************)
(* Sixel graphics: the parser of the data, the colour registers, the       *)
(* builder that turns it into a picture, and the placement of the picture  *)
(* on the page, one fragment per cell, with the scrolling it needs.        *)
(*                                                                         *)
(* Data arrives in pieces (Chunks); bytes are numbers.  A colour is a      *)
(* tuple.  A dot outside of the memory of the picture is written to memory *)
(* of others: it is lost, or the program stops.  No hyperlink is open.     *)
(***************************************************************************)
EXTENDS Integers, Sequences, SequencesExt, FiniteSets, TLC

CONSTANTS
  MaxPictures,       \* bound: pictures of a behaviour
  MaxChunks,         \* bound: pieces of data in them
  Chunks             \* the pieces, by the names of PieceOf

VARIABLE sixel

MaxWidth == 3                       \* Settings::maxImageSize
MaxHeight == 12
CellWidth == 2                      \* cellPixelSize()
CellHeight == 5
SixelLines == 3                     \* pageSize()
SixelColumns == 2
RegisterCount == 2                  \* Settings::maxImageRegisterCount

\* "#1", "#1;2;100;0;0", ";1;0;40;9" and so on
PieceOf ==
  [use |-> <<35, 49>>, rgb |-> <<35, 49, 59, 50, 59, 49, 48, 48, 59, 48, 59, 48>>, hsl |-> <<59, 49, 59, 48, 59, 52, 48, 59, 57>>,
   twice |-> <<33, 50>>, raster |-> <<34, 49, 59, 49, 59, 50, 59, 54>>, aspect |-> <<34, 53, 59, 49>>,
   rewind |-> <<36>>, newline |-> <<45>>, top |-> <<64>>, second |-> <<65>>, all |-> <<126>>]

Transparent == <<"Clear", 0, 0, 0>>
Unknown == <<"Unknown", 0, 0, 0>>    \* read from outside of the memory of the picture
DefaultBackground == <<"Background", 0, 0, 0>>
DefaultColors == [i \in 1 .. RegisterCount |-> <<"Default", i - 1, 0, 0>>]
NoFragment == [id |-> 0, line |-> 0, column |-> 0]
BlankRow == [c \in 1 .. SixelColumns |-> NoFragment]

Ceil(a, b) == (a + b - 1) \div b
Least(a, b) == IF a < b THEN a ELSE b

NewBuilder(aspect, background) ==
  [width |-> 1, height |-> 1, buffer |-> [i \in 1 .. MaxWidth * MaxHeight |-> background], background |-> background,
   line |-> 0, column |-> 0, aspect |-> aspect, explicit |-> FALSE, color |-> 0]

SixelInit ==
  sixel = [step |-> "Idle", private |-> FALSE, scrolling |-> FALSE, nextTo |-> FALSE,
           shared |-> DefaultColors, own |-> DefaultColors, parser |-> "Ground", params |-> <<0>>,
           b |-> NewBuilder(1, Transparent), lines |-> [l \in 1 .. SixelLines |-> BlankRow], line |-> 0, column |-> 0,
           image |-> [id |-> 0, width |-> 0, height |-> 0, data |-> <<>>, top |-> 0, left |-> 0, built |-> 0],
           dots |-> <<>>, defined |-> {}, inside |-> TRUE, late |-> FALSE, left |-> MaxChunks]

-----------------------------------------------------------------------------
(* Colour registers *)

Registers(s) == IF s.private THEN s.own ELSE s.shared

SetColor(s, index, color) ==
  LET old == Registers(s)
      new == IF index < RegisterCount THEN [old EXCEPT ![index + 1] = color] ELSE old
      named == [s EXCEPT !.defined = @ \cup {color}]
  IN  IF s.private THEN [named EXCEPT !.own = new] ELSE [named EXCEPT !.shared = new]
UseColor(s, index) == [s EXCEPT !.b.color = index % Len(Registers(s))]
CurrentColor(s) == Registers(s)[(s.b.color % Len(Registers(s))) + 1]

ConvertValue(v) == ((v * 255) \div 100) % 256
\* the grey values exactly, other colours by what they are computed from
Hsl2Rgb(h, s, l) ==
  IF s = 0 THEN LET grey == (l * 255) \div 100 IN <<"RGB", grey, grey, grey>> ELSE <<"HSL", h, s, l>>
Hue(p) == IF p < 120 THEN 240 + p ELSE p - 120
ColorOf(p) ==
  IF p[2] = 2 THEN <<"RGB", ConvertValue(p[3]), ConvertValue(p[4]), ConvertValue(p[5])>>
              ELSE Hsl2Rgb(Hue(p[3]), p[4], p[4])

-----------------------------------------------------------------------------
(* The builder *)

Stride(b) == IF b.explicit THEN b.width ELSE MaxWidth

\* A dot covers as many rows as the aspect ratio says; the picture grows unless its size was given.
WriteDot(s, line, column, color) ==
  LET b == s.b
      grown == IF b.explicit THEN b
               ELSE [b EXCEPT !.height = IF line >= @ THEN line + b.aspect ELSE @,
                              !.width = IF column >= @ THEN column + 1 ELSE @]
      rows == line .. line + b.aspect - 1
      places == {r * Stride(b) + column + 1 : r \in rows}
  IN  IF line >= MaxHeight \/ column >= MaxWidth THEN s
      ELSE [s EXCEPT !.b = [grown EXCEPT !.buffer = [i \in DOMAIN @ |-> IF i \in places THEN color ELSE @[i]]],
                     !.inside = @ /\ places \subseteq DOMAIN b.buffer,
                     !.dots = [p \in {<<r, column>> : r \in rows} |-> color] @@ @]

RenderSixel(s, value) ==
  LET pins == SelectSeq(<<0, 1, 2, 3, 4, 5>>, LAMBDA i : (value \div 2^i) % 2 = 1)
      drawn == FoldLeft(LAMBDA t, i : WriteDot(t, s.b.line + i * s.b.aspect, s.b.column, CurrentColor(s)), s, pins)
  IN  IF s.b.column < Stride(s.b) THEN [drawn EXCEPT !.b.column = @ + 1] ELSE s

Rewind(s) == [s EXCEPT !.b.column = 0]
NewBand(s) ==
  LET next == s.b.line + 6 * s.b.aspect
  IN  [s EXCEPT !.b.column = 0, !.b.line = IF next < (IF s.b.explicit THEN s.b.height ELSE MaxHeight) THEN next ELSE @]

Resized(buffer, size) == [i \in 1 .. size |-> IF i <= Len(buffer) THEN buffer[i] ELSE Transparent]

SetRaster(s, p) ==
  LET aspect == IF p[2] # 0 THEN (IF p[1] = 0 THEN 1 ELSE Ceil(p[1], p[2])) ELSE s.b.aspect
      t == [s EXCEPT !.b.aspect = aspect, !.late = @ \/ s.dots # <<>>]
      w == Least(p[3], MaxWidth)
      h == Least(p[4] * aspect, MaxHeight)
  IN  IF Len(p) < 4 THEN t
      ELSE [t EXCEPT !.b = [@ EXCEPT !.width = w, !.height = h, !.buffer = Resized(@, w * h), !.explicit = TRUE]]

\* A mutant of FinalizeImage: the rows are not moved together.
FinalizeUnpacked(b) == [b EXCEPT !.buffer = Resized(@, b.width * b.height)]

\* The builder's finalize(): the memory of a picture without a given size is packed to the width it grew to.
FinalizeImage(b) ==
  IF b.height = 1
  THEN LET h == b.line * b.aspect IN [b EXCEPT !.height = h, !.buffer = Resized(@, b.width * h)]
  ELSE IF b.explicit THEN b
  ELSE [b EXCEPT !.buffer = [i \in 1 .. b.width * b.height |->
                               LET from == ((i - 1) \div b.width) * MaxWidth + ((i - 1) % b.width) + 1
                               IN  IF from \in DOMAIN b.buffer THEN b.buffer[from] ELSE Unknown]]

-----------------------------------------------------------------------------
(* The parser *)

IsDigit(v) == v \in 48 .. 57
IsSixel(v) == v \in 63 .. 126

LeaveState(s) ==
  CASE s.parser = "RasterSettings" /\ Len(s.params) \in 2 .. 4 -> [SetRaster(s, s.params) EXCEPT !.parser = "Ground"]
    [] s.parser = "ColorParam" /\ Len(s.params) = 1 -> UseColor(s, s.params[1])
    [] s.parser = "ColorParam" /\ Len(s.params) = 5 -> UseColor(SetColor(s, s.params[1], ColorOf(s.params)), s.params[1])
    [] OTHER -> s
EnterState(s, state) ==
  [s EXCEPT !.parser = state,
            !.params = IF state \in {"ColorIntroducer", "RepeatIntroducer", "RasterSettings"} THEN <<0>> ELSE @]
TransitionTo(s, state) == EnterState(LeaveState(s), state)

ParamShiftAndAddDigit(s, v) == [s EXCEPT !.params[Len(s.params)] = @ * 10 + v - 48]

Fallback(s, v) ==
  CASE v = 35 -> TransitionTo(s, "ColorIntroducer")
    [] v = 33 -> TransitionTo(s, "RepeatIntroducer")
    [] v = 34 -> TransitionTo(s, "RasterSettings")
    [] v = 36 -> Rewind(TransitionTo(s, "Ground"))
    [] v = 45 -> NewBand(TransitionTo(s, "Ground"))
    [] OTHER -> LET t == IF s.parser # "Ground" THEN TransitionTo(s, "Ground") ELSE s
                IN  IF IsSixel(v) THEN RenderSixel(t, v - 63) ELSE t

ParseByte(s, v) ==
  CASE s.parser # "Ground" /\ IsDigit(v) ->
         LET t == ParamShiftAndAddDigit(s, v) IN IF s.parser = "ColorIntroducer" THEN TransitionTo(t, "ColorParam") ELSE t
    [] s.parser = "RepeatIntroducer" /\ IsSixel(v) ->
         TransitionTo(FoldLeft(LAMBDA t, i : RenderSixel(t, v - 63), s, [i \in 1 .. s.params[1] |-> i]), "Ground")
    [] s.parser \in {"ColorParam", "RasterSettings"} /\ v = 59 -> [s EXCEPT !.params = Append(@, 0)]
    [] OTHER -> Fallback(s, v)

-----------------------------------------------------------------------------
(* Placement on the page *)

PageTop(s) == Len(s.lines) - SixelLines
PutFragment(s, line, column, fragment) == [s EXCEPT !.lines[line + 1][column + 1] = fragment]
LinefeedTo(s, column) ==
  IF s.line = SixelLines - 1 THEN [s EXCEPT !.lines = Append(@, BlankRow), !.column = column]
                             ELSE [s EXCEPT !.line = @ + 1, !.column = column]

\* The line of the text cursor, relative to the image, with the VT340's exception.
CursorOffset(height) ==
  LET lastBand == height % 6
      offset == Ceil(height - lastBand, CellHeight) - (IF lastBand = 0 THEN 1 ELSE 0)
  IN  IF (height - 1) % 6 > (height - 1) % CellHeight THEN offset - 1 ELSE offset

PutRow(s, line, left, columns, row) ==
  FoldLeft(LAMBDA t, c : PutFragment(t, line, left + c - 1, [id |-> s.image.id, line |-> row, column |-> c - 1]),
           s, [c \in 1 .. columns |-> c])
MoveTo(s, line, column) == [s EXCEPT !.line = IF line < 0 THEN 0 ELSE Least(line, SixelLines - 1), !.column = column]

\* The rows of the image that did not fit, in the order in which they are placed.
RemainingRows(fit, count) == [r \in 1 .. count |-> fit + r - 1]

\* The rows that fit are placed at once, the others one by one on the last line, after a linefeed.
RenderOnPage(s, top, left, lines, columns, height) ==
  LET fit == Least(lines, SixelLines - top)
      width == Least(columns, SixelColumns - left)
      placed == FoldLeft(LAMBDA t, r : PutRow(t, PageTop(s) + top + r - 1, left, width, r - 1), s, [r \in 1 .. fit |-> r])
      moved == IF fit > 0 THEN MoveTo(placed, top + CursorOffset(height), left) ELSE placed
      rest == IF s.scrolling THEN RemainingRows(fit, lines - fit) ELSE <<>>
      fed(t, r) == LET u == LinefeedTo(t, left) IN PutRow(u, Len(u.lines) - 1, left, width, r)
  IN  [FoldLeft(fed, moved, rest) EXCEPT !.column = left]

SixelImage(s, b) ==
  LET top == IF s.scrolling THEN s.line ELSE 0
      left == IF s.scrolling THEN s.column ELSE 0
      uploaded == [s EXCEPT !.image = [id |-> s.image.id + 1, width |-> b.width, height |-> b.height, data |-> b.buffer,
                                       top |-> PageTop(s) + top, left |-> left, built |-> s.b.height]]
      shown == RenderOnPage(uploaded, top, left, Ceil(b.height, CellHeight), Ceil(b.width, CellWidth), b.height)
  IN  IF s.nextTo THEN shown ELSE LinefeedTo(shown, left)

\* The pixels of the cell at a place of the image; what the image does not cover is the gap colour.
Fragment(image, line, column) ==
  [i \in 1 .. CellWidth * CellHeight |->
     LET y == line * CellHeight + (i - 1) \div CellWidth
         x == column * CellWidth + ((i - 1) % CellWidth)
     IN  IF x < image.width /\ y < image.height THEN image.data[y * image.width + x + 1] ELSE Transparent]

-----------------------------------------------------------------------------
(* Actions *)

\* The modes are set and the text cursor is moved before the first picture; the next follows where that left it.
SetSixelModes(private, scrolling, nextTo) ==
  /\ sixel.step = "Idle"
  /\ sixel' = [sixel EXCEPT !.step = "Ready", !.private = private, !.scrolling = scrolling, !.nextTo = nextTo]
\* Without sixel scrolling pictures are placed at the top left, wherever the cursor is.
MoveTextCursor(line, column) ==
  /\ sixel.step = "Ready" /\ sixel.scrolling
  /\ sixel' = [sixel EXCEPT !.step = "Placed", !.line = line, !.column = column]

AspectVertical(pa) == CASE pa \in 7 .. 9 -> 1 [] pa \in {5, 6} -> 2 [] pa \in {3, 4} -> 3 [] pa = 2 -> 5 [] pa \in {0, 1} -> 2 [] OTHER -> 1

HookSixel(pa, pb) ==
  /\ sixel.step \in {"Ready", "Placed", "Shown"} /\ sixel.image.id < MaxPictures
  /\ sixel' = [sixel EXCEPT !.step = "Data", !.own = DefaultColors, !.parser = "Ground", !.params = <<0>>,
                            !.dots = <<>>, !.defined = {}, !.inside = TRUE, !.late = FALSE,
                            !.b = NewBuilder(AspectVertical(pa), IF pb = 1 THEN Transparent ELSE DefaultBackground)]

PassData(chunk) ==
  /\ sixel.step = "Data" /\ sixel.left > 0
  /\ LET next == FoldLeft(ParseByte, sixel, PieceOf[chunk])
     IN  \/ sixel' = [next EXCEPT !.left = @ - 1]
         \/ ~next.inside /\ sixel' = [next EXCEPT !.left = @ - 1, !.step = "Stopped"]

\* The end of the string: the state is left, the picture finished and placed.
FinalizeSixel ==
  /\ sixel.step = "Data"
  /\ LET done == TransitionTo(sixel, "Ground")
     IN  sixel' = [SixelImage(done, FinalizeImage(done.b)) EXCEPT !.step = "Shown"]

SixelNext ==
  \/ \E private, scrolling, nextTo \in BOOLEAN : SetSixelModes(private, scrolling, nextTo)
  \/ \E line \in 0 .. SixelLines - 1, column \in 0 .. 1 : MoveTextCursor(line, column)
  \/ HookSixel(1, 2)
  \/ HookSixel(7, 1)
  \/ \E chunk \in Chunks : PassData(chunk)
  \/ FinalizeSixel

-----------------------------------------------------------------------------
(* Properties *)

\* The finished picture has every dot in the colour it was drawn with last, and the background elsewhere,
\* whatever mixture of bands, repeats, aspect ratios and a given size made it (SixelImageBuilder).  Dots that
\* leave the memory of the picture are not in it (DotsInMemory) and cost it no other dot.  Pictures that end
\* with a height of one are the subject of OneRowKept; sizes given after the first dot are left out.
PictureAsDrawn ==
  sixel.step = "Shown" /\ ~sixel.late /\ sixel.image.built # 1 =>
    LET im == sixel.image
        inPicture == (0 .. im.height - 1) \X (0 .. im.width - 1)
    IN  /\ sixel.inside => DOMAIN sixel.dots \subseteq inPicture
        /\ \A p \in inPicture : p[1] < MaxHeight => im.data[p[1] * im.width + p[2] + 1] =
             (IF p \in DOMAIN sixel.dots THEN sixel.dots[p] ELSE sixel.b.background)

\* Every dot is written into the memory of the picture.  Not so: write() compares with the largest size, while
\* setRaster() has made the memory smaller and the rows of a dot go on below the last line.
DotsInMemory == sixel.inside

\* With sixel scrolling every row of the image is on the page or in the history, in order and without a gap:
\* each pixel is shown by the fragment of the cell it falls into, wherever the cursor was and however much
\* had to be scrolled (Screen::renderImage, RasterizedImage::fragment).
ImageComplete ==
  sixel.step = "Shown" /\ sixel.scrolling =>
    LET im == sixel.image
    IN  \A y \in 0 .. im.height - 1, x \in 0 .. im.width - 1 :
          im.left + x \div CellWidth < SixelColumns =>
            LET f == sixel.lines[im.top + y \div CellHeight + 1][im.left + x \div CellWidth + 1]
            IN  /\ f.id = im.id
                /\ Fragment(im, f.line, f.column)[(y % CellHeight) * CellWidth + (x % CellWidth) + 1] = im.data[y * im.width + x + 1]

\* With private colour registers a picture has only the default colours and those that it defines itself,
\* whatever pictures before it defined (Screen::hookSixel).
PrivateColors ==
  sixel.step = "Shown" /\ sixel.private =>
    \A p \in DOMAIN sixel.dots : sixel.dots[p] \in sixel.defined \cup {DefaultColors[i] : i \in DOMAIN DefaultColors}

\* A picture with dots in its first row only is shown, too.  Not so: finalize() takes the height of one for
\* no height at all and computes it from the last band, which is zero in the first one.
OneRowKept ==
  sixel.step = "Shown" /\ sixel.dots # <<>> /\ sixel.image.built = 1 => sixel.image.height > 0

\* The saturation of a colour given by hue, lightness and saturation is its fifth parameter.  Not so: the
\* lightness is taken for both.
SaturationUsed ==
  sixel.parser = "ColorParam" /\ Len(sixel.params) = 5 /\ sixel.params[2] = 1 =>
    ColorOf(sixel.params) = Hsl2Rgb(Hue(sixel.params[3]), sixel.params[5], sixel.params[4])
=============================================================================
