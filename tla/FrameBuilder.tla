---------------------------- MODULE FrameBuilder ----------------------------
(***************************************************************************)
(* One frame from the page to the glyphs.  RenderBufferBuilder turns the   *)
(* lines in view into render cells and, for a line that is still plain     *)
(* text, into one render line; TextClusterGrouper then joins neighbours of *)
(* one style into groups that are shaped and drawn from one pen position.  *)
(* Colours are a style and the set of overlays painted over it.            *)
(***************************************************************************)
EXTENDS Integers, Sequences, SequencesExt, FiniteSets

CONSTANTS
  FrameKinds,        \* the lines that occur, names of LineKind
  FramePatterns,     \* search patterns, names of Pattern
  FramePreedits,     \* texts of the input method, names of Preedit
  FrameScrolls,      \* how far the viewport is scrolled up
  FrameBases,        \* lines of a status display above the page
  FrameRanges        \* selections and highlights, names of CellRange

VARIABLE frame

PageRows == 2
PageCols == 3
WideLetters == {"W", "Q"}
LetterWidth(x) == IF x \in WideLetters THEN 2 ELSE 1
Upper == [x \in {"A", "B"} |-> IF x = "A" THEN "a" ELSE "b"]
Lowered(x) == IF x \in DOMAIN Upper THEN Upper[x] ELSE x

\* A line is plain text of one style, or cells; an empty cell has the text "".
GridCell(x, w, s) == [text |-> x, width |-> w, style |-> s]
Plain(text) == [trivial |-> TRUE, text |-> text, cells |-> <<>>]
InCells(cells) == [trivial |-> FALSE, text |-> <<>>, cells |-> cells]
EmptyCell == GridCell("", 1, "fill")
LineKind == [plain |-> Plain(<<"a", "b">>), blank |-> Plain(<<>>), words |-> Plain(<<"a", " ", "b">>), widePlain |-> Plain(<<"W", "b">>),
             styles |-> InCells(<<GridCell("a", 1, "text"), GridCell("b", 1, "bold"), EmptyCell>>),
             wide |-> InCells(<<GridCell("W", 2, "text"), GridCell("", 1, "text"), GridCell("b", 1, "text")>>),
             box |-> InCells(<<GridCell("a", 1, "text"), GridCell("-", 1, "text"), GridCell("b", 1, "text")>>),
             again |-> Plain(<<"a", "a", "b">>), capitals |-> Plain(<<"A", "B">>)]
Pattern == [none |-> <<>>, one |-> <<"b">>, two |-> <<"a", "b">>, across |-> <<"b", "a">>, mixed |-> <<"A", "b">>]
Preedit == [none |-> <<>>, narrow |-> <<"p">>, wide |-> <<"Q">>]
CellRange == [none |-> {}, part |-> {<<0, 2>>, <<1, 0>>, <<1, 1>>}, above |-> {<<0 - 1, 1>>}]

\* The cells of a plain line, as inflate makes them.
Widened(c) == IF LetterWidth(c) = 2 THEN <<GridCell(c, 2, "text"), GridCell("", 1, "text")>> ELSE <<GridCell(c, 1, "text")>>
Inflate(line) ==
  LET used == FlattenSeq([i \in DOMAIN line.text |-> Widened(line.text[i])])
  IN  InCells(used \o [i \in 1 .. PageCols - Len(used) |-> EmptyCell])
InflatedBuffer(line) == IF line.trivial THEN Inflate(line) ELSE line

FrameInit == frame = [step |-> "setup"]
Grid1(s, y) == s.grid[y - s.scroll]
GridPosition(s, y, x) == <<y - s.scroll, x>>

(***************************************************************************)
(* The cursor that the frame gets, Terminal::fillRenderBufferInternal.  In *)
(* insert mode it is the application's, else vi's.  Asking for the width   *)
(* of its cell turns its line into cells.                                  *)
(***************************************************************************)
IsLineVisible(s, line) == line + s.scroll \in 0 .. PageRows - 1
RenderCursor(s) ==
  IF s.cursor = <<>> \/ s.blinkedOff \/ ~IsLineVisible(s, s.cursor[1]) THEN s
  ELSE LET line == InflatedBuffer(s.grid[s.cursor[1]])
       IN  [s EXCEPT !.grid[s.cursor[1]] = line,
                     !.out = <<[line |-> s.base + s.cursor[1] + s.scroll, col |-> s.cursor[2],
                                width |-> line.cells[s.cursor[2] + 1].width]>>]
FillRenderBuffer ==
  /\ frame.step = "setup"
  /\ \E top, bottom \in FrameKinds, cursor \in {<<>>, <<0, 0>>, <<0, 2>>, <<1, 0>>}, off, vi, block \in BOOLEAN,
        selected, yanked \in FrameRanges, pattern \in FramePatterns, preedit \in FramePreedits,
        scroll \in FrameScrolls, base \in FrameBases :
       /\ cursor = <<>> => ~off /\ block /\ ~vi
       /\ (pattern # "none" \/ preedit # "none") => selected = "none" /\ yanked = "none" /\ (pattern = "none" \/ preedit = "none")
       /\ selected # "none" => yanked = "none"
       /\ scroll > 0 => bottom = top
       /\ frame' = RenderCursor(
            [step |-> "lines", grid |-> [l \in (0 - 1) .. 1 |-> LineKind[CASE l = 0 -> top [] l = 1 -> bottom [] OTHER -> "plain"]],
             cursor |-> cursor, blinkedOff |-> off, vi |-> vi, block |-> block,
             selected |-> CellRange[selected], highlighted |-> CellRange[yanked],
             pattern |-> Pattern[pattern], preedit |-> Preedit[preedit], scroll |-> scroll, base |-> base,
             y |-> 0, cells |-> <<>>, lines |-> <<>>, out |-> <<>>,
             prevWidth |-> 0, prevCursor |-> FALSE, cursorLine |-> FALSE, skip |-> 0, matched |-> 0, drawn |-> <<>>, fault |-> FALSE])

(***************************************************************************)
(* Colours.                                                                *)
(***************************************************************************)
HasCursor(s, at) == s.cursor # <<>> /\ s.cursor = at
\* The order in which makeColors looks at cursor, highlight and selection.
MakeColors(selected, isCursor, cursorLine, highlighted) ==
  (IF cursorLine THEN {"cursorline"} ELSE {})
    \cup (IF ~isCursor /\ highlighted THEN {"highlighted"}
          ELSE (IF selected THEN {"selected"} ELSE {}) \cup (IF isCursor THEN {"cursor"} ELSE {}))
MakeColorsForCell(s, at) ==
  MakeColors(at \in s.selected, (HasCursor(s, at) \/ (s.prevCursor /\ s.prevWidth = 2)) /\ s.out # <<>> /\ s.block,
             s.cursorLine, at \in s.highlighted)
RenderCell(s, y, x, text, width, style, paint) ==
  [line |-> s.base + y, col |-> x, text |-> text, width |-> width, style |-> style, paint |-> paint, start |-> FALSE, end |-> FALSE]
LastEnds(s) == IF s.cells = <<>> THEN s ELSE [s EXCEPT !.cells[Len(s.cells)].end = TRUE]
Paint(s, from, name) == [s EXCEPT !.cells = [i \in DOMAIN @ |-> IF i >= from THEN [@[i] EXCEPT !.paint = @ \cup {name}] ELSE @[i]]]

(***************************************************************************)
(* The search pattern, matched as the cells go by.                         *)
(***************************************************************************)
BeginsWith(text, cell, sensitive) ==
  cell # "" /\ text # <<>> /\ (IF sensitive THEN cell ELSE Lowered(cell)) = text[1]
MatchSearchPattern(s, cell) ==
  LET rest == SubSeq(s.pattern, s.matched + 1, Len(s.pattern))
      sensitive == \E i \in DOMAIN rest : rest[i] \in DOMAIN Upper
      n == s.matched + 1
  IN  CASE s.pattern = <<>> -> s
        [] s.pattern # <<>> /\ ~BeginsWith(rest, cell, sensitive) -> [s EXCEPT !.matched = 0]
        [] s.pattern # <<>> /\ BeginsWith(rest, cell, sensitive) /\ n < Len(s.pattern) -> [s EXCEPT !.matched = n]
        [] OTHER -> [Paint(s, Len(s.cells) - n + 1, "match") EXCEPT !.matched = 0]

(***************************************************************************)
(* Lines.                                                                  *)
(***************************************************************************)
RenderUtf8Text(s, y, x, text, style) ==
  LET Put(acc, letter) ==
        LET col == x + acc.width
            paint == MakeColorsForCell(acc.s, GridPosition(s, y, col))
            head == RenderCell(s, y, col, letter, LetterWidth(letter), style, paint)
            span == [i \in 1 .. LetterWidth(letter) - 1 |-> RenderCell(s, y, col + i, " ", 1, style, paint)]
        IN  [s |-> [acc.s EXCEPT !.cells = @ \o <<head>> \o span, !.prevWidth = 0, !.prevCursor = FALSE],
             width |-> acc.width + LetterWidth(letter)]
  IN  FoldLeft(Put, [s |-> s, width |-> 0], text)
\* The text of the input method takes the place of the cells behind the cursor.
TryRenderInputMethodEditor(s, y, x) ==
  LET r == RenderUtf8Text(LastEnds(s), y, x, s.preedit, "preedit")
      first == Len(r.s.cells) - r.width + 1
  IN  IF HasCursor(s, GridPosition(s, y, x)) /\ s.preedit # <<>>
      THEN [LastEnds([r.s EXCEPT !.cells[first].start = TRUE]) EXCEPT
              !.skip = r.width,
              !.fault = @ \/ s.out = <<>>,
              !.out = IF @ = <<>> THEN @ ELSE <<[@[1] EXCEPT !.col = @ + r.width]>>]
      ELSE s
RenderCellAt(s, cell, y, x) ==
  LET at == GridPosition(s, y, x)
      t == TryRenderInputMethodEditor(s, y, x)
      made == [RenderCell(t, y, x, cell.text, cell.width, cell.style, MakeColorsForCell(t, at)) EXCEPT !.start = (x = 0)]
  IN  IF t.skip > 0 THEN [t EXCEPT !.skip = @ - 1]
      ELSE MatchSearchPattern([t EXCEPT !.cells = Append(@, made), !.prevWidth = cell.width, !.prevCursor = HasCursor(t, at)], cell.text)
IsCursorLine(s, y) == s.vi /\ s.cursor # <<>> /\ y = s.cursor[1] + s.scroll
StartLine(s, y) == [s EXCEPT !.prevWidth = 0, !.prevCursor = FALSE, !.cursorLine = IsCursorLine(s, y)]
RenderCells(s, y) ==
  LET cells == InflatedBuffer(Grid1(s, y)).cells
      t == FoldLeftDomain(LAMBDA acc, i : RenderCellAt(acc, cells[i], y, i - 1), StartLine(s, y), cells)
  IN  LastEnds(t)
\* The application's cursor, here in the first line when it is not the one shown.
ScreenCursorLine(s) == IF ~s.vi /\ s.cursor # <<>> THEN s.cursor[1] ELSE 0
GridLineContainsCursor(s, y) == ScreenCursorLine(s) = y \/ (s.vi /\ s.cursor # <<>> /\ s.cursor[1] + s.scroll = y)
IsSelected(s, y) == \E at \in s.selected : at[1] = y
CreateRenderLine(s, y) ==
  [line |-> y, text |-> Grid1(s, y).text, style |-> "text", paint |-> MakeColorsForCell(s, GridPosition(s, y, 0))]
RenderTrivialLine(s0, y) ==
  LET s == [s0 EXCEPT !.cursorLine = FALSE]
      text == Grid1(s, y).text
      t == RenderUtf8Text([s EXCEPT !.matched = 0], y, 0, text, "text")
      fill == [i \in 1 .. PageCols - t.width |->
                RenderCell(s, y, t.width + i - 1, "", 1, "fill", MakeColorsForCell(t.s, GridPosition(s, y, t.width + i - 1)))]
  IN  IF IsSelected(s, y) \/ GridLineContainsCursor(s, y)
      THEN LastEnds([t.s EXCEPT !.cells = [@ \o fill EXCEPT ![Len(s.cells) + 1].start = TRUE]])
      ELSE [s EXCEPT !.lines = Append(@, CreateRenderLine(s, y)), !.prevWidth = 0, !.prevCursor = FALSE]
RenderLine ==
  /\ frame.step = "lines"
  /\ frame' = IF frame.y = PageRows THEN [frame EXCEPT !.step = "draw"]
              ELSE [IF Grid1(frame, frame.y).trivial /\ frame.pattern = <<>>
                    THEN RenderTrivialLine(frame, frame.y) ELSE RenderCells(frame, frame.y) EXCEPT !.y = @ + 1]

(***************************************************************************)
(* Groups of text.  g.pen is where the group starts, g.force that the next *)
(* cell says where that is.                                                *)
(***************************************************************************)
FlushKeepingPen(g) == [g EXCEPT !.codes = <<>>, !.count = 0, !.out = IF g.codes = <<>> THEN @ ELSE Append(@, [pen |-> g.pen, codes |-> g.codes, color |-> g.color])]
FlushTextClusterGroup(g) ==
  [g EXCEPT !.out = IF g.codes = <<>> THEN @ ELSE Append(@, [pen |-> g.pen, codes |-> g.codes, color |-> g.color]),
            !.codes = <<>>, !.count = 0, !.pen[2] = @ + g.count]
AppendCellText(g, text, color) ==
  LET isEmpty == text \in {"", " "}
      u == IF color # g.color \/ (g.count = 0 /\ ~isEmpty)
           THEN [(IF g.count > 0 THEN FlushTextClusterGroup(g) ELSE g) EXCEPT !.color = color] ELSE g
  IN  IF isEmpty THEN [FlushTextClusterGroup(u) EXCEPT !.force = TRUE]
      ELSE [u EXCEPT !.codes = Append(@, text), !.count = @ + 1]
GroupCell(g, at, text, color) ==
  LET t == IF g.force THEN [g EXCEPT !.pen = at, !.force = FALSE, !.fault = @ \/ g.codes # <<>>] ELSE g
  IN  IF text = "-"
      THEN [FlushTextClusterGroup([t EXCEPT !.out = Append(@, [pen |-> at, codes |-> <<text>>, color |-> color])]) EXCEPT !.force = TRUE]
      ELSE AppendCellText(t, text, color)
TextRendererCell(g, c) ==
  LET t == GroupCell(IF c.start THEN [g EXCEPT !.force = TRUE] ELSE g, <<c.line, c.col>>, c.text, <<c.style, c.paint>>)
  IN  IF c.end THEN FlushTextClusterGroup(t) ELSE t
TextRendererLine(g, l) ==
  LET letters == FlattenSeq([i \in DOMAIN l.text |-> IF LetterWidth(l.text[i]) = 2 THEN <<l.text[i], " ">> ELSE <<l.text[i]>>])
      each == FoldLeftDomain(LAMBDA h, i : GroupCell(h, <<l.line, i - 1>>, letters[i], <<l.style, l.paint>>),
                             [g EXCEPT !.pen = <<l.line, 0>>], letters)
  IN  IF letters = <<>> THEN g ELSE IF each.codes # <<>> THEN FlushTextClusterGroup(each) ELSE each
NewGrouper == [pen |-> <<0, 0>>, color |-> <<"invalid", {}>>, codes |-> <<>>, count |-> 0, force |-> FALSE, out |-> <<>>, fault |-> FALSE]
\* The shaper advances the pen by the width of each glyph.
ShapedAt(group, i) ==
  group.pen[2] + FoldLeft(LAMBDA sum, x : sum + LetterWidth(x), 0, SubSeq(group.codes, 1, i - 1))
RenderTextGroup(group) ==
  [i \in DOMAIN group.codes |-> <<group.pen[1], ShapedAt(group, i), group.codes[i], group.color[1], group.color[2]>>]
DrawFrame ==
  /\ frame.step = "draw"
  /\ LET byCells == FoldLeft(TextRendererCell, NewGrouper, frame.cells)
         all == FlushTextClusterGroup(FoldLeft(TextRendererLine, byCells, frame.lines))
     IN  frame' = [frame EXCEPT !.step = "shown", !.fault = @ \/ all.fault,
                                !.drawn = FlattenSeq([i \in DOMAIN all.out |-> RenderTextGroup(all.out[i])])]

FrameNext == FillRenderBuffer \/ RenderLine \/ DrawFrame

(***************************************************************************)
(* What the frame should show.                                             *)
(***************************************************************************)
IsShown == frame.step = "shown"
Cells1(y) == InflatedBuffer(Grid1(frame, y)).cells
PreeditWidth == FoldLeft(LAMBDA sum, x : sum + LetterWidth(x), 0, frame.preedit)
UnderPreedit(y, x) ==
  frame.preedit # <<>> /\ frame.cursor # <<>> /\ frame.cursor[1] + frame.scroll = y
    /\ x \in frame.cursor[2] .. frame.cursor[2] + PreeditWidth - 1
PageText == {<<frame.base + y, x, Cells1(y)[x + 1].text, Cells1(y)[x + 1].style>> :
               <<y, x>> \in {<<y, x>> \in (0 .. PageRows - 1) \X (0 .. PageCols - 1) :
                              Cells1(y)[x + 1].text \notin {"", " "} /\ ~UnderPreedit(y, x)}}
CursorInView == frame.cursor # <<>> /\ IsLineVisible(frame, frame.cursor[1])
PreeditText == IF frame.preedit = <<>> \/ ~CursorInView THEN {}
               ELSE {<<frame.base + frame.cursor[1] + frame.scroll, frame.cursor[2], frame.preedit[1], "preedit">>}
PreeditFits == frame.preedit # <<>> /\ frame.cursor # <<>> => frame.cursor[2] + PreeditWidth <= PageCols /\ ~frame.blinkedOff
(***************************************************************************)
(* Every character in view is drawn once, in its own cell and style, and   *)
(* nothing else is, whichever way its line took: as text, as cells, as the *)
(* text of the input method (RenderBufferBuilder, TextClusterGrouper).     *)
(***************************************************************************)
GlyphsInTheirCells ==
  IsShown /\ PreeditFits =>
    /\ ~frame.fault
    /\ {SubSeq(frame.drawn[i], 1, 4) : i \in DOMAIN frame.drawn} = PageText \cup PreeditText
    /\ Len(frame.drawn) = Cardinality(PageText \cup PreeditText)
\* Cells of the page that the frame gives an overlay.
Painted(name) ==
  {<<c.line - frame.base - frame.scroll, c.col>> : c \in {c \in ToSet(frame.cells) : name \in c.paint}}
    \cup {<<l.line - frame.scroll, x>> : <<l, x>> \in {<<l, x>> \in ToSet(frame.lines) \X (0 .. PageCols - 1) : name \in l.paint}}
InView(cells) == {at \in cells : at[1] + frame.scroll \in 0 .. PageRows - 1}
(***************************************************************************)
(* A block cursor colours its own cell, both cells of a wide character,    *)
(* and no other, on a plain line as well (makeColorsForCell).              *)
(***************************************************************************)
CursorPainted ==
  IsShown /\ frame.preedit = <<>> =>
    Painted("cursor") = IF ~CursorInView \/ frame.blinkedOff \/ ~frame.block THEN {}
                        ELSE {<<frame.cursor[1], frame.cursor[2] + i>> : i \in 0 .. frame.out[1].width - 1}
(***************************************************************************)
(* Exactly the selected cells are coloured as selected, on a line that is  *)
(* still plain text too (renderTrivialLine).                               *)
(***************************************************************************)
SelectionPainted == IsShown => Painted("selected") = InView(frame.selected)
\* The occurrences of the pattern within a line.
Occurrences ==
  {<<y, x + i>> : <<y, x, i>> \in {<<y, x, i>> \in (0 .. PageRows - 1) \X (0 .. PageCols - 1) \X (0 .. Len(frame.pattern) - 1) :
     LET letters == Cells1(y)
         sensitive == \E k \in DOMAIN frame.pattern : frame.pattern[k] \in DOMAIN Upper
     IN  /\ x + Len(frame.pattern) <= PageCols
         /\ \A k \in DOMAIN frame.pattern :
              (IF sensitive THEN letters[x + k].text ELSE Lowered(letters[x + k].text)) = frame.pattern[k]}}
(***************************************************************************)
(* Exactly the occurrences of the search pattern are highlighted           *)
(* (matchSearchPattern).                                                   *)
(***************************************************************************)
MatchesHighlighted == IsShown /\ frame.pattern # <<>> => Painted("match") = {<<at[1] - frame.scroll, at[2]>> : at \in Occurrences}

(***************************************************************************)
(* What does not hold: SelectionPainted when the viewport is scrolled (a   *)
(* line on the screen is looked up as a line of the grid);                 *)
(* GlyphsInTheirCells with a status display above (a plain line is not     *)
(* moved down); MatchesHighlighted for "ab" in "aab", for a match over the *)
(* end of a line and for capitals; that the                                *)
(* highlight of a yank colours its cells; that a text of the input method  *)
(* at the end of a line, or while the cursor blinks, is shown in place.    *)
(***************************************************************************)
HighlightPainted == IsShown => Painted("highlighted") = InView(frame.highlighted) \ Painted("cursor")
PreeditShown == IsShown => ~frame.fault /\ {SubSeq(frame.drawn[i], 1, 4) : i \in DOMAIN frame.drawn} = PageText \cup PreeditText
=============================================================================
