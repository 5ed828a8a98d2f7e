------------------------------- MODULE Reflow -------------------------------
(***************************************************************************)
(* A change of the number of columns of the primary screen: lines that are *)
(* too long are cut and continued on new lines, lines that continue others *)
(* are joined again (Grid::resize, Line::reflow).                          *)
(*                                                                         *)
(* The lines in use are a sequence, the oldest line of the history first;  *)
(* the last FlowLines of them are the page.  A cell is the number of the   *)
(* character written to it, or 0.                                          *)
(***************************************************************************)
EXTENDS Integers, Sequences, SequencesExt, FiniteSetsExt

CONSTANTS
  FlowLines,       \* lines of the page
  FlowHistory,     \* limit of the history
  FlowColumns,     \* the numbers of columns that a page may have
  FirstColumns,    \* the first of them
  MaxChars,        \* bound: characters written
  MaxReflows       \* bound: resizes

VARIABLE flow

BlankFlow(n, flags) == [cells |-> <<>>, width |-> n, trivial |-> TRUE, flags |-> flags]
FlowInit == flow = [lines |-> [i \in 1 .. FlowLines |-> BlankFlow(FirstColumns, {"Wrappable"})], size |-> FlowLines + FlowHistory,
                    cols |-> FirstColumns, row |-> 0, col |-> 0, wrap |-> FALSE, chars |-> 0, resizes |-> 0,
                    was |-> <<>>, moved |-> FALSE]

(***************************************************************************)
(* Lines.                                                                  *)
(***************************************************************************)
Padded(cells, n) == [i \in 1 .. n |-> IF i <= Len(cells) THEN cells[i] ELSE 0]
TrimBlankRight(cells) == SubSeq(cells, 1, Max({0} \cup {i \in DOMAIN cells : cells[i] # 0}))
Inflated(line) == IF line.trivial THEN [line EXCEPT !.trivial = FALSE, !.cells = Padded(@, line.width)] ELSE line
OfCells(cells, flags) == [cells |-> cells, width |-> Len(cells), trivial |-> FALSE, flags |-> flags]
InheritableFlags(line) == line.flags \ {"Wrapped"}
Wrapped(line) == "Wrapped" \in line.flags

\* The line that is left and the cells that were cut off.
ReflowShortKept(line, n) ==
  LET l == Inflated(line)
  IN  IF n >= l.width THEN <<OfCells(Padded(l.cells, n), l.flags), <<>>>>
      ELSE <<OfCells(SubSeq(l.cells, 1, n), l.flags), TrimBlankRight(SubSeq(l.cells, n + 1, l.width - 1))>>
ReflowLine(line, n) ==
  LET l == Inflated(line)
  IN  IF line.trivial /\ n > Len(line.cells) THEN <<[line EXCEPT !.width = n], <<>>>>
      ELSE IF line.trivial /\ n = Len(line.cells) THEN <<line, <<>>>>
      ELSE IF n >= l.width THEN <<OfCells(Padded(l.cells, n), l.flags), <<>>>>
      ELSE <<OfCells(SubSeq(l.cells, 1, n), l.flags),
             IF "Wrappable" \in l.flags THEN TrimBlankRight(SubSeq(l.cells, n + 1, l.width)) ELSE <<>>>>

AddNewWrappedLines(lines, n, cells, flags, initialNoWrap) ==
  lines \o [i \in 1 .. (Len(cells) + n - 1) \div n |->
    OfCells(Padded(SubSeq(cells, (i - 1) * n + 1, Min({i * n, Len(cells)})), n),
            IF i = 1 /\ initialNoWrap THEN flags ELSE flags \cup {"Wrapped"})]

(***************************************************************************)
(* Fewer columns: what is cut off a line is put before the line that       *)
(* continues it, or on new lines.                                          *)
(***************************************************************************)
ShrinkStep(n, acc, line) ==
  LET carried == acc.carry # <<>>
      joins == carried /\ Wrapped(line) /\ InheritableFlags(line) = acc.flags
      l == IF joins THEN OfCells(acc.carry \o Inflated(line).cells, line.flags)
           ELSE IF carried THEN line ELSE [line EXCEPT !.flags = @ \cup {"Wrappable"}]
      before == IF carried /\ ~joins THEN AddNewWrappedLines(acc.out, n, acc.carry, acc.flags, FALSE) ELSE acc.out
      cut == ReflowLine(l, n)
  IN  [out |-> Append(before, cut[1]), carry |-> cut[2], flags |-> IF joins THEN acc.flags ELSE InheritableFlags(l)]
ShrinkColumns(s, n) ==
  LET acc == FoldLeft(LAMBDA a, line : ShrinkStep(n, a, line), [out |-> <<>>, carry |-> <<>>, flags |-> InheritableFlags(s.lines[1])], s.lines)
      written == AddNewWrappedLines(acc.out, n, acc.carry, acc.flags, FALSE)
  IN  [s EXCEPT !.lines = written, !.size = Max({Len(written), FlowLines + FlowHistory}), !.cols = n]

(***************************************************************************)
(* More columns: the cells of a line and of those that continue it are     *)
(* collected and split again.                                              *)
(***************************************************************************)
FlushLogicalLine(acc, n) == [acc EXCEPT !.out = AddNewWrappedLines(@, n, acc.logical, acc.flags, TRUE), !.logical = <<>>]
GrowStep(n, acc, line) ==
  IF Wrapped(line) THEN [acc EXCEPT !.logical = @ \o TrimBlankRight(Inflated(line).cells)]
  ELSE LET flushed == FlushLogicalLine(acc, n)
       IN  IF line.trivial THEN [flushed EXCEPT !.out = Append(@, [line EXCEPT !.width = n])]
           ELSE [flushed EXCEPT !.logical = line.cells, !.flags = line.flags]
GrowColumns(s, n) ==
  LET acc == FoldLeft(LAMBDA a, line : GrowStep(n, a, line), [out |-> <<>>, logical |-> <<>>, flags |-> {}], s.lines)
      grown == FlushLogicalLine(acc, n).out
      cy == Max({0, FlowLines - Len(grown)})
      filled == grown \o [i \in 1 .. cy |-> BlankFlow(n, {"Wrappable"})]
  IN  [s EXCEPT !.lines = filled, !.size = Max({Len(filled), FlowLines + FlowHistory}), !.cols = n,
                !.row = @ - cy, !.col = @ + (IF s.wrap THEN 1 ELSE 0)]
ClampCoordinate(s) == [s EXCEPT !.row = Max({0, Min({@, FlowLines - 1})}), !.col = Max({0, Min({@, s.cols - 1})})]

CursorLine(s) == Len(s.lines) - FlowLines + s.row + 1
\* What a user sees as lines: the text of a line and of those that continue it.
Logical(lines) ==
  LET acc == FoldLeft(LAMBDA a, l : IF Wrapped(l) /\ a # <<>> THEN Front(a) \o <<Last(a) \o Inflated(l).cells>> ELSE Append(a, Inflated(l).cells),
                      <<>>, lines)
      texts == [i \in DOMAIN acc |-> TrimBlankRight(acc[i])]
  IN  SubSeq(texts, 1, Max({0} \cup {i \in DOMAIN texts : texts[i] # <<>>}))
ApplyPageSizeToMainDisplay(n) ==
  LET s == IF n > flow.cols THEN GrowColumns(flow, n) ELSE ShrinkColumns(flow, n)
      t == ClampCoordinate([s EXCEPT !.wrap = @ /\ flow.col >= n])
  IN  /\ n # flow.cols /\ flow.resizes < MaxReflows
      /\ flow' = [t EXCEPT !.resizes = @ + 1, !.was = IF flow.resizes = 0 THEN <<flow.lines, flow.cols>> ELSE @, !.moved = TRUE]

(***************************************************************************)
(* What fills the page.                                                    *)
(***************************************************************************)
Fresh(s) == [s EXCEPT !.was = <<>>, !.moved = FALSE]
FlowLinefeed(s) ==
  LET t == [s EXCEPT !.col = 0, !.wrap = FALSE]
  IN  IF s.row < FlowLines - 1 THEN [t EXCEPT !.row = @ + 1]
      ELSE [t EXCEPT !.lines = Append(IF Len(@) < s.size THEN @ ELSE Tail(@), BlankFlow(s.cols, {"Wrappable"}))]
FlowCrlfIfWrapPending(s) ==
  LET t == FlowLinefeed(s)
  IN  IF ~s.wrap THEN s
      ELSE IF "Wrappable" \in s.lines[CursorLine(s)].flags THEN [t EXCEPT !.lines[CursorLine(t)].flags = @ \cup {"Wrappable", "Wrapped"}]
      ELSE t
WriteOne ==
  LET s == FlowCrlfIfWrapPending(flow)
      i == CursorLine(s)
      t == [s EXCEPT !.lines[i] = Inflated(@), !.chars = @ + 1]
      u == [t EXCEPT !.lines[i].cells[s.col + 1] = s.chars + 1]
  IN  /\ flow.chars < MaxChars
      /\ flow' = Fresh(IF s.col + 1 < s.cols THEN [u EXCEPT !.col = @ + 1] ELSE [u EXCEPT !.wrap = TRUE])
\* Text at the beginning of a blank line is not turned into cells.
WriteMany(n) ==
  LET i == CursorLine(flow)  line == flow.lines[i]
  IN  /\ flow.chars + n <= MaxChars /\ flow.col = 0 /\ n < flow.cols /\ line.trivial /\ line.cells = <<>>
      /\ flow' = Fresh([flow EXCEPT !.lines[i].cells = [k \in 1 .. n |-> flow.chars + k], !.chars = @ + n, !.col = n])
NewLine2 == flow.chars < MaxChars /\ flow' = Fresh([FlowLinefeed(flow) EXCEPT !.chars = @ + 1])
\* A frame inflates the line of the cursor.
ShowCursor == flow.resizes > 0 /\ flow' = [flow EXCEPT !.lines[CursorLine(flow)] = Inflated(@)]
SetMark == flow.resizes = 0 /\ flow' = [flow EXCEPT !.lines[CursorLine(flow)].flags = @ \cup {"Marked"}]

FlowNext ==
  \/ \E n \in FlowColumns : ApplyPageSizeToMainDisplay(n) \/ WriteMany(n)
  \/ WriteOne \/ NewLine2 \/ ShowCursor \/ SetMark

(***************************************************************************)
(* A resize keeps the characters of every logical line: none is lost,      *)
(* repeated or moved to another line, and lines are neither joined nor     *)
(* separated (growColumns, shrinkColumns, reflow, addNewWrappedLines).     *)
(***************************************************************************)
Characters(lines) == LET t == Logical(lines) IN [i \in DOMAIN t |-> SelectSeq(t[i], LAMBDA c : c # 0)]
ReflowKeepsText == [][flow'.resizes # flow.resizes => Characters(flow'.lines) = Characters(flow.lines)]_flow

(***************************************************************************)
(* A resize keeps also the gaps between them.                              *)
(***************************************************************************)
ReflowKeepsGaps == [][flow'.resizes # flow.resizes => Logical(flow'.lines) = Logical(flow.lines)]_flow

(***************************************************************************)
(* A resize makes no line that continues another one and has no text.      *)
(***************************************************************************)
NoBlankContinuation ==
  \A i \in DOMAIN flow.lines : Wrapped(flow.lines[i]) => TrimBlankRight(flow.lines[i].cells) # <<>>

(***************************************************************************)
(* Every line has at least a cell for each column of the page, as          *)
(* growColumns requires, and the page is complete.                         *)
(***************************************************************************)
LinesCoverPage == Len(flow.lines) >= FlowLines /\ \A i \in DOMAIN flow.lines : flow.lines[i].width >= flow.cols

(***************************************************************************)
(* A page that was resized and has its first width again shows the same    *)
(* lines, unless something was written since the first resize.             *)
(***************************************************************************)
Shape(lines) ==
  LET texts == [i \in DOMAIN lines |-> TrimBlankRight(lines[i].cells)]
  IN  SubSeq(texts, 1, Max({0} \cup {i \in DOMAIN texts : texts[i] # <<>>}))
RoundTrip == flow.was # <<>> /\ flow.was[2] = flow.cols => Shape(flow.lines) = Shape(flow.was[1])

(***************************************************************************)
(* Every line is exactly as wide as the page.                              *)
(***************************************************************************)
LinesAsWideAsPage == \A i \in DOMAIN flow.lines : flow.lines[i].width = flow.cols

(***************************************************************************)
(* A resize keeps the number of marked lines, which the user jumps between *)
(* (setMark).                                                              *)
(***************************************************************************)
MarkCount(lines) == Len(SelectSeq(lines, LAMBDA l : "Marked" \in l.flags))
MarksKept == [][flow'.resizes # flow.resizes => MarkCount(flow'.lines) = MarkCount(flow.lines)]_flow

(***************************************************************************)
(* After a resize the cursor is still behind the character that was        *)
(* written last.                                                           *)
(***************************************************************************)
BehindLast(s) ==
  LET cells == Inflated(s.lines[CursorLine(s)]).cells
  IN  cells[IF s.wrap THEN s.col + 1 ELSE s.col] = s.chars
CursorBehindText ==
  [][flow'.resizes # flow.resizes /\ ~flow.moved /\ flow.col > 0 /\ BehindLast(flow) =>
       (flow'.col = 0 /\ Wrapped(flow'.lines[CursorLine(flow')])) \/ (flow'.col > 0 /\ BehindLast(flow'))]_flow
=============================================================================
