------------------------------ MODULE PageEdit ------------------------------
(***************************************************************************)
(* The control functions of vtbackend/Screen.cpp that change the cells of  *)
(* the page: erasing (EL, ED, ECH), selective erasing (DECSEL, DECSED,     *)
(* DECSERA), inserting and deleting (ICH, DCH, IL, DL, DECIC, DECDC) and   *)
(* rectangular areas (DECCRA, DECERA, DECFRA).                             *)
(***************************************************************************)
EXTENDS Integers, FiniteSets

CONSTANTS EditLines, EditColumns,   \* size of the page
          MaxCount,                 \* bound: largest numeric argument
          ProtectedCells            \* the sets of places DECSCA may have protected

ASSUME EditAssumption ==
  EditLines \in Nat \ {0} /\ EditColumns \in Nat \ {0} /\ MaxCount \in Nat

VARIABLE edit     \* page, cursor, margins, modes and the last operation

EditRows == 0 .. EditLines - 1
EditCols == 0 .. EditColumns - 1
Lesser(a, b) == IF a < b THEN a ELSE b

\* A cell is the place its text came from, and DECSCA's protection.
EditCell(text, protected) == [text |-> text, protected |-> protected]
Blank == 0
Filled == -1
History == -2
Place(r, c) == r * EditColumns + c + 1
Untouched == [r \in EditRows |-> [c \in EditCols |-> EditCell(Place(r, c), FALSE)]]

FullEditMargin == [top |-> 0, bottom |-> EditLines - 1, left |-> 0, right |-> EditColumns - 1]

EditInit ==
  edit = [page |-> Untouched, old |-> Untouched, row |-> 0, col |-> 0, margin |-> FullEditMargin,
          origin |-> FALSE, protect |-> FALSE, op |-> "none", area |-> FullEditMargin]

\* The settings an application may have made before it edits: margins, cursor,
\* origin mode, and which cells were written under DECSCA.
Prepare ==
  /\ edit.op = "none"
  /\ \E top, bottom, row \in EditRows, left, right, col \in EditCols,
        origin \in BOOLEAN, sca \in ProtectedCells :
       /\ top < bottom /\ left < right
       /\ origin => row \in top .. bottom /\ col \in left .. right
       /\ LET page == [r \in EditRows |-> [c \in EditCols |-> EditCell(Place(r, c), Place(r, c) \in sca)]]
          IN  edit' = [edit EXCEPT !.page = page, !.old = page, !.row = row, !.col = col,
                         !.margin = [top |-> top, bottom |-> bottom, left |-> left, right |-> right],
                         !.origin = origin, !.op = "ready"]

(***************************************************************************)
(* Helpers of the class.                                                   *)
(***************************************************************************)
Erased == EditCell(Blank, edit.protect)          \* Cell::reset(graphicsRendition)
WithCells(page, cells, cell) ==
  [r \in EditRows |-> [c \in EditCols |-> IF <<r, c>> \in cells THEN cell ELSE page[r][c]]]
RowCells(r, left, right) == {r} \X (left .. right)
IsFullHorizontalMargins == edit.margin.right + 1 = EditColumns
IsCursorInsideMargins ==
  edit.row \in edit.margin.top .. edit.margin.bottom /\ edit.col \in edit.margin.left .. edit.margin.right
LogicalColumn == IF edit.origin THEN edit.col - edit.margin.left ELSE edit.col

\* Every operation ends here: the page, its name and the area it is allowed to change.
Edited(op, page, area) == edit' = [edit EXCEPT !.page = page, !.op = op, !.area = area]
MarginArea == edit.margin

(***************************************************************************)
(* EL, ED, ECH.                                                            *)
(***************************************************************************)
ClearToEndOfLine(page) == WithCells(page, RowCells(edit.row, edit.col, EditColumns - 1), Erased)
ClearToBeginOfLine(page) == WithCells(page, RowCells(edit.row, 0, edit.col), Erased)
ClearLine(page) == WithCells(page, RowCells(edit.row, 0, EditColumns - 1), Erased)
ClearToEndOfScreen(page) ==
  WithCells(ClearToEndOfLine(page), ((edit.row + 1) .. (EditLines - 1)) \X EditCols, Erased)
ClearToBeginOfScreen(page) ==
  WithCells(ClearToBeginOfLine(page), (0 .. edit.row - 1) \X EditCols, Erased)
EraseCharacters(page, n) ==
  LET available == EditColumns - edit.col
      clamped == IF n < 1 THEN 1 ELSE Lesser(n, available)
  IN  WithCells(page, RowCells(edit.row, edit.col, edit.col + clamped - 1), Erased)

EraseInLine ==
  \/ Edited("EL", ClearToEndOfLine(edit.page), FullEditMargin)
  \/ Edited("EL", ClearToBeginOfLine(edit.page), FullEditMargin)
  \/ Edited("EL", ClearLine(edit.page), FullEditMargin)
EraseInDisplay ==
  \/ Edited("ED", ClearToEndOfScreen(edit.page), FullEditMargin)
  \/ Edited("ED", ClearToBeginOfScreen(edit.page), FullEditMargin)

(***************************************************************************)
(* DECSEL, DECSED, DECSERA.                                                *)
(***************************************************************************)
ContainsProtectedCharacters(page, r, from, to) == \E c \in from .. to - 1 : page[r][c].protected
SelectiveErase(page, r, from, to) ==
  WithCells(page, {rc \in RowCells(r, from, to - 1) : ~page[rc[1]][rc[2]].protected}, Erased)
\* The line that is reset is the cursor's, whichever line was asked for.
SelectiveEraseLine(page, r) ==
  IF ContainsProtectedCharacters(page, r, 0, EditColumns) THEN SelectiveErase(page, r, 0, EditColumns)
  ELSE WithCells(page, RowCells(edit.row, 0, EditColumns - 1), Erased)
SelectiveEraseToEndOfLine(page) ==
  IF IsFullHorizontalMargins /\ edit.col = 0 THEN SelectiveEraseLine(page, edit.row)
  ELSE SelectiveErase(page, edit.row, edit.col, EditColumns)
SelectiveEraseToBeginOfLine(page) == SelectiveErase(page, edit.row, 0, edit.col + 1)

\* One selectiveEraseLine() after the other over the lines from .. to.
SelectiveEraseLines(page, from, to) ==
  LET upTo[r \in from - 1 .. to] == IF r < from THEN page ELSE SelectiveEraseLine(upTo[r - 1], r)
  IN  IF from > to THEN page ELSE upTo[to]
SelectiveEraseToEndOfScreen(page) ==
  SelectiveEraseLines(SelectiveEraseToEndOfLine(page), edit.row + 1, EditLines - 1)
SelectiveEraseToBeginOfScreen(page) ==
  SelectiveEraseLines(SelectiveEraseToBeginOfLine(page), 0, edit.row - 1)

\* applyOriginMode() adds the area's top, not its left, to the left margin.
ApplyOriginMode(a) ==
  IF ~edit.origin THEN a
  ELSE [top |-> a.top + edit.margin.top, left |-> a.top + edit.margin.left,
        bottom |-> a.bottom + edit.margin.top, right |-> a.right + edit.margin.left]
SelectiveEraseArea(page, rect) ==
  LET a == ApplyOriginMode(rect)
      cells == (a.top .. Lesser(a.bottom, EditLines)) \X (a.left .. Lesser(a.right, EditColumns))
  IN  WithCells(page, {rc \in cells : rc \in EditRows \X EditCols /\ ~page[rc[1]][rc[2]].protected},
                EditCell(Blank, FALSE))

SelectiveEraseInLine ==
  \/ Edited("DECSEL", SelectiveEraseToEndOfLine(edit.page), FullEditMargin)
  \/ Edited("DECSEL", SelectiveEraseToBeginOfLine(edit.page), FullEditMargin)
  \/ Edited("DECSEL", SelectiveEraseLine(edit.page, edit.row), FullEditMargin)
SelectiveEraseInDisplay ==
  \/ Edited("DECSED", SelectiveEraseToEndOfScreen(edit.page), FullEditMargin)
  \/ Edited("DECSED", SelectiveEraseToBeginOfScreen(edit.page), FullEditMargin)
  \/ Edited("DECSED", SelectiveEraseLines(edit.page, 0, EditLines - 1), FullEditMargin)

(***************************************************************************)
(* ICH, DCH, DECIC, DECDC.                                                 *)
(***************************************************************************)
\* rotate(first, middle, last) on one row.
RotateRow(line, first, middle, last) ==
  [c \in EditCols |-> IF c \notin first .. last - 1 THEN line[c]
                      ELSE line[first + ((c - first + middle - first) % (last - first))]]

\* The count is limited with the logical column but applied at the real one.
InsertCount(n) == Lesser(n, edit.margin.right - LogicalColumn + 1)
InsertDefined(n) == edit.margin.right - InsertCount(n) + 1 >= edit.col
InsertChars(page, r, n) ==
  LET m == InsertCount(n)
      row == RotateRow(page[r], edit.col, edit.margin.right - m + 1, edit.margin.right + 1)
  IN  WithCells([page EXCEPT ![r] = row], RowCells(r, edit.col, edit.col + m - 1), Erased)
DeleteChars(page, r, n) ==
  LET m == Lesser(n, edit.margin.right + 1 - edit.col)
      row == RotateRow(page[r], edit.col, edit.col + m, edit.margin.right + 1)
  IN  WithCells([page EXCEPT ![r] = row],
                RowCells(r, edit.margin.right + 1 - m, edit.margin.right), Erased)
MarginRows(Op(_, _, _), page, n) ==
  [r \in EditRows |-> IF r \in edit.margin.top .. edit.margin.bottom THEN Op(page, r, n)[r] ELSE page[r]]

\* rotate() on an empty or reversed range has no defined result: any row may come out.
InsertedRows(rows, n) ==
  IF InsertDefined(n) THEN {[r \in EditRows |-> IF r \in rows THEN InsertChars(edit.page, r, n)[r] ELSE edit.page[r]]}
  ELSE {edit.page, WithCells(edit.page, rows \X EditCols, Erased)}

InsertCharacters ==
  \E n \in 1 .. MaxCount : \E page \in InsertedRows({edit.row}, n) :
     Edited("ICH", IF IsCursorInsideMargins THEN page ELSE edit.page, MarginArea)
InsertColumns ==
  \E n \in 1 .. MaxCount : \E page \in InsertedRows(edit.margin.top .. edit.margin.bottom, n) :
     Edited("DECIC", IF IsCursorInsideMargins THEN page ELSE edit.page, MarginArea)
DeleteCharacters ==
  \E n \in 0 .. MaxCount :
     Edited("DCH", IF IsCursorInsideMargins /\ n # 0 THEN DeleteChars(edit.page, edit.row, n)
                   ELSE edit.page, MarginArea)
DeleteColumns ==
  \E n \in 1 .. MaxCount :
     Edited("DECDC", IF IsCursorInsideMargins THEN MarginRows(DeleteChars, edit.page, n)
                     ELSE edit.page, MarginArea)

(***************************************************************************)
(* IL and DL: the grid scrolls from the cursor's line to the bottom margin.*)
(***************************************************************************)
ScrollUpFrom(page, top, n) ==
  LET m == edit.margin
      n2 == Lesser(n, m.bottom - top + 1)
  IN  [r \in EditRows |-> [c \in EditCols |->
         IF r \notin top .. m.bottom \/ c \notin m.left .. m.right THEN page[r][c]
         ELSE IF r + n2 <= m.bottom THEN page[r + n2][c] ELSE Erased]]

FullHorizontal == edit.margin.left = 0 /\ edit.margin.right = EditColumns - 1
\* With full width the lines rotate; inside horizontal margins the n + 1 lines
\* from the bottom are copied, also when that reaches above the top line.
ScrollDownFrom(page, top, count) ==
  LET m == edit.margin
      n == Lesser(count, m.bottom - top + 1)
      first == IF FullHorizontal THEN top + n ELSE m.bottom - n
  IN  [r \in EditRows |-> [c \in EditCols |->
         IF c \notin m.left .. m.right THEN page[r][c]
         ELSE IF r \in top .. top + n - 1 THEN Erased
         ELSE IF r \notin first .. m.bottom THEN page[r][c]
         ELSE IF r - n \in EditRows THEN page[r - n][c] ELSE EditCell(History, FALSE)]]

CursorMargin == [edit.margin EXCEPT !.top = edit.row]
InsertLines ==
  \E n \in 1 .. MaxCount :
     Edited("IL", IF IsCursorInsideMargins THEN ScrollDownFrom(edit.page, edit.row, n) ELSE edit.page,
            CursorMargin)
DeleteLines ==
  \E n \in 1 .. MaxCount :
     Edited("DL", IF IsCursorInsideMargins THEN ScrollUpFrom(edit.page, edit.row, n) ELSE edit.page,
            CursorMargin)

(***************************************************************************)
(* DECCRA, DECERA, DECFRA.                                                 *)
(***************************************************************************)
\* copyArea(): the order in which cells are copied in place, one after another.
AscendingOrder(src, row, col) ==
  [i \in 1 .. (src.bottom - src.top + 1) * (src.right - src.left + 1) |->
     <<(i - 1) \div (src.right - src.left + 1), (i - 1) % (src.right - src.left + 1)>>]
CopyOrder(src, row, col) ==
  LET h == src.bottom - src.top + 1
      w == src.right - src.left + 1
      Y(i) == (i - 1) \div w
      X(i) == (i - 1) % w
  IN  [i \in 1 .. h * w |-> <<IF row > src.top THEN h - 1 - Y(i) ELSE Y(i),
                              IF col > src.left THEN w - 1 - X(i) ELSE X(i)>>]
CopyArea(page, src, row, col) ==
  LET order == CopyOrder(src, row, col)
      size == (src.bottom - src.top + 1) * (src.right - src.left + 1)
      done[i \in 0 .. size] ==
        IF i = 0 THEN page
        ELSE [done[i - 1] EXCEPT ![row + order[i][1]][col + order[i][2]] =
                done[i - 1][src.top + order[i][1]][src.left + order[i][2]]]
  IN  IF row = src.top /\ col = src.left THEN page ELSE done[size]

EditAreas == [top : EditRows, left : EditCols, bottom : EditRows, right : EditCols]
Proper(a) == a.top <= a.bottom /\ a.left <= a.right
AreaCells(a) == (a.top .. a.bottom) \X (a.left .. a.right)

\* Source areas whose copy fits on the page.
CopyRectangularArea ==
  \E src \in {a \in EditAreas : Proper(a)}, row \in EditRows, col \in EditCols :
     /\ edit.margin = FullEditMargin /\ edit.row = 0 /\ edit.col = 0 /\ ~edit.origin
     /\ row + src.bottom - src.top \in EditRows /\ col + src.right - src.left \in EditCols
     /\ edit' = [edit EXCEPT !.page = CopyArea(edit.page, src, row, col), !.op = "DECCRA",
                    !.area = [src |-> src, row |-> row, col |-> col]]

EraseArea(page, a) == IF Proper(a) THEN WithCells(page, AreaCells(a), Erased) ELSE page
FillArea(page, a, printable) ==
  IF printable THEN WithCells(page, AreaCells(a), EditCell(Filled, edit.protect)) ELSE page
EraseRectangularArea ==
  \E a \in EditAreas : edit.row = 0 /\ edit.col = 0 /\ Edited("DECERA", EraseArea(edit.page, a), a)
FillRectangularArea ==
  \E a \in EditAreas, printable \in BOOLEAN :
     /\ edit.row = 0 /\ edit.col = 0 /\ Proper(a)
     /\ Edited("DECFRA", FillArea(edit.page, a, printable), a)

SelectiveEraseRectangularArea ==
  \E a \in EditAreas :
     /\ edit.row = 0 /\ edit.col = 0 /\ Proper(a)
     /\ Edited("DECSERA", SelectiveEraseArea(edit.page, a), a)

EditNext ==
  \/ Prepare
  \/ /\ edit.op = "ready"
     /\ \/ EraseInLine \/ EraseInDisplay \/ SelectiveEraseInLine \/ SelectiveEraseInDisplay
        \/ \E n \in 0 .. MaxCount : Edited("ECH", EraseCharacters(edit.page, n), FullEditMargin)
        \/ InsertCharacters \/ InsertColumns \/ DeleteCharacters \/ DeleteColumns
        \/ InsertLines \/ DeleteLines
        \/ CopyRectangularArea \/ EraseRectangularArea \/ FillRectangularArea
        \/ SelectiveEraseRectangularArea

EditSpec == EditInit /\ [][EditNext]_edit

(***************************************************************************)
(* Properties.                                                             *)
(***************************************************************************)
Changed == {rc \in EditRows \X EditCols : edit.page[rc[1]][rc[2]] # edit.old[rc[1]][rc[2]]}

\* Inserting and deleting lines, columns and characters never touches a cell
\* outside the scrolling margins.  Left out is what the code leaves undefined or
\* gets wrong: ICH and DECIC in origin mode with a left margin, and IL inside
\* horizontal margins.
EditStaysInMargins ==
  \/ edit.op \notin {"DCH", "DECDC", "DL", "ICH", "DECIC", "IL"}
  \/ edit.op \in {"ICH", "DECIC"} /\ edit.origin /\ edit.margin.left > 0
  \/ edit.op = "IL" /\ ~FullHorizontal
  \/ Changed \subseteq AreaCells(edit.area)

\* Copying an area onto itself, shifted any way, moves every source cell as it
\* was before the copy began.
CopiedAsWas ==
  edit.op = "DECCRA" =>
     \A y \in 0 .. edit.area.src.bottom - edit.area.src.top,
        x \in 0 .. edit.area.src.right - edit.area.src.left :
          edit.page[edit.area.row + y][edit.area.col + x]
            = edit.old[edit.area.src.top + y][edit.area.src.left + x]

\* DECSEL and DECSERA outside origin mode erase no protected character.
SelectiveKeepsProtected ==
  edit.op \in {"DECSEL", "DECSERA"} => \A rc \in Changed : ~edit.old[rc[1]][rc[2]].protected

(***************************************************************************)
(* Editing changes the cells it is meant to change and no others: inside   *)
(* the margins, with overlapping areas copied as they were, and protected  *)
(* cells kept by selective erases (Screen.cpp, insertChars to copyArea).   *)
(***************************************************************************)
EditsStayInside ==
  /\ EditStaysInMargins
  /\ CopiedAsWas
  /\ SelectiveKeepsProtected

\* "Character is protected by selective erase operations" (CellFlag::CharacterProtected).
DisplayEraseKeepsProtected ==
  edit.op = "DECSED" => \A rc \in Changed : ~edit.old[rc[1]][rc[2]].protected

\* Inserting lines, columns or characters stays inside the margins in every mode.
InsertStaysInMargins ==
  edit.op \in {"ICH", "DECIC", "IL"} => Changed \subseteq AreaCells(edit.area)

\* DECSERA erases the area it was given, also under origin mode.
OriginAreaErased ==
  edit.op = "DECSERA" /\ edit.origin =>
     \A rc \in AreaCells(edit.area) :
        LET r == rc[1] + edit.margin.top
            c == rc[2] + edit.margin.left
        IN  r \in EditRows /\ c \in EditCols /\ ~edit.old[r][c].protected => edit.page[r][c].text = Blank
=============================================================================
