----------------------------- MODULE Scrollback -----------------------------
(***************************************************************************)
(* What a grid promises, without a ring buffer: a page of lines and above  *)
(* it the history of the lines that were scrolled off, oldest first.  Grid *)
(* is shown to implement it.  A line is a function from columns to cells.  *)
(***************************************************************************)
EXTENDS Integers, Sequences

CONSTANTS Cols,         \* columns of a line
          InnerCols,    \* the columns inside the left and right margin
          Cells,        \* what a cell may hold
          NoCell,       \* an erased cell
          Unlimited,    \* the history limit "-1" of the configuration
          HistoryLimit, \* lines of history to preserve, or Unlimited
          PageLines,    \* lines of the page
          MaxScroll     \* bound: lines scrolled at once

VARIABLES history, page

sbVars == <<history, page>>

BlankLine == [c \in Cols |-> NoCell]
BlankLines(n) == [i \in 1..n |-> BlankLine]
Suffix(s, n) == SubSeq(s, Len(s) - n + 1, Len(s))
Least(a, b) == IF a < b THEN a ELSE b

\* A line with the cells of columns cs taken from another line.
Merge(line, other, cs) == [c \in Cols |-> IF c \in cs THEN other[c] ELSE line[c]]

Keep(lines) ==
    IF HistoryLimit = Unlimited THEN lines
    ELSE Suffix(lines, Least(Len(lines), HistoryLimit))

\* Lines top..bottom of the page (counted from 1) shifted by n: line i takes
\* the cells cs of line i + n (n may be negative), or becomes blank.
Shifted(top, bottom, n, cs) ==
    [i \in DOMAIN page |->
        IF i \notin top..bottom THEN page[i]
        ELSE IF i + n \in top..bottom THEN Merge(page[i], page[i + n], cs)
        ELSE Merge(page[i], BlankLine, cs)]

\* An application writes a line.
Write ==
    /\ \E i \in DOMAIN page, line \in [Cols -> Cells] : page' = [page EXCEPT ![i] = line]
    /\ UNCHANGED history

\* The whole page scrolls up: what leaves it becomes history.
ScrollUp ==
    \E n \in 0..MaxScroll :
        LET all == history \o page \o BlankLines(n)
        IN  /\ page' = Suffix(all, Len(page))
            /\ history' = Keep(SubSeq(all, 1, Len(all) - Len(page)))

\* A part of the page scrolls, up or down; the history is not involved.
ScrollRegion ==
    /\ \E top \in DOMAIN page, bottom \in DOMAIN page, n \in -MaxScroll..MaxScroll, cs \in {Cols, InnerCols} :
          page' = Shifted(top, bottom, n, cs)
    /\ UNCHANGED history

ClearHistory == history' = <<>> /\ UNCHANGED page

Reset == history' = <<>> /\ page' = BlankLines(Len(page))

SbInit ==
    /\ history = <<>>
    /\ page = BlankLines(PageLines)

SbNext == Write \/ ScrollUp \/ ScrollRegion \/ ClearHistory \/ Reset

SbSpec == SbInit /\ [][SbNext]_sbVars
=============================================================================
