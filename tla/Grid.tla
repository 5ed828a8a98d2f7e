-------------------------------- MODULE Grid --------------------------------
(***************************************************************************)
(* vtbackend's Grid: the page of a screen and its scrollback history, kept *)
(* in one crispy::ring of lines (crispy/ring.h).                           *)
(*                                                                         *)
(* Offsets count from the top of the page: 0 is its first line, -1 the     *)
(* newest line of the history.  Offset i lives at storage index            *)
(* RingIndex(i); scrolling moves "zero", not the lines.  Behind the page   *)
(* come the unused lines, then the history, oldest line first.             *)
(*                                                                         *)
(* A line is a function from columns to cells; two columns are enough, one *)
(* inside and one outside a left/right margin.  Cell 0 is an erased cell,  *)
(* other cells carry the number of the write that made them.               *)
(***************************************************************************)
EXTENDS Integers, FiniteSets

CONSTANTS
    InitPageLines,  \* height of the page when the grid is made
    InitLimit,      \* its history limit, or Infinite
    Infinite,       \* the history limit that preserves every line
    MaxPageLines,   \* bound: height of the page after a resize
    MaxLimit,       \* bound: history limit after a change of configuration
    MaxWrites,      \* bound: lines written by the application
    MaxScroll,      \* bound: lines scrolled at once
    MaxSize,        \* bound: lines allocated in an unlimited history
    Ops             \* the operations a run exercises

ASSUME GridAssumption ==
    /\ InitPageLines \in Nat \ {0}
    /\ Infinite \notin Int
    /\ InitLimit \in Nat \cup {Infinite}
    /\ MaxPageLines \in Nat
    /\ MaxLimit \in Nat
    /\ MaxWrites \in Nat
    /\ MaxScroll \in Nat
    /\ MaxSize \in Nat

VARIABLES
    storage,    \* basic_ring::_storage, indexed from 0
    size,       \* its length
    zero,       \* basic_ring::_zero
    linesUsed,  \* Grid::_linesUsed
    pageLines,  \* Grid::_pageSize.lines
    limit,      \* Grid::_historyLimit
    cursor,     \* line of the screen's cursor
    written,    \* writes so far
    deleted     \* history: the cells that clearHistory() and reset() gave up

vars == <<storage, size, zero, linesUsed, pageLines, limit, cursor, written, deleted>>
ring == <<storage, size, zero>>

Cols == {1, 2}
InnerCols == {1}
Cells == 0..MaxWrites
Line == [Cols -> Cells]
Blank == [c \in Cols |-> 0]
Merge(line, other, cs) == [c \in Cols |-> IF c \in cs THEN other[c] ELSE line[c]]

Lower(a, b) == IF a < b THEN a ELSE b
Higher(a, b) == IF a > b THEN a ELSE b
Clamp(x, lo, hi) == Higher(lo, Lower(x, hi))

\* basic_ring::operator[]: where offset i is stored, for a ring of n lines
\* whose first line is at index z.
RingIndex(z, n, i) == (z + n + i) % n
At(i) == storage[RingIndex(zero, size, i)]

\* The offset, counted from the top of the page downwards, of index j.
OffsetOf(z, n, j) == (j - z) % n

maxHistoryLineCount == IF limit = Infinite THEN size - pageLines ELSE limit
historyLineCount == linesUsed - pageLines
totalLineCount == maxHistoryLineCount + pageLines

\* A storage enlarged by ring::emplace_back(): the new lines are appended to
\* the vector, wherever the ring's first line is.
Extended(n) == [j \in 0..(n - 1) |-> IF j < size THEN storage[j] ELSE Blank]

\* A storage whose lines at offsets lo..hi are reset.
Cleared(store, z, n, lo, hi) ==
    [j \in 0..(n - 1) |->
        IF \E i \in lo..hi : RingIndex(z, n, i) = j THEN Blank ELSE store[j]]

-----------------------------------------------------------------------------
Init ==
    /\ pageLines = InitPageLines
    /\ limit = InitLimit
    /\ size = InitPageLines + (IF InitLimit = Infinite THEN 0 ELSE InitLimit)
    /\ storage = [j \in 0..(size - 1) |-> Blank]
    /\ zero = 0
    /\ linesUsed = InitPageLines
    /\ cursor = 0
    /\ written = 0
    /\ deleted = {}

\* The application writes the cursor's line.
WriteLine ==
    /\ written < MaxWrites
    /\ written' = written + 1
    /\ storage' = [storage EXCEPT ![RingIndex(zero, size, cursor)] =
                      [c \in Cols |-> written + 1]]
    /\ UNCHANGED <<size, zero, linesUsed, pageLines, limit, cursor, deleted>>

MoveCursor ==
    /\ \E line \in 0..(pageLines - 1) : cursor' = line
    /\ UNCHANGED <<ring, linesUsed, pageLines, limit, written, deleted>>

\* Mutant: only the lines taken beyond the unused ones are reset.
ScrollUpNoReset(n) ==
    LET newSize == IF limit = Infinite /\ size - linesUsed < n THEN linesUsed + n ELSE size
        newZero == (zero + newSize + n) % newSize
        taken == Lower(n, newSize - linesUsed)
    IN  /\ newSize <= MaxSize
        /\ size' = newSize
        /\ zero' = newZero
        /\ linesUsed' = linesUsed + taken
        /\ storage' = Cleared(Extended(newSize), newZero, newSize, pageLines - n + taken, pageLines - 1)
        /\ UNCHANGED <<pageLines, limit, cursor, written, deleted>>

\* scrollUp(n): the page moves down the ring by n lines.  Unused lines are
\* taken first, allocating some if the history is unlimited; beyond that the
\* oldest lines of the history are reused.  In every branch of the code the
\* n lines at the bottom of the new page are reset.
ScrollUp(n) ==
    LET available == size - linesUsed
        newSize == IF limit = Infinite /\ available < n THEN linesUsed + n ELSE size
        newZero == (zero + newSize + n) % newSize
    IN  /\ newSize <= MaxSize
        /\ size' = newSize
        /\ zero' = newZero
        /\ linesUsed' = linesUsed + Lower(n, newSize - linesUsed)
        /\ storage' = Cleared(Extended(newSize), newZero, newSize, pageLines - n, pageLines - 1)
        /\ UNCHANGED <<pageLines, limit, cursor, written, deleted>>

\* scrollUp(n, margin) with a margin smaller than the page: lines or parts of
\* lines are moved up inside the margin, the last n are reset.
ScrollUpRegion(n, top, bottom, cs) ==
    LET n2 == Lower(n, bottom - top + 1)
    IN  /\ storage' = [j \in 0..(size - 1) |->
              LET i == OffsetOf(zero, size, j)
              IN  IF i \notin top..bottom THEN storage[j]
                  ELSE Merge(storage[j], IF i + n2 <= bottom THEN At(i + n2) ELSE Blank, cs)]
        /\ UNCHANGED <<size, zero, linesUsed, pageLines, limit, cursor, written, deleted>>

\* scrollDown() of the whole page: the ring is rotated back, so the newest
\* lines of the history come to the top of the page, and the n topmost lines
\* are reset through mainPage().  That span is contiguous memory from the
\* first line on; it leaves the vector instead of following the ring.
ScrollDownPage(vN) ==
    LET n == Lower(vN, pageLines)
        newZero == (zero + size - n) % size
    IN  /\ zero' = newZero
        /\ storage' = [j \in 0..(size - 1) |->
              IF j \in newZero..(newZero + n - 1) THEN Blank ELSE storage[j]]
        /\ UNCHANGED <<size, linesUsed, pageLines, limit, cursor, written, deleted>>

\* scrollDown() between a top and a bottom margin: std::rotate over the ring.
ScrollDownVertical(vN, top, bottom) ==
    LET n == Lower(vN, bottom - top + 1)
    IN  /\ storage' = [j \in 0..(size - 1) |->
              LET i == OffsetOf(zero, size, j)
              IN  IF i \notin top..bottom THEN storage[j]
                  ELSE IF i - n >= top THEN At(i - n) ELSE Blank]
        /\ UNCHANGED <<size, zero, linesUsed, pageLines, limit, cursor, written, deleted>>

\* scrollDown() inside a left and right margin: the code copies the lines
\* bottom, bottom - 1, ..., bottom - n, each from n lines above it, then
\* resets the n topmost ones.
ScrollDownInside(vN, top, bottom) ==
    LET n == Lower(vN, bottom - top + 1)
        copied[k \in 0..(n + 1)] ==
            IF k = 0 THEN storage
            ELSE LET t == RingIndex(zero, size, bottom - k + 1)
                     s == RingIndex(zero, size, bottom - k + 1 - n)
                 IN  [copied[k - 1] EXCEPT ![t] = Merge(copied[k - 1][t], copied[k - 1][s], InnerCols)]
        moved == copied[n + 1]
    IN  /\ storage' = [j \in 0..(size - 1) |->
              IF OffsetOf(zero, size, j) \in top..(top + n - 1)
              THEN Merge(moved[j], Blank, InnerCols) ELSE moved[j]]
        /\ UNCHANGED <<size, zero, linesUsed, pageLines, limit, cursor, written, deleted>>

HistoryCells == {At(-i)[c] : i \in 1..historyLineCount, c \in Cols} \ {0}

\* ED 3: clearHistory().
ClearHistory ==
    /\ linesUsed' = pageLines
    /\ deleted' = deleted \cup HistoryCells
    /\ UNCHANGED <<ring, pageLines, limit, cursor, written>>

\* RIS: reset(), and the cursor goes home.
Reset ==
    /\ linesUsed' = pageLines
    /\ zero' = 0
    /\ storage' = Cleared(storage, 0, size, 0, pageLines - 1)
    /\ cursor' = 0
    /\ deleted' = deleted \cup HistoryCells
    /\ UNCHANGED <<size, pageLines, limit, written>>

\* Lines that growLines() pulls out of the history: only if the cursor is on
\* the last line of the page.
LinesPulled(newHeight) ==
    IF cursor + 1 = pageLines THEN Lower(newHeight - pageLines, historyLineCount) ELSE 0

\* resize() to more lines: growLines(), then applyPageSizeToMainDisplay()
\* clamps the cursor.
GrowLines(newHeight) ==
    LET pulled == LinesPulled(newHeight)
        grown == pageLines + pulled
        maxHistory == IF limit = Infinite THEN size - grown ELSE limit
        newSize == Higher(size, maxHistory + newHeight)
    IN  /\ newHeight > pageLines
        /\ newSize <= MaxSize
        /\ zero' = (zero + size - pulled) % size
        /\ size' = newSize
        /\ storage' = Extended(newSize)
        /\ pageLines' = newHeight
        /\ linesUsed' = Lower(linesUsed + newHeight - grown, newSize)
        /\ cursor' = Clamp(cursor + pulled, 0, newHeight - 1)
        /\ UNCHANGED <<limit, written, deleted>>

\* Mutant: lines are cut off at the bottom even if the cursor is on them.
ShrinkLinesCutsCursor(newHeight) ==
    /\ newHeight < pageLines
    /\ pageLines' = newHeight
    /\ linesUsed' = linesUsed - (pageLines - newHeight)
    /\ cursor' = Clamp(cursor, 0, newHeight - 1)
    /\ UNCHANGED <<ring, limit, written, deleted>>

\* resize() to fewer lines: shrinkLines() drops lines below the cursor, then
\* pushes lines from the top of the page into the history.
ShrinkLines(newHeight) ==
    LET cutoff == Lower(pageLines - newHeight, pageLines - (cursor + 1))
        pushedUp == pageLines - newHeight - cutoff
    IN  /\ newHeight < pageLines
        /\ zero' = (zero + size + pushedUp) % size
        /\ pageLines' = newHeight
        /\ linesUsed' = linesUsed - cutoff
        /\ cursor' = Clamp(cursor - pushedUp, 0, newHeight - 1)
        /\ UNCHANGED <<storage, size, limit, written, deleted>>

\* Mutant: _linesUsed is not cut with the ring.
SetMaxHistoryLineCountUncut(newLimit) ==
    LET newSize == IF newLimit = Infinite THEN size ELSE pageLines + newLimit
    IN  /\ limit' = newLimit
        /\ size' = newSize
        /\ zero' = 0
        /\ storage' = [j \in 0..(newSize - 1) |-> IF j < size THEN At(j) ELSE Blank]
        /\ UNCHANGED <<linesUsed, pageLines, cursor, written, deleted>>

\* setMaxHistoryLineCount(): rezero() makes offset 0 index 0, then the vector
\* is cut or extended at its end, which is where the newest history is.
SetMaxHistoryLineCount(newLimit) ==
    LET newSize == IF newLimit = Infinite THEN size ELSE pageLines + newLimit
    IN  /\ limit' = newLimit
        /\ size' = newSize
        /\ zero' = 0
        /\ storage' = [j \in 0..(newSize - 1) |-> IF j < size THEN At(j) ELSE Blank]
        /\ linesUsed' = Lower(linesUsed, newSize)
        /\ UNCHANGED <<pageLines, cursor, written, deleted>>

-----------------------------------------------------------------------------
Margins == {m \in (0..(pageLines - 1)) \X (0..(pageLines - 1)) : m[1] < m[2]}
FullMargin == <<0, pageLines - 1>>

Next ==
    \/ WriteLine
    \/ MoveCursor
    \/ \E n \in 1..MaxScroll :
          \/ ScrollUp(n)
          \/ \E m \in Margins \ {FullMargin} :
                "region" \in Ops /\ ScrollUpRegion(n, m[1], m[2], Cols)
          \/ \E m \in Margins :
                "inner" \in Ops /\ ScrollUpRegion(n, m[1], m[2], InnerCols)
          \/ "down" \in Ops /\ ScrollDownPage(n)
          \/ \E m \in Margins \ {FullMargin} :
                "region" \in Ops /\ ScrollDownVertical(n, m[1], m[2])
          \/ \E m \in Margins : "innerDown" \in Ops /\ ScrollDownInside(n, m[1], m[2])
    \/ "clear" \in Ops /\ ClearHistory
    \/ "reset" \in Ops /\ Reset
    \/ \E h \in 1..MaxPageLines :
          \/ "grow" \in Ops /\ GrowLines(h)
          \/ "shrink" \in Ops /\ ShrinkLines(h)
    \/ \E l \in (0..MaxLimit) \cup {Infinite} : "limit" \in Ops /\ SetMaxHistoryLineCount(l)

Spec == Init /\ [][Next]_vars

-----------------------------------------------------------------------------
\* Types: the first line of the page is an index of the ring and the cursor is
\* on the page, however the ring is rotated, cut and extended.
TypeOK ==
    /\ size \in Nat \ {0}
    /\ storage \in [0..(size - 1) -> Line]
    /\ zero \in 0..(size - 1)
    /\ linesUsed \in Nat
    /\ pageLines \in Nat \ {0}
    /\ limit \in Nat \cup {Infinite}
    /\ cursor \in 0..(pageLines - 1)
    /\ written \in 0..MaxWrites
    /\ deleted \subseteq Cells

\* verifyState(): the ring holds the page and the history, whatever sequence
\* of scrolls, resizes, resets and configuration changes came before.
VerifyState ==
    /\ size >= totalLineCount
    /\ size >= linesUsed
    /\ linesUsed >= pageLines

\* The grid as its user sees it.
History == [i \in 1..historyLineCount |-> At(i - 1 - historyLineCount)]
Page == [i \in 1..pageLines |-> At(i - 1)]

Abstract == INSTANCE Scrollback
    WITH Cells <- Cells, NoCell <- 0, Unlimited <- Infinite, HistoryLimit <- InitLimit,
         PageLines <- InitPageLines, history <- History, page <- Page

\* Scrolling, with and without margins, clearing and resetting do to the page
\* and the history exactly what Scrollback says, although no line is moved.
RefinesScrollback == Abstract!SbSpec

\* A resize to fewer lines keeps the line the cursor is on and every line above
\* it, as shrinkLines() pushes lines into the history.
ShrinkKeepsLines ==
    [][pageLines' < pageLines =>
          \A i \in 0..(cursor + historyLineCount) :
              i <= cursor' + historyLineCount' /\ At(cursor - i) = At(cursor - i)']_vars

-----------------------------------------------------------------------------
(* What comments, tests and documentation say and the code does not do.    *)

\* "Scrolls down by n lines within the given margin."
ScrollDownMovesMargin ==
    [][\A n \in 1..MaxScroll : \A m \in Margins :
          ScrollDownInside(n, m[1], m[2]) =>
              Page' = Abstract!Shifted(m[1] + 1, m[2] + 1, -n, InnerCols)]_vars

\* A full-screen scrollDown() wipes out the bottom lines; the history, which is
\* not on the screen, stays as it is.
ScrollDownKeepsHistory ==
    [][\A n \in 1..MaxScroll : ScrollDownPage(n) => History' = History]_vars

\* The lines that a full-screen scrollDown() makes room for are blank.
ScrollDownRevealsBlank ==
    [][\A n \in 1..MaxScroll : ScrollDownPage(n) =>
          \A i \in 1..Lower(n, pageLines) : Page'[i] = Blank]_vars

\* Growing keeps the lines of the page: they move down by the lines pulled out
\* of the history, and what else is needed is added at the bottom.
GrowKeepsPage ==
    [][pageLines' > pageLines =>
          \A i \in DOMAIN Page : Page'[i + LinesPulled(pageLines')] = Page[i]]_vars

\* The history limit is the most lines that can be scrolled back to.
HistoryWithinLimit == limit # Infinite => historyLineCount <= limit

\* clearHistory() deletes all scrollback lines: none is ever seen again.
ClearedIsGone ==
    \A line \in {Page[i] : i \in DOMAIN Page} \cup {History[i] : i \in DOMAIN History} :
        \A c \in Cols : line[c] \notin deleted

\* With an unlimited history every line that leaves the page is preserved.
UnlimitedKeepsAll ==
    [][limit = Infinite => \A n \in 1..MaxScroll : ScrollUp(n) =>
          \A i \in DOMAIN History : i \in DOMAIN History' /\ History'[i] = History[i]]_vars

\* A change of the limit preserves as many of the newest lines of the history
\* as the new limit says.
LimitKeepsNewest ==
    [][limit' # limit =>
          \A i \in 1..historyLineCount :
              limit' = Infinite \/ i <= limit' => At(-i)' = At(-i)]_vars
=============================================================================
