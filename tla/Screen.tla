------------------------------- MODULE Screen -------------------------------
(***************************************************************************)
(* The cursors, pages, margins, modes and tab stops that the control       *)
(* functions of a terminal work on: vtbackend's Screen and Terminal.       *)
(*                                                                         *)
(* The cells are left to PageEdit, the lines of the history to Grid.  An   *)
(* action is one sequence or one character that the parser delivers, all   *)
(* under the terminal lock.  Lines and columns start at 0, as in the code. *)
(***************************************************************************)
EXTENDS Integers, Sequences, FiniteSetsExt, SequencesExt

CONSTANTS
    LineCounts,     \* numbers of lines that the window can have
    ColumnCounts,   \* numbers of columns
    TabWidth,       \* 8 in the code
    MaxParam,       \* bound: largest parameter of a sequence
    MaxChanges      \* bound: sequences that change more than the cursor

ASSUME ScreenAssumption ==
    /\ LineCounts \subseteq Nat \ {0, 1} /\ ColumnCounts \subseteq Nat \ {0}
    /\ TabWidth \in Nat \ {0} /\ MaxParam \in Nat /\ MaxChanges \in Nat

VARIABLES
    term,       \* the Terminal
    changes     \* number of sequences that changed more than the cursor

vars == <<term, changes>>

Param == 0..MaxParam
Mode == {"AutoWrap", "Origin", "LeftRightMargin", "UseAlternateScreen", "AutomaticNewLine",
         "KeyboardAction"}
SavableMode == {"AutoWrap", "Origin", "LeftRightMargin"}    \* bound: those XTSAVE is used for

Sizes == [lines : LineCounts, columns : ColumnCounts]
FullMargin(page) == [top |-> 0, bottom |-> page.lines - 1, left |-> 0, right |-> page.columns - 1]

\* Cursor; the graphics rendition, the charsets and the hyperlink are left out.
HomeCursor == [line |-> 0, col |-> 0, autoWrap |-> TRUE, origin |-> FALSE, wrap |-> FALSE]

\* Terminal::Terminal(), without a status line.
Init ==
    /\ changes = 0
    /\ \E page \in Sizes :
       LET status == [lines |-> 1, columns |-> page.columns]
           blank(p) == [page |-> p, cursor |-> HomeCursor, saved |-> HomeCursor]
       IN  term = [size    |-> page,
                   screens |-> [primary |-> blank(page), alternate |-> blank(page), status |-> blank(status)],
                   margins |-> [main |-> FullMargin(page), status |-> FullMargin(status)],
                   current |-> "primary",       \* _currentScreen
                   type    |-> "primary",       \* _currentScreenType
                   active  |-> "Main",          \* _activeStatusDisplay
                   display |-> "None",          \* _statusDisplayType
                   savedDisplay |-> "",         \* _savedStatusDisplayType, "" for nullopt
                   modes   |-> {"AutoWrap"},
                   savedModes |-> [m \in SavableMode |-> <<>>],
                   csiS    |-> "SCOSC",         \* the function of CSI s
                   tabs    |-> <<>>,
                   pty     |-> page]            \* page size that the application was told

-----------------------------------------------------------------------------
(* Coordinates (Screen.h).                                                 *)

Clamped(x, low, high) == Min({Max({x, low}), high})

PageOf(t) == t.screens[t.current].page
CursorOf(t) == t.screens[t.current].cursor
MarginOf(t) == t.margins[IF t.current = "status" THEN "status" ELSE "main"]
SetCursor(t, c) == [t EXCEPT !.screens[t.current].cursor = c]

ContainsLine(m, line) == m.top <= line /\ line <= m.bottom
ContainsColumn(m, col) == m.left <= col /\ col <= m.right

IsCursorInsideMargins(t) ==
    /\ ContainsLine(MarginOf(t), CursorOf(t).line)
    /\ "LeftRightMargin" \in t.modes => ContainsColumn(MarginOf(t), CursorOf(t).col)

ClampedLine(t, line) == Clamped(line, 0, PageOf(t).lines - 1)
ClampedColumn(t, col) == Clamped(col, 0, PageOf(t).columns - 1)
ClampToScreen(c, page) ==
    [c EXCEPT !.line = Clamped(@, 0, page.lines - 1), !.col = Clamped(@, 0, page.columns - 1)]
ClampToOrigin(c, m) ==
    [c EXCEPT !.line = Clamped(@, 0, m.bottom), !.col = Clamped(@, 0, m.right)]
ClampCoordinate(c, page, m) == IF c.origin THEN ClampToOrigin(c, m) ELSE ClampToScreen(c, page)

\* logicalCursorPosition(): relative to the margins in origin mode.
LogicalPosition(t) ==
    LET c == CursorOf(t) IN
    IF c.origin THEN <<c.line - MarginOf(t).top, c.col - MarginOf(t).left>> ELSE <<c.line, c.col>>

-----------------------------------------------------------------------------
(* Cursor movement.                                                        *)

\* Mutant: origin mode moves to an unclamped position.
MoveCursorToUnclamped(t, line, col) ==
    LET c == CursorOf(t)
        o == IF c.origin THEN <<MarginOf(t).top, MarginOf(t).left>> ELSE <<0, 0>>
        at == [c EXCEPT !.line = line + o[1], !.col = col + o[2], !.wrap = FALSE]
    IN  SetCursor(t, IF c.origin THEN at ELSE ClampToScreen(at, PageOf(t)))

MoveCursorTo(t, line, col) ==
    LET c == CursorOf(t)
        o == IF c.origin THEN <<MarginOf(t).top, MarginOf(t).left>> ELSE <<0, 0>>
    IN  SetCursor(t, ClampToScreen([c EXCEPT !.line = line + o[1], !.col = col + o[2],
                                             !.wrap = FALSE], PageOf(t)))

SetCurrentColumn(t, n) ==
    LET c == CursorOf(t)
        col == IF c.origin THEN MarginOf(t).left + n ELSE n
    IN  SetCursor(t, [c EXCEPT !.col = Min({col, PageOf(t).columns - 1}), !.wrap = FALSE])

\* moveCursorUp() and moveCursorDown()
MoveLines(t, n) ==
    LET c == CursorOf(t)
        m == MarginOf(t)
    IN  SetCursor(t, [c EXCEPT !.wrap = FALSE,
            !.line = IF ContainsLine(m, @) THEN Clamped(@ + n, m.top, m.bottom)
                                           ELSE ClampedLine(t, @ + n)])

MoveCursorForward(t, n) ==
    LET c == CursorOf(t)
        m == MarginOf(t)
    IN  SetCursor(t, [c EXCEPT !.wrap = FALSE,
            !.col = IF ContainsColumn(m, @) THEN Clamped(@ + n, m.left, m.right)
                                            ELSE ClampedColumn(t, @ + n)])

\* Outside the horizontal margins the code adds n as well.
MoveCursorBackward(t, n) ==
    LET c == CursorOf(t)
        m == MarginOf(t)
    IN  SetCursor(t, [c EXCEPT !.wrap = FALSE,
            !.col = IF ContainsColumn(m, @) THEN Clamped(@ - n, m.left, m.right)
                                            ELSE ClampedColumn(t, @ + n)])

MoveCursorToNextLine(t, n) == MoveCursorTo(t, LogicalPosition(t)[1] + n, 0)
MoveCursorToPrevLine(t, n) ==
    LET line == LogicalPosition(t)[1] IN MoveCursorTo(t, line - Min({n, line}), 0)

\* BS; a pending wrap stays.
Backspace(t) ==
    LET c == CursorOf(t) IN IF c.col = 0 THEN t ELSE SetCursor(t, [c EXCEPT !.col = @ - 1])

\* linefeed(column): what it scrolls is left to Grid.
LinefeedTo(t, col) ==
    LET c == [CursorOf(t) EXCEPT !.wrap = FALSE, !.col = col]
    IN  SetCursor(t, IF c.line = MarginOf(t).bottom THEN c ELSE [c EXCEPT !.line = @ + 1])

\* linefeed(): like CR LF for text that came through the stdout fast pipe.  The
\* lock that a smooth scroll gives up first is in RenderPipeline; before it only
\* modes are read, so that what others do meanwhile are steps before this one.
Linefeed(t, fastPipe) ==
    LinefeedTo(t, IF fastPipe \/ "AutomaticNewLine" \in t.modes THEN MarginOf(t).left
                  ELSE CursorOf(t).col)

\* index(), reverseIndex(), backIndex(), forwardIndex()
Index(t) == IF CursorOf(t).line = MarginOf(t).bottom THEN t ELSE MoveLines(t, 1)
ReverseIndex(t) == IF CursorOf(t).line = MarginOf(t).top THEN t ELSE MoveLines(t, -1)
BackIndex(t) == IF CursorOf(t).col = MarginOf(t).left THEN t ELSE MoveCursorForward(t, 1)
ForwardIndex(t) == IF CursorOf(t).col = MarginOf(t).right THEN t ELSE MoveCursorForward(t, 1)

-----------------------------------------------------------------------------
(* Text.                                                                   *)

CrlfIfWrapPending(t) ==
    IF CursorOf(t).wrap /\ CursorOf(t).autoWrap THEN LinefeedTo(t, MarginOf(t).left) ELSE t

\* clearAndAdvance(); inside the margins there is one column less to advance to.
ClearAndAdvance(t, width) ==
    LET c == CursorOf(t)
        inside == "LeftRightMargin" \in t.modes /\ IsCursorInsideMargins(t)
        available == (IF inside THEN MarginOf(t).right ELSE PageOf(t).columns) - c.col - 1
    IN  SetCursor(t, IF width <= available THEN [c EXCEPT !.col = @ + width]
                     ELSE [c EXCEPT !.wrap = c.autoWrap \/ @])

\* writeTextInternal(): a codepoint of that width, or 0 if it joins the last one.
WriteText(t, width) == ClearAndAdvance(CrlfIfWrapPending(t), width)

\* n codepoints of width 1, one after the other.
WriteTimes(t, n) ==
    LET written[k \in 0..n] == IF k = 0 THEN t ELSE WriteText(written[k - 1], 1)
    IN  written[n]

\* Terminal::maxBulkTextSequenceWidth(): what the parser may hand over at once;
\* the difference is taken as unsigned.
MaxBulkTextSequenceWidth(t) ==
    IF t.type = "primary" THEN t.margins.main.right - CursorOf(t).col ELSE 0

\* advanceCursorAfterWrite(), reached by tryEmplaceChars() and
\* emplaceCharsIntoCurrentLine(): US-ASCII that stays in the input buffer.
AdvanceCursorAfterWrite(t, n) ==
    LET c == CursorOf(t)
    IN  SetCursor(t, IF c.col + n < PageOf(t).columns THEN [c EXCEPT !.col = @ + n]
                     ELSE [c EXCEPT !.col = @ + n - 1, !.wrap = TRUE])

\* Mutant: a pending wrap is overlooked.
WriteBulkUnwrapped(t, n) == AdvanceCursorAfterWrite(t, n)

\* writeText(text, cellCount)
WriteBulk(t, n) ==
    IF MarginOf(t).right + 1 = PageOf(t).columns
    THEN AdvanceCursorAfterWrite(CrlfIfWrapPending(t), n)
    ELSE WriteTimes(t, n)

-----------------------------------------------------------------------------
(* Tab stops.                                                              *)

MoveCursorToNextTab(t) ==
    LET c == CursorOf(t)
        logical == LogicalPosition(t)[2]
        next == {i \in DOMAIN t.tabs : t.tabs[i] > c.col}
        right == MarginOf(t).right
    IN  CASE next # {} -> MoveCursorForward(t, t.tabs[Min(next)] - logical)
          [] next = {} /\ t.tabs # <<>> /\ c.col < right -> MoveCursorForward(t, right - logical)
          [] t.tabs = <<>> /\ c.col < right ->
                MoveCursorForward(t, Min({TabWidth - (c.col % TabWidth), PageOf(t).columns - logical}))
          [] OTHER -> t

CursorForwardTab(t, n) ==
    LET moved[k \in 0..n] == IF k = 0 THEN t ELSE MoveCursorToNextTab(moved[k - 1])
    IN  moved[n]

\* cursorBackwardTab(): one stop after the other if any are set, else all at once.
TabsBefore(t) == {i \in DOMAIN t.tabs : t.tabs[i] < LogicalPosition(t)[2]}
PreviousTab(t) ==
    SetCurrentColumn(t, IF TabsBefore(t) = {} THEN MarginOf(t).left ELSE t.tabs[Max(TabsBefore(t))])

\* The loop ends where no stop is left; "more" says that it goes on.
PreviousTabs(t, n) ==
    LET moved[k \in 0..n] ==
            IF k = 0 THEN [term |-> t, more |-> TRUE]
            ELSE LET u == moved[k - 1].term IN
                 IF moved[k - 1].more THEN [term |-> PreviousTab(u), more |-> TabsBefore(u) # {}]
                 ELSE moved[k - 1]
    IN  moved[n].term

CursorBackwardTab(t, n) ==
    LET col == CursorOf(t).col
        m == (col + 1) % TabWidth
    IN  IF n = 0 THEN t
        ELSE IF t.tabs # <<>> THEN PreviousTabs(t, n)
        ELSE IF col < TabWidth THEN SetCurrentColumn(t, 0)
        ELSE MoveCursorBackward(t, (IF m = 0 THEN n * TabWidth ELSE (n - 1) * TabWidth + m) - 1)

\* std::sort()
SortTabs(q) ==
    LET order == CHOOSE p \in [DOMAIN q -> DOMAIN q] :
                    /\ \A k \in DOMAIN q : \E i \in DOMAIN q : p[i] = k
                    /\ \A i, j \in DOMAIN q : i < j => q[p[i]] <= q[p[j]]
    IN  [i \in DOMAIN q |-> q[order[i]]]

SetTabUnderCursor(t) == [t EXCEPT !.tabs = SortTabs(Append(@, CursorOf(t).col))]

\* The default stops are written down first; the first stop that matches goes.
ClearTabUnderCursor(t) ==
    LET defaults == [i \in 1..((PageOf(t).columns - 1) \div TabWidth) |-> i * TabWidth - 1]
        tabs == IF t.tabs = <<>> THEN defaults ELSE t.tabs
        here == {i \in DOMAIN tabs : tabs[i] = CursorOf(t).col}
    IN  [t EXCEPT !.tabs = IF here = {} THEN tabs ELSE RemoveAt(tabs, Min(here))]

ClearAllTabs(t) == [t EXCEPT !.tabs = <<>>]

\* TBC
HorizontalTabClear(t, ps) ==
    CASE ps = 0 -> ClearTabUnderCursor(t) [] ps = 3 -> ClearAllTabs(t) [] OTHER -> t

-----------------------------------------------------------------------------
(* Margins and page sizes.                                                 *)

\* Terminal::setTopBottomMargin() and setLeftRightMargin(); Terminal::pageSize()
\* is that of the pseudo terminal.
SetTopBottomMargin(t, top, bottom) ==
    LET low == Max({0, top})
        high == Min({t.pty.lines - 1, bottom})
    IN  IF low < high THEN [t EXCEPT !.margins.main.top = low, !.margins.main.bottom = high] ELSE t

SetLeftRightMargin(t, left, right) ==
    LET low == Max({0, left})
        high == Min({t.pty.columns - 1, right})
    IN  IF low < high THEN [t EXCEPT !.margins.main.left = low, !.margins.main.right = high] ELSE t

StatusLineHeight(t) == IF t.display = "None" THEN 0 ELSE 1
MainPage(t) == [t.size EXCEPT !.lines = @ - StatusLineHeight(t)]

\* Grid::resize(): where the cursor goes.  shift stands for the lines that reflow
\* and the history move the primary screen's cursor by.
ResizedCursor(c, old, new, reflow, shift) ==
    LET col == IF new.columns > old.columns THEN c.col + (IF c.wrap THEN 1 ELSE 0)
               ELSE IF new.columns < old.columns /\ ~reflow THEN c.col + Min({c.col, new.columns})
               ELSE c.col
        pushUp == Max({0, (old.lines - new.lines) - (old.lines - (c.line + 1))})
        line == IF new.lines < old.lines THEN c.line - pushUp ELSE c.line
    IN  IF new = old THEN c ELSE [c EXCEPT !.col = col, !.line = IF reflow THEN line + shift ELSE line]

\* Screen::applyPageSizeToMainDisplay()
ApplyPageSizeToScreen(t, s, shift) ==
    LET new == MainPage(t)
        c == t.screens[s].cursor
        d == ClampCoordinate(ResizedCursor(c, t.screens[s].page, new, s = "primary", shift),
                             new, t.margins.main)
    IN  [t EXCEPT !.screens[s].page = new,
                  !.screens[s].cursor = [d EXCEPT !.wrap = @ /\ c.col >= new.columns],
                  !.margins.main = FullMargin(new)]

\* Tab stops are taken from the end as long as they are off the page.
TruncateTabs(tabs, columns) ==
    SubSeq(tabs, 1, Max({0} \cup {i \in DOMAIN tabs : tabs[i] < columns}))

\* Terminal::applyPageSizeToMainDisplay(): also the status lines and the tab stops;
\* the cursor of a status line stays.
ApplyPageSizeToMainDisplay(t, s, shift) ==
    [ApplyPageSizeToScreen(t, s, shift) EXCEPT
        !.screens.status.page.columns = t.size.columns,
        !.margins.status = FullMargin([t.size EXCEPT !.lines = StatusLineHeight(t)]),
        !.tabs = TruncateTabs(@, t.size.columns)]

\* Terminal::resizeScreen(): only the screen that is shown, the other one when it
\* is switched to.
ResizeScreen(t, size, shift) ==
    LET u == [t EXCEPT !.size = size]
    IN  [ApplyPageSizeToMainDisplay([u EXCEPT !.margins.main = FullMargin(MainPage(u))], t.type, shift)
            EXCEPT !.pty = MainPage(u)]

\* DECALN: the margins of the screen written to.
ScreenAlignmentPattern(t) ==
    MoveCursorTo([t EXCEPT !.margins[IF t.current = "status" THEN "status" ELSE "main"]
                                = FullMargin(PageOf(t))], 0, 0)

-----------------------------------------------------------------------------
(* Modes, screens and the status display.                                  *)

\* Mutant: the screen that is switched to keeps its size.
SetScreenUnsized(t, s, shift) ==
    IF s = t.type THEN t ELSE [t EXCEPT !.current = s, !.type = s]

SetScreen(t, s, shift) ==
    IF s = t.type THEN t
    ELSE ApplyPageSizeToMainDisplay([t EXCEPT !.current = s, !.type = s], s, shift)

SetStatusDisplay(t, display, shift) ==
    LET u == [t EXCEPT !.display = display]
    IN  IF t.display = display THEN t
        ELSE IF (t.display = "None") # (display = "None") THEN ResizeScreen(u, t.size, shift)
        ELSE u

\* setActiveStatusDisplay(): Main or StatusLine
SetActiveStatusDisplay(t, active) ==
    IF t.active = active THEN t
    ELSE [t EXCEPT !.active = active, !.current = IF active = "Main" THEN t.type ELSE "status"]

PushStatusDisplay(t, shift) ==
    SetStatusDisplay([t EXCEPT !.savedDisplay = IF @ = "" THEN t.display ELSE @], "Indicator", shift)
PopStatusDisplay(t, shift) ==
    IF t.savedDisplay = "" THEN t
    ELSE [SetStatusDisplay(t, t.savedDisplay, shift) EXCEPT !.savedDisplay = ""]

RecordMode(t, m, enable) == [t EXCEPT !.modes = IF enable THEN @ \cup {m} ELSE @ \ {m}]

SetCursorMode(t, m, enable) ==
    SetCursor(t, IF m = "AutoWrap" THEN [CursorOf(t) EXCEPT !.autoWrap = enable]
                                   ELSE [CursorOf(t) EXCEPT !.origin = enable])

\* restoreCursor(), with the two modes that are set along.
RestoreCursor(t) ==
    LET saved == t.screens[t.current].saved
        u == SetCursor(t, ClampCoordinate(saved, PageOf(t), MarginOf(t)))
    IN  RecordMode(RecordMode(u, "AutoWrap", saved.autoWrap), "Origin", saved.origin)

SaveCursor(t) == [t EXCEPT !.screens[t.current].saved = CursorOf(t)]

SetAnsiMode(t, m, enable, shift) ==
    RecordMode(IF m # "KeyboardAction" THEN t
               ELSE IF enable THEN PushStatusDisplay(t, shift) ELSE PopStatusDisplay(t, shift),
               m, enable)

\* Mutant: DECLRMM does not change the meaning of CSI s.
SetLeftRightMarginModeKeepsSequences(t, enable) ==
    IF enable THEN t
    ELSE [t EXCEPT !.margins.main.left = 0, !.margins.main.right = t.size.columns - 1]

SetLeftRightMarginMode(t, enable) ==
    IF enable THEN [t EXCEPT !.csiS = "DECSLRM"]
    ELSE [t EXCEPT !.csiS = "SCOSC",
                   !.margins.main.left = 0, !.margins.main.right = t.size.columns - 1]

\* setMode(DECMode, bool): the modes that the state above depends on.
SetDECMode(t, m, enable, shift) ==
    RecordMode(CASE m \in {"AutoWrap", "Origin"} -> SetCursorMode(t, m, enable)
                 [] m = "LeftRightMargin" -> SetLeftRightMarginMode(t, enable)
                 [] m = "UseAlternateScreen" ->
                        SetScreen(t, IF enable THEN "alternate" ELSE "primary", shift)
                 [] m = "SaveCursor" -> IF enable THEN SaveCursor(t) ELSE RestoreCursor(t),
               m, enable)

\* Modes::save() and restore(): only the bit comes back.
SaveMode(t, m) == [t EXCEPT !.savedModes[m] = Append(@, m \in t.modes)]
RestoreMode(t, m) ==
    IF t.savedModes[m] = <<>> THEN t
    ELSE [RecordMode(t, m, Last(t.savedModes[m])) EXCEPT !.savedModes[m] = Front(@)]

\* DECSTR
SoftReset(t, shift) ==
    LET u == SetDECMode([t EXCEPT !.screens[t.current].saved = HomeCursor], "Origin", FALSE, shift)
        v == SetDECMode(SetAnsiMode(u, "KeyboardAction", FALSE, shift), "AutoWrap", FALSE, shift)
        w == SetLeftRightMargin(SetTopBottomMargin(v, 0, t.size.lines - 1), 0, t.size.columns - 1)
    IN  SetStatusDisplay(SetActiveStatusDisplay(w, "Main"), "None", shift)

\* RIS: the function of CSI s, the saved cursors and the saved display stay.
HardReset(t, shift) ==
    LET u == ApplyPageSizeToMainDisplay(SetScreen(t, "primary", shift), "alternate", shift)
        v == [u EXCEPT !.modes = {"AutoWrap"}, !.savedModes = [m \in SavableMode |-> <<>>],
                       !.screens = [s \in DOMAIN @ |-> [@[s] EXCEPT !.cursor = HomeCursor]],
                       !.tabs = <<>>,
                       !.margins.status = FullMargin(u.screens.status.page)]
        w == [SetActiveStatusDisplay(v, "Main") EXCEPT !.margins.main = FullMargin(MainPage(u))]
    IN  SetStatusDisplay(w, "None", shift)

-----------------------------------------------------------------------------
(* The control functions: Screen::apply() and executeControlCode().        *)

Moved(t) == term' = t /\ UNCHANGED changes
Changed(t) == changes < MaxChanges /\ changes' = changes + 1 /\ term' = t

\* How far reflow and the history may move a cursor by.
Shift == {-1, 0, 1}
LastLine == Max(LineCounts)     \* bound: line feeds past the page


\* CHA 0 and HPA 0 leave the cursor left of the page.  A cell written there is
\* before the start of a line, which is undefined; as bounds, BS moves no further
\* left from there and no tab stop is set there.
MayWrite == CursorOf(term).line < LastLine /\ CursorOf(term).col >= 0

Graphic(width) == MayWrite /\ Moved(WriteText(term, width))
GraphicBulk(n) ==
    /\ MayWrite
    /\ n \in 1..MaxBulkTextSequenceWidth(term)
    /\ Moved(WriteBulk(term, n))
LF ==
    /\ CursorOf(term).line < LastLine
    /\ \E fastPipe \in BOOLEAN : Moved(Linefeed(term, fastPipe))
BS == CursorOf(term).col >= 0 /\ Moved(Backspace(term))
TAB == Moved(MoveCursorToNextTab(term))
CR == Moved(SetCurrentColumn(term, 0))
IND == Moved(Index(term))       \* also VT and FF
RI == Moved(ReverseIndex(term))
DECBI == Moved(BackIndex(term))
DECFI == Moved(ForwardIndex(term))
CBT(n) == Moved(CursorBackwardTab(term, n))
CHT(n) == Moved(CursorForwardTab(term, n))
CHA(n) == Moved(SetCurrentColumn(term, n - 1))      \* also HPA
CNL(n) == Moved(MoveCursorToNextLine(term, n))      \* also NEL
CPL(n) == Moved(MoveCursorToPrevLine(term, n))
CUB(n) == Moved(MoveCursorBackward(term, n))
CUD(n) == Moved(MoveLines(term, n))
CUF(n) == Moved(MoveCursorForward(term, n))         \* also HPR
CUU(n) == Moved(MoveLines(term, -n))
CUP(line, col) == Moved(MoveCursorTo(term, line - 1, col - 1))      \* also HVP
VPA(n) == Moved(MoveCursorTo(term, n - 1, CursorOf(term).col))

\* REP: the room up to the right margin is taken as unsigned.
REP(n) ==
    LET room == MarginOf(term).right - CursorOf(term).col
        count == IF room < 0 THEN n ELSE Min({n, room})
    IN  /\ MayWrite
        /\ Moved(WriteTimes(term, count))

HTS == CursorOf(term).col >= 0 /\ Changed(SetTabUnderCursor(term))
TBC(ps) == Changed(HorizontalTabClear(term, ps))
DECSC == Changed(SaveCursor(term))                  \* also SCOSC while CSI s is that
DECRC == Changed(RestoreCursor(term))
DECALN == Changed(ScreenAlignmentPattern(term))
DECSTBM(top, bottom) == Changed(MoveCursorTo(SetTopBottomMargin(term, top - 1, bottom - 1), 0, 0))
DECSLRM(left, right) ==
    /\ term.csiS = "DECSLRM"
    /\ "LeftRightMargin" \in term.modes
    /\ Changed(MoveCursorTo(SetLeftRightMargin(term, left - 1, right - 1), 0, 0))
DECSM(m, enable) == \E shift \in Shift : Changed(SetDECMode(term, m, enable, shift))
SM(m, enable) == \E shift \in Shift : Changed(SetAnsiMode(term, m, enable, shift))
XTSAVE(m) == Changed(SaveMode(term, m))
XTRESTORE(m) == Changed(RestoreMode(term, m))
DECSTR == \E shift \in Shift : Changed(SoftReset(term, shift))
RIS == \E shift \in Shift : Changed(HardReset(term, shift))
DECSSDT(display) == \E shift \in Shift : Changed(SetStatusDisplay(term, display, shift))
DECSASD(active) == Changed(SetActiveStatusDisplay(term, active))

\* DECSNLS sets the columns; the lines are those of the screen without status line.
DECSNLS(columns) ==
    /\ PageOf(term).lines > 1      \* bound: smaller windows
    /\ columns > 0                 \* a page without columns is undefined (std::clamp)
    /\ \E shift \in Shift :
          Changed(ResizeScreen(term, [lines |-> PageOf(term).lines, columns |-> columns], shift))

\* The window is resized, by the user or because DECCOLM or DECSCPP asked for it.
Resize(size) == \E shift \in Shift : Changed(ResizeScreen(term, size, shift))

Next ==
    \/ \E width \in 0..2 : Graphic(width)
    \/ LF \/ BS \/ TAB \/ CR \/ IND \/ RI \/ DECBI \/ DECFI
    \/ \E n \in Param : \/ CBT(n) \/ CHT(n) \/ CHA(n) \/ CNL(n) \/ CPL(n) \/ VPA(n) \/ REP(n)
                        \/ CUB(n) \/ CUD(n) \/ CUF(n) \/ CUU(n)
                        \/ GraphicBulk(n) \/ DECSNLS(n)
                        \/ \E k \in Param : CUP(n, k) \/ DECSTBM(n, k) \/ DECSLRM(n, k)
    \/ HTS \/ DECSC \/ DECRC \/ DECALN \/ DECSTR \/ RIS
    \/ \E ps \in {0, 3} : TBC(ps)
    \/ \E enable \in BOOLEAN :
          \/ \E m \in {"AutoWrap", "Origin", "LeftRightMargin", "UseAlternateScreen"} : DECSM(m, enable)
          \/ \E m \in {"AutomaticNewLine", "KeyboardAction"} : SM(m, enable)
    \/ \E m \in SavableMode : XTSAVE(m) \/ XTRESTORE(m)
    \/ \E display \in {"None", "Indicator", "HostWritable"} : DECSSDT(display)
    \/ \E active \in {"Main", "StatusLine"} : DECSASD(active)
    \/ \E size \in Sizes : Resize(size)

Spec == Init /\ [][Next]_vars

-----------------------------------------------------------------------------
\* Types.
TypeOK ==
    /\ term.current \in {"primary", "alternate", "status"}
    /\ term.type \in {"primary", "alternate"}
    /\ term.modes \subseteq Mode
    /\ term.tabs \in Seq(Int)
    /\ \A s \in DOMAIN term.screens :
         /\ term.screens[s].cursor.line \in Int
         /\ term.screens[s].cursor.col \in Int
    /\ changes \in 0..MaxChanges

OnPage(t, s) ==
    LET c == t.screens[s].cursor IN c.line \in 0..(t.screens[s].page.lines - 1)
                                 /\ c.col \in 0..(t.screens[s].page.columns - 1)

\* Where text can leave the page: a line feed on the last line, below the bottom
\* margin; there also text that starts beside the margins and wraps more than once;
\* and text that starts left of the margins with a wrap pending since before a BS.
LeavesPage(t) ==
    LET c == CursorOf(t)
        m == MarginOf(t)
    IN  /\ t.current = t.type
        /\ \/ c.line = PageOf(t).lines - 1 /\ c.line # m.bottom
           \/ c.line > m.bottom /\ ~ContainsColumn(m, c.col)
           \/ c.wrap /\ c.col < m.left

\* An explicit 0 of CHA or HPA: setCurrentColumn() has no lower limit.
ColumnZero == term' = SetCurrentColumn(term, -1)

\* Whatever sequences, resizes and screen switches come, with whatever parameters:
\* the cursor of the screen that is shown stays on its page, but for the cases above.
CursorStaysOnPage ==
    OnPage(term, term.type) /\ ~LeavesPage(term) /\ ~ColumnZero => OnPage(term', term'.type)

\* Terminal::verifyState(): the margins are an area of the page that is shown, which
\* scrolling and erasing rely on when they index the grid.
MarginsFit ==
    LET m == term.margins.main
        page == term.screens[term.type].page
    IN  /\ 0 <= m.top /\ m.top <= m.bottom /\ m.bottom < page.lines
        /\ 0 <= m.left /\ m.left <= m.right /\ m.right < page.columns

\* The application is told the size of the page it draws on, through status lines
\* that come and go and screens that are resized only when switched to.
ApplicationKnowsPage == term.pty = term.screens[term.type].page

\* Terminal::verifyState(): tab stops stay on the page and in order, through
\* resizes too, unless one is set on a status line.
TabsOnPage(t) ==
    /\ \A i \in DOMAIN t.tabs : t.tabs[i] < t.size.columns
    /\ \A i \in 2..Len(t.tabs) : t.tabs[i - 1] <= t.tabs[i]
TabsStayOnPage == TabsOnPage(term) /\ OnPage(term, term.current) => TabsOnPage(term')

\* What Terminal::verifyState() and Screen::verifyState() require is kept by every
\* sequence, resize and screen switch: cursor, tab stops and margins are on the page.
VerifyStateKept == [][CursorStaysOnPage /\ TabsStayOnPage /\ MarginsFit']_vars

\* Wrapping and origin mode are kept twice, in the modes and in every cursor.  As
\* long as no other screen is switched to, they stay the same but for XTRESTORE;
\* and CSI s means DECSLRM exactly if DECLRMM is set, but for XTRESTORE and RIS.
ModeFlagsAgree(t) ==
    /\ CursorOf(t).autoWrap <=> "AutoWrap" \in t.modes
    /\ CursorOf(t).origin <=> "Origin" \in t.modes
SequenceAgrees(t) == (t.csiS = "DECSLRM") <=> ("LeftRightMargin" \in t.modes)
ModesStayInStep ==
    [][term'.savedModes = term.savedModes =>
        /\ ModeFlagsAgree(term) /\ term.current = term'.current => ModeFlagsAgree(term')
        /\ SequenceAgrees(term) /\ term'.modes # {"AutoWrap"} => SequenceAgrees(term')]_vars

\* Text written from the input buffer at once leaves the cursor where it is left by
\* the same text character by character (tryEmplaceChars() and writeTextInternal()),
\* in a line that starts in the first column, wherever text may be written.
FastPathAgrees ==
    MayWrite /\ "LeftRightMargin" \notin term.modes /\ MarginOf(term).left = 0 =>
        \A n \in 1..MaxBulkTextSequenceWidth(term) : WriteBulk(term, n) = WriteTimes(term, n)

-----------------------------------------------------------------------------
\* Screen::verifyState() requires that the cursor is on the page.
CursorOnPage == OnPage(term, term.current)
=============================================================================
