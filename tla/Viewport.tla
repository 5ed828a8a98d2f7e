------------------------------ MODULE Viewport ------------------------------
(***************************************************************************)
(* What the user looks at while the application scrolls: the Viewport into *)
(* the history, the cursor of the vi-like modes, and the selection, driven *)
(* by Terminal::onBufferScrolled() and by the user's keyboard and mouse.   *)
(*                                                                         *)
(* Lines are grid offsets, as in Grid: 0 is the first line of the page, -1 *)
(* the newest line of the history; columns are left out.  Every line also  *)
(* has a number of its own, base + offset, which scrolling does not change *)
(* and which says whether the user still sees the same text.               *)
(*                                                                         *)
(* A status line is shown all the time (the default of status_line), so    *)
(* that entering or leaving a vi mode does not resize the page; no line    *)
(* is wrapped; and the application does not ask for mouse events.          *)
(***************************************************************************)
EXTENDS Integers

CONSTANTS
    InitPage,       \* lines of the page
    HistoryLimit,   \* lines of history the primary screen preserves
    ScrollOff,      \* the configured modal_cursor_scroll_off
    MaxPage,        \* bound: lines of the page after a resize
    MaxScroll,      \* bound: lines scrolled at once
    MaxChanges,     \* bound: how often a buffer is scrolled, reset or resized
    Ops             \* the operations a run exercises

ASSUME ViewportAssumption ==
    /\ InitPage \in Nat \ {0}
    /\ HistoryLimit \in Nat
    /\ ScrollOff \in Nat
    /\ MaxPage \in Nat
    /\ MaxScroll \in Nat
    /\ MaxChanges \in Nat

VARIABLES
    screenType,     \* Terminal::_currentScreenType
    current,        \* Terminal::_currentScreen: one of the two, or "Status"
    active,         \* Terminal::_activeStatusDisplay
    page,           \* lines of the page
    history,        \* lines of history of the primary screen
    capacity,       \* lines of its ring that are not part of the page
    base,           \* number of the primary page's first line
    view,           \* offset and vi cursor, ViMode, selection (a record)
    mouseDown,      \* Terminal::_leftMouseButtonPressed
    changes         \* how often a buffer was scrolled, reset or resized

vars == <<screenType, current, active, page, history, capacity, base, view, mouseDown, changes>>
gridVars == <<page, history, capacity, base>>
screenVars == <<screenType, current, active>>

StatusLines == 1

None == [from |-> 0, to |-> 0, state |-> "None"]
Selected(from, to, state) == [from |-> from, to |-> to, state |-> state]

Lower(a, b) == IF a < b THEN a ELSE b
Higher(a, b) == IF a > b THEN a ELSE b
Clamp(x, lo, hi) == Higher(lo, Lower(x, hi))

-----------------------------------------------------------------------------
(* Viewport's operations, as functions of the view v.  g is what they read *)
(* of the terminal: the history of the current screen, the lines of the    *)
(* page, and whether the alternate screen is shown.                        *)

Seen(cur, h) == IF cur = "Primary" THEN h ELSE 0
Geometry == [seen |-> Seen(current, history), page |-> page, alt |-> screenType = "Alternate"]

\* onViewportChanged(): outside Insert mode the cursor follows the viewport.
OnViewportChanged(v, g) ==
    IF v.mode = "Insert" THEN v
    ELSE [v EXCEPT !.cursor = Clamp(v.cursor, -v.offset, g.page - 1 - v.offset)]

\* scrollTo().
ScrollTo(v, o, g) ==
    IF (g.alt /\ o # 0) \/ o = v.offset \/ o \notin 0..g.seen THEN v
    ELSE OnViewportChanged([v EXCEPT !.offset = o], g)

ViewportScrollUp(v, n, g) == ScrollTo(v, Lower(v.offset + n, g.seen), g)
ViewportScrollDown(v, n, g) == ScrollTo(v, Higher(v.offset - n, 0), g)

\* makeVisibleWithinSafeArea().
MakeVisible(v, line, padding, g) ==
    LET top == padding - v.offset
        bottom == g.page - 1 - v.offset - padding
    IN  IF line <= top THEN ViewportScrollUp(v, top - line, g)
        ELSE IF line >= bottom THEN ViewportScrollDown(v, line - bottom, g)
        ELSE v

\* clearSelection(): in Visual mode the selection is kept unless the mouse is
\* used, in which case the mode becomes Normal.
ClearSelection(v, pressed) ==
    IF v.mode = "Visual" /\ ~pressed THEN v
    ELSE [v EXCEPT !.selection = None,
                   !.mode = IF v.mode = "Visual" THEN "Normal" ELSE v.mode]

\* Mutant: the viewport does not follow the text the user looks at.
FollowTextUnpinned(v, n, g) == [v EXCEPT !.cursor = v.cursor - n]

\* onBufferScrolled(n), its first half: cursor and viewport follow the text.
FollowText(v, n, g) ==
    LET moved == [v EXCEPT !.cursor = v.cursor - n]
    IN  IF v.offset # 0 \/ v.mode = "Normal" THEN ViewportScrollUp(moved, n, g) ELSE moved

\* Its second half: the selection follows the text, and is dropped once it
\* touches the top of the history.  h is the history of the primary screen.
ApplyScroll(v, n, h, pressed) ==
    LET s == v.selection
    IN  IF s = None THEN v
        ELSE IF s.from > -h /\ s.to > -h
        THEN [v EXCEPT !.selection.from = Higher(s.from - n, -h),
                       !.selection.to = Higher(s.to - n, -h)]
        ELSE ClearSelection(v, pressed)

OnBufferScrolled(v, n, g, h) == ApplyScroll(FollowText(v, n, g), n, h, mouseDown)

-----------------------------------------------------------------------------
Init ==
    /\ screenType = "Primary"
    /\ current = "Primary"
    /\ active = "Main"
    /\ page = InitPage
    /\ history = 0
    /\ capacity = HistoryLimit
    /\ base = 0
    /\ view = [offset |-> 0, cursor |-> 0, mode |-> "Insert", selection |-> None]
    /\ mouseDown = FALSE
    /\ changes = 0

(* The application. *)

\* Screen::scrollUp() of the whole page of the primary screen.  Grid::scrollUp()
\* returns the number of unused lines it took, if there were any.
PagedScroll(n) ==
    LET free == capacity - history
        returned == IF free = 0 THEN n ELSE Lower(n, free)
        h == history + Lower(n, free)
    IN  /\ current = "Primary"
        /\ n <= page
        /\ history' = h
        /\ base' = base + n
        /\ view' = OnBufferScrolled(view, returned, [Geometry EXCEPT !.seen = h], h)
        /\ UNCHANGED <<screenVars, page, capacity, mouseDown>>

\* The alternate screen and the status line have no history: all their lines
\* are in use and n is returned.
HistorylessScroll(n) ==
    /\ current # "Primary"
    /\ view' = OnBufferScrolled(view, n, Geometry, history)
    /\ UNCHANGED <<screenVars, gridVars, mouseDown>>

\* A scroll inside margins smaller than the page reports no line at all.
MarginScroll ==
    /\ view' = OnBufferScrolled(view, 0, Geometry, history)
    /\ UNCHANGED <<screenVars, gridVars, mouseDown>>

BufferScroll ==
    /\ changes < MaxChanges
    /\ changes' = changes + 1
    /\ \/ MarginScroll
       \/ \E n \in 1..MaxScroll : PagedScroll(n) \/ HistorylessScroll(n)

\* setScreen(): the other screen is shown, bufferChanged() clears the selection
\* and scrolls to the bottom.  The active display is left as it is.
SetScreen ==
    LET other == IF screenType = "Primary" THEN "Alternate" ELSE "Primary"
        g == [seen |-> Seen(other, history), page |-> page, alt |-> other = "Alternate"]
    IN  /\ screenType' = other
        /\ current' = other
        /\ view' = ScrollTo(ClearSelection(view, mouseDown), 0, g)
        /\ UNCHANGED <<active, gridVars, mouseDown, changes>>

\* setActiveStatusDisplay(): output goes to the status line, or back.
SetActiveStatusDisplay ==
    /\ active' = IF active = "Main" THEN "StatusLine" ELSE "Main"
    /\ current' = IF active' = "Main" THEN screenType ELSE "Status"
    /\ UNCHANGED <<screenType, gridVars, view, mouseDown, changes>>

\* ED 3: clearHistory() and scrollbackBufferCleared().
ScrollbackBufferCleared ==
    LET h == IF current = "Primary" THEN 0 ELSE history
        cleared == ClearSelection(view, mouseDown)
    IN  /\ history' = h
        /\ view' = IF screenType = "Alternate" THEN cleared
                   ELSE ScrollTo(cleared, 0, [Geometry EXCEPT !.seen = 0])
        /\ UNCHANGED <<screenVars, page, capacity, base, mouseDown, changes>>

\* Mutant: the status line is not cleared.
HardResetNoClear ==
    LET g == [seen |-> 0, page |-> page, alt |-> FALSE]
    IN  /\ changes < MaxChanges
        /\ changes' = changes + 1
        /\ screenType' = "Primary"
        /\ current' = "Primary"
        /\ active' = "Main"
        /\ history' = 0
        /\ view' = IF screenType = "Primary" THEN view
                   ELSE ScrollTo(ClearSelection(view, mouseDown), 0, g)
        /\ UNCHANGED <<page, capacity, base, mouseDown>>

\* RIS: hardReset().  setScreen() does nothing if the primary screen is shown;
\* the history is dropped; clearing the status line is a scroll by one line,
\* and it is this scroll that brings the viewport back.
HardReset ==
    LET g == [seen |-> 0, page |-> page, alt |-> FALSE]
        switched == IF screenType = "Primary" THEN view
                    ELSE ScrollTo(ClearSelection(view, mouseDown), 0, g)
    IN  /\ changes < MaxChanges
        /\ changes' = changes + 1
        /\ screenType' = "Primary"
        /\ current' = "Primary"
        /\ active' = "Main"
        /\ history' = 0
        /\ view' = OnBufferScrolled(switched, 1, g, 0)
        /\ UNCHANGED <<page, capacity, base, mouseDown>>

(* The user's keyboard. *)

\* The scrolling actions, those to a marked line included, and scrollToBottom()
\* on input and on screen updates.
ScrollViewport ==
    /\ \/ \E n \in 1..MaxScroll :
             \/ view' = ViewportScrollUp(view, n, Geometry)
             \/ view' = ViewportScrollDown(view, n, Geometry)
       \/ view' = ScrollTo(view, Geometry.seen, Geometry)
       \/ /\ screenType = "Primary"
          /\ \E o \in 0..history : view' = ScrollTo(view, o, Geometry)
    /\ UNCHANGED <<screenVars, gridVars, mouseDown, changes>>

\* ViCommands::modeChanged().
EnterNormalMode ==
    /\ view.mode # "Normal"
    /\ \E line \in 0..(page - 1) :
          view' = [view EXCEPT !.mode = "Normal", !.selection = None,
                               !.cursor = IF view.mode = "Insert" THEN line ELSE view.cursor]
    /\ UNCHANGED <<screenVars, gridVars, mouseDown, changes>>

EnterInsertMode ==
    /\ view.mode = "Normal"
    /\ view' = ScrollTo([view EXCEPT !.mode = "Insert"], 0, Geometry)
    /\ UNCHANGED <<screenVars, gridVars, mouseDown, changes>>

EnterVisualMode ==
    LET from == IF view.selection = None THEN view.cursor ELSE view.selection.from
    IN  /\ view.mode = "Normal"
        /\ view' = [view EXCEPT !.mode = "Visual",
                                !.selection = Selected(from, view.cursor, "InProgress")]
        /\ UNCHANGED <<screenVars, gridVars, mouseDown, changes>>

\* ViCommands::moveCursorTo().
MoveCursorTo ==
    /\ view.mode # "Insert"
    /\ \E line \in (-Geometry.seen)..(page - 1) :
          LET v == MakeVisible([view EXCEPT !.cursor = line], line, ScrollOff, Geometry)
          IN  view' = IF v.mode = "Visual" /\ v.selection # None
                      THEN [v EXCEPT !.selection.to = v.cursor, !.selection.state = "InProgress"]
                      ELSE v
    /\ UNCHANGED <<screenVars, gridVars, mouseDown, changes>>

(* The user's mouse.  Its position is a line of the viewport. *)

\* handleMouseSelection(): a click starts a selection, a second one soon after
\* selects at once.
MousePress ==
    /\ mouseDown' = TRUE
    /\ \E y \in 0..(page - 1), state \in {"Waiting", "InProgress"} :
          LET line == y - view.offset
              v == [view EXCEPT !.cursor = IF view.mode = "Insert" THEN @ ELSE line]
          IN  view' = [(IF state = "Waiting" THEN ClearSelection(v, TRUE) ELSE v)
                          EXCEPT !.selection = Selected(line, line, state)]
    /\ UNCHANGED <<screenVars, gridVars, changes>>

\* sendMouseMoveEvent() with the button pressed.  The line is made visible if
\* shouldExtendSelectionByMouse(), which compares a line of the screen with one
\* of the grid, and pixels if these are the same.
MouseMove ==
    /\ mouseDown
    /\ \E y \in 0..(page - 1) :
          LET line == y - view.offset
              shown == MakeVisible([view EXCEPT !.cursor = line], line, 0, Geometry)
          IN  \/ /\ view.selection = None
                 /\ view' = [view EXCEPT !.selection = Selected(line, line, "Waiting")]
              \/ /\ view.selection.state \in {"Waiting", "InProgress"}
                 /\ \E v \in {shown} \cup (IF y = view.selection.to THEN {view} ELSE {}) :
                       view' = [v EXCEPT
                          !.cursor = line,
                          !.mode = IF view.mode = "Insert" THEN "Insert" ELSE "Visual",
                          !.selection = Selected(view.selection.from, line, "InProgress")]
    /\ UNCHANGED <<screenVars, gridVars, mouseDown, changes>>

\* sendMouseReleaseEvent().
MouseRelease ==
    /\ mouseDown
    /\ mouseDown' = FALSE
    /\ view' = IF view.selection.state = "Waiting" THEN [view EXCEPT !.selection = None]
               ELSE IF view.selection.state = "InProgress" /\ view.mode = "Insert"
               THEN [view EXCEPT !.selection.state = "Complete"]
               ELSE view
    /\ UNCHANGED <<screenVars, gridVars, changes>>

\* resizeScreen() of the primary screen.  Grid pulls lines out of the history
\* if the application's cursor is on the last line, or pushes the lines it does
\* not cut off below that cursor into it.  The vi cursor is moved by the
\* difference of the new page and the old total size, and clamped to the total.
ResizeScreen ==
    /\ screenType = "Primary"
    /\ changes < MaxChanges
    /\ changes' = changes + 1
    /\ \E h \in 1..MaxPage :
          LET grown == h - page
          IN  /\ page' = h
              /\ capacity' = IF grown > 0 THEN Higher(capacity - grown, HistoryLimit)
                             ELSE capacity - grown
              /\ \E moved \in IF grown > 0 THEN {0, -Lower(grown, history)} ELSE 0..(-grown) :
                    /\ history' = Lower(history + moved, capacity')
                    /\ base' = base + moved
              /\ view' = [view EXCEPT !.cursor =
                            Clamp(@ + h - (page + StatusLines), 0, h + StatusLines - 1)]
    /\ UNCHANGED <<screenVars, mouseDown>>

-----------------------------------------------------------------------------
Next ==
    \/ BufferScroll
    \/ ScrollViewport
    \/ "screen" \in Ops /\ SetScreen
    \/ "status" \in Ops /\ SetActiveStatusDisplay
    \/ "clear" \in Ops /\ ScrollbackBufferCleared
    \/ "reset" \in Ops /\ HardReset
    \/ "resize" \in Ops /\ ResizeScreen
    \/ "vi" \in Ops /\ (EnterNormalMode \/ EnterInsertMode \/ MoveCursorTo)
    \/ "visual" \in Ops /\ EnterVisualMode
    \/ "mouse" \in Ops /\ (MousePress \/ MouseMove \/ MouseRelease)

Spec == Init /\ [][Next]_vars

-----------------------------------------------------------------------------
\* The lines in use fit into the ring, after every resize; output goes to the
\* screen that is shown or to the status line.
TypeOK ==
    /\ screenType \in {"Primary", "Alternate"}
    /\ current \in {screenType, "Status"}
    /\ active \in {"Main", "StatusLine"}
    /\ page \in Nat \ {0}
    /\ capacity \in Nat
    /\ history \in 0..capacity
    /\ base \in Int
    /\ view \in [offset : Nat, cursor : Int, mode : {"Insert", "Normal", "Visual"},
                 selection : [from : Int, to : Int, state : {"None", "Waiting", "InProgress", "Complete"}]]
    /\ mouseDown \in BOOLEAN
    /\ changes \in 0..MaxChanges

\* The viewport does not reach beyond the history of the screen that is shown,
\* which Grid::render() asserts.
OffsetInHistory == view.offset <= Seen(screenType, history)

\* No operation takes the viewport out of the history, unless it makes the page
\* higher: output, screen switches, resets, clears and what the user does.
OffsetStays == [][OffsetInHistory /\ page' <= page => OffsetInHistory']_vars

\* The application writes on the primary screen, and the user sees it.
OutputToPrimary == BufferScroll /\ current = "Primary" /\ OffsetInHistory

\* While the user looks at the history, output does not move the text he sees,
\* until that text itself is dropped from a full history (onBufferScrolled()).
ViewportPinned ==
    OutputToPrimary /\ view.offset # 0 =>
        \/ base' - view'.offset = base - view.offset
        \/ view'.offset = history' /\ base' - history' > base - view.offset

CursorVisible == view.cursor \in (-view.offset)..(page - 1 - view.offset)

\* The cursor of the vi modes stays on its text while the application outputs
\* more (onBufferScrolled()), if the user sees it and until the text is dropped.
CursorPinned ==
    OutputToPrimary /\ view.mode # "Insert" /\ CursorVisible =>
        \/ base' + view'.cursor = base + view.cursor
        \/ base' - history' > base + view.cursor

\* The selection marks the same text after output as before, what is dropped
\* from the history cut off, or it is cleared (applyScroll()).
SelectionFollows ==
    \/ view'.selection = None
    \/ /\ base' + view'.selection.from = Higher(base + view.selection.from, base' - history')
       /\ base' + view'.selection.to = Higher(base + view.selection.to, base' - history')

\* So it is for a selection that is made with the mouse.
SelectionPinned ==
    OutputToPrimary /\ view.selection # None /\ view.mode # "Visual" => SelectionFollows

\* A scroll that does not go beyond what is left of the history reports the lines it
\* scrolled (Grid::scrollUp()); a longer one reports fewer.
ScrollReported == history = capacity \/ base' - base <= capacity - history

\* Output leaves everything that points at text on its text: what the user looks
\* at, the vi cursor and the selection, also when the history is full and its
\* oldest lines are dropped (onBufferScrolled(), Selection::applyScroll()).
TextPinned == [][ScrollReported => ViewportPinned /\ CursorPinned /\ SelectionPinned]_vars

-----------------------------------------------------------------------------
(* What comments say and the code does not do.                             *)

\* The selection is preserved while the screen is modified, in the visual modes
\* as well.
SelectionPreserved == [][OutputToPrimary /\ view.selection # None => SelectionFollows]_vars

\* Scrolling what is not shown, the status line, leaves the viewport alone.
ViewportFixed ==
    [][BufferScroll /\ current = "Status" => base' - view'.offset = base - view.offset]_vars

\* The cursor of the vi modes is on a line of the grid.
CursorInGrid == view.mode # "Insert" => view.cursor \in (-history)..(page - 1)

\* A resize that leaves the number of lines alone leaves the vi cursor alone.
ResizeKeepsCursor ==
    [][ResizeScreen /\ page' = page /\ view.cursor \in 0..(page - 1) => view'.cursor = view.cursor]_vars
=============================================================================
