---------------------------- MODULE ScreenProofs ----------------------------
(***************************************************************************)
(* Proofs about Screen, for pages, tab stops and parameters of any size,   *)
(* an explicit 0 included: that of CHA or HPA moves the cursor to column   *)
(* -1, the one step of which CursorStaysOnPage says nothing.               *)
(*                                                                         *)
(* The invariant TermOK says how the sizes that the terminal keeps hang    *)
(* together: the window, the pseudo terminal, the screen that is shown and *)
(* the status line, with the margins that fit them.  Text, tab stops and   *)
(* cursor movement change one cursor; Moves says so once for all of them.  *)
(***************************************************************************)
EXTENDS Screen, ListLemmas

Names == {"primary", "alternate", "status"}
Count == Nat \ {0}

CursorType == [line : Int, col : Int, autoWrap : BOOLEAN, origin : BOOLEAN, wrap : BOOLEAN]
PageType == [lines : Count, columns : Count]
ScreenType == [page : PageType, cursor : CursorType, saved : CursorType]
MarginType == [top : Int, bottom : Int, left : Int, right : Int]
SizeType == [lines : Nat \ {0, 1}, columns : Count]
DisplayType == {"None", "Indicator", "HostWritable"}

TermType ==
    [size : SizeType, screens : [Names -> ScreenType], margins : [{"main", "status"} -> MarginType],
     current : Names, type : {"primary", "alternate"}, active : {"Main", "StatusLine"},
     display : DisplayType, savedDisplay : DisplayType \cup {""},
     modes : SUBSET Mode, savedModes : [SavableMode -> Seq(BOOLEAN)],
     csiS : {"SCOSC", "DECSLRM"}, tabs : Seq(Nat), pty : PageType]

Fits(m, page) ==
    /\ 0 <= m.top /\ m.top <= m.bottom /\ m.bottom < page.lines
    /\ 0 <= m.left /\ m.left <= m.right /\ m.right < page.columns
InOrder(q) == \A i, j \in DOMAIN q : i < j => q[i] <= q[j]

\* The screen that is shown, the application and the margins have the size that the
\* window leaves them; a status line is as wide as the window.
TermOK(t) ==
    /\ t \in TermType
    /\ t.current \in {t.type, "status"}
    /\ t.pty = MainPage(t)
    /\ t.screens[t.type].page = MainPage(t)
    /\ t.screens["status"].page.columns = t.size.columns
    /\ Fits(t.margins["main"], MainPage(t))
    /\ t.margins["status"].left = 0
    /\ t.margins["status"].right = t.size.columns - 1
    /\ InOrder(t.tabs)

\* A cursor on a page.
On(c, page) == c.line \in 0..page.lines - 1 /\ c.col \in 0..page.columns - 1

\* Only the cursor of the current screen changes, and not its modes.
Moves(t, u) ==
    /\ CursorOf(u) \in CursorType
    /\ u = SetCursor(t, CursorOf(u))
    /\ CursorOf(u).autoWrap = CursorOf(t).autoWrap
    /\ CursorOf(u).origin = CursorOf(t).origin

-----------------------------------------------------------------------------
\* The state that the control functions read.
LEMMA TermFacts ==
    ASSUME NEW t, TermOK(t)
    PROVE  /\ t \in TermType
           /\ CursorOf(t) \in CursorType /\ PageOf(t) \in PageType /\ MarginOf(t) \in MarginType
           /\ 0 <= MarginOf(t).left /\ MarginOf(t).left <= MarginOf(t).right
           /\ MarginOf(t).right < PageOf(t).columns
           /\ t.current = t.type => Fits(MarginOf(t), PageOf(t))
<1>1. t \in TermType /\ t.current \in Names /\ t.type \in {"primary", "alternate"}
  BY DEF TermOK, TermType
<1>2. t.screens[t.current] \in ScreenType
  BY <1>1 DEF TermType
<1>3. CursorOf(t) \in CursorType /\ PageOf(t) \in PageType
  BY <1>2 DEF CursorOf, PageOf, ScreenType
<1>4. t.margins["main"] \in MarginType /\ t.margins["status"] \in MarginType
  BY <1>1 DEF TermType
<1>5. MarginOf(t) \in MarginType
  BY <1>4 DEF MarginOf
<1>6. ASSUME t.current = t.type PROVE Fits(MarginOf(t), PageOf(t))
  <2>1. MarginOf(t) = t.margins["main"] /\ PageOf(t) = MainPage(t)
    BY <1>1, <1>6 DEF MarginOf, PageOf, TermOK
  <2> QED BY <2>1 DEF TermOK
<1>7. CASE t.current = t.type
  BY <1>1, <1>3, <1>5, <1>6, <1>7 DEF Fits
<1>8. CASE t.current = "status"
  <2>1. MarginOf(t) = t.margins["status"] /\ PageOf(t) = t.screens["status"].page
    BY <1>8 DEF MarginOf, PageOf
  <2>2. /\ MarginOf(t).left = 0 /\ MarginOf(t).right = PageOf(t).columns - 1
        /\ PageOf(t).columns \in Count
    BY <1>3, <2>1 DEF TermOK, PageType
  <2> QED BY <1>1, <1>3, <1>5, <1>6, <2>2 DEF Count
<1> QED BY <1>7, <1>8 DEF TermOK

\* A new cursor leaves everything but the cursor of the current screen alone.
LEMMA SetCursorKeeps ==
    ASSUME NEW t \in TermType, NEW c \in CursorType, NEW u, u = SetCursor(t, c)
    PROVE  /\ u \in TermType
           /\ u.size = t.size /\ u.margins = t.margins /\ u.current = t.current /\ u.type = t.type
           /\ u.active = t.active /\ u.display = t.display /\ u.savedDisplay = t.savedDisplay
           /\ u.modes = t.modes /\ u.savedModes = t.savedModes /\ u.csiS = t.csiS
           /\ u.tabs = t.tabs /\ u.pty = t.pty
           /\ u.screens[t.current].cursor = c
           /\ u.screens[t.current].page = t.screens[t.current].page
           /\ u.screens[t.current].saved = t.screens[t.current].saved
           /\ \A s \in Names : s # t.current => u.screens[s] = t.screens[s]
  BY DEF SetCursor, TermType, ScreenType

\* A step that sets the cursor to c.
LEMMA MovesTo ==
    ASSUME NEW t, TermOK(t), NEW c \in CursorType,
           c.autoWrap = CursorOf(t).autoWrap, c.origin = CursorOf(t).origin
    PROVE  Moves(t, SetCursor(t, c)) /\ CursorOf(SetCursor(t, c)) = c
<1> DEFINE u == SetCursor(t, c)
<1>1. u.current = t.current /\ u.screens[t.current].cursor = c
  BY SetCursorKeeps DEF TermOK
<1> HIDE DEF u
<1>2. CursorOf(u) = c
  BY <1>1 DEF CursorOf
<1> QED BY <1>2 DEF Moves, u

\* Not moving is a move.
LEMMA MovesNot ==
    ASSUME NEW t, TermOK(t)
    PROVE  Moves(t, t)
<1>1. t \in TermType /\ CursorOf(t) \in CursorType
  BY TermFacts
<1>2. t = SetCursor(t, CursorOf(t))
  BY <1>1 DEF SetCursor, CursorOf, TermType, ScreenType
<1> QED BY <1>1, <1>2 DEF Moves

\* What is left alone.
LEMMA MovesKeeps ==
    ASSUME NEW t, TermOK(t), NEW u, Moves(t, u)
    PROVE  /\ TermOK(u)
           /\ u.size = t.size /\ u.margins = t.margins /\ u.current = t.current /\ u.type = t.type
           /\ u.active = t.active /\ u.display = t.display /\ u.savedDisplay = t.savedDisplay
           /\ u.modes = t.modes /\ u.savedModes = t.savedModes /\ u.csiS = t.csiS
           /\ u.tabs = t.tabs /\ u.pty = t.pty
           /\ PageOf(u) = PageOf(t) /\ MarginOf(u) = MarginOf(t)
           /\ \A s \in Names : /\ u.screens[s].page = t.screens[s].page
                               /\ s # t.current => u.screens[s] = t.screens[s]
<1> DEFINE c == CursorOf(u)
<1>1. /\ u \in TermType
      /\ u.size = t.size /\ u.margins = t.margins /\ u.current = t.current /\ u.type = t.type
      /\ u.active = t.active /\ u.display = t.display /\ u.savedDisplay = t.savedDisplay
      /\ u.modes = t.modes /\ u.savedModes = t.savedModes /\ u.csiS = t.csiS
      /\ u.tabs = t.tabs /\ u.pty = t.pty
      /\ u.screens[t.current].page = t.screens[t.current].page
      /\ \A s \in Names : s # t.current => u.screens[s] = t.screens[s]
  <2>1. t \in TermType /\ c \in CursorType /\ u = SetCursor(t, c)
    BY DEF TermOK, Moves
  <2> HIDE DEF c
  <2> QED BY <2>1, SetCursorKeeps
<1>2. \A s \in Names : u.screens[s].page = t.screens[s].page
  BY <1>1
<1>3. MainPage(u) = MainPage(t)
  BY <1>1 DEF MainPage, StatusLineHeight
<1>4. PageOf(u) = PageOf(t) /\ MarginOf(u) = MarginOf(t)
  BY <1>1 DEF PageOf, MarginOf
<1>5. t.type \in Names /\ "status" \in Names
  BY DEF TermOK, TermType, Names
<1>6. TermOK(u)
  BY <1>1, <1>2, <1>3, <1>5 DEF TermOK
<1> QED BY <1>1, <1>2, <1>4, <1>6

\* Moves compose.
LEMMA MovesTwice ==
    ASSUME NEW t, TermOK(t), NEW u, Moves(t, u), NEW v, Moves(u, v)
    PROVE  Moves(t, v)
<1>1. u = SetCursor(t, CursorOf(u)) /\ v = SetCursor(u, CursorOf(v)) /\ u.current = t.current
  BY MovesKeeps DEF Moves
<1>2. t \in TermType /\ t.current \in Names /\ CursorOf(u) \in CursorType /\ CursorOf(v) \in CursorType
  BY DEF TermOK, TermType, Moves
<1> DEFINE c == CursorOf(u)
           d == CursorOf(v)
<1>3. v = SetCursor(SetCursor(t, c), d)
  BY <1>1
<1> HIDE DEF c, d
<1>4. SetCursor(t, c).current = t.current
  BY <1>2, SetCursorKeeps DEF c
<1>5. SetCursor(SetCursor(t, c), d) = SetCursor(t, d)
  BY ZenonT(60), <1>2, <1>4 DEF SetCursor, TermType, ScreenType
<1> QED BY <1>2, <1>3, <1>5 DEF Moves, d

-----------------------------------------------------------------------------
(* Cursor movement.                                                        *)

\* clamp() with the bounds in order, and as the code calls it with the bounds crossed.
LEMMA ClampedInside ==
    ASSUME NEW x \in Int, NEW low \in Int, NEW high \in Int
    PROVE  /\ Clamped(x, low, high) \in Int
           /\ low <= high => Clamped(x, low, high) \in low..high
           /\ low > high => Clamped(x, low, high) = high
<1> DEFINE a == Max({x, low})
<1>1. a = IF x >= low THEN x ELSE low
  BY MinMaxOfTwo
<1>2. a \in Int
  BY <1>1
<1>3. Clamped(x, low, high) = Min({a, high})
  BY DEF Clamped
<1> HIDE DEF a
<1>4. Min({a, high}) = IF a <= high THEN a ELSE high
  BY <1>2, MinMaxOfTwo
<1> QED BY <1>1, <1>2, <1>3, <1>4

\* clamp() between two bounds in order.
LEMMA ClampedRange ==
    \A x, low, high \in Int : low <= high => Clamped(x, low, high) \in low..high
  BY ClampedInside

\* clamp() to the offsets of a page with n lines or columns.
LEMMA ClampedBelow ==
    \A x \in Int : \A n \in Count : Clamped(x, 0, n - 1) \in 0..n - 1
  BY ClampedInside DEF Count

\* clamp() to 0..n; with a negative n the result is still a number.
LEMMA ClampedUpTo ==
    /\ \A x \in Int : \A n \in Nat : Clamped(x, 0, n) \in 0..n
    /\ \A x \in Int : \A n \in Int : Clamped(x, 0, n) \in Int
  BY ClampedInside

\* A cursor that is clamped to a page is on it, whatever it was.
LEMMA ClampToScreenOn ==
    ASSUME NEW c, NEW page \in PageType, c \in [line : Int, col : Int, autoWrap : BOOLEAN,
                                               origin : BOOLEAN, wrap : BOOLEAN],
           NEW d, d = ClampToScreen(c, page)
    PROVE  /\ d \in CursorType /\ On(d, page)
           /\ d.autoWrap = c.autoWrap /\ d.origin = c.origin /\ d.wrap = c.wrap
<1>1. page.lines \in Count /\ page.columns \in Count /\ c.line \in Int /\ c.col \in Int
  BY DEF PageType
<1> DEFINE h == page.lines
           w == page.columns
           a == c.line
           b == c.col
           l == Clamped(a, 0, h - 1)
           k == Clamped(b, 0, w - 1)
<1>2. d = [c EXCEPT !.line = l, !.col = k]
  BY DEF ClampToScreen
<1> HIDE DEF h, w, a, b
<1>3. h \in Count /\ w \in Count /\ a \in Int /\ b \in Int
  BY <1>1 DEF h, w, a, b
<1>4. l \in 0..h - 1 /\ k \in 0..w - 1
  BY <1>3, ClampedBelow
<1>5. l \in Int /\ k \in Int
  BY <1>3, <1>4 DEF Count
<1> HIDE DEF l, k
<1>6. /\ d \in CursorType /\ d.line = l /\ d.col = k
      /\ d.autoWrap = c.autoWrap /\ d.origin = c.origin /\ d.wrap = c.wrap
  BY <1>2, <1>5 DEF CursorType
<1> QED BY <1>4, <1>6 DEF On, h, w

\* The same for the margins of origin mode, where they fit the page.
LEMMA ClampToOriginOn ==
    ASSUME NEW c, NEW page \in PageType, NEW m \in MarginType,
           c \in [line : Int, col : Int, autoWrap : BOOLEAN, origin : BOOLEAN, wrap : BOOLEAN],
           0 <= m.right, m.right < page.columns,
           NEW d, d = ClampToOrigin(c, m)
    PROVE  /\ d \in CursorType
           /\ 0 <= m.bottom /\ m.bottom < page.lines => On(d, page)
           /\ d.autoWrap = c.autoWrap /\ d.origin = c.origin /\ d.wrap = c.wrap
<1>1. /\ page.lines \in Count /\ page.columns \in Count /\ c.line \in Int /\ c.col \in Int
      /\ m.bottom \in Int /\ m.right \in Int
  BY DEF PageType, MarginType
<1> DEFINE h == page.lines
           w == page.columns
           x == m.bottom
           y == m.right
           a == c.line
           b == c.col
           l == Clamped(a, 0, x)
           k == Clamped(b, 0, y)
<1>2. d = [c EXCEPT !.line = l, !.col = k]
  BY DEF ClampToOrigin
<1> HIDE DEF h, w, x, y, a, b
<1>3. /\ h \in Count /\ w \in Count /\ a \in Int /\ b \in Int /\ x \in Int /\ y \in Int
      /\ 0 <= y /\ y < w
  BY <1>1 DEF h, w, x, y, a, b
<1>4. /\ l \in Int /\ k \in Int /\ k \in 0..w - 1
      /\ 0 <= x /\ x < h => l \in 0..h - 1
  <2>1. l \in Int /\ (0 <= x => l \in 0..x) /\ k \in 0..y
    <3>1. y \in Nat /\ (0 <= x => x \in Nat)
      BY <1>3
    <3> QED BY <1>3, <3>1, ClampedUpTo
  <2> HIDE DEF l, k
  <2> QED BY <1>3, <2>1 DEF Count
<1> HIDE DEF l, k
<1>6. /\ d \in CursorType /\ d.line = l /\ d.col = k
      /\ d.autoWrap = c.autoWrap /\ d.origin = c.origin /\ d.wrap = c.wrap
  BY <1>2, <1>4 DEF CursorType
<1> QED BY <1>4, <1>6 DEF On, h, w, x

\* moveCursorTo()
LEMMA MoveCursorToMoves ==
    ASSUME NEW t, TermOK(t), NEW line \in Int, NEW col \in Int, NEW u, u = MoveCursorTo(t, line, col)
    PROVE  Moves(t, u) /\ On(CursorOf(u), PageOf(t))
<1> DEFINE c == CursorOf(t)
           m == MarginOf(t)
           o == IF c.origin THEN <<m.top, m.left>> ELSE <<0, 0>>
           e == [c EXCEPT !.line = line + o[1], !.col = col + o[2], !.wrap = FALSE]
           d == ClampToScreen(e, PageOf(t))
<1>1. c \in CursorType /\ m \in MarginType /\ PageOf(t) \in PageType
  BY TermFacts
<1>2. u = SetCursor(t, d)
  BY DEF MoveCursorTo
<1> HIDE DEF c, m
<1>3. o[1] \in Int /\ o[2] \in Int
  BY <1>1 DEF MarginType
<1> HIDE DEF o
<1>4. /\ e \in [line : Int, col : Int, autoWrap : BOOLEAN, origin : BOOLEAN, wrap : BOOLEAN]
      /\ e.autoWrap = c.autoWrap /\ e.origin = c.origin
  <2> DEFINE x == line + o[1]
             y == col + o[2]
  <2>1. x \in Int /\ y \in Int
    BY <1>3
  <2> HIDE DEF x, y
  <2>2. e = [c EXCEPT !.line = x, !.col = y, !.wrap = FALSE]
    BY DEF x, y
  <2> HIDE DEF e
  <2> QED BY <1>1, <2>1, <2>2 DEF CursorType
<1> HIDE DEF e
<1>5. d \in CursorType /\ On(d, PageOf(t)) /\ d.autoWrap = c.autoWrap /\ d.origin = c.origin
  BY <1>1, <1>4, ClampToScreenOn
<1> HIDE DEF d
<1> QED BY <1>2, <1>5, MovesTo DEF c

\* setCurrentColumn() moves the cursor within the page.
LEMMA SetCurrentColumnMoves ==
    ASSUME NEW t, TermOK(t), NEW n \in Int, NEW u, u = SetCurrentColumn(t, n)
    PROVE  Moves(t, u) /\ (n >= 0 /\ On(CursorOf(t), PageOf(t)) => On(CursorOf(u), PageOf(t)))
<1> DEFINE c == CursorOf(t)
           a == MarginOf(t).left
           w == PageOf(t).columns
           x == IF c.origin THEN a + n ELSE n
           k == Min({x, w - 1})
<1>1. u = SetCursor(t, [c EXCEPT !.col = k, !.wrap = FALSE])
  BY DEF SetCurrentColumn
<1>2. c \in CursorType /\ a \in Nat /\ w \in Count
  BY TermFacts DEF MarginType, PageType
<1> HIDE DEF a, w
<1>3. x \in Int /\ (n >= 0 => x >= 0)
  BY <1>2
<1> HIDE DEF x
<1>4. k \in Int /\ (n >= 0 => k \in 0..w - 1)
  <2>1. k = IF x <= w - 1 THEN x ELSE w - 1
    BY <1>2, <1>3, MinMaxOfTwo DEF Count
  <2> QED BY <1>2, <1>3, <2>1 DEF Count
<1> HIDE DEF k
<1> DEFINE d == [c EXCEPT !.col = k, !.wrap = FALSE]
<1>5. /\ d \in CursorType /\ d.line = c.line /\ d.col = k
      /\ d.autoWrap = c.autoWrap /\ d.origin = c.origin
  BY <1>2, <1>4 DEF CursorType
<1> HIDE DEF d
<1>6. Moves(t, u) /\ CursorOf(u) = d
  BY <1>1, <1>5, MovesTo DEF c, d
<1> QED BY <1>4, <1>5, <1>6 DEF On, c, w

\* moveCursorUp() and moveCursorDown()
LEMMA MoveLinesMoves ==
    ASSUME NEW t, TermOK(t), NEW n \in Int, NEW u, u = MoveLines(t, n)
    PROVE  /\ Moves(t, u)
           /\ t.current = t.type /\ On(CursorOf(t), PageOf(t)) => On(CursorOf(u), PageOf(t))
<1> DEFINE c == CursorOf(t)
           m == MarginOf(t)
           a == c.line
           top == m.top
           bottom == m.bottom
           h == PageOf(t).lines
           l == IF top <= a /\ a <= bottom THEN Clamped(a + n, top, bottom) ELSE Clamped(a + n, 0, h - 1)
<1>1. u = SetCursor(t, [c EXCEPT !.wrap = FALSE, !.line = l])
  BY DEF MoveLines, ClampedLine, ContainsLine
<1>2. /\ c \in CursorType /\ a \in Int /\ top \in Int /\ bottom \in Int /\ h \in Count
      /\ t.current = t.type => 0 <= top /\ top <= bottom /\ bottom < h
  BY TermFacts DEF CursorType, MarginType, PageType, Fits
<1> HIDE DEF c, a, top, bottom, h
<1>3. l \in Int /\ (t.current = t.type => l \in 0..h - 1)
  <2> DEFINE b == a + n
             x == Clamped(b, top, bottom)
             y == Clamped(b, 0, h - 1)
  <2>0. l = IF top <= a /\ a <= bottom THEN x ELSE y
    OBVIOUS
  <2>1. b \in Int
    BY <1>2
  <2> HIDE DEF b
  <2>2. top <= bottom => x \in top..bottom
    BY <1>2, <2>1, ClampedRange
  <2>3. y \in 0..h - 1
    BY <1>2, <2>1, ClampedBelow
  <2> HIDE DEF x, y, l
  <2> QED BY <1>2, <2>0, <2>2, <2>3 DEF Count
<1> HIDE DEF l
<1> DEFINE d == [c EXCEPT !.wrap = FALSE, !.line = l]
<1>4. /\ d \in CursorType /\ d.line = l /\ d.col = c.col
      /\ d.autoWrap = c.autoWrap /\ d.origin = c.origin
  BY <1>2, <1>3 DEF CursorType
<1> HIDE DEF d
<1>5. Moves(t, u) /\ CursorOf(u) = d
  BY <1>1, <1>4, MovesTo DEF c, d
<1> QED BY <1>3, <1>4, <1>5 DEF On, c, h

\* moveCursorForward() and moveCursorBackward() go to a column of the page.
LEMMA MoveColumnMoves ==
    ASSUME NEW t, TermOK(t), NEW x \in Int, NEW y \in Int, NEW u,
           u = SetCursor(t, [CursorOf(t) EXCEPT !.wrap = FALSE,
                    !.col = IF ContainsColumn(MarginOf(t), @)
                            THEN Clamped(x, MarginOf(t).left, MarginOf(t).right)
                            ELSE ClampedColumn(t, y)])
    PROVE  Moves(t, u) /\ (On(CursorOf(t), PageOf(t)) => On(CursorOf(u), PageOf(t)))
<1> DEFINE c == CursorOf(t)
           left == MarginOf(t).left
           right == MarginOf(t).right
           w == PageOf(t).columns
           k == IF ContainsColumn(MarginOf(t), c.col) THEN Clamped(x, left, right)
                                                      ELSE Clamped(y, 0, w - 1)
<1>1. u = SetCursor(t, [c EXCEPT !.wrap = FALSE, !.col = k])
  BY DEF ClampedColumn
<1>2. /\ c \in CursorType /\ left \in Int /\ right \in Int /\ w \in Count
      /\ 0 <= left /\ left <= right /\ right < w
  BY TermFacts DEF MarginType, PageType
<1> HIDE DEF c, left, right, w
<1>3. k \in Int /\ k \in 0..w - 1
  <2>1. Clamped(x, left, right) \in left..right
    BY <1>2, ClampedRange
  <2>2. Clamped(y, 0, w - 1) \in 0..w - 1
    BY <1>2, ClampedBelow
  <2> QED BY <1>2, <2>1, <2>2 DEF Count
<1> HIDE DEF k
<1> DEFINE d == [c EXCEPT !.wrap = FALSE, !.col = k]
<1>4. /\ d \in CursorType /\ d.line = c.line /\ d.col = k
      /\ d.autoWrap = c.autoWrap /\ d.origin = c.origin
  BY <1>2, <1>3 DEF CursorType
<1> HIDE DEF d
<1>5. Moves(t, u) /\ CursorOf(u) = d
  BY <1>1, <1>4, MovesTo DEF c, d
<1> QED BY <1>3, <1>4, <1>5 DEF On, c, w

\* CUF and CUB move the cursor within the page.
LEMMA MoveCursorForwardMoves ==
    ASSUME NEW t, TermOK(t), NEW n \in Int, NEW u,
           u = MoveCursorForward(t, n) \/ u = MoveCursorBackward(t, n)
    PROVE  Moves(t, u) /\ (On(CursorOf(t), PageOf(t)) => On(CursorOf(u), PageOf(t)))
<1>1. CursorOf(t).col + n \in Int /\ CursorOf(t).col - n \in Int
  BY TermFacts DEF CursorType
<1>2. CASE u = MoveCursorForward(t, n)
  BY <1>1, <1>2, MoveColumnMoves DEF MoveCursorForward
<1>3. CASE u = MoveCursorBackward(t, n)
  BY <1>1, <1>3, MoveColumnMoves DEF MoveCursorBackward
<1> QED BY <1>2, <1>3

\* BS moves the cursor within the page.
LEMMA BackspaceMoves ==
    ASSUME NEW t, TermOK(t), NEW u, u = Backspace(t)
    PROVE  Moves(t, u) /\ (On(CursorOf(t), PageOf(t)) => On(CursorOf(u), PageOf(t)))
<1> DEFINE c == CursorOf(t)
           k == c.col
           d == [c EXCEPT !.col = k - 1]
<1>1. c \in CursorType /\ k \in Int /\ PageOf(t).columns \in Count
  BY TermFacts DEF CursorType, PageType
<1>2. CASE k = 0
  <2>1. u = t
    BY <1>2 DEF Backspace
  <2> QED BY <2>1, MovesNot
<1>3. CASE k # 0
  <2>1. u = SetCursor(t, d)
    BY <1>3 DEF Backspace
  <2> HIDE DEF k
  <2>2. k - 1 \in Int
    BY <1>1, <1>3
  <2>3. /\ d \in CursorType /\ d.line = c.line /\ d.col = k - 1
        /\ d.autoWrap = c.autoWrap /\ d.origin = c.origin
    <3> DEFINE j == k - 1
    <3> HIDE DEF j
    <3>1. d = [c EXCEPT !.col = j] /\ j \in Int /\ j = k - 1
      BY <2>2 DEF j
    <3> HIDE DEF d
    <3> QED BY <1>1, <3>1 DEF CursorType
  <2> HIDE DEF d
  <2>4. Moves(t, u) /\ CursorOf(u) = d
    BY <2>1, <2>3, MovesTo DEF c
  <2>5. ASSUME On(c, PageOf(t)) PROVE k - 1 \in 0..PageOf(t).columns - 1
    <3> DEFINE w == PageOf(t).columns
    <3>1. w \in Nat /\ k \in 0..w - 1
      BY <1>1, <2>5 DEF On, Count, k
    <3> HIDE DEF w
    <3>2. k - 1 \in 0..w - 1
      BY <1>3, <3>1
    <3> QED BY <3>2 DEF w
  <2> QED BY <2>3, <2>4, <2>5 DEF On, c
<1> QED BY <1>2, <1>3

-----------------------------------------------------------------------------
(* Text.                                                                   *)

\* linefeed(): to the next line, unless in the last line of the margins.
LEMMA LinefeedToMoves ==
    ASSUME NEW t, TermOK(t), NEW col \in Int, NEW u, u = LinefeedTo(t, col)
    PROVE  /\ Moves(t, u)
           /\ CursorOf(u).col = col /\ ~CursorOf(u).wrap
           /\ CursorOf(t).line = MarginOf(t).bottom => CursorOf(u).line = CursorOf(t).line
           /\ CursorOf(t).line # MarginOf(t).bottom => CursorOf(u).line = CursorOf(t).line + 1
<1> DEFINE e == CursorOf(t)
           l == e.line
           c == [e EXCEPT !.wrap = FALSE, !.col = col]
           k == IF l = MarginOf(t).bottom THEN l ELSE l + 1
           d == [e EXCEPT !.wrap = FALSE, !.col = col, !.line = k]
<1>1. e \in CursorType /\ l \in Int
  BY TermFacts DEF CursorType
<1>2. c.line = l /\ [c EXCEPT !.line = l + 1] = [e EXCEPT !.wrap = FALSE, !.col = col, !.line = l + 1]
  BY <1>1 DEF CursorType
<1>3. c = [e EXCEPT !.wrap = FALSE, !.col = col, !.line = l]
  BY <1>1 DEF CursorType
<1>4. u = SetCursor(t, IF l = MarginOf(t).bottom THEN c ELSE [c EXCEPT !.line = l + 1])
  BY <1>2 DEF LinefeedTo
<1>5. u = SetCursor(t, d)
  BY <1>2, <1>3, <1>4
<1>6. k \in Int
  <2> HIDE DEF l
  <2> QED BY <1>1
<1> HIDE DEF k, l
<1>7. /\ d \in CursorType /\ d.line = k /\ d.col = col /\ d.wrap = FALSE
      /\ d.autoWrap = e.autoWrap /\ d.origin = e.origin
  BY <1>1, <1>6 DEF CursorType
<1> HIDE DEF d
<1>8. Moves(t, u) /\ CursorOf(u) = d
  BY <1>5, <1>7, MovesTo DEF e
<1> QED BY <1>7, <1>8 DEF k, l

\* Where a line feed ends up on the page.
LEMMA LinefeedOnPage ==
    ASSUME NEW t, TermOK(t), t.current = t.type, On(CursorOf(t), PageOf(t)),
           NEW col \in 0..PageOf(t).columns - 1, NEW u, u = LinefeedTo(t, col)
    PROVE  /\ CursorOf(t).line = PageOf(t).lines - 1 /\ CursorOf(t).line = MarginOf(t).bottom
                => On(CursorOf(u), PageOf(t))
           /\ CursorOf(t).line # PageOf(t).lines - 1 => On(CursorOf(u), PageOf(t))
           /\ CursorOf(t).line <= MarginOf(t).bottom
                => On(CursorOf(u), PageOf(t)) /\ CursorOf(u).line <= MarginOf(t).bottom
           /\ CursorOf(t).line > MarginOf(t).bottom => CursorOf(u).line > MarginOf(t).bottom
<1> DEFINE l == CursorOf(t).line
           k == CursorOf(u).line
           b == MarginOf(t).bottom
           h == PageOf(t).lines
           w == PageOf(t).columns
<1>1. l \in 0..h - 1 /\ h \in Count /\ w \in Count /\ b \in Int /\ b < h
  BY TermFacts DEF On, Fits, PageType, MarginType
<1>2. col \in Nat
  <2> HIDE DEF w
  <2>1. w \in Nat
    BY <1>1 DEF Count
  <2>2. col \in 0..w - 1
    BY DEF w
  <2> QED BY <2>1, <2>2
<1>3. CursorOf(u).col = col /\ (l = b => k = l) /\ (l # b => k = l + 1)
  BY <1>2, LinefeedToMoves
<1>4. k \in 0..h - 1 => On(CursorOf(u), PageOf(t))
  BY <1>3 DEF On
<1> HIDE DEF l, k, b, h, w
<1>5. /\ l # h - 1 => k \in 0..h - 1
      /\ l = b => k \in 0..h - 1
      /\ l <= b => k \in 0..h - 1 /\ k <= b
      /\ l > b => k > b
  BY <1>1, <1>3 DEF Count
<1> QED BY <1>4, <1>5 DEF l, k, b, h

\* crlfIfWrapPending(): nothing is pending after it.
LEMMA CrlfMoves ==
    ASSUME NEW t, TermOK(t), NEW u, u = CrlfIfWrapPending(t)
    PROVE  /\ Moves(t, u)
           /\ ~(CursorOf(u).wrap /\ CursorOf(u).autoWrap)
           /\ CursorOf(t).wrap /\ CursorOf(t).autoWrap
                => u = LinefeedTo(t, MarginOf(t).left) /\ CursorOf(u).col = MarginOf(t).left
           /\ ~(CursorOf(t).wrap /\ CursorOf(t).autoWrap) => u = t
<1>1. CASE CursorOf(t).wrap /\ CursorOf(t).autoWrap
  <2> DEFINE left == MarginOf(t).left
  <2>1. left \in Nat
    BY TermFacts DEF MarginType
  <2>2. u = LinefeedTo(t, left)
    BY <1>1 DEF CrlfIfWrapPending
  <2> HIDE DEF left
  <2>3. Moves(t, u) /\ CursorOf(u).col = left /\ ~CursorOf(u).wrap
    BY <2>1, <2>2, LinefeedToMoves
  <2> QED BY <1>1, <2>2, <2>3 DEF left
<1>2. CASE ~(CursorOf(t).wrap /\ CursorOf(t).autoWrap)
  <2>1. u = t
    BY <1>2 DEF CrlfIfWrapPending
  <2> QED BY <1>2, <2>1, MovesNot
<1> QED BY <1>1, <1>2

\* clearAndAdvance() moves in its line.
LEMMA ClearAndAdvanceMoves ==
    ASSUME NEW t, TermOK(t), NEW width \in Nat, NEW u, u = ClearAndAdvance(t, width)
    PROVE  /\ Moves(t, u)
           /\ CursorOf(u).line = CursorOf(t).line
           /\ On(CursorOf(t), PageOf(t)) => On(CursorOf(u), PageOf(t))
           /\ /\ "LeftRightMargin" \notin t.modes \/ CursorOf(t).line > MarginOf(t).bottom
              /\ CursorOf(t).col + width <= PageOf(t).columns - 1
              => u = SetCursor(t, [CursorOf(t) EXCEPT !.col = CursorOf(t).col + width])
<1> DEFINE c == CursorOf(t)
           k == c.col
           inside == "LeftRightMargin" \in t.modes /\ IsCursorInsideMargins(t)
           w == PageOf(t).columns
           r == MarginOf(t).right
           available == (IF inside THEN r ELSE w) - k - 1
           wrap == c.autoWrap \/ c.wrap
           d == [c EXCEPT !.col = k + width]
           e == [c EXCEPT !.wrap = wrap]
<1>1. /\ c \in CursorType /\ k \in Int /\ w \in Count /\ r \in Int /\ r < w
      /\ CursorOf(t).line \in Int /\ MarginOf(t).bottom \in Int
  BY TermFacts DEF CursorType, MarginType, PageType
<1>2. u = SetCursor(t, IF width <= available THEN d ELSE e)
  BY DEF ClearAndAdvance
<1>3. CursorOf(t).line > MarginOf(t).bottom => ~IsCursorInsideMargins(t)
  BY <1>1 DEF IsCursorInsideMargins, ContainsLine
<1> HIDE DEF k, w, r
<1>4. /\ 0 <= k /\ width <= available => k + width \in 0..w - 1
      /\ ~inside /\ k + width <= w - 1 => width <= available
      /\ k + width \in Int
  <2> HIDE DEF inside
  <2> QED BY <1>1 DEF Count
<1>5. wrap \in BOOLEAN
  OBVIOUS
<1> HIDE DEF wrap, available
<1>6. e \in CursorType /\ e.line = c.line /\ e.col = k /\ e.autoWrap = c.autoWrap /\ e.origin = c.origin
  BY <1>1, <1>5 DEF CursorType, k
<1>7. d \in CursorType /\ d.line = c.line /\ d.col = k + width /\ d.autoWrap = c.autoWrap /\ d.origin = c.origin
  <2> DEFINE j == k + width
  <2> HIDE DEF j
  <2>1. d = [c EXCEPT !.col = j] /\ j \in Int /\ j = k + width
    BY <1>4 DEF j
  <2> HIDE DEF d
  <2> QED BY <1>1, <2>1 DEF CursorType
<1>8. d = [CursorOf(t) EXCEPT !.col = CursorOf(t).col + width]
  BY DEF k
<1> HIDE DEF d, e
<1>9. CASE width <= available
  <2>1. u = SetCursor(t, d)
    BY <1>2, <1>9
  <2>2. Moves(t, u) /\ CursorOf(u) = d
    BY <1>7, <2>1, MovesTo DEF c
  <2>3. On(CursorOf(t), PageOf(t)) => 0 <= k
    BY DEF On, k, c
  <2>4. On(CursorOf(t), PageOf(t)) => On(CursorOf(u), PageOf(t))
    BY <1>4, <1>7, <1>9, <2>2, <2>3 DEF On, c, w
  <2> QED BY <1>7, <1>8, <2>1, <2>2, <2>4 DEF c
<1>10. CASE ~(width <= available)
  <2>1. u = SetCursor(t, e)
    BY <1>2, <1>10
  <2>2. Moves(t, u) /\ CursorOf(u) = e
    BY <1>6, <2>1, MovesTo DEF c
  <2>3. On(CursorOf(t), PageOf(t)) => On(CursorOf(u), PageOf(t))
    BY <1>6, <2>2 DEF On, c, k
  <2>4. ~(~inside /\ k + width <= w - 1)
    BY <1>4, <1>10
  <2>5. ~(/\ "LeftRightMargin" \notin t.modes \/ CursorOf(t).line > MarginOf(t).bottom
          /\ CursorOf(t).col + width <= PageOf(t).columns - 1)
    BY <1>3, <2>4 DEF k, w, c
  <2> QED BY <1>6, <2>2, <2>3, <2>5 DEF c
<1> QED BY <1>9, <1>10

\* writeTextInternal(): a character ends up on the page, but for a line feed on the
\* last line below the margins.
LEMMA WriteTextMoves ==
    ASSUME NEW t, TermOK(t), NEW width \in Nat, NEW u, u = WriteText(t, width)
    PROVE  /\ Moves(t, u)
           /\ /\ t.current = t.type /\ On(CursorOf(t), PageOf(t))
              /\ CursorOf(t).line <= MarginOf(t).bottom
              => On(CursorOf(u), PageOf(t)) /\ CursorOf(u).line <= MarginOf(t).bottom
           /\ /\ t.current = t.type /\ On(CursorOf(t), PageOf(t))
              /\ CursorOf(t).line # PageOf(t).lines - 1 \/ CursorOf(t).line = MarginOf(t).bottom
              => On(CursorOf(u), PageOf(t))
<1> DEFINE v == CrlfIfWrapPending(t)
           left == MarginOf(t).left
           w == PageOf(t).columns
<1>1. u = ClearAndAdvance(v, width)
  BY DEF WriteText
<1>2. /\ Moves(t, v)
      /\ CursorOf(t).wrap /\ CursorOf(t).autoWrap => v = LinefeedTo(t, left)
      /\ ~(CursorOf(t).wrap /\ CursorOf(t).autoWrap) => v = t
  BY CrlfMoves
<1> HIDE DEF v
<1>3. TermOK(v) /\ PageOf(v) = PageOf(t) /\ MarginOf(v) = MarginOf(t)
  BY <1>2, MovesKeeps
<1>4. /\ Moves(v, u) /\ CursorOf(u).line = CursorOf(v).line
      /\ On(CursorOf(v), PageOf(t)) => On(CursorOf(u), PageOf(t))
  BY <1>1, <1>3, ClearAndAdvanceMoves
<1>5. Moves(t, u)
  BY <1>2, <1>4, MovesTwice
<1>6. left \in 0..w - 1
  <2>1. left \in Int /\ MarginOf(t).right \in Int /\ w \in Nat
        /\ 0 <= left /\ left <= MarginOf(t).right /\ MarginOf(t).right < w
    BY TermFacts DEF MarginType, PageType, Count
  <2> HIDE DEF left, w
  <2> QED BY <2>1
<1> HIDE DEF left
<1>7. ASSUME t.current = t.type, On(CursorOf(t), PageOf(t)), CursorOf(t).line <= MarginOf(t).bottom
      PROVE  On(CursorOf(v), PageOf(t)) /\ CursorOf(v).line <= MarginOf(t).bottom
  <2>1. CASE CursorOf(t).wrap /\ CursorOf(t).autoWrap
    BY <1>2, <1>6, <1>7, <2>1, LinefeedOnPage
  <2>2. CASE ~(CursorOf(t).wrap /\ CursorOf(t).autoWrap)
    BY <1>2, <1>7, <2>2
  <2> QED BY <2>1, <2>2
<1>8. ASSUME t.current = t.type, On(CursorOf(t), PageOf(t)),
             CursorOf(t).line # PageOf(t).lines - 1 \/ CursorOf(t).line = MarginOf(t).bottom
      PROVE  On(CursorOf(v), PageOf(t))
  <2>1. CASE CursorOf(t).wrap /\ CursorOf(t).autoWrap
    BY <1>2, <1>6, <1>8, <2>1, LinefeedOnPage
  <2>2. CASE ~(CursorOf(t).wrap /\ CursorOf(t).autoWrap)
    BY <1>2, <1>8, <2>2
  <2> QED BY <2>1, <2>2
<1> QED BY <1>4, <1>5, <1>7, <1>8

\* The states that n characters go through.
LEMMA WriteTimesSteps ==
    ASSUME NEW t, TermOK(t), NEW n \in Nat
    PROVE  \E g : /\ \A k \in 0..n : Moves(t, g[k])
                  /\ g[0] = t
                  /\ \A k \in 1..n : g[k] = WriteText(g[k - 1], 1)
                  /\ WriteTimes(t, n) = g[n]
<1> DEFINE T == {u \in TermType : Moves(t, u)}
           F == [u \in T |-> WriteText(u, 1)]
           D(g) == g = [k \in 0..n |-> IF k = 0 THEN t ELSE WriteText(g[k - 1], 1)]
           w == CHOOSE g : D(g)
<1>1. t \in T
  BY MovesNot DEF TermOK
<1>2. \A u \in T : WriteText(u, 1) \in T
  <2> TAKE u \in T
  <2> DEFINE v == WriteText(u, 1)
  <2>1. TermOK(u) /\ Moves(t, u)
    BY MovesKeeps
  <2>2. Moves(u, v)
    BY <2>1, WriteTextMoves
  <2> HIDE DEF v
  <2>3. Moves(t, v)
    BY <2>1, <2>2, MovesTwice
  <2>4. v \in TermType
    BY <2>3, MovesKeeps DEF TermOK
  <2> QED BY <2>3, <2>4 DEF v
<1>3. F \in [T -> T]
  BY <1>2
<1> HIDE DEF F
<1>4. PICK g \in [0..n -> T] : g[0] = t /\ \A k \in 1..n : g[k] = F[g[k - 1]]
  <2> HIDE DEF T
  <2>1. Iterations(T, F, t, n) # {}
    BY <1>1, <1>3, IterationExists
  <2> QED BY <2>1 DEF Iterations
<1>5. \A k \in 1..n : g[k] = WriteText(g[k - 1], 1)
  <2> TAKE k \in 1..n
  <2>1. k - 1 \in 0..n
    OBVIOUS
  <2> HIDE DEF T
  <2>2. g[k - 1] \in T
    BY <2>1
  <2> QED BY <1>4, <2>2 DEF F
<1>6. D(g)
  <2> HIDE DEF T
  <2> QED BY <1>4, <1>5
<1>7. D(w)
  <2> HIDE DEF D
  <2> QED BY <1>6
<1>8. WriteTimes(t, n) = w[n]
  BY DEF WriteTimes
<1> HIDE DEF w
<1>9. w[0] = t /\ \A k \in 1..n : w[k] = WriteText(w[k - 1], 1)
  BY <1>7
<1>10. \A k \in 0..n : w[k] \in T
  <2> DEFINE S == {k \in Nat : k <= n => w[k] \in T}
  <2> HIDE DEF T
  <2>1. 0 \in S
    BY <1>1, <1>9
  <2>2. ASSUME NEW k \in Nat, k \in S PROVE k + 1 \in S
    <3>1. k + 1 <= n => w[k + 1] = WriteText(w[k], 1) /\ w[k] \in T
      BY <1>9, <2>2
    <3> QED BY <1>2, <3>1
  <2> HIDE DEF S
  <2>3. Nat \subseteq S
    BY <2>1, <2>2, SetInduction
  <2> QED BY <2>3 DEF S
<1> QED BY <1>8, <1>9, <1>10

\* Writing n characters one by one moves the cursor.
LEMMA WriteTimesMoves ==
    ASSUME NEW t, TermOK(t), NEW n \in Nat, NEW u, u = WriteTimes(t, n)
    PROVE  Moves(t, u)
<1>1. PICK g : (\A k \in 0..n : Moves(t, g[k])) /\ WriteTimes(t, n) = g[n]
  BY WriteTimesSteps
<1> QED BY <1>1

\* Text that starts above the bottom margin stays there.
LEMMA WriteTimesAbove ==
    ASSUME NEW t, TermOK(t), NEW n \in Nat, NEW u, u = WriteTimes(t, n), t.current = t.type,
           On(CursorOf(t), PageOf(t)), CursorOf(t).line <= MarginOf(t).bottom
    PROVE  On(CursorOf(u), PageOf(t))
<1>1. PICK g : /\ \A k \in 0..n : Moves(t, g[k])
               /\ g[0] = t
               /\ \A k \in 1..n : g[k] = WriteText(g[k - 1], 1)
               /\ WriteTimes(t, n) = g[n]
  BY WriteTimesSteps
<1> DEFINE A(v) == On(CursorOf(v), PageOf(t)) /\ CursorOf(v).line <= MarginOf(t).bottom
           S == {k \in Nat : k <= n => A(g[k])}
<1>2. 0 \in S
  BY <1>1
<1>3. ASSUME NEW k \in Nat, k \in S, k + 1 <= n PROVE A(g[k + 1])
  <2> DEFINE v == g[k]
             x == g[k + 1]
  <2>1. Moves(t, v) /\ x = WriteText(v, 1)
    BY <1>1, <1>3
  <2>2. A(v)
    BY <1>3
  <2> HIDE DEF v, x
  <2>3. /\ TermOK(v) /\ PageOf(v) = PageOf(t) /\ MarginOf(v) = MarginOf(t)
        /\ v.current = v.type
    BY <2>1, MovesKeeps
  <2>4. A(x)
    BY <2>1, <2>2, <2>3, WriteTextMoves
  <2> QED BY <2>4 DEF x
<1>4. \A k \in Nat : k \in S => k + 1 \in S
  BY <1>3
<1> HIDE DEF S
<1>5. Nat \subseteq S
  BY <1>2, <1>4, SetInduction
<1> QED BY <1>1, <1>5 DEF S

\* Beside or without horizontal margins, the cursor goes on to the last column.
Plain(t) == "LeftRightMargin" \notin t.modes \/ CursorOf(t).line > MarginOf(t).bottom
Forward(t, n) == SetCursor(t, [CursorOf(t) EXCEPT !.col = CursorOf(t).col + n])

\* Forward() adds to the column alone, and stays on the page if there is room.
LEMMA ForwardMoves ==
    ASSUME NEW t, TermOK(t), NEW n \in Nat, NEW u, u = Forward(t, n)
    PROVE  /\ Moves(t, u)
           /\ CursorOf(u) = [CursorOf(t) EXCEPT !.col = CursorOf(t).col + n]
           /\ CursorOf(u).line = CursorOf(t).line /\ CursorOf(u).col = CursorOf(t).col + n
           /\ CursorOf(u).wrap = CursorOf(t).wrap /\ CursorOf(u).autoWrap = CursorOf(t).autoWrap
           /\ Plain(t) => Plain(u)
           /\ CursorOf(t).col + n <= PageOf(t).columns - 1 /\ On(CursorOf(t), PageOf(t))
                => On(CursorOf(u), PageOf(t))
<1> DEFINE c == CursorOf(t)
           k == c.col
           j == k + n
           d == [c EXCEPT !.col = j]
<1>1. c \in CursorType /\ k \in Int /\ PageOf(t).columns \in Nat
  BY TermFacts DEF CursorType, PageType, Count
<1>2. u = SetCursor(t, d)
  BY DEF Forward
<1> HIDE DEF k
<1>3. j \in Int /\ (k >= 0 => j >= 0)
  BY <1>1
<1> HIDE DEF j
<1>4. /\ d \in CursorType /\ d.line = c.line /\ d.col = j /\ d.wrap = c.wrap
      /\ d.autoWrap = c.autoWrap /\ d.origin = c.origin
  BY <1>1, <1>3 DEF CursorType
<1>5. d = [CursorOf(t) EXCEPT !.col = CursorOf(t).col + n]
  BY DEF j, k
<1> HIDE DEF d
<1>6. Moves(t, u) /\ CursorOf(u) = d
  BY <1>2, <1>4, MovesTo DEF c
<1>7. Plain(t) => Plain(u)
  <2>1. u.modes = t.modes /\ MarginOf(u) = MarginOf(t)
    BY <1>6, MovesKeeps
  <2> QED BY <1>4, <1>6, <2>1 DEF Plain
<1>8. j <= PageOf(t).columns - 1 /\ On(CursorOf(t), PageOf(t)) => On(CursorOf(u), PageOf(t))
  <2> DEFINE w == PageOf(t).columns
  <2>1. w \in Nat
    BY <1>1
  <2> HIDE DEF w
  <2>2. k >= 0 /\ j <= w - 1 => j \in 0..w - 1
    BY <1>3, <2>1
  <2>3. On(CursorOf(t), PageOf(t)) => k >= 0
    BY DEF On, k, c
  <2> QED BY <1>4, <1>6, <2>2, <2>3 DEF On, w, c
<1> QED BY <1>4, <1>5, <1>6, <1>7, <1>8 DEF j, k, c

\* Forward by n and by m is forward by n + m.
LEMMA ForwardTwice ==
    ASSUME NEW t, TermOK(t), NEW n \in Nat, NEW m \in Nat
    PROVE  Forward(Forward(t, n), m) = Forward(t, n + m)
<1> DEFINE u == Forward(t, n)
           v == Forward(u, m)
           c == CursorOf(t)
           k == c.col
<1>0. c \in CursorType /\ k \in Int
  BY TermFacts DEF CursorType
<1>1. /\ Moves(t, u) /\ CursorOf(u) = [c EXCEPT !.col = k + n] /\ CursorOf(u).col = k + n
  BY ForwardMoves
<1> HIDE DEF u
<1>2. TermOK(u)
  BY <1>1, MovesKeeps
<1>3. Moves(u, v) /\ CursorOf(v) = [CursorOf(u) EXCEPT !.col = CursorOf(u).col + m]
  BY <1>2, ForwardMoves
<1> HIDE DEF v
<1>4. Moves(t, v)
  BY <1>1, <1>3, MovesTwice
<1>5. CursorOf(v) = [c EXCEPT !.col = (k + n) + m]
  BY <1>0, <1>1, <1>3 DEF CursorType
<1>6. (k + n) + m = k + (n + m)
  <2> HIDE DEF k
  <2> QED BY <1>0
<1>7. v = SetCursor(t, [c EXCEPT !.col = k + (n + m)])
  BY <1>4, <1>5, <1>6 DEF Moves
<1> QED BY <1>7 DEF Forward, v, u

\* clearAndAdvance() where there is room.
LEMMA ClearAndAdvancePlain ==
    ASSUME NEW t, TermOK(t), Plain(t), CursorOf(t).col + 1 <= PageOf(t).columns - 1
    PROVE  ClearAndAdvance(t, 1) = Forward(t, 1)
  BY ClearAndAdvanceMoves DEF Plain, Forward

\* n characters in one line.
LEMMA WriteTimesPlain ==
    ASSUME NEW t, TermOK(t), NEW n \in Count, NEW v, v = CrlfIfWrapPending(t), Plain(v),
           CursorOf(v).col + n <= PageOf(t).columns - 1
    PROVE  WriteTimes(t, n) = Forward(v, n)
<1>1. PICK g : /\ g[0] = t
               /\ \A k \in 1..n : g[k] = WriteText(g[k - 1], 1)
               /\ WriteTimes(t, n) = g[n]
  BY WriteTimesSteps DEF Count
<1>2. Moves(t, v) /\ ~(CursorOf(v).wrap /\ CursorOf(v).autoWrap)
  BY CrlfMoves
<1>3. TermOK(v) /\ PageOf(v) = PageOf(t)
  BY <1>2, MovesKeeps
<1> DEFINE a == CursorOf(v).col
           w == PageOf(t).columns
           S == {k \in Nat : k < n => g[k + 1] = Forward(v, k + 1)}
<1>4. a \in Int /\ w \in Nat /\ a + n <= w - 1 /\ n \in Nat /\ n >= 1
  BY <1>3, TermFacts DEF CursorType, PageType, Count
<1>5. 0 \in S
  <2>1. a + 1 <= w - 1
    <3> HIDE DEF a, w
    <3> QED BY <1>4
  <2>2. ClearAndAdvance(v, 1) = Forward(v, 1)
    BY <1>3, <2>1, ClearAndAdvancePlain
  <2>3. g[1] = WriteText(g[0], 1)
    BY <1>1, <1>4
  <2> QED BY <1>1, <2>2, <2>3 DEF WriteText
<1>6. ASSUME NEW k \in Nat, k + 1 < n, g[k + 1] = Forward(v, k + 1)
      PROVE  g[k + 2] = Forward(v, k + 2)
  <2> DEFINE u == Forward(v, k + 1)
  <2>1. /\ Moves(v, u) /\ CursorOf(u).col = a + (k + 1)
        /\ CursorOf(u).wrap = CursorOf(v).wrap /\ CursorOf(u).autoWrap = CursorOf(v).autoWrap
        /\ Plain(u)
    BY <1>3, ForwardMoves
  <2>2. g[k + 2] = WriteText(u, 1)
    <3>1. k + 2 \in 1..n /\ (k + 2) - 1 = k + 1
      BY <1>4, <1>6
    <3>2. g[k + 2] = WriteText(g[(k + 2) - 1], 1)
      BY <1>1, <3>1
    <3> QED BY <1>6, <3>1, <3>2
  <2>3. Forward(u, 1) = Forward(v, k + 2)
    BY <1>3, ForwardTwice
  <2> HIDE DEF u
  <2>4. CrlfIfWrapPending(u) = u
    BY <1>2, <2>1 DEF CrlfIfWrapPending
  <2>5. TermOK(u) /\ PageOf(u) = PageOf(t)
    BY <1>3, <2>1, MovesKeeps
  <2>6. (a + (k + 1)) + 1 <= w - 1
    <3> HIDE DEF a, w
    <3> QED BY <1>4, <1>6
  <2>7. ClearAndAdvance(u, 1) = Forward(u, 1)
    BY <2>1, <2>5, <2>6, ClearAndAdvancePlain
  <2> QED BY <2>2, <2>3, <2>4, <2>7 DEF WriteText
<1>7. \A k \in Nat : k \in S => k + 1 \in S
  <2> TAKE k \in Nat
  <2> HAVE k \in S
  <2>1. CASE k + 1 < n
    <3>1. g[k + 1] = Forward(v, k + 1)
      BY <1>4, <2>1
    <3>2. g[k + 2] = Forward(v, k + 2) /\ (k + 1) + 1 = k + 2
      BY <1>6, <2>1, <3>1
    <3> QED BY <3>2
  <2>2. CASE ~(k + 1 < n)
    BY <2>2
  <2> QED BY <2>1, <2>2
<1> HIDE DEF S
<1>8. n - 1 \in S
  BY <1>4, <1>5, <1>7, SetInduction
<1>9. n - 1 < n /\ (n - 1) + 1 = n
  BY <1>4
<1>10. g[n] = Forward(v, n)
  BY <1>8, <1>9 DEF S
<1> QED BY <1>1, <1>10

\* advanceCursorAfterWrite() stays in its line.
LEMMA AdvanceMoves ==
    ASSUME NEW t, TermOK(t), NEW n \in Count, NEW u, u = AdvanceCursorAfterWrite(t, n)
    PROVE  /\ Moves(t, u)
           /\ CursorOf(t).col + n <= PageOf(t).columns - 1 => u = Forward(t, n)
<1> DEFINE c == CursorOf(t)
           k == c.col
           w == PageOf(t).columns
           j == k + (n - 1)
           e == [c EXCEPT !.col = j, !.wrap = TRUE]
<1>1. c \in CursorType /\ k \in Int /\ w \in Nat /\ n \in Nat /\ n >= 1
  BY TermFacts DEF CursorType, PageType, Count
<1>2. CASE k + n < w
  <2>1. u = Forward(t, n)
    BY <1>2 DEF AdvanceCursorAfterWrite, Forward
  <2> QED BY <1>1, <2>1, ForwardMoves
<1>3. CASE ~(k + n < w)
  <2>1. u = SetCursor(t, e)
    BY <1>3 DEF AdvanceCursorAfterWrite
  <2> HIDE DEF k, w
  <2>2. j \in Int /\ ~(k + n <= w - 1)
    BY <1>1, <1>3
  <2> HIDE DEF j
  <2>3. e \in CursorType /\ e.autoWrap = c.autoWrap /\ e.origin = c.origin
    BY <1>1, <2>2 DEF CursorType
  <2> HIDE DEF e
  <2>4. Moves(t, u)
    BY <2>1, <2>3, MovesTo DEF c
  <2> QED BY <2>2, <2>4 DEF k, w
<1> QED BY <1>2, <1>3

\* Every page that is written to is as wide as the window.
LEMMA PageColumns ==
    ASSUME NEW t, TermOK(t)
    PROVE  /\ t.size \in SizeType /\ PageOf(t).columns = t.size.columns
           /\ MainPage(t) \in PageType /\ MainPage(t).columns = t.size.columns
           /\ t.margins.main \in MarginType /\ Fits(t.margins.main, MainPage(t))
           /\ t.margins.main.right < t.size.columns
           /\ t.current = t.type => PageOf(t) = MainPage(t) /\ MarginOf(t) = t.margins.main
<1>1. t \in TermType /\ t.size \in SizeType /\ t.margins["main"] \in MarginType
  BY DEF TermOK, TermType
<1> DEFINE s == t.size
           h == StatusLineHeight(t)
           l == s.lines
           k == l - h
<1>2. h \in {0, 1} /\ l \in Nat \ {0, 1} /\ s.columns \in Count
  BY <1>1 DEF StatusLineHeight, SizeType
<1>3. MainPage(t) = [s EXCEPT !.lines = k]
  BY DEF MainPage
<1> HIDE DEF h, l
<1>4. k \in Count
  BY <1>2 DEF Count
<1> HIDE DEF k
<1>5. MainPage(t) \in PageType /\ MainPage(t).columns = t.size.columns
  BY <1>1, <1>2, <1>3, <1>4 DEF PageType, SizeType
<1>6. t.current \in {t.type, "status"} /\ t.screens[t.type].page = MainPage(t)
      /\ t.screens["status"].page.columns = t.size.columns
      /\ Fits(t.margins["main"], MainPage(t)) /\ t.type # "status"
  BY DEF TermOK, TermType
<1>7. PageOf(t).columns = t.size.columns
  BY <1>5, <1>6 DEF PageOf
<1>8. t.current = t.type => PageOf(t) = MainPage(t) /\ MarginOf(t) = t.margins["main"]
  BY <1>6 DEF PageOf, MarginOf
<1> QED BY <1>1, <1>5, <1>6, <1>7, <1>8 DEF Fits

\* The scalars that text depends on.
LEMMA PositionFacts ==
    ASSUME NEW t, TermOK(t)
    PROVE  /\ CursorOf(t).line \in Int /\ CursorOf(t).col \in Int
           /\ PageOf(t).lines \in Count /\ PageOf(t).columns \in Count
           /\ MarginOf(t).bottom \in Int /\ MarginOf(t).left \in Int /\ MarginOf(t).right \in Int
           /\ 0 <= MarginOf(t).left /\ MarginOf(t).left <= MarginOf(t).right
           /\ MarginOf(t).right < PageOf(t).columns
           /\ MarginOf(t).left \in 0..PageOf(t).columns - 1
<1>1. /\ CursorOf(t).line \in Int /\ CursorOf(t).col \in Int
      /\ PageOf(t).lines \in Count /\ PageOf(t).columns \in Count
      /\ MarginOf(t).bottom \in Int /\ MarginOf(t).left \in Int /\ MarginOf(t).right \in Int
      /\ 0 <= MarginOf(t).left /\ MarginOf(t).left <= MarginOf(t).right
      /\ MarginOf(t).right < PageOf(t).columns
  BY TermFacts DEF CursorType, PageType, MarginType
<1> DEFINE l == MarginOf(t).left
           r == MarginOf(t).right
           w == PageOf(t).columns
<1>2. l \in Int /\ r \in Int /\ w \in Int /\ 0 <= l /\ l <= r /\ r < w
  BY <1>1 DEF Count
<1> HIDE DEF l, r, w
<1>3. l \in 0..w - 1
  BY <1>2
<1> QED BY <1>1, <1>3 DEF l, w

\* A pending wrap leads to a column before the cursor, on the page.
LEMMA CrlfOnPage ==
    ASSUME NEW t, TermOK(t), t.current = t.type, On(CursorOf(t), PageOf(t)), ~LeavesPage(t),
           NEW v, v = CrlfIfWrapPending(t)
    PROVE  /\ On(CursorOf(v), PageOf(t)) /\ CursorOf(v).col <= CursorOf(t).col
           /\ CursorOf(t).line > MarginOf(t).bottom => CursorOf(v).line > MarginOf(t).bottom
<1>1. /\ CursorOf(t).col \in Int /\ MarginOf(t).left \in Int
      /\ MarginOf(t).left \in 0..PageOf(t).columns - 1
  BY PositionFacts
<1>2. CASE CursorOf(t).wrap /\ CursorOf(t).autoWrap
  <2>1. v = LinefeedTo(t, MarginOf(t).left) /\ CursorOf(v).col = MarginOf(t).left
    BY <1>2, CrlfMoves
  <2>2. ~(CursorOf(t).col < MarginOf(t).left)
    BY <1>2 DEF LeavesPage
  <2>3. CursorOf(t).line = PageOf(t).lines - 1 => CursorOf(t).line = MarginOf(t).bottom
    BY DEF LeavesPage
  <2> DEFINE left == MarginOf(t).left
  <2>4. left \in 0..PageOf(t).columns - 1 /\ v = LinefeedTo(t, left)
    BY <1>1, <2>1
  <2> HIDE DEF left
  <2>5. /\ On(CursorOf(v), PageOf(t))
        /\ CursorOf(t).line > MarginOf(t).bottom => CursorOf(v).line > MarginOf(t).bottom
    BY <2>3, <2>4, LinefeedOnPage
  <2>6. CursorOf(v).col <= CursorOf(t).col
    BY <1>1, <2>1, <2>2
  <2> QED BY <2>5, <2>6
<1>3. CASE ~(CursorOf(t).wrap /\ CursorOf(t).autoWrap)
  BY <1>1, <1>3, CrlfMoves
<1> QED BY <1>2, <1>3

\* REP and text that is not written at once.
LEMMA WriteTimesOnPage ==
    ASSUME NEW t, TermOK(t), t.current = t.type, On(CursorOf(t), PageOf(t)), ~LeavesPage(t),
           NEW n \in Nat, NEW u, u = WriteTimes(t, n),
           ContainsColumn(MarginOf(t), CursorOf(t).col) => n <= MarginOf(t).right - CursorOf(t).col
    PROVE  On(CursorOf(u), PageOf(t))
<1> DEFINE v == CrlfIfWrapPending(t)
           k == CursorOf(t).col
           j == CursorOf(v).col
           r == MarginOf(t).right
           w == PageOf(t).columns
<1>1. k \in Int /\ r \in Int /\ w \in Nat /\ r < w /\ MarginOf(t).bottom \in Int
      /\ CursorOf(t).line \in Int
  BY PositionFacts DEF Count
<1>2. CASE CursorOf(t).line <= MarginOf(t).bottom
  BY <1>2, WriteTimesAbove
<1>3. CASE ~(CursorOf(t).line <= MarginOf(t).bottom)
  <2>1. CursorOf(t).line > MarginOf(t).bottom
    BY <1>1, <1>3
  <2>2. n <= r - k
    BY <2>1 DEF LeavesPage
  <2>3. On(CursorOf(v), PageOf(t)) /\ j <= k /\ CursorOf(v).line > MarginOf(t).bottom
    BY <2>1, CrlfOnPage
  <2>4. Moves(t, v)
    BY CrlfMoves
  <2>5. TermOK(v) /\ MarginOf(v) = MarginOf(t) /\ PageOf(v) = PageOf(t)
    BY <2>4, MovesKeeps
  <2>6. Plain(v)
    BY <2>3, <2>5 DEF Plain
  <2>7. j \in Int
    BY <2>5, PositionFacts
  <2>8. j + n <= w - 1
    <3> HIDE DEF j, k, r, w
    <3> QED BY <1>1, <2>2, <2>3, <2>7
  <2>9. CASE n = 0
    <3>1. PICK g : g[0] = t /\ WriteTimes(t, n) = g[n]
      BY WriteTimesSteps
    <3>2. u = t
      BY <2>9, <3>1
    <3> QED BY <3>2
  <2>10. CASE n # 0
    <3>1. n \in Count
      BY <2>10 DEF Count
    <3>2. u = Forward(v, n)
      BY <2>6, <2>8, <3>1, WriteTimesPlain
    <3> HIDE DEF v
    <3> QED BY <2>3, <2>5, <2>8, <3>2, ForwardMoves
  <2> QED BY <2>9, <2>10
<1> QED BY <1>2, <1>3

\* Text written at once moves the cursor, within the page unless LeavesPage().
LEMMA WriteBulkMoves ==
    ASSUME NEW t, TermOK(t), NEW n \in 1..MaxBulkTextSequenceWidth(t), NEW u, u = WriteBulk(t, n)
    PROVE  /\ Moves(t, u)
           /\ t.current = t.type /\ On(CursorOf(t), PageOf(t)) /\ ~LeavesPage(t)
                => On(CursorOf(u), PageOf(t))
<1> DEFINE v == CrlfIfWrapPending(t)
           k == CursorOf(t).col
           r == t.margins.main.right
           w == PageOf(t).columns
<1>1. k \in Int /\ r \in Int /\ w \in Nat /\ r < w
  BY PositionFacts, PageColumns DEF Count, MarginType
<1>2. n \in Count /\ n \in Nat /\ n <= r - k
  <2> DEFINE m == MaxBulkTextSequenceWidth(t)
  <2>1. m = IF t.type = "primary" THEN r - k ELSE 0
    BY DEF MaxBulkTextSequenceWidth
  <2> HIDE DEF m, r, k
  <2>2. m \in Int /\ n \in 1..m
    BY <1>1, <2>1 DEF m
  <2> QED BY <1>1, <2>1, <2>2 DEF Count
<1>3. Moves(t, v)
  BY CrlfMoves
<1>4. TermOK(v) /\ PageOf(v) = PageOf(t)
  BY <1>3, MovesKeeps
<1>5. CASE MarginOf(t).right + 1 = PageOf(t).columns
  <2>1. u = AdvanceCursorAfterWrite(v, n)
    BY <1>5 DEF WriteBulk
  <2> DEFINE j == CursorOf(v).col
  <2>2. j \in Int
    BY <1>4, PositionFacts
  <2>3. Moves(v, u) /\ (j + n <= w - 1 => u = Forward(v, n))
    <3> HIDE DEF v
    <3> QED BY <1>2, <1>4, <2>1, AdvanceMoves
  <2>4. Moves(t, u)
    BY <1>3, <2>3, MovesTwice
  <2>5. ASSUME t.current = t.type, On(CursorOf(t), PageOf(t)), ~LeavesPage(t)
        PROVE  On(CursorOf(u), PageOf(t))
    <3>1. On(CursorOf(v), PageOf(t)) /\ j <= k
      BY <2>5, CrlfOnPage
    <3>2. j + n <= w - 1
      <4> HIDE DEF j, k, r, w
      <4> QED BY <1>1, <1>2, <2>2, <3>1
    <3> HIDE DEF v
    <3> QED BY <1>2, <1>4, <2>3, <3>1, <3>2, ForwardMoves
  <2> QED BY <2>4, <2>5
<1>6. CASE MarginOf(t).right + 1 # PageOf(t).columns
  <2>1. u = WriteTimes(t, n)
    BY <1>6 DEF WriteBulk
  <2>2. Moves(t, u)
    BY <1>2, <2>1, WriteTimesMoves
  <2>3. ASSUME t.current = t.type, On(CursorOf(t), PageOf(t)), ~LeavesPage(t)
        PROVE  On(CursorOf(u), PageOf(t))
    <3>1. n <= MarginOf(t).right - CursorOf(t).col
      BY <1>2, <2>3, PageColumns
    <3> QED BY <1>2, <2>1, <2>3, <3>1, WriteTimesOnPage
  <2> QED BY <2>2, <2>3
<1> QED BY <1>5, <1>6

\* Both ways to write text end in the same cursor.
LEMMA BulkAsTimes ==
    ASSUME NEW t, TermOK(t), NEW n \in 1..MaxBulkTextSequenceWidth(t),
           "LeftRightMargin" \notin t.modes, MarginOf(t).left = 0, CursorOf(t).col >= 0
    PROVE  WriteBulk(t, n) = WriteTimes(t, n)
<1> DEFINE v == CrlfIfWrapPending(t)
           k == CursorOf(t).col
           j == CursorOf(v).col
           r == t.margins.main.right
           w == PageOf(t).columns
<1>1. k \in Int /\ r \in Int /\ w \in Nat /\ r < w
  BY PositionFacts, PageColumns DEF Count, MarginType
<1>2. n \in Count /\ n \in Nat /\ n <= r - k
  <2> DEFINE m == MaxBulkTextSequenceWidth(t)
  <2>1. m = IF t.type = "primary" THEN r - k ELSE 0
    BY DEF MaxBulkTextSequenceWidth
  <2> HIDE DEF m, r, k
  <2>2. m \in Int /\ n \in 1..m
    BY <1>1, <2>1 DEF m
  <2> QED BY <1>1, <2>1, <2>2 DEF Count
<1>3. Moves(t, v) /\ (j = 0 \/ j = k)
  BY CrlfMoves
<1>4. TermOK(v) /\ PageOf(v) = PageOf(t) /\ v.modes = t.modes
  BY <1>3, MovesKeeps
<1>5. Plain(v)
  BY <1>4 DEF Plain
<1>6. j + n <= w - 1
  <2>1. k >= 0
    OBVIOUS
  <2> HIDE DEF j, k, r, w
  <2> QED BY <1>1, <1>2, <1>3, <2>1
<1>7. WriteTimes(t, n) = Forward(v, n)
  BY <1>2, <1>5, <1>6, WriteTimesPlain
<1>8. AdvanceCursorAfterWrite(v, n) = Forward(v, n)
  <2> HIDE DEF v
  <2> QED BY <1>2, <1>4, <1>6, AdvanceMoves
<1> QED BY <1>7, <1>8 DEF WriteBulk

-----------------------------------------------------------------------------
(* Tab stops.                                                              *)

\* A movement that does not leave the page.
Stays(t, u) == Moves(t, u) /\ (On(CursorOf(t), PageOf(t)) => On(CursorOf(u), PageOf(t)))

\* Moves within the page compose.
LEMMA StaysTwice ==
    ASSUME NEW t, TermOK(t), NEW u, Stays(t, u), NEW v, Stays(u, v)
    PROVE  Stays(t, v)
<1>1. Moves(t, u) /\ Moves(u, v)
  BY DEF Stays
<1>2. PageOf(u) = PageOf(t) /\ Moves(t, v)
  BY <1>1, MovesKeeps, MovesTwice
<1> QED BY <1>2 DEF Stays

\* The tab stops are numbers in order; the logical position is a pair of numbers.
LEMMA TabFacts ==
    ASSUME NEW t, TermOK(t)
    PROVE  /\ Len(t.tabs) \in Nat /\ DOMAIN t.tabs = 1..Len(t.tabs)
           /\ \A i \in DOMAIN t.tabs : t.tabs[i] \in Nat
           /\ LogicalPosition(t)[1] \in Int /\ LogicalPosition(t)[2] \in Int
<1>1. t.tabs \in Seq(Nat)
  BY DEF TermOK, TermType
<1> DEFINE q == t.tabs
<1> HIDE DEF q
<1>2. Len(q) \in Nat /\ DOMAIN q = 1..Len(q) /\ \A i \in DOMAIN q : q[i] \in Nat
  BY <1>1, LenProperties DEF q
<1>3. CursorOf(t).line \in Int /\ CursorOf(t).col \in Int /\ MarginOf(t).top \in Int /\ MarginOf(t).left \in Int
  BY TermFacts DEF CursorType, MarginType
<1>4. LogicalPosition(t)[1] \in Int /\ LogicalPosition(t)[2] \in Int
  BY <1>3 DEF LogicalPosition
<1> QED BY <1>2, <1>4 DEF q

\* HT moves the cursor within the page.
LEMMA MoveCursorToNextTabStays ==
    ASSUME NEW t, TermOK(t), NEW u, u = MoveCursorToNextTab(t)
    PROVE  Stays(t, u)
<1> DEFINE c == CursorOf(t)
           logical == LogicalPosition(t)[2]
           next == {i \in DOMAIN t.tabs : t.tabs[i] > c.col}
           right == MarginOf(t).right
           a == t.tabs[Min(next)] - logical
           b == right - logical
           d == Min({TabWidth - (c.col % TabWidth), PageOf(t).columns - logical})
<1>1. /\ c.col \in Int /\ logical \in Int /\ right \in Int /\ PageOf(t).columns \in Int
      /\ TabWidth \in Nat \ {0}
  BY PositionFacts, TabFacts, ScreenAssumption DEF Count
<1>2. u = CASE next # {} -> MoveCursorForward(t, a)
            [] next = {} /\ t.tabs # <<>> /\ c.col < right -> MoveCursorForward(t, b)
            [] t.tabs = <<>> /\ c.col < right -> MoveCursorForward(t, d)
            [] OTHER -> t
  BY DEF MoveCursorToNextTab
<1>3. next # {} => a \in Int
  <2>1. next \subseteq Nat /\ next \subseteq DOMAIN t.tabs
    BY TabFacts
  <2>2. next # {} => Min(next) \in next
    BY <2>1, MinOfSome
  <2> HIDE DEF next, logical
  <2>3. next # {} => t.tabs[Min(next)] \in Nat
    BY <2>1, <2>2, TabFacts
  <2> QED BY <1>1, <2>3
<1>4. b \in Int
  <2> HIDE DEF right, logical
  <2> QED BY <1>1
<1>5. d \in Int
  <2> DEFINE k == c.col
             w == PageOf(t).columns
             x == TabWidth - (k % TabWidth)
             y == w - logical
  <2>1. k \in Int /\ w \in Int
    BY <1>1
  <2>2. d = Min({x, y})
    OBVIOUS
  <2> HIDE DEF logical, k, w
  <2>3. x \in Int /\ y \in Int
    BY <1>1, <2>1
  <2> HIDE DEF x, y, d
  <2> QED BY <2>2, <2>3, MinMaxOfTwo
<1>6. \A n \in Int : Stays(t, MoveCursorForward(t, n))
  BY MoveCursorForwardMoves DEF Stays
<1>7. Stays(t, t)
  BY MovesNot DEF Stays
<1> HIDE DEF a, b, d, next, right
<1>8. (next # {} /\ u = MoveCursorForward(t, a)) \/ u = MoveCursorForward(t, b) \/ u = MoveCursorForward(t, d) \/ u = t
  <2>1. CASE next # {}
    BY <1>2, <2>1
  <2>2. CASE next = {} /\ t.tabs # <<>> /\ c.col < right
    BY <1>2, <2>2
  <2>3. CASE next = {} /\ t.tabs = <<>> /\ c.col < right
    BY <1>2, <2>3
  <2>4. CASE next = {} /\ ~(c.col < right)
    BY <1>2, <2>4
  <2> QED BY <2>1, <2>2, <2>3, <2>4
<1> QED BY <1>3, <1>4, <1>5, <1>6, <1>7, <1>8

\* A single step back to a tab stop moves the cursor within the page.
LEMMA PreviousTabStays ==
    ASSUME NEW t, TermOK(t), NEW u, u = PreviousTab(t)
    PROVE  Stays(t, u)
<1> DEFINE before == TabsBefore(t)
           x == IF before = {} THEN MarginOf(t).left ELSE t.tabs[Max(before)]
<1>1. u = SetCurrentColumn(t, x)
  BY DEF PreviousTab
<1>2. before \subseteq 0..Len(t.tabs) /\ before \subseteq DOMAIN t.tabs
  BY TabFacts DEF TabsBefore
<1> HIDE DEF before
<1>3. before # {} => Max(before) \in before
  BY <1>2, TabFacts, MaxOfSome
<1>4. MarginOf(t).left \in Nat
  BY PositionFacts
<1>5. x \in Nat
  BY <1>2, <1>3, <1>4, TabFacts
<1> HIDE DEF x
<1> QED BY <1>1, <1>5, SetCurrentColumnMoves DEF Stays

\* CHT moves the cursor within the page, by any number of tab stops.
LEMMA CursorForwardTabStays ==
    ASSUME NEW t, TermOK(t), NEW n \in Nat, NEW u, u = CursorForwardTab(t, n)
    PROVE  Stays(t, u)
<1> DEFINE T == {v \in TermType : Stays(t, v)}
           F == [v \in T |-> MoveCursorToNextTab(v)]
           D(g) == g = [k \in 0..n |-> IF k = 0 THEN t ELSE MoveCursorToNextTab(g[k - 1])]
           w == CHOOSE g : D(g)
<1>1. t \in T
  BY MovesNot DEF TermOK, Stays
<1>2. \A v \in T : MoveCursorToNextTab(v) \in T
  <2> TAKE v \in T
  <2> DEFINE x == MoveCursorToNextTab(v)
  <2>1. TermOK(v) /\ Stays(t, v)
    BY MovesKeeps DEF Stays
  <2>2. Stays(v, x)
    BY <2>1, MoveCursorToNextTabStays
  <2> HIDE DEF x
  <2>3. Stays(t, x)
    BY <2>1, <2>2, StaysTwice
  <2>4. x \in TermType
    BY <2>3, MovesKeeps DEF TermOK, Stays
  <2> QED BY <2>3, <2>4 DEF x
<1>3. F \in [T -> T]
  BY <1>2
<1> HIDE DEF F
<1>4. PICK g \in [0..n -> T] : g[0] = t /\ \A k \in 1..n : g[k] = F[g[k - 1]]
  <2> HIDE DEF T
  <2>1. Iterations(T, F, t, n) # {}
    BY <1>1, <1>3, IterationExists
  <2> QED BY <2>1 DEF Iterations
<1>5. \A k \in 1..n : g[k] = MoveCursorToNextTab(g[k - 1])
  <2> TAKE k \in 1..n
  <2>1. k - 1 \in 0..n
    OBVIOUS
  <2> HIDE DEF T
  <2>2. g[k - 1] \in T
    BY <2>1
  <2> QED BY <1>4, <2>2 DEF F
<1>6. D(g)
  <2> HIDE DEF T
  <2> QED BY <1>4, <1>5
<1>7. D(w)
  <2> HIDE DEF D
  <2> QED BY <1>6
<1>8. u = w[n]
  BY DEF CursorForwardTab
<1> HIDE DEF w
<1>9. w[0] = t /\ \A k \in 1..n : w[k] = MoveCursorToNextTab(w[k - 1])
  BY <1>7
<1> DEFINE S == {k \in Nat : k <= n => w[k] \in T}
<1>10. n \in S
  <2> HIDE DEF T
  <2>1. 0 \in S
    BY <1>1, <1>9
  <2>2. ASSUME NEW k \in Nat, k \in S PROVE k + 1 \in S
    <3>1. k + 1 <= n => w[k + 1] = MoveCursorToNextTab(w[k]) /\ w[k] \in T
      BY <1>9, <2>2
    <3> QED BY <1>2, <3>1
  <2> HIDE DEF S
  <2> QED BY <2>1, <2>2, SetInduction
<1> QED BY <1>8, <1>10

\* Any number of steps back to tab stops move the cursor within the page.
LEMMA PreviousTabsStays ==
    ASSUME NEW t, TermOK(t), NEW n \in Nat, NEW u, u = PreviousTabs(t, n)
    PROVE  Stays(t, u)
<1> DEFINE V == {v \in TermType : Stays(t, v)}
           T == [term : V, more : BOOLEAN]
           G(x) == IF x.more THEN [term |-> PreviousTab(x.term), more |-> TabsBefore(x.term) # {}] ELSE x
           F == [x \in T |-> G(x)]
           a == [term |-> t, more |-> TRUE]
           D(g) == g = [k \in 0..n |-> IF k = 0 THEN a ELSE G(g[k - 1])]
           w == CHOOSE g : D(g)
<1>1. t \in V
  BY MovesNot DEF TermOK, Stays
<1>2. \A v \in V : PreviousTab(v) \in V
  <2> TAKE v \in V
  <2> DEFINE x == PreviousTab(v)
  <2>1. TermOK(v) /\ Stays(t, v)
    BY MovesKeeps DEF Stays
  <2>2. Stays(v, x)
    BY <2>1, PreviousTabStays
  <2> HIDE DEF x
  <2>3. Stays(t, x)
    BY <2>1, <2>2, StaysTwice
  <2>4. x \in TermType
    BY <2>3, MovesKeeps DEF TermOK, Stays
  <2> QED BY <2>3, <2>4 DEF x
<1> HIDE DEF V
<1>3. a \in T /\ \A x \in T : G(x) \in T
  <2>1. a \in T
    BY <1>1
  <2>2. ASSUME NEW x \in T PROVE G(x) \in T
    <3>1. x.term \in V /\ PreviousTab(x.term) \in V
      BY <1>2
    <3> QED BY <3>1
  <2> QED BY <2>1, <2>2
<1>4. F \in [T -> T]
  BY <1>3
<1> HIDE DEF F
<1>5. PICK g \in [0..n -> T] : g[0] = a /\ \A k \in 1..n : g[k] = F[g[k - 1]]
  <2> HIDE DEF T, a
  <2>1. Iterations(T, F, a, n) # {}
    BY <1>3, <1>4, IterationExists
  <2> QED BY <2>1 DEF Iterations
<1>6. \A k \in 1..n : g[k] = G(g[k - 1])
  <2> TAKE k \in 1..n
  <2>1. k - 1 \in 0..n
    OBVIOUS
  <2> HIDE DEF T, G
  <2>2. g[k - 1] \in T
    BY <2>1
  <2> QED BY <1>5, <2>2 DEF F
<1>7. D(g)
  <2> HIDE DEF T, G, a
  <2> QED BY <1>5, <1>6
<1>8. D(w)
  <2> HIDE DEF D
  <2> QED BY <1>7
<1>9. u = w[n].term
  BY DEF PreviousTabs
<1> HIDE DEF w
<1>10. w[0] = a /\ \A k \in 1..n : w[k] = G(w[k - 1])
  <2> HIDE DEF G, a
  <2> QED BY <1>8
<1> DEFINE S == {k \in Nat : k <= n => w[k] \in T}
<1>11. n \in S
  <2> HIDE DEF T, G, a
  <2>1. 0 \in S
    BY <1>3, <1>10
  <2>2. ASSUME NEW k \in Nat, k \in S PROVE k + 1 \in S
    <3>1. k + 1 <= n => w[k + 1] = G(w[k]) /\ w[k] \in T
      BY <1>10, <2>2
    <3> QED BY <1>3, <3>1
  <2> HIDE DEF S
  <2> QED BY <2>1, <2>2, SetInduction
<1>12. w[n].term \in V
  BY <1>11
<1> QED BY <1>9, <1>12 DEF V

\* CBT moves the cursor within the page.
LEMMA CursorBackwardTabStays ==
    ASSUME NEW t, TermOK(t), NEW n \in Nat, NEW u, u = CursorBackwardTab(t, n)
    PROVE  Stays(t, u)
<1> DEFINE col == CursorOf(t).col
           m == (col + 1) % TabWidth
           x == (IF m = 0 THEN n * TabWidth ELSE (n - 1) * TabWidth + m) - 1
<1>1. u = IF n = 0 THEN t
          ELSE IF t.tabs # <<>> THEN PreviousTabs(t, n)
          ELSE IF col < TabWidth THEN SetCurrentColumn(t, 0)
          ELSE MoveCursorBackward(t, x)
  BY DEF CursorBackwardTab
<1>2. col \in Int /\ TabWidth \in Nat \ {0}
  BY PositionFacts, ScreenAssumption
<1> HIDE DEF col
<1>3. x \in Int
  <2>1. m \in Int
    BY <1>2
  <2> HIDE DEF m
  <2>2. n * TabWidth \in Int /\ (n - 1) * TabWidth \in Int
    BY <1>2
  <2> QED BY <2>1, <2>2
<1> HIDE DEF x
<1>4. Stays(t, t)
  BY MovesNot DEF Stays
<1>5. Stays(t, PreviousTabs(t, n))
  BY PreviousTabsStays
<1>6. Stays(t, SetCurrentColumn(t, 0))
  BY SetCurrentColumnMoves DEF Stays
<1>7. Stays(t, MoveCursorBackward(t, x))
  BY <1>3, MoveCursorForwardMoves DEF Stays
<1> QED BY <1>1, <1>4, <1>5, <1>6, <1>7

Below(q, n) == \A i \in DOMAIN q : q[i] < n

\* std::sort() after a tab stop was added at the end.
LEMMA SortTabsSorts ==
    ASSUME NEW q \in Seq(Nat), InOrder(q), NEW c \in Nat, NEW r, r = SortTabs(Append(q, c))
    PROVE  /\ r \in Seq(Nat) /\ InOrder(r)
           /\ \A n \in Nat : Below(q, n) /\ c < n => Below(r, n)
<1> DEFINE s == Append(q, c)
           n == Len(q)
           E(p) == /\ \A k \in DOMAIN s : \E i \in DOMAIN s : p[i] = k
                   /\ \A i, j \in DOMAIN s : i < j => s[p[i]] <= s[p[j]]
           order == CHOOSE p \in [DOMAIN s -> DOMAIN s] : E(p)
<1>1. /\ n \in Nat /\ DOMAIN q = 1..n /\ \A i \in 1..n : q[i] \in Nat
      /\ DOMAIN s = 1..n + 1 /\ s[n + 1] = c /\ \A i \in 1..n : s[i] = q[i]
  BY AppendProperties, LenProperties
<1> HIDE DEF s, n
<1>2. \A i \in 1..n + 1 : s[i] \in Nat
  BY <1>1
<1> DEFINE U == {i \in 1..n : q[i] <= c}
           V == {0} \cup U
           m == Max(V)
<1>3. m \in V /\ \A k \in V : m >= k
  <2>1. V \subseteq 0..n /\ V # {}
    BY <1>1
  <2> HIDE DEF V
  <2> QED BY <1>1, <2>1, MaxOfSome
<1>4. m \in 0..n
  BY <1>1, <1>3
<1>5. /\ \A i \in 1..n : i <= m => q[i] <= c
      /\ \A i \in 1..n : i > m => q[i] > c
  <2>1. ASSUME NEW i \in 1..n, i <= m PROVE q[i] <= c
    <3>1. m \in U
      BY <1>1, <1>3, <2>1
    <3>2. m \in 1..n /\ q[m] <= c
      BY <3>1
    <3> HIDE DEF m, U, V
    <3>3. CASE i = m
      BY <3>2, <3>3
    <3>4. CASE i < m
      <4>1. q[i] <= q[m]
        BY <1>1, <3>2, <3>4 DEF InOrder
      <4> QED BY <1>1, <3>2, <4>1
    <3> QED BY <1>1, <2>1, <3>2, <3>3, <3>4
  <2>2. ASSUME NEW i \in 1..n, i > m PROVE q[i] > c
    <3>1. i \notin V
      BY <1>1, <1>3, <1>4, <2>2
    <3> HIDE DEF m
    <3>2. ~(q[i] <= c)
      BY <3>1
    <3> QED BY <1>1, <3>2
  <2> QED BY <2>1, <2>2
<1> HIDE DEF U, V, m
<1> DEFINE f == [i \in 1..n + 1 |-> IF i <= m THEN i ELSE IF i = m + 1 THEN n + 1 ELSE i - 1]
<1>6. f \in [1..n + 1 -> 1..n + 1]
  BY <1>1, <1>4
<1>7. \A k \in 1..n + 1 : \E i \in 1..n + 1 : f[i] = k
  <2> TAKE k \in 1..n + 1
  <2>1. CASE k <= m
    BY <1>1, <1>4, <2>1
  <2>2. CASE k = n + 1
    <3>1. m + 1 \in 1..n + 1 /\ f[m + 1] = k
      BY <1>1, <1>4, <2>2
    <3> HIDE DEF f
    <3> QED BY <3>1
  <2>3. CASE ~(k <= m) /\ k # n + 1
    <3>1. k + 1 \in 1..n + 1 /\ f[k + 1] = k
      BY <1>1, <1>4, <2>3
    <3> HIDE DEF f
    <3> QED BY <3>1
  <2> QED BY <2>1, <2>2, <2>3
<1>8. ASSUME NEW i \in 1..n + 1, NEW j \in 1..n + 1, i < j PROVE s[f[i]] <= s[f[j]]
  <2>1. CASE j <= m
    <3>1. f[i] = i /\ f[j] = j /\ i \in 1..n /\ j \in 1..n
      BY <1>1, <1>4, <1>8, <2>1
    <3> HIDE DEF f
    <3> QED BY <1>1, <1>8, <3>1 DEF InOrder
  <2>2. CASE j = m + 1
    <3>1. f[i] = i /\ f[j] = n + 1 /\ i \in 1..n /\ i <= m
      BY <1>1, <1>4, <1>8, <2>2
    <3> HIDE DEF f
    <3> QED BY <1>1, <1>5, <3>1
  <2>3. CASE j > m + 1 /\ i = m + 1
    <3>1. f[i] = n + 1 /\ f[j] = j - 1 /\ j - 1 \in 1..n /\ j - 1 > m
      BY <1>1, <1>4, <1>8, <2>3
    <3> HIDE DEF f
    <3>2. q[j - 1] > c /\ q[j - 1] \in Nat
      BY <1>1, <1>5, <3>1
    <3> QED BY <1>1, <3>1, <3>2
  <2>4. CASE j > m + 1 /\ i <= m
    <3>1. f[i] = i /\ f[j] = j - 1 /\ i \in 1..n /\ j - 1 \in 1..n /\ i < j - 1
      BY <1>1, <1>4, <1>8, <2>4
    <3> HIDE DEF f
    <3>2. q[i] <= q[j - 1]
      BY <1>1, <3>1 DEF InOrder
    <3> QED BY <1>1, <3>1, <3>2
  <2>5. CASE j > m + 1 /\ i > m + 1
    <3>1. f[i] = i - 1 /\ f[j] = j - 1 /\ i - 1 \in 1..n /\ j - 1 \in 1..n /\ i - 1 < j - 1
      BY <1>1, <1>4, <1>8, <2>5
    <3> HIDE DEF f
    <3>2. q[i - 1] <= q[j - 1]
      BY <1>1, <3>1 DEF InOrder
    <3> QED BY <1>1, <3>1, <3>2
  <2> QED BY <1>1, <1>4, <1>8, <2>1, <2>2, <2>3, <2>4, <2>5
<1>9. E(f)
  <2> HIDE DEF f
  <2> QED BY <1>1, <1>7, <1>8
<1>10. order \in [1..n + 1 -> 1..n + 1] /\ E(order)
  <2> HIDE DEF E, f
  <2> QED BY <1>1, <1>6, <1>9
<1>11. r = [i \in DOMAIN s |-> s[order[i]]]
  BY DEF SortTabs, s
<1> HIDE DEF order, E, f
<1>12. \A i, j \in 1..n + 1 : i < j => s[order[i]] <= s[order[j]]
  BY <1>1, <1>10 DEF E
<1>13. r \in [1..n + 1 -> Nat] /\ \A i \in 1..n + 1 : r[i] = s[order[i]]
  BY <1>1, <1>2, <1>10, <1>11
<1>14. r \in Seq(Nat) /\ DOMAIN r = 1..n + 1
  BY <1>1, <1>13
<1>15. InOrder(r)
  BY <1>12, <1>13, <1>14 DEF InOrder
<1>16. ASSUME NEW b \in Nat, Below(q, b), c < b PROVE Below(r, b)
  <2>1. \A i \in 1..n + 1 : s[i] < b
    BY <1>1, <1>16 DEF Below
  <2> QED BY <1>10, <1>13, <1>14, <2>1 DEF Below
<1> QED BY <1>14, <1>15, <1>16

\* A function on 1..n is a sequence.
LEMMA FunctionIsSeq ==
    \A n \in Nat : \A r \in [1..n -> Nat] : r \in Seq(Nat)
  OBVIOUS

\* Division rounds down.
LEMMA DivTimes ==
    ASSUME NEW a \in Nat, NEW b \in Count
    PROVE  a \div b \in Nat /\ (a \div b) * b <= a
  BY DEF Count

\* The default tab stops.
LEMMA DefaultTabs ==
    ASSUME NEW columns \in Count, NEW r,
           r = [i \in 1..((columns - 1) \div TabWidth) |-> i * TabWidth - 1]
    PROVE  r \in Seq(Nat) /\ InOrder(r) /\ Below(r, columns)
<1> DEFINE n == (columns - 1) \div TabWidth
<1>1. TabWidth \in Count
  BY ScreenAssumption DEF Count
<1>2. n \in Nat /\ n * TabWidth <= columns - 1 /\ columns \in Nat
  BY <1>1, DivTimes DEF Count
<1>3. r = [i \in 1..n |-> i * TabWidth - 1]
  OBVIOUS
<1> HIDE DEF n
<1>4. ASSUME NEW i \in 1..n
      PROVE  /\ i * TabWidth \in Nat /\ i * TabWidth >= 1 /\ i * TabWidth <= n * TabWidth
             /\ \A j \in 1..n : i < j => i * TabWidth <= j * TabWidth
  BY <1>1, <1>2 DEF Count
<1>5. \A i \in 1..n : i * TabWidth - 1 \in Nat
  BY <1>4
<1>6. r \in Seq(Nat) /\ DOMAIN r = 1..n
  <2>1. DOMAIN r = 1..n /\ \A i \in 1..n : r[i] \in Nat
    BY <1>3, <1>5
  <2>2. r = [i \in 1..n |-> r[i]]
    BY <1>3
  <2>3. r \in [1..n -> Nat]
    BY <2>1, <2>2
  <2> QED BY <1>2, <2>1, <2>3, FunctionIsSeq
<1>7. InOrder(r)
  <2> SUFFICES ASSUME NEW i \in 1..n, NEW j \in 1..n, i < j PROVE r[i] <= r[j]
    BY <1>6 DEF InOrder
  <2>1. r[i] = i * TabWidth - 1 /\ r[j] = j * TabWidth - 1
    BY <1>3
  <2>2. i * TabWidth <= j * TabWidth /\ i * TabWidth \in Nat /\ j * TabWidth \in Nat
    BY <1>4
  <2> QED BY <2>1, <2>2
<1>8. Below(r, columns)
  <2> SUFFICES ASSUME NEW i \in 1..n PROVE r[i] < columns
    BY <1>6 DEF Below
  <2>1. r[i] = i * TabWidth - 1
    BY <1>3
  <2>2. i * TabWidth <= n * TabWidth /\ i * TabWidth \in Nat /\ n * TabWidth \in Nat
    BY <1>1, <1>2, <1>4 DEF Count
  <2> QED BY <1>2, <2>1, <2>2
<1> QED BY <1>6, <1>7, <1>8

\* Removing a tab stop leaves the others in order and on the page.
LEMMA RemoveAtInOrder ==
    ASSUME NEW q \in Seq(Nat), InOrder(q), NEW i \in DOMAIN q, NEW r, r = RemoveAt(q, i)
    PROVE  /\ r \in Seq(Nat) /\ InOrder(r)
           /\ \A n \in Nat : Below(q, n) => Below(r, n)
<1>1. Len(q) \in Nat /\ DOMAIN q = 1..Len(q) /\ \A j \in 1..Len(q) : q[j] \in Nat
  BY LenProperties
<1>2. /\ r \in Seq(Nat) /\ Len(r) = Len(q) - 1
      /\ \A j \in 1..Len(q) - 1 : r[j] = IF j < i THEN q[j] ELSE q[j + 1]
  BY <1>1, RemoveAtElements
<1>3. DOMAIN r = 1..Len(q) - 1
  BY <1>2, LenProperties
<1> DEFINE n == Len(q)
<1> HIDE DEF n
<1>4. InOrder(r)
  <2> SUFFICES ASSUME NEW j \in 1..n - 1, NEW k \in 1..n - 1, j < k PROVE r[j] <= r[k]
    BY <1>3 DEF InOrder, n
  <2>1. /\ r[j] = IF j < i THEN q[j] ELSE q[j + 1]
        /\ r[k] = IF k < i THEN q[k] ELSE q[k + 1]
    BY <1>2 DEF n
  <2>2. n \in Nat /\ i \in 1..n /\ DOMAIN q = 1..n
    BY <1>1 DEF n
  <2>3. j \in 1..n /\ j + 1 \in 1..n /\ k \in 1..n /\ k + 1 \in 1..n /\ j < k + 1 /\ j + 1 < k + 1
    BY <2>2
  <2>4. q[j] <= q[k] /\ q[j] <= q[k + 1] /\ q[j + 1] <= q[k + 1]
    BY <2>2, <2>3 DEF InOrder
  <2> QED BY <2>1, <2>2, <2>4
<1>5. ASSUME NEW b \in Nat, Below(q, b) PROVE Below(r, b)
  <2> SUFFICES ASSUME NEW j \in 1..n - 1 PROVE r[j] < b
    BY <1>3 DEF Below, n
  <2>1. r[j] = IF j < i THEN q[j] ELSE q[j + 1]
    BY <1>2 DEF n
  <2>2. n \in Nat /\ DOMAIN q = 1..n
    BY <1>1 DEF n
  <2>3. q[j] < b /\ q[j + 1] < b
    BY <1>5, <2>2 DEF Below
  <2> QED BY <2>1, <2>3
<1> QED BY <1>2, <1>4, <1>5

\* Tab stops beyond the page are dropped, the others stay in order.
LEMMA TruncateTabsFits ==
    ASSUME NEW q \in Seq(Nat), InOrder(q), NEW n \in Nat, NEW r, r = TruncateTabs(q, n)
    PROVE  r \in Seq(Nat) /\ InOrder(r) /\ Below(r, n)
<1> DEFINE U == {i \in DOMAIN q : q[i] < n}
           V == {0} \cup U
           m == Max(V)
           l == Len(q)
<1>1. l \in Nat /\ DOMAIN q = 1..l /\ \A j \in 1..l : q[j] \in Nat
  BY LenProperties
<1>2. m \in V
  BY <1>1, MaxOfSome
<1>3. m \in 0..l
  BY <1>1, <1>2
<1>4. r = SubSeq(q, 1, m)
  BY DEF TruncateTabs
<1>5. m = 0 \/ (m \in 1..l /\ q[m] < n)
  BY <1>1, <1>2
<1> HIDE DEF m, U, V, l
<1>6. r \in Seq(Nat) /\ Len(r) = m /\ \A i \in 1..m : r[i] = q[i]
  BY <1>1, <1>3, <1>4 DEF l
<1>7. DOMAIN r = 1..m
  BY <1>6, LenProperties
<1>8. InOrder(r)
  <2> SUFFICES ASSUME NEW i \in 1..m, NEW j \in 1..m, i < j PROVE r[i] <= r[j]
    BY <1>7 DEF InOrder
  <2>1. i \in DOMAIN q /\ j \in DOMAIN q
    BY <1>1, <1>3
  <2>2. q[i] <= q[j]
    BY <2>1 DEF InOrder
  <2>3. r[i] = q[i] /\ r[j] = q[j]
    BY <1>6
  <2> QED BY <2>2, <2>3
<1>9. Below(r, n)
  <2> SUFFICES ASSUME NEW i \in 1..m PROVE r[i] < n
    BY <1>7 DEF Below
  <2>1. q[m] < n /\ m \in 1..l /\ i \in 1..l
    BY <1>1, <1>3, <1>5
  <2>2. q[i] <= q[m]
    BY SMTT(30), <1>1, <2>1 DEF InOrder
  <2> QED BY <1>1, <1>6, <2>1, <2>2
<1> QED BY <1>6, <1>8, <1>9

-----------------------------------------------------------------------------
(* What most sequences keep.                                               *)

Shown(t) == OnPage(t, t.type)
TabsFit(t) == Below(t.tabs, t.size.columns)

\* Neither the modes nor their copies in the cursors change.
SameModes(t, u) ==
    /\ u.modes = t.modes /\ u.csiS = t.csiS /\ u.savedModes = t.savedModes
    /\ \A s \in Names : /\ u.screens[s].cursor.autoWrap = t.screens[s].cursor.autoWrap
                        /\ u.screens[s].cursor.origin = t.screens[s].cursor.origin

Keeps(t, u) ==
    /\ TermOK(u) /\ SameModes(t, u)
    /\ Shown(t) => Shown(u)
    /\ TabsFit(t) => TabsFit(u)

\* Leaving the modes alone composes.
LEMMA SameModesTwice ==
    ASSUME NEW t, NEW u, NEW v, SameModes(t, u), SameModes(u, v)
    PROVE  SameModes(t, v)
  BY DEF SameModes

\* Keeping what verifyState() requires composes.
LEMMA KeepsTwice ==
    ASSUME NEW t, NEW u, NEW v, Keeps(t, u), Keeps(u, v)
    PROVE  Keeps(t, v)
  BY SameModesTwice DEF Keeps

\* Doing nothing keeps it.
LEMMA KeepsNot ==
    ASSUME NEW t, TermOK(t)
    PROVE  Keeps(t, t)
  BY DEF Keeps, SameModes

\* Moving the cursor.
LEMMA MovesSame ==
    ASSUME NEW t, TermOK(t), NEW u, Moves(t, u)
    PROVE  /\ TermOK(u) /\ SameModes(t, u) /\ u.current = t.current
           /\ TabsFit(t) => TabsFit(u)
           /\ /\ Shown(t)
              /\ t.current = t.type /\ On(CursorOf(t), PageOf(t)) => On(CursorOf(u), PageOf(t))
              => Shown(u)
<1>1. /\ TermOK(u) /\ u.modes = t.modes /\ u.csiS = t.csiS /\ u.savedModes = t.savedModes
      /\ u.current = t.current /\ u.type = t.type /\ u.tabs = t.tabs /\ u.size = t.size
      /\ PageOf(u) = PageOf(t)
      /\ \A s \in Names : /\ u.screens[s].page = t.screens[s].page
                          /\ s # t.current => u.screens[s] = t.screens[s]
  BY MovesKeeps
<1>2. t.type \in Names
  BY DEF TermOK, TermType, Names
<1>3. /\ u.screens[t.current].cursor.autoWrap = t.screens[t.current].cursor.autoWrap
      /\ u.screens[t.current].cursor.origin = t.screens[t.current].cursor.origin
  BY <1>1 DEF Moves, CursorOf
<1>4. SameModes(t, u)
  BY <1>1, <1>3 DEF SameModes
<1>5. TabsFit(t) => TabsFit(u)
  BY <1>1 DEF TabsFit
<1>6. ASSUME Shown(t),
             t.current = t.type /\ On(CursorOf(t), PageOf(t)) => On(CursorOf(u), PageOf(t))
      PROVE  Shown(u)
  <2>1. CASE t.current = t.type
    <3>1. On(CursorOf(t), PageOf(t))
      BY <1>6, <2>1 DEF Shown, OnPage, On, CursorOf, PageOf
    <3>2. On(CursorOf(u), PageOf(u))
      BY <1>1, <1>6, <2>1, <3>1
    <3> QED BY <1>1, <2>1, <3>2 DEF Shown, OnPage, On, CursorOf, PageOf
  <2>2. CASE t.current # t.type
    <3>1. u.screens[t.type] = t.screens[t.type]
      BY <1>1, <1>2, <2>2
    <3> QED BY <1>1, <1>6, <3>1 DEF Shown, OnPage
  <2> QED BY <2>1, <2>2
<1> QED BY <1>1, <1>4, <1>5, <1>6

\* Moves within the page keep it.
LEMMA StaysKeeps ==
    ASSUME NEW t, TermOK(t), NEW u, Stays(t, u)
    PROVE  Keeps(t, u) /\ u.current = t.current
  BY MovesSame DEF Stays, Keeps

\* setTopBottomMargin() and setLeftRightMargin()
LEMMA MarginKeeps ==
    ASSUME NEW t, TermOK(t), NEW m \in MarginType, Fits(m, MainPage(t)),
           NEW u, u = [t EXCEPT !.margins.main = m]
    PROVE  Keeps(t, u) /\ u.current = t.current
<1>1. t \in TermType
  BY DEF TermOK
<1>2. /\ u \in TermType /\ u.margins["main"] = m /\ u.margins["status"] = t.margins["status"]
      /\ u.size = t.size /\ u.screens = t.screens /\ u.current = t.current /\ u.type = t.type
      /\ u.display = t.display /\ u.modes = t.modes /\ u.savedModes = t.savedModes
      /\ u.csiS = t.csiS /\ u.tabs = t.tabs /\ u.pty = t.pty
  BY <1>1 DEF TermType
<1>3. MainPage(u) = MainPage(t)
  BY <1>2 DEF MainPage, StatusLineHeight
<1>4. TermOK(u)
  BY <1>2, <1>3 DEF TermOK
<1> QED BY <1>2, <1>4 DEF Keeps, SameModes, Shown, OnPage, TabsFit

\* DECSTBM with any parameters keeps it.
LEMMA SetTopBottomMarginKeeps ==
    ASSUME NEW t, TermOK(t), NEW top \in Int, NEW bottom \in Int, NEW u,
           u = SetTopBottomMargin(t, top, bottom)
    PROVE  Keeps(t, u) /\ u.current = t.current
<1> DEFINE m == t.margins.main
           h == t.pty.lines
           low == Max({0, top})
           high == Min({h - 1, bottom})
           n == [m EXCEPT !.top = low, !.bottom = high]
<1>1. /\ t \in TermType /\ m \in MarginType /\ Fits(m, MainPage(t)) /\ t.pty = MainPage(t)
      /\ h \in Nat
  BY PageColumns DEF TermOK, PageType, Count
<1>2. u = IF low < high THEN [t EXCEPT !.margins.main.top = low, !.margins.main.bottom = high] ELSE t
  BY DEF SetTopBottomMargin
<1> HIDE DEF h
<1>3. /\ low \in Int /\ high \in Int /\ 0 <= low /\ high < h
  <2>1. low = IF 0 >= top THEN 0 ELSE top
    BY MinMaxOfTwo
  <2>2. h - 1 \in Int
    BY <1>1
  <2>3. high = IF h - 1 <= bottom THEN h - 1 ELSE bottom
    BY <2>2, MinMaxOfTwo
  <2> QED BY <1>1, <2>1, <2>3
<1> HIDE DEF low, high
<1>4. CASE low < high
  <2>1. n \in MarginType /\ n.top = low /\ n.bottom = high /\ n.left = m.left /\ n.right = m.right
    BY <1>1, <1>3 DEF MarginType
  <2>2. Fits(n, MainPage(t))
    BY <1>1, <1>3, <1>4, <2>1 DEF Fits, h
  <2>3. u = [t EXCEPT !.margins.main = n]
    BY ZenonT(60), <1>1, <1>2, <1>4 DEF TermType, MarginType
  <2> HIDE DEF n
  <2> QED BY <2>1, <2>2, <2>3, MarginKeeps
<1>5. CASE ~(low < high)
  BY <1>2, <1>5, KeepsNot
<1> QED BY <1>4, <1>5

\* DECSLRM with any parameters keeps it.
LEMMA SetLeftRightMarginKeeps ==
    ASSUME NEW t, TermOK(t), NEW left \in Int, NEW right \in Int, NEW u,
           u = SetLeftRightMargin(t, left, right)
    PROVE  Keeps(t, u) /\ u.current = t.current
<1> DEFINE m == t.margins.main
           w == t.pty.columns
           low == Max({0, left})
           high == Min({w - 1, right})
           n == [m EXCEPT !.left = low, !.right = high]
<1>1. /\ t \in TermType /\ m \in MarginType /\ Fits(m, MainPage(t)) /\ t.pty = MainPage(t)
      /\ w \in Nat
  BY PageColumns DEF TermOK, PageType, Count
<1>2. u = IF low < high THEN [t EXCEPT !.margins.main.left = low, !.margins.main.right = high] ELSE t
  BY DEF SetLeftRightMargin
<1> HIDE DEF w
<1>3. /\ low \in Int /\ high \in Int /\ 0 <= low /\ high < w
  <2>1. low = IF 0 >= left THEN 0 ELSE left
    BY MinMaxOfTwo
  <2>2. w - 1 \in Int
    BY <1>1
  <2>3. high = IF w - 1 <= right THEN w - 1 ELSE right
    BY <2>2, MinMaxOfTwo
  <2> QED BY <1>1, <2>1, <2>3
<1> HIDE DEF low, high
<1>4. CASE low < high
  <2>1. n \in MarginType /\ n.top = m.top /\ n.bottom = m.bottom /\ n.left = low /\ n.right = high
    BY <1>1, <1>3 DEF MarginType
  <2>2. Fits(n, MainPage(t))
    BY <1>1, <1>3, <1>4, <2>1 DEF Fits, w
  <2>3. u = [t EXCEPT !.margins.main = n]
    BY ZenonT(60), <1>1, <1>2, <1>4 DEF TermType, MarginType
  <2> HIDE DEF n
  <2> QED BY <2>1, <2>2, <2>3, MarginKeeps
<1>5. CASE ~(low < high)
  BY <1>2, <1>5, KeepsNot
<1> QED BY <1>4, <1>5

\* The margins that cover the page are on the page.
LEMMA FullMarginFits ==
    ASSUME NEW page \in PageType
    PROVE  /\ FullMargin(page) \in MarginType /\ Fits(FullMargin(page), page)
           /\ FullMargin(page).left = 0 /\ FullMargin(page).right = page.columns - 1
<1> DEFINE h == page.lines
           w == page.columns
           a == h - 1
           b == w - 1
<1>1. h \in Count /\ w \in Count
  BY DEF PageType
<1>2. FullMargin(page) = [top |-> 0, bottom |-> a, left |-> 0, right |-> b]
  BY DEF FullMargin
<1> HIDE DEF h, w
<1>3. a \in Int /\ b \in Int /\ 0 <= a /\ 0 <= b /\ a < h /\ b < w
  BY <1>1 DEF Count
<1>4. b = w - 1
  OBVIOUS
<1> HIDE DEF a, b
<1> QED BY <1>2, <1>3, <1>4 DEF MarginType, Fits, h, w

-----------------------------------------------------------------------------
(* Page sizes.                                                             *)

\* A terminal whose pages may still have to be sized.
Shaped(t) ==
    /\ t \in TermType
    /\ t.current \in {t.type, "status"}
    /\ Fits(t.margins["main"], MainPage(t))
    /\ InOrder(t.tabs)

FreeCursor == [line : Int, col : Int, autoWrap : BOOLEAN, origin : BOOLEAN, wrap : BOOLEAN]

\* The page without the status line has at least one line and the columns of the window.
LEMMA MainPageType ==
    ASSUME NEW t \in TermType
    PROVE  MainPage(t) \in PageType /\ MainPage(t).columns = t.size.columns /\ t.size.columns \in Count
<1>1. t.size \in SizeType
  BY DEF TermType
<1> DEFINE s == t.size
           h == StatusLineHeight(t)
           l == s.lines
           k == l - h
<1>2. h \in {0, 1} /\ l \in Nat \ {0, 1} /\ s.columns \in Count
  BY <1>1 DEF StatusLineHeight, SizeType
<1>3. MainPage(t) = [s EXCEPT !.lines = k]
  BY DEF MainPage
<1> HIDE DEF h, l
<1>4. k \in Count
  BY <1>2 DEF Count
<1> HIDE DEF k
<1> QED BY <1>1, <1>2, <1>3, <1>4 DEF PageType, SizeType

\* A number that is raised to 0 is a number.
LEMMA MaxZero ==
    \A x \in Int : Max({0, x}) \in Int
<1> TAKE x \in Int
<1>1. Max({0, x}) = IF 0 >= x THEN 0 ELSE x
  BY MinMaxOfTwo
<1> QED BY <1>1

\* The grid's resize leaves the flags of the cursor alone.
LEMMA ResizedCursorType ==
    ASSUME NEW c \in CursorType, NEW old \in PageType, NEW new \in PageType, NEW reflow \in BOOLEAN,
           NEW shift \in Int, NEW d, d = ResizedCursor(c, old, new, reflow, shift)
    PROVE  d \in FreeCursor /\ d.autoWrap = c.autoWrap /\ d.origin = c.origin
<1> DEFINE k == c.col
           l == c.line
           h == old.lines
           g == new.lines
           w == old.columns
           x == new.columns
           col == IF x > w THEN k + (IF c.wrap THEN 1 ELSE 0)
                  ELSE IF x < w /\ ~reflow THEN k + Min({k, x})
                  ELSE k
           pushUp == Max({0, (h - g) - (h - (l + 1))})
           line == IF g < h THEN l - pushUp ELSE l
           y == IF reflow THEN line + shift ELSE line
<1>1. k \in Int /\ l \in Int /\ h \in Nat /\ g \in Nat /\ w \in Nat /\ x \in Nat
  BY DEF CursorType, PageType, Count
<1>2. d = IF new = old THEN c ELSE [c EXCEPT !.col = col, !.line = y]
  BY DEF ResizedCursor
<1> HIDE DEF k, l, h, g, w, x
<1>3. col \in Int
  <2>1. Min({k, x}) \in Int
    BY <1>1, MinMaxOfTwo
  <2> QED BY <1>1, <2>1
<1>4. y \in Int
  <2> DEFINE z == (h - g) - (h - (l + 1))
  <2>1. z \in Int
    BY <1>1
  <2> HIDE DEF z
  <2>2. Max({0, z}) \in Int
    BY <2>1, MaxZero
  <2>3. pushUp \in Int
    BY <2>2 DEF z
  <2> HIDE DEF pushUp
  <2>4. line \in Int
    BY <1>1, <2>3
  <2> HIDE DEF line
  <2> QED BY <2>4
<1> HIDE DEF col, y
<1>5. CASE new = old
  BY <1>2, <1>5 DEF CursorType, FreeCursor
<1>6. CASE new # old
  BY <1>2, <1>3, <1>4, <1>6 DEF CursorType, FreeCursor
<1> QED BY <1>5, <1>6

\* Screen::applyPageSizeToMainDisplay(): the cursor is on the new page.
LEMMA ApplyPageSizeToScreenSizes ==
    ASSUME NEW t, Shaped(t), NEW s \in {"primary", "alternate"}, NEW shift \in Int,
           NEW u, u = ApplyPageSizeToScreen(t, s, shift)
    PROVE  /\ u \in TermType
           /\ u.size = t.size /\ u.current = t.current /\ u.type = t.type
           /\ u.active = t.active /\ u.display = t.display /\ u.savedDisplay = t.savedDisplay
           /\ u.tabs = t.tabs /\ u.pty = t.pty
           /\ u.margins["main"] = FullMargin(MainPage(t))
           /\ u.margins["status"] = t.margins["status"]
           /\ SameModes(t, u)
           /\ u.screens[s].page = MainPage(t) /\ OnPage(u, s)
           /\ \A z \in Names : z # s => u.screens[z] = t.screens[z]
<1> DEFINE new == MainPage(t)
           c == t.screens[s].cursor
           old == t.screens[s].page
           r == ResizedCursor(c, old, new, s = "primary", shift)
           d == ClampCoordinate(r, new, t.margins.main)
           b == d.wrap /\ c.col >= new.columns
           e == [d EXCEPT !.wrap = b]
           f == FullMargin(new)
<1>1. /\ t \in TermType /\ s \in Names /\ t.margins["main"] \in MarginType
      /\ Fits(t.margins["main"], MainPage(t))
  BY DEF Shaped, TermType, Names
<1>2. t.screens[s] \in ScreenType
  BY <1>1 DEF TermType
<1>3. c \in CursorType /\ old \in PageType /\ new \in PageType
  BY <1>1, <1>2, MainPageType DEF ScreenType
<1>4. u = [t EXCEPT !.screens[s].page = new, !.screens[s].cursor = e, !.margins.main = f]
  BY DEF ApplyPageSizeToScreen
<1>5. f \in MarginType
  BY <1>3, FullMarginFits
<1>6. r \in FreeCursor /\ r.autoWrap = c.autoWrap /\ r.origin = c.origin
  <2> DEFINE p == s = "primary"
  <2>1. p \in BOOLEAN /\ r = ResizedCursor(c, old, new, p, shift)
    OBVIOUS
  <2> HIDE DEF c, old, new, p, r
  <2> QED BY <1>3, <2>1, ResizedCursorType
<1> HIDE DEF r
<1>7. /\ d \in CursorType /\ On(d, new)
      /\ d.autoWrap = c.autoWrap /\ d.origin = c.origin
  <2>1. CASE r.origin
    <3> DEFINE m == t.margins.main
    <3>1. /\ d = ClampToOrigin(r, m) /\ m \in MarginType
          /\ 0 <= m.right /\ m.right < new.columns /\ 0 <= m.bottom /\ m.bottom < new.lines
      BY <1>1, <2>1 DEF ClampCoordinate, Fits, MarginType
    <3> HIDE DEF m, d, new
    <3>2. /\ d \in CursorType /\ On(d, new)
          /\ d.autoWrap = r.autoWrap /\ d.origin = r.origin
      BY <1>3, <1>6, <3>1, ClampToOriginOn DEF FreeCursor
    <3> QED BY <1>6, <3>2
  <2>2. CASE ~r.origin
    <3>1. d = ClampToScreen(r, new)
      BY <2>2 DEF ClampCoordinate
    <3> HIDE DEF d, new
    <3>2. /\ d \in CursorType /\ On(d, new)
          /\ d.autoWrap = r.autoWrap /\ d.origin = r.origin
      BY <1>3, <1>6, <3>1, ClampToScreenOn DEF FreeCursor
    <3> QED BY <1>6, <3>2
  <2> QED BY <2>1, <2>2
<1> HIDE DEF d
<1>8. b \in BOOLEAN
  BY <1>7 DEF CursorType
<1> HIDE DEF b
<1>9. /\ e \in CursorType /\ On(e, new)
      /\ e.autoWrap = c.autoWrap /\ e.origin = c.origin
  BY <1>7, <1>8 DEF CursorType, On
<1> HIDE DEF e, f, new
<1>10. /\ u \in TermType
       /\ u.size = t.size /\ u.current = t.current /\ u.type = t.type
       /\ u.active = t.active /\ u.display = t.display /\ u.savedDisplay = t.savedDisplay
       /\ u.modes = t.modes /\ u.savedModes = t.savedModes /\ u.csiS = t.csiS
       /\ u.tabs = t.tabs /\ u.pty = t.pty
       /\ u.margins["main"] = f /\ u.margins["status"] = t.margins["status"]
       /\ u.screens[s].page = new /\ u.screens[s].cursor = e
       /\ \A z \in Names : z # s => u.screens[z] = t.screens[z]
  <2> DEFINE g == [t.screens[s] EXCEPT !.page = new, !.cursor = e]
             ss == [t.screens EXCEPT ![s] = g]
             mm == [t.margins EXCEPT !["main"] = f]
  <2>1. g \in ScreenType /\ g.page = new /\ g.cursor = e
    BY <1>2, <1>3, <1>9 DEF ScreenType
  <2>2. u = [t EXCEPT !.screens = ss, !.margins = mm]
    BY <1>1, <1>2, <1>4 DEF TermType, ScreenType
  <2> HIDE DEF g
  <2>3. t.screens \in [Names -> ScreenType] /\ t.margins \in [{"main", "status"} -> MarginType]
    BY <1>1 DEF TermType
  <2>4. /\ ss \in [Names -> ScreenType] /\ ss[s] = g
        /\ \A z \in Names : z # s => ss[z] = t.screens[z]
    BY <1>1, <2>1, <2>3
  <2>5. /\ mm \in [{"main", "status"} -> MarginType] /\ mm["main"] = f
        /\ mm["status"] = t.margins["status"]
    BY <1>5, <2>3
  <2> HIDE DEF ss, mm
  <2>6. /\ u \in TermType
        /\ u.size = t.size /\ u.current = t.current /\ u.type = t.type
        /\ u.active = t.active /\ u.display = t.display /\ u.savedDisplay = t.savedDisplay
        /\ u.modes = t.modes /\ u.savedModes = t.savedModes /\ u.csiS = t.csiS
        /\ u.tabs = t.tabs /\ u.pty = t.pty
        /\ u.margins = mm /\ u.screens = ss
    BY <1>1, <2>2, <2>4, <2>5 DEF TermType
  <2> QED BY <2>1, <2>4, <2>5, <2>6
<1>11. SameModes(t, u)
  BY <1>1, <1>9, <1>10 DEF SameModes
<1>12. OnPage(u, s)
  BY <1>9, <1>10 DEF OnPage, On
<1> QED BY <1>10, <1>11, <1>12 DEF f, new

\* Terminal::applyPageSizeToMainDisplay()
LEMMA ApplyPageSizeSizes ==
    ASSUME NEW t, Shaped(t), NEW s \in {"primary", "alternate"}, NEW shift \in Int,
           NEW u, u = ApplyPageSizeToMainDisplay(t, s, shift)
    PROVE  /\ u \in TermType
           /\ u.size = t.size /\ u.current = t.current /\ u.type = t.type
           /\ u.active = t.active /\ u.display = t.display /\ u.savedDisplay = t.savedDisplay
           /\ u.pty = t.pty
           /\ u.margins["main"] = FullMargin(MainPage(t))
           /\ u.margins["status"].left = 0 /\ u.margins["status"].right = t.size.columns - 1
           /\ InOrder(u.tabs) /\ TabsFit(u)
           /\ SameModes(t, u)
           /\ u.screens[s].page = MainPage(t) /\ OnPage(u, s)
           /\ u.screens["status"].page.columns = t.size.columns
           /\ \A z \in Names : z \notin {s, "status"} => u.screens[z] = t.screens[z]
<1> DEFINE v == ApplyPageSizeToScreen(t, s, shift)
           w == t.size.columns
           m == FullMargin([t.size EXCEPT !.lines = StatusLineHeight(t)])
           q == TruncateTabs(t.tabs, w)
<1>1. /\ v \in TermType
      /\ v.size = t.size /\ v.current = t.current /\ v.type = t.type
      /\ v.active = t.active /\ v.display = t.display /\ v.savedDisplay = t.savedDisplay
      /\ v.tabs = t.tabs /\ v.pty = t.pty
      /\ v.margins["main"] = FullMargin(MainPage(t))
      /\ v.margins["status"] = t.margins["status"]
      /\ SameModes(t, v)
      /\ v.screens[s].page = MainPage(t) /\ OnPage(v, s)
      /\ \A z \in Names : z # s => v.screens[z] = t.screens[z]
  BY ApplyPageSizeToScreenSizes
<1>2. u = [v EXCEPT !.screens.status.page.columns = w, !.margins.status = m,
                    !.tabs = TruncateTabs(v.tabs, w)]
  BY DEF ApplyPageSizeToMainDisplay
<1>3. u = [v EXCEPT !.screens.status.page.columns = w, !.margins.status = m, !.tabs = q]
  BY <1>1, <1>2
<1> HIDE DEF v
<1>4. w \in Count /\ t.size \in SizeType /\ t.tabs \in Seq(Nat) /\ InOrder(t.tabs)
  BY DEF Shaped, TermType, SizeType
<1>5. q \in Seq(Nat) /\ InOrder(q) /\ Below(q, w)
  <2> DEFINE p == t.tabs
  <2> HIDE DEF p, w
  <2>1. q = TruncateTabs(p, w) /\ p \in Seq(Nat) /\ InOrder(p) /\ w \in Nat
    BY <1>4 DEF Count, p
  <2> HIDE DEF q
  <2> QED BY <2>1, TruncateTabsFits
<1>6. m \in MarginType /\ m.left = 0 /\ m.right = w - 1
  <2> DEFINE h == StatusLineHeight(t)
             a == h - 1
             b == w - 1
  <2>1. h \in {0, 1}
    BY DEF StatusLineHeight
  <2>2. m = [top |-> 0, bottom |-> a, left |-> 0, right |-> b]
    BY <1>4 DEF FullMargin, SizeType
  <2> HIDE DEF h, w
  <2>3. a \in Int /\ b \in Int
    BY <1>4, <2>1 DEF Count
  <2>4. b = w - 1
    OBVIOUS
  <2> HIDE DEF a, b, m
  <2> QED BY <2>2, <2>3, <2>4 DEF MarginType
<1> HIDE DEF w, m, q
<1>7. /\ u \in TermType
      /\ u.size = v.size /\ u.current = v.current /\ u.type = v.type
      /\ u.active = v.active /\ u.display = v.display /\ u.savedDisplay = v.savedDisplay
      /\ u.modes = v.modes /\ u.savedModes = v.savedModes /\ u.csiS = v.csiS
      /\ u.tabs = q /\ u.pty = v.pty
      /\ u.margins["main"] = v.margins["main"] /\ u.margins["status"] = m
      /\ u.screens["status"].page.columns = w
      /\ u.screens["status"].cursor = v.screens["status"].cursor
      /\ \A z \in Names : z # "status" => u.screens[z] = v.screens[z]
  <2> DEFINE p == v.screens["status"].page
             g == [v.screens["status"] EXCEPT !.page = [p EXCEPT !.columns = w]]
             ss == [v.screens EXCEPT !["status"] = g]
             mm == [v.margins EXCEPT !["status"] = m]
  <2>1. /\ v.screens \in [Names -> ScreenType] /\ v.margins \in [{"main", "status"} -> MarginType]
        /\ v.screens["status"] \in ScreenType
    BY <1>1 DEF TermType, Names
  <2>2. g \in ScreenType /\ g.page.columns = w /\ g.cursor = v.screens["status"].cursor
    BY <1>4, <2>1 DEF ScreenType, PageType
  <2>3. u = [v EXCEPT !.screens = ss, !.margins = mm, !.tabs = q]
    BY <1>1, <1>3, <2>1 DEF TermType, ScreenType, PageType
  <2> HIDE DEF g
  <2>4. /\ ss \in [Names -> ScreenType] /\ ss["status"] = g
        /\ \A z \in Names : z # "status" => ss[z] = v.screens[z]
    BY <2>1, <2>2 DEF Names
  <2>5. /\ mm \in [{"main", "status"} -> MarginType] /\ mm["main"] = v.margins["main"]
        /\ mm["status"] = m
    BY <1>6, <2>1
  <2> HIDE DEF ss, mm
  <2>6. /\ u \in TermType
        /\ u.size = v.size /\ u.current = v.current /\ u.type = v.type
        /\ u.active = v.active /\ u.display = v.display /\ u.savedDisplay = v.savedDisplay
        /\ u.modes = v.modes /\ u.savedModes = v.savedModes /\ u.csiS = v.csiS
        /\ u.tabs = q /\ u.pty = v.pty
        /\ u.margins = mm /\ u.screens = ss
    BY <1>1, <1>5, <2>3, <2>4, <2>5 DEF TermType
  <2> QED BY <2>2, <2>4, <2>5, <2>6
<1>8. s \in Names /\ s # "status"
  BY DEF Names
<1>9. SameModes(v, u)
  BY <1>7 DEF SameModes
<1>10. SameModes(t, u)
  BY <1>1, <1>9, SameModesTwice
<1>11. OnPage(u, s) /\ u.screens[s].page = MainPage(t)
  BY <1>1, <1>7, <1>8 DEF OnPage
<1>12. TabsFit(u)
  BY <1>1, <1>5, <1>7 DEF TabsFit, w
<1>13. \A z \in Names : z \notin {s, "status"} => u.screens[z] = t.screens[z]
  BY <1>1, <1>7
<1> QED BY <1>1, <1>5, <1>6, <1>7, <1>10, <1>11, <1>12, <1>13 DEF w

\* The sizes are right again once the page of the screen that is shown is applied.
LEMMA SizedOK ==
    ASSUME NEW u \in TermType, u.current \in {u.type, "status"}, u.pty = MainPage(u),
           u.screens[u.type].page = MainPage(u), u.screens["status"].page.columns = u.size.columns,
           u.margins["main"] = FullMargin(MainPage(u)), u.margins["status"].left = 0,
           u.margins["status"].right = u.size.columns - 1, InOrder(u.tabs)
    PROVE  TermOK(u)
<1>1. Fits(FullMargin(MainPage(u)), MainPage(u))
  BY MainPageType, FullMarginFits
<1> QED BY <1>1 DEF TermOK

\* A resize makes window, pseudo terminal, shown screen and tab stops agree again.
LEMMA ResizeScreenSizes ==
    ASSUME NEW t \in TermType, t.current \in {t.type, "status"}, InOrder(t.tabs),
           NEW size \in SizeType, NEW shift \in Int, NEW u, u = ResizeScreen(t, size, shift)
    PROVE  /\ TermOK(u) /\ SameModes(t, u) /\ Shown(u) /\ TabsFit(u)
           /\ u.size = size /\ u.current = t.current /\ u.type = t.type /\ u.active = t.active
           /\ u.display = t.display /\ u.savedDisplay = t.savedDisplay
<1> DEFINE a == [t EXCEPT !.size = size]
           m == FullMargin(MainPage(a))
           b == [a EXCEPT !.margins.main = m]
           v == ApplyPageSizeToMainDisplay(b, t.type, shift)
           p == MainPage(a)
<1>1. u = [v EXCEPT !.pty = p]
  BY DEF ResizeScreen
<1>2. /\ a \in TermType /\ a.size = size /\ a.current = t.current /\ a.type = t.type
      /\ a.active = t.active /\ a.display = t.display /\ a.savedDisplay = t.savedDisplay
      /\ a.screens = t.screens /\ a.tabs = t.tabs
      /\ a.modes = t.modes /\ a.csiS = t.csiS /\ a.savedModes = t.savedModes
  BY DEF TermType
<1> HIDE DEF a
<1>3. p \in PageType /\ m \in MarginType /\ Fits(m, p)
  BY <1>2, MainPageType, FullMarginFits
<1> HIDE DEF m
<1>4. /\ b \in TermType /\ b.size = size /\ b.current = t.current /\ b.type = t.type
      /\ b.active = t.active /\ b.display = t.display /\ b.savedDisplay = t.savedDisplay
      /\ b.screens = t.screens /\ b.tabs = t.tabs
      /\ b.modes = t.modes /\ b.csiS = t.csiS /\ b.savedModes = t.savedModes
      /\ b.margins["main"] = m
  BY <1>2, <1>3 DEF TermType
<1>5. MainPage(b) = p
  BY <1>2, <1>4 DEF MainPage, StatusLineHeight
<1> HIDE DEF b, p
<1>6. Shaped(b) /\ t.type \in {"primary", "alternate"}
  BY <1>3, <1>4, <1>5 DEF Shaped, TermType
<1>7. SameModes(t, b)
  BY <1>4 DEF SameModes
<1>8. /\ v \in TermType
      /\ v.size = b.size /\ v.current = b.current /\ v.type = b.type
      /\ v.active = b.active /\ v.display = b.display /\ v.savedDisplay = b.savedDisplay
      /\ v.margins["main"] = FullMargin(p)
      /\ v.margins["status"].left = 0 /\ v.margins["status"].right = b.size.columns - 1
      /\ InOrder(v.tabs) /\ TabsFit(v)
      /\ SameModes(b, v)
      /\ v.screens[t.type].page = p /\ OnPage(v, t.type)
      /\ v.screens["status"].page.columns = b.size.columns
  <2> DEFINE s == t.type
  <2>1. s \in {"primary", "alternate"} /\ v = ApplyPageSizeToMainDisplay(b, s, shift)
    BY <1>6
  <2> HIDE DEF s, v
  <2>2. /\ v \in TermType
        /\ v.size = b.size /\ v.current = b.current /\ v.type = b.type
        /\ v.active = b.active /\ v.display = b.display /\ v.savedDisplay = b.savedDisplay
        /\ v.margins["main"] = FullMargin(MainPage(b))
        /\ v.margins["status"].left = 0 /\ v.margins["status"].right = b.size.columns - 1
        /\ InOrder(v.tabs) /\ TabsFit(v)
        /\ SameModes(b, v)
        /\ v.screens[s].page = MainPage(b) /\ OnPage(v, s)
        /\ v.screens["status"].page.columns = b.size.columns
    BY <1>6, <2>1, ApplyPageSizeSizes
  <2> QED BY <1>5, <2>2 DEF s
<1> HIDE DEF v
<1>9. /\ u \in TermType /\ u.pty = p
      /\ u.size = v.size /\ u.current = v.current /\ u.type = v.type
      /\ u.active = v.active /\ u.display = v.display /\ u.savedDisplay = v.savedDisplay
      /\ u.screens = v.screens /\ u.margins = v.margins /\ u.tabs = v.tabs
      /\ u.modes = v.modes /\ u.csiS = v.csiS /\ u.savedModes = v.savedModes
  BY <1>1, <1>3, <1>8 DEF TermType
<1>10. MainPage(u) = p
  BY <1>4, <1>5, <1>8, <1>9 DEF MainPage, StatusLineHeight
<1>11. TermOK(u)
  BY <1>4, <1>8, <1>9, <1>10, SizedOK
<1>12. SameModes(v, u)
  BY <1>9 DEF SameModes
<1>13. SameModes(t, u)
  BY <1>7, <1>8, <1>12, SameModesTwice
<1>14. Shown(u) /\ TabsFit(u)
  BY <1>4, <1>8, <1>9 DEF Shown, OnPage, TabsFit
<1> QED BY <1>4, <1>8, <1>9, <1>11, <1>13, <1>14

\* A screen switch shows a screen of the current size.
LEMMA SetScreenKeeps ==
    ASSUME NEW t, TermOK(t), NEW s \in {"primary", "alternate"}, NEW shift \in Int,
           NEW u, u = SetScreen(t, s, shift)
    PROVE  Keeps(t, u) /\ u.type = s /\ u.pty = t.pty
<1>1. CASE s = t.type
  BY <1>1, KeepsNot DEF SetScreen
<1>2. CASE s # t.type
  <2> DEFINE a == [t EXCEPT !.current = s, !.type = s]
  <2>1. u = ApplyPageSizeToMainDisplay(a, s, shift)
    BY <1>2 DEF SetScreen
  <2>2. t \in TermType /\ s \in Names
    BY DEF TermOK, Names
  <2>3. /\ a \in TermType /\ a.size = t.size /\ a.current = s /\ a.type = s
        /\ a.display = t.display /\ a.pty = t.pty /\ a.screens = t.screens
        /\ a.margins = t.margins /\ a.tabs = t.tabs
        /\ a.modes = t.modes /\ a.csiS = t.csiS /\ a.savedModes = t.savedModes
    BY <2>2 DEF TermType
  <2> HIDE DEF a
  <2>4. MainPage(a) = MainPage(t)
    BY <2>3 DEF MainPage, StatusLineHeight
  <2>5. Shaped(a)
    BY <2>3, <2>4 DEF Shaped, TermOK
  <2>6. /\ u \in TermType
        /\ u.size = a.size /\ u.current = a.current /\ u.type = a.type
        /\ u.display = a.display /\ u.pty = a.pty
        /\ u.margins["main"] = FullMargin(MainPage(a))
        /\ u.margins["status"].left = 0 /\ u.margins["status"].right = a.size.columns - 1
        /\ InOrder(u.tabs) /\ TabsFit(u)
        /\ SameModes(a, u)
        /\ u.screens[s].page = MainPage(a) /\ OnPage(u, s)
        /\ u.screens["status"].page.columns = a.size.columns
    BY <2>1, <2>5, ApplyPageSizeSizes
  <2>7. MainPage(u) = MainPage(a)
    BY <2>6 DEF MainPage, StatusLineHeight
  <2>8. t.pty = MainPage(t)
    BY DEF TermOK
  <2>9. TermOK(u)
    BY <2>3, <2>4, <2>6, <2>7, <2>8, SizedOK
  <2>10. SameModes(t, a)
    BY <2>3 DEF SameModes
  <2>11. SameModes(t, u)
    BY <2>6, <2>10, SameModesTwice
  <2> QED BY <2>3, <2>6, <2>9, <2>11 DEF Keeps, Shown
<1> QED BY <1>1, <1>2

\* DECALN
LEMMA ScreenAlignmentKeeps ==
    ASSUME NEW t, TermOK(t), NEW u, u = ScreenAlignmentPattern(t)
    PROVE  Keeps(t, u) /\ u.current = t.current
<1> DEFINE x == IF t.current = "status" THEN "status" ELSE "main"
           m == FullMargin(PageOf(t))
           a == [t EXCEPT !.margins[x] = m]
<1>1. u = MoveCursorTo(a, 0, 0)
  BY DEF ScreenAlignmentPattern
<1>2. /\ t \in TermType /\ PageOf(t) \in PageType /\ PageOf(t).columns = t.size.columns
      /\ t.current = t.type => PageOf(t) = MainPage(t)
      /\ t.current \in {t.type, "status"}
  BY TermFacts, PageColumns DEF TermOK
<1>3. /\ m \in MarginType /\ Fits(m, PageOf(t)) /\ m.left = 0 /\ m.right = t.size.columns - 1
  BY <1>2, FullMarginFits
<1> HIDE DEF m
<1>4. /\ a \in TermType /\ a.size = t.size /\ a.current = t.current /\ a.type = t.type
      /\ a.display = t.display /\ a.pty = t.pty /\ a.screens = t.screens
      /\ a.tabs = t.tabs /\ a.modes = t.modes /\ a.csiS = t.csiS /\ a.savedModes = t.savedModes
      /\ x = "main" => a.margins["main"] = m /\ a.margins["status"] = t.margins["status"]
      /\ x = "status" => a.margins["status"] = m /\ a.margins["main"] = t.margins["main"]
  BY <1>2, <1>3 DEF TermType
<1> HIDE DEF a
<1>5. MainPage(a) = MainPage(t)
  BY <1>4 DEF MainPage, StatusLineHeight
<1>6. TermOK(a)
  <2>1. CASE x = "main"
    <3>1. Fits(m, MainPage(t))
      BY <1>2, <1>3, <2>1
    <3> QED BY <1>4, <1>5, <2>1, <3>1 DEF TermOK
  <2>2. CASE x = "status"
    BY <1>3, <1>4, <1>5, <2>2 DEF TermOK
  <2> QED BY <2>1, <2>2
<1>7. Keeps(t, a)
  BY <1>4, <1>6 DEF Keeps, SameModes, Shown, OnPage, TabsFit
<1>8. Stays(a, u)
  BY <1>1, <1>6, MoveCursorToMoves DEF Stays
<1>9. Keeps(a, u) /\ u.current = a.current
  BY <1>6, <1>8, StaysKeeps
<1> QED BY <1>4, <1>7, <1>9, KeepsTwice

\* Showing or hiding the status line resizes the page in step.
LEMMA SetStatusDisplayKeeps ==
    ASSUME NEW t, TermOK(t), NEW display \in DisplayType, NEW shift \in Int,
           NEW u, u = SetStatusDisplay(t, display, shift)
    PROVE  Keeps(t, u) /\ u.current = t.current /\ u.type = t.type /\ u.active = t.active
<1> DEFINE a == [t EXCEPT !.display = display]
           size == t.size
<1>1. u = IF t.display = display THEN t
          ELSE IF (t.display = "None") # (display = "None") THEN ResizeScreen(a, size, shift)
          ELSE a
  BY DEF SetStatusDisplay
<1>2. t \in TermType /\ t.current \in {t.type, "status"} /\ InOrder(t.tabs) /\ size \in SizeType
  BY DEF TermOK, TermType
<1>3. /\ a \in TermType /\ a.size = t.size /\ a.current = t.current /\ a.type = t.type
      /\ a.display = display /\ a.pty = t.pty /\ a.screens = t.screens
      /\ a.margins = t.margins /\ a.tabs = t.tabs /\ a.active = t.active
      /\ a.modes = t.modes /\ a.csiS = t.csiS /\ a.savedModes = t.savedModes
  BY <1>2 DEF TermType
<1> HIDE DEF a
<1>4. SameModes(t, a)
  BY <1>3 DEF SameModes
<1>5. CASE t.display = display
  <2>1. u = t
    BY <1>1, <1>5
  <2> QED BY <2>1, KeepsNot
<1>6. CASE t.display # display /\ (t.display = "None") # (display = "None")
  <2>1. u = ResizeScreen(a, size, shift)
    BY <1>1, <1>6
  <2> HIDE DEF size
  <2>2. /\ TermOK(u) /\ SameModes(a, u) /\ Shown(u) /\ TabsFit(u)
        /\ u.current = a.current /\ u.type = a.type /\ u.active = a.active
    BY <1>2, <1>3, <2>1, ResizeScreenSizes
  <2> QED BY <1>3, <1>4, <2>2, SameModesTwice DEF Keeps
<1>7. CASE t.display # display /\ ~((t.display = "None") # (display = "None"))
  <2>1. u = a
    BY <1>1, <1>7
  <2>2. (t.display = "None") = (display = "None")
    BY <1>7
  <2>3. MainPage(a) = MainPage(t)
    BY <1>3, <2>2 DEF MainPage, StatusLineHeight
  <2>4. TermOK(a)
    BY <1>3, <2>3 DEF TermOK
  <2> QED BY <1>3, <1>4, <2>1, <2>4 DEF Keeps, Shown, OnPage, TabsFit
<1> QED BY <1>5, <1>6, <1>7

\* setActiveStatusDisplay(): only the screen that is written to changes.
LEMMA SetActiveStatusDisplayKeeps ==
    ASSUME NEW t, TermOK(t), NEW active \in {"Main", "StatusLine"},
           NEW u, u = SetActiveStatusDisplay(t, active)
    PROVE  Keeps(t, u) /\ u.type = t.type /\ MainPage(u) = MainPage(t)
<1> DEFINE x == IF active = "Main" THEN t.type ELSE "status"
           a == [t EXCEPT !.active = active, !.current = x]
<1>1. u = IF t.active = active THEN t ELSE a
  BY DEF SetActiveStatusDisplay
<1>2. t \in TermType /\ x \in Names /\ x \in {t.type, "status"}
  BY DEF TermOK, TermType, Names
<1> HIDE DEF x
<1>3. /\ a \in TermType /\ a.size = t.size /\ a.current = x /\ a.type = t.type
      /\ a.display = t.display /\ a.pty = t.pty /\ a.screens = t.screens
      /\ a.margins = t.margins /\ a.tabs = t.tabs
      /\ a.modes = t.modes /\ a.csiS = t.csiS /\ a.savedModes = t.savedModes
  BY <1>2 DEF TermType
<1> HIDE DEF a
<1>4. MainPage(a) = MainPage(t)
  BY <1>3 DEF MainPage, StatusLineHeight
<1>5. TermOK(a)
  BY <1>2, <1>3, <1>4 DEF TermOK
<1>6. Keeps(t, a)
  BY <1>3, <1>5 DEF Keeps, SameModes, Shown, OnPage, TabsFit
<1>7. CASE t.active = active
  <2>1. u = t
    BY <1>1, <1>7
  <2> QED BY <2>1, KeepsNot
<1>8. CASE t.active # active
  BY <1>1, <1>3, <1>4, <1>6, <1>8
<1> QED BY <1>7, <1>8

\* Remembering the status display changes nothing else.
LEMMA SavedDisplayKeeps ==
    ASSUME NEW t, TermOK(t), NEW display \in DisplayType \cup {""},
           NEW u, u = [t EXCEPT !.savedDisplay = display]
    PROVE  Keeps(t, u) /\ u.current = t.current /\ u.type = t.type
<1>1. t \in TermType
  BY DEF TermOK
<1>2. /\ u \in TermType /\ u.size = t.size /\ u.current = t.current /\ u.type = t.type
      /\ u.display = t.display /\ u.pty = t.pty /\ u.screens = t.screens
      /\ u.margins = t.margins /\ u.tabs = t.tabs
      /\ u.modes = t.modes /\ u.csiS = t.csiS /\ u.savedModes = t.savedModes
  BY <1>1 DEF TermType
<1>3. MainPage(u) = MainPage(t)
  BY <1>2 DEF MainPage, StatusLineHeight
<1>4. TermOK(u)
  BY <1>2, <1>3 DEF TermOK
<1> QED BY <1>2, <1>4 DEF Keeps, SameModes, Shown, OnPage, TabsFit

\* Pushing or popping the status display resizes the page in step.
LEMMA PushPopStatusDisplayKeeps ==
    ASSUME NEW t, TermOK(t), NEW shift \in Int, NEW u,
           u = PushStatusDisplay(t, shift) \/ u = PopStatusDisplay(t, shift)
    PROVE  Keeps(t, u) /\ u.current = t.current
<1>1. t.display \in DisplayType /\ t.savedDisplay \in DisplayType \cup {""}
  BY DEF TermOK, TermType
<1>2. CASE u = PushStatusDisplay(t, shift)
  <2> DEFINE d == IF t.savedDisplay = "" THEN t.display ELSE t.savedDisplay
             a == [t EXCEPT !.savedDisplay = d]
  <2>1. u = SetStatusDisplay(a, "Indicator", shift)
    BY <1>2 DEF PushStatusDisplay
  <2>2. d \in DisplayType \cup {""}
    BY <1>1
  <2> HIDE DEF d
  <2>3. Keeps(t, a) /\ a.current = t.current
    BY <2>2, SavedDisplayKeeps
  <2> HIDE DEF a
  <2>4. TermOK(a) /\ "Indicator" \in DisplayType
    BY <2>3 DEF Keeps, DisplayType
  <2>5. Keeps(a, u) /\ u.current = a.current
    BY <2>1, <2>4, SetStatusDisplayKeeps
  <2> QED BY <2>3, <2>5, KeepsTwice
<1>3. CASE u = PopStatusDisplay(t, shift) /\ t.savedDisplay = ""
  <2>1. u = t
    BY <1>3 DEF PopStatusDisplay
  <2> QED BY <2>1, KeepsNot
<1>4. CASE u = PopStatusDisplay(t, shift) /\ t.savedDisplay # ""
  <2> DEFINE d == t.savedDisplay
             a == SetStatusDisplay(t, d, shift)
  <2>1. u = [a EXCEPT !.savedDisplay = ""]
    BY <1>4 DEF PopStatusDisplay
  <2>2. d \in DisplayType
    BY <1>1, <1>4
  <2> HIDE DEF d
  <2>3. Keeps(t, a) /\ a.current = t.current
    BY <2>2, SetStatusDisplayKeeps
  <2> HIDE DEF a
  <2>4. TermOK(a)
    BY <2>3 DEF Keeps
  <2>5. Keeps(a, u) /\ u.current = a.current
    BY <2>1, <2>4, SavedDisplayKeeps
  <2> QED BY <2>3, <2>5, KeepsTwice
<1> QED BY <1>2, <1>3, <1>4

-----------------------------------------------------------------------------
(* Modes, saved cursors and tab stops.                                     *)

\* What follows from Keeps for sequences that change modes.
Safe(t, u) == TermOK(u) /\ (Shown(t) => Shown(u)) /\ (TabsFit(t) => TabsFit(u))

\* The modes and their copies still agree, and the screen is the same.
Agrees(t, u) ==
    /\ u.current = t.current /\ u.savedModes = t.savedModes
    /\ ModeFlagsAgree(t) => ModeFlagsAgree(u)
    /\ SequenceAgrees(t) => SequenceAgrees(u)

InStep(t, u) ==
    u.savedModes = t.savedModes =>
        /\ ModeFlagsAgree(t) /\ t.current = u.current => ModeFlagsAgree(u)
        /\ SequenceAgrees(t) /\ u.modes # {"AutoWrap"} => SequenceAgrees(u)

\* What leaves the modes alone leaves them in step.
LEMMA KeepsInStep ==
    ASSUME NEW t, NEW u, Keeps(t, u)
    PROVE  Safe(t, u) /\ InStep(t, u) /\ (u.current = t.current => Agrees(t, u))
<1>1. TermOK(u) /\ SameModes(t, u)
  BY DEF Keeps
<1>2. u.current \in Names
  BY <1>1 DEF TermOK, TermType
<1>3. u.current = t.current /\ ModeFlagsAgree(t) => ModeFlagsAgree(u)
  BY <1>1, <1>2 DEF SameModes, ModeFlagsAgree, CursorOf
<1>4. SequenceAgrees(t) => SequenceAgrees(u)
  BY <1>1 DEF SameModes, SequenceAgrees
<1> QED BY <1>1, <1>3, <1>4 DEF Keeps, Safe, InStep, Agrees, SameModes

\* Modes that agree with the cursor are in step.
LEMMA AgreesInStep ==
    ASSUME NEW t, NEW u, Agrees(t, u)
    PROVE  InStep(t, u)
  BY DEF Agrees, InStep

\* Safe steps compose.
LEMMA SafeTwice ==
    ASSUME NEW t, NEW u, NEW v, Safe(t, u), Safe(u, v)
    PROVE  Safe(t, v)
  BY DEF Safe

\* Agreeing with the cursor composes.
LEMMA AgreesTwice ==
    ASSUME NEW t, NEW u, NEW v, Agrees(t, u), Agrees(u, v)
    PROVE  Agrees(t, v)
  BY DEF Agrees

\* A bit of the modes.
LEMMA RecordModeSafe ==
    ASSUME NEW t, TermOK(t), NEW m \in Mode, NEW enable \in BOOLEAN, NEW u, u = RecordMode(t, m, enable)
    PROVE  /\ Safe(t, u)
           /\ u.current = t.current /\ u.savedModes = t.savedModes /\ u.csiS = t.csiS
           /\ u.screens = t.screens /\ u.type = t.type
           /\ enable => u.modes = t.modes \cup {m}
           /\ ~enable => u.modes = t.modes \ {m}
<1> DEFINE n == IF enable THEN t.modes \cup {m} ELSE t.modes \ {m}
<1>1. u = [t EXCEPT !.modes = n]
  BY DEF RecordMode
<1>2. t \in TermType /\ n \in SUBSET Mode
  BY DEF TermOK, TermType
<1>3. (enable => n = t.modes \cup {m}) /\ (~enable => n = t.modes \ {m})
  OBVIOUS
<1> HIDE DEF n
<1>4. /\ u \in TermType /\ u.size = t.size /\ u.current = t.current /\ u.type = t.type
      /\ u.display = t.display /\ u.pty = t.pty /\ u.screens = t.screens
      /\ u.margins = t.margins /\ u.tabs = t.tabs
      /\ u.modes = n /\ u.csiS = t.csiS /\ u.savedModes = t.savedModes
  BY <1>1, <1>2 DEF TermType
<1>5. MainPage(u) = MainPage(t)
  BY <1>4 DEF MainPage, StatusLineHeight
<1>6. TermOK(u)
  BY <1>4, <1>5 DEF TermOK
<1>7. Safe(t, u)
  BY <1>4, <1>6 DEF Safe, Shown, OnPage, TabsFit
<1> QED BY <1>3, <1>4, <1>7

\* A mode that is kept in no other place.
LEMMA RecordModeAgrees ==
    ASSUME NEW t, TermOK(t), NEW m \in Mode, NEW enable \in BOOLEAN, NEW u, u = RecordMode(t, m, enable),
           m \notin {"AutoWrap", "Origin", "LeftRightMargin"}
    PROVE  Safe(t, u) /\ Agrees(t, u)
<1>1. /\ Safe(t, u)
      /\ u.current = t.current /\ u.savedModes = t.savedModes /\ u.csiS = t.csiS
      /\ u.screens = t.screens
      /\ enable => u.modes = t.modes \cup {m}
      /\ ~enable => u.modes = t.modes \ {m}
  BY RecordModeSafe
<1>2. \A n \in {"AutoWrap", "Origin", "LeftRightMargin"} : n \in u.modes <=> n \in t.modes
  BY <1>1
<1>3. CursorOf(u) = CursorOf(t)
  BY <1>1 DEF CursorOf
<1> QED BY <1>1, <1>2, <1>3 DEF Agrees, ModeFlagsAgree, SequenceAgrees

\* A new cursor is safe if it is on the page.
LEMMA SetCursorSafe ==
    ASSUME NEW t, TermOK(t), NEW c \in CursorType, NEW u, u = SetCursor(t, c),
           t.current = t.type /\ On(CursorOf(t), PageOf(t)) => On(c, PageOf(t))
    PROVE  /\ Safe(t, u) /\ CursorOf(u) = c
           /\ u.current = t.current /\ u.modes = t.modes /\ u.savedModes = t.savedModes
           /\ u.csiS = t.csiS
<1>1. t \in TermType
  BY DEF TermOK
<1>2. /\ u \in TermType
      /\ u.size = t.size /\ u.margins = t.margins /\ u.current = t.current /\ u.type = t.type
      /\ u.display = t.display /\ u.modes = t.modes /\ u.savedModes = t.savedModes
      /\ u.csiS = t.csiS /\ u.tabs = t.tabs /\ u.pty = t.pty
      /\ u.screens[t.current].cursor = c
      /\ u.screens[t.current].page = t.screens[t.current].page
      /\ \A s \in Names : s # t.current => u.screens[s] = t.screens[s]
  BY <1>1, SetCursorKeeps
<1>3. t.type \in Names /\ "status" \in Names
  BY <1>1 DEF TermType, Names
<1>4. \A s \in Names : u.screens[s].page = t.screens[s].page
  BY <1>2
<1>5. MainPage(u) = MainPage(t)
  BY <1>2 DEF MainPage, StatusLineHeight
<1>6. TermOK(u)
  BY <1>2, <1>3, <1>4, <1>5 DEF TermOK
<1>7. ASSUME Shown(t) PROVE Shown(u)
  <2>1. CASE t.current = t.type
    <3>1. On(CursorOf(t), PageOf(t))
      BY <1>7, <2>1 DEF Shown, OnPage, On, CursorOf, PageOf
    <3>2. On(c, PageOf(t))
      BY <2>1, <3>1
    <3> QED BY <1>2, <2>1, <3>2 DEF Shown, OnPage, On, PageOf
  <2>2. CASE t.current # t.type
    <3>1. u.screens[t.type] = t.screens[t.type]
      BY <1>2, <1>3, <2>2
    <3> QED BY <1>2, <1>7, <3>1 DEF Shown, OnPage
  <2> QED BY <2>1, <2>2
<1>8. TabsFit(t) => TabsFit(u)
  BY <1>2 DEF TabsFit
<1>9. CursorOf(u) = c
  BY <1>2 DEF CursorOf
<1> QED BY <1>2, <1>6, <1>7, <1>8, <1>9 DEF Safe

\* DECAWM and DECOM
LEMMA SetCursorModeAgrees ==
    ASSUME NEW t, TermOK(t), NEW m \in {"AutoWrap", "Origin"}, NEW enable \in BOOLEAN,
           NEW u, u = RecordMode(SetCursorMode(t, m, enable), m, enable)
    PROVE  Safe(t, u) /\ Agrees(t, u)
<1> DEFINE c == CursorOf(t)
           d == IF m = "AutoWrap" THEN [c EXCEPT !.autoWrap = enable] ELSE [c EXCEPT !.origin = enable]
           v == SetCursor(t, d)
<1>1. u = RecordMode(v, m, enable)
  BY DEF SetCursorMode
<1>2. c \in CursorType
  BY TermFacts
<1>3. /\ d \in CursorType /\ d.line = c.line /\ d.col = c.col
      /\ m = "AutoWrap" => d.autoWrap = enable /\ d.origin = c.origin
      /\ m = "Origin" => d.autoWrap = c.autoWrap /\ d.origin = enable
  BY <1>2 DEF CursorType
<1>4. On(c, PageOf(t)) => On(d, PageOf(t))
  BY <1>3 DEF On
<1> HIDE DEF d
<1>5. /\ Safe(t, v) /\ CursorOf(v) = d
      /\ v.current = t.current /\ v.modes = t.modes /\ v.savedModes = t.savedModes
      /\ v.csiS = t.csiS
  BY <1>3, <1>4, SetCursorSafe
<1> HIDE DEF v
<1>6. TermOK(v) /\ m \in Mode
  BY <1>5 DEF Safe, Mode
<1>7. /\ Safe(v, u)
      /\ u.current = v.current /\ u.savedModes = v.savedModes /\ u.csiS = v.csiS
      /\ u.screens = v.screens
      /\ enable => u.modes = v.modes \cup {m}
      /\ ~enable => u.modes = v.modes \ {m}
  BY <1>1, <1>6, RecordModeSafe
<1>8. CursorOf(u) = d
  BY <1>5, <1>7 DEF CursorOf
<1>9. "LeftRightMargin" \in u.modes <=> "LeftRightMargin" \in t.modes
  BY <1>5, <1>7
<1>10. ASSUME ModeFlagsAgree(t) PROVE ModeFlagsAgree(u)
  <2>1. CASE m = "AutoWrap"
    <3>1. /\ "AutoWrap" \in u.modes <=> enable
          /\ "Origin" \in u.modes <=> "Origin" \in t.modes
      BY <1>5, <1>7, <2>1
    <3> QED BY <1>3, <1>8, <1>10, <2>1, <3>1 DEF ModeFlagsAgree
  <2>2. CASE m = "Origin"
    <3>1. /\ "Origin" \in u.modes <=> enable
          /\ "AutoWrap" \in u.modes <=> "AutoWrap" \in t.modes
      BY <1>5, <1>7, <2>2
    <3> QED BY <1>3, <1>8, <1>10, <2>2, <3>1 DEF ModeFlagsAgree
  <2> QED BY <2>1, <2>2
<1>11. SequenceAgrees(t) => SequenceAgrees(u)
  BY <1>5, <1>7, <1>9 DEF SequenceAgrees
<1>12. Safe(t, u)
  BY <1>5, <1>7, SafeTwice
<1> QED BY <1>5, <1>7, <1>10, <1>11, <1>12 DEF Agrees

\* DECSC keeps what verifyState() requires.
LEMMA SavedCursorKeeps ==
    ASSUME NEW t, TermOK(t), NEW c \in CursorType,
           NEW u, u = [t EXCEPT !.screens[t.current].saved = c]
    PROVE  Keeps(t, u) /\ u.current = t.current /\ u.size = t.size
<1>1. t \in TermType /\ t.current \in Names /\ t.type \in Names /\ "status" \in Names
  BY DEF TermOK, TermType, Names
<1> DEFINE g == [t.screens[t.current] EXCEPT !.saved = c]
           ss == [t.screens EXCEPT ![t.current] = g]
<1>2. u = [t EXCEPT !.screens = ss]
  BY <1>1
<1>3. t.screens \in [Names -> ScreenType] /\ t.screens[t.current] \in ScreenType
  BY <1>1 DEF TermType
<1>4. /\ g \in ScreenType /\ g.page = t.screens[t.current].page
      /\ g.cursor = t.screens[t.current].cursor
  BY <1>3 DEF ScreenType
<1> HIDE DEF g
<1>5. /\ ss \in [Names -> ScreenType]
      /\ \A s \in Names : ss[s].page = t.screens[s].page /\ ss[s].cursor = t.screens[s].cursor
  BY <1>1, <1>3, <1>4
<1> HIDE DEF ss
<1>6. /\ u \in TermType /\ u.size = t.size /\ u.current = t.current /\ u.type = t.type
      /\ u.display = t.display /\ u.pty = t.pty /\ u.screens = ss
      /\ u.margins = t.margins /\ u.tabs = t.tabs
      /\ u.modes = t.modes /\ u.csiS = t.csiS /\ u.savedModes = t.savedModes
  BY <1>1, <1>2, <1>5 DEF TermType
<1>7. MainPage(u) = MainPage(t)
  BY <1>6 DEF MainPage, StatusLineHeight
<1>8. TermOK(u)
  BY <1>1, <1>5, <1>6, <1>7 DEF TermOK
<1>9. Shown(t) => Shown(u)
  BY <1>1, <1>5, <1>6 DEF Shown, OnPage
<1> QED BY <1>5, <1>6, <1>8, <1>9 DEF Keeps, SameModes, TabsFit

\* restoreCursor(): the cursor is clamped, and the modes are those of the cursor.
LEMMA RestoreCursorAgrees ==
    ASSUME NEW t, TermOK(t), NEW u, u = RestoreCursor(t)
    PROVE  Safe(t, u) /\ Agrees(t, u)
<1> DEFINE saved == t.screens[t.current].saved
           d == ClampCoordinate(saved, PageOf(t), MarginOf(t))
           v == SetCursor(t, d)
           x == RecordMode(v, "AutoWrap", saved.autoWrap)
<1>1. u = RecordMode(x, "Origin", saved.origin)
  BY DEF RestoreCursor
<1>2. /\ saved \in CursorType /\ PageOf(t) \in PageType /\ MarginOf(t) \in MarginType
      /\ 0 <= MarginOf(t).right /\ MarginOf(t).right < PageOf(t).columns
      /\ t.current = t.type => Fits(MarginOf(t), PageOf(t))
  <2>1. t.screens[t.current] \in ScreenType
    BY DEF TermOK, TermType
  <2> QED BY <2>1, TermFacts DEF ScreenType, MarginType, Fits
<1>3. /\ d \in CursorType /\ d.autoWrap = saved.autoWrap /\ d.origin = saved.origin
      /\ t.current = t.type => On(d, PageOf(t))
  <2>0. saved \in FreeCursor
    BY <1>2 DEF CursorType, FreeCursor
  <2>1. CASE saved.origin
    <3> DEFINE m == MarginOf(t)
    <3>1. /\ d = ClampToOrigin(saved, m) /\ m \in MarginType
          /\ 0 <= m.right /\ m.right < PageOf(t).columns
          /\ t.current = t.type => 0 <= m.bottom /\ m.bottom < PageOf(t).lines
      BY <1>2, <2>1 DEF ClampCoordinate, Fits, MarginType
    <3> HIDE DEF m, d, saved
    <3> QED BY <1>2, <2>0, <3>1, ClampToOriginOn DEF FreeCursor
  <2>2. CASE ~saved.origin
    <3>1. d = ClampToScreen(saved, PageOf(t))
      BY <2>2 DEF ClampCoordinate
    <3> HIDE DEF d, saved
    <3> QED BY <1>2, <2>0, <3>1, ClampToScreenOn DEF FreeCursor
  <2> QED BY <2>1, <2>2
<1> DEFINE a == saved.autoWrap
           b == saved.origin
<1>4. a \in BOOLEAN /\ b \in BOOLEAN /\ x = RecordMode(v, "AutoWrap", a) /\ u = RecordMode(x, "Origin", b)
  BY <1>1, <1>2 DEF CursorType
<1> HIDE DEF d
<1>5. /\ Safe(t, v) /\ CursorOf(v) = d
      /\ v.current = t.current /\ v.modes = t.modes /\ v.savedModes = t.savedModes
      /\ v.csiS = t.csiS
  BY <1>3, SetCursorSafe
<1> HIDE DEF v, x, a, b
<1>6. TermOK(v) /\ "AutoWrap" \in Mode /\ "Origin" \in Mode
  BY <1>5 DEF Safe, Mode
<1>7. /\ Safe(v, x)
      /\ x.current = v.current /\ x.savedModes = v.savedModes /\ x.csiS = v.csiS
      /\ x.screens = v.screens
      /\ a => x.modes = v.modes \cup {"AutoWrap"}
      /\ ~a => x.modes = v.modes \ {"AutoWrap"}
  BY <1>4, <1>6, RecordModeSafe
<1>8. TermOK(x)
  BY <1>7 DEF Safe
<1>9. /\ Safe(x, u)
      /\ u.current = x.current /\ u.savedModes = x.savedModes /\ u.csiS = x.csiS
      /\ u.screens = x.screens
      /\ b => u.modes = x.modes \cup {"Origin"}
      /\ ~b => u.modes = x.modes \ {"Origin"}
  BY <1>4, <1>6, <1>8, RecordModeSafe
<1>10. CursorOf(u) = d
  BY <1>5, <1>7, <1>9 DEF CursorOf
<1>11. /\ "AutoWrap" \in u.modes <=> a
       /\ "Origin" \in u.modes <=> b
       /\ "LeftRightMargin" \in u.modes <=> "LeftRightMargin" \in t.modes
  BY <1>5, <1>7, <1>9
<1>12. ModeFlagsAgree(u)
  BY <1>3, <1>10, <1>11 DEF ModeFlagsAgree, a, b
<1>13. SequenceAgrees(t) => SequenceAgrees(u)
  BY <1>5, <1>7, <1>9, <1>11 DEF SequenceAgrees
<1>14. Safe(t, u)
  BY <1>5, <1>7, <1>9, SafeTwice
<1> QED BY <1>5, <1>7, <1>9, <1>12, <1>13, <1>14 DEF Agrees

\* DECLRMM: the margins are reset where it is cleared.
LEMMA SetLeftRightMarginModeAgrees ==
    ASSUME NEW t, TermOK(t), NEW enable \in BOOLEAN,
           NEW u, u = RecordMode(SetLeftRightMarginMode(t, enable), "LeftRightMargin", enable)
    PROVE  Safe(t, u) /\ Agrees(t, u)
<1> DEFINE v == SetLeftRightMarginMode(t, enable)
           old == t.margins.main
           b == t.size.columns - 1
           m == [old EXCEPT !.left = 0, !.right = b]
           x == IF enable THEN "DECSLRM" ELSE "SCOSC"
           n == IF enable THEN old ELSE m
<1>1. /\ t \in TermType /\ old \in MarginType /\ Fits(old, MainPage(t))
      /\ MainPage(t).columns = t.size.columns /\ t.size.columns \in Count
      /\ MainPage(t) \in PageType
  <2>1. t \in TermType
    BY DEF TermOK
  <2> QED BY <2>1, PageColumns, MainPageType
<1>2. b \in Int /\ 0 <= b /\ b < MainPage(t).columns
  <2> DEFINE w == t.size.columns
  <2>1. w \in Nat /\ w >= 1
    BY <1>1 DEF Count
  <2> HIDE DEF w
  <2>2. w - 1 \in Int /\ 0 <= w - 1 /\ w - 1 < w
    BY <2>1
  <2> QED BY <1>1, <2>2 DEF w
<1> HIDE DEF b
<1>3. m \in MarginType /\ Fits(m, MainPage(t))
  <2> HIDE DEF old
  <2>1. /\ m \in MarginType /\ m.left = 0 /\ m.right = b
        /\ m.top = old.top /\ m.bottom = old.bottom
    <3>1. old \in MarginType /\ b \in Int /\ 0 \in Int
      BY <1>1, <1>2
    <3> QED BY <3>1 DEF MarginType
  <2> HIDE DEF m
  <2> QED BY <1>1, <1>2, <2>1 DEF Fits
<1>4. v = [t EXCEPT !.csiS = x, !.margins.main = n]
  BY ZenonT(60), <1>1 DEF SetLeftRightMarginMode, TermType, MarginType, b
<1>5. x \in {"SCOSC", "DECSLRM"} /\ n \in MarginType /\ Fits(n, MainPage(t))
      /\ (x = "DECSLRM" <=> enable)
  BY <1>1, <1>3
<1> HIDE DEF v, x, n
<1>6. /\ v \in TermType /\ v.size = t.size /\ v.current = t.current /\ v.type = t.type
      /\ v.display = t.display /\ v.pty = t.pty /\ v.screens = t.screens
      /\ v.margins["main"] = n /\ v.margins["status"] = t.margins["status"] /\ v.tabs = t.tabs
      /\ v.modes = t.modes /\ v.csiS = x /\ v.savedModes = t.savedModes
  BY <1>1, <1>4, <1>5 DEF TermType
<1>7. MainPage(v) = MainPage(t)
  BY <1>6 DEF MainPage, StatusLineHeight
<1>8. TermOK(v)
  BY <1>5, <1>6, <1>7 DEF TermOK
<1>9. Safe(t, v)
  BY <1>6, <1>8 DEF Safe, Shown, OnPage, TabsFit
<1>10. u = RecordMode(v, "LeftRightMargin", enable) /\ "LeftRightMargin" \in Mode
  BY DEF v, Mode
<1>11. /\ Safe(v, u)
       /\ u.current = v.current /\ u.savedModes = v.savedModes /\ u.csiS = v.csiS
       /\ u.screens = v.screens
       /\ enable => u.modes = v.modes \cup {"LeftRightMargin"}
       /\ ~enable => u.modes = v.modes \ {"LeftRightMargin"}
  BY <1>8, <1>10, RecordModeSafe
<1>12. SequenceAgrees(u)
  BY <1>5, <1>6, <1>11 DEF SequenceAgrees
<1>13. ModeFlagsAgree(t) => ModeFlagsAgree(u)
  <2>1. CursorOf(u) = CursorOf(t)
    BY <1>6, <1>11 DEF CursorOf
  <2>2. \A k \in {"AutoWrap", "Origin"} : k \in u.modes <=> k \in t.modes
    BY <1>6, <1>11
  <2> QED BY <2>1, <2>2 DEF ModeFlagsAgree
<1>14. Safe(t, u)
  BY <1>9, <1>11, SafeTwice
<1> QED BY <1>6, <1>11, <1>12, <1>13, <1>14 DEF Agrees

\* The ANSI modes have no copy in the cursor.
LEMMA SetAnsiModeAgrees ==
    ASSUME NEW t, TermOK(t), NEW m \in {"AutomaticNewLine", "KeyboardAction"}, NEW enable \in BOOLEAN,
           NEW shift \in Int, NEW u, u = SetAnsiMode(t, m, enable, shift)
    PROVE  Safe(t, u) /\ Agrees(t, u)
<1> DEFINE v == IF m # "KeyboardAction" THEN t
                ELSE IF enable THEN PushStatusDisplay(t, shift) ELSE PopStatusDisplay(t, shift)
<1>1. u = RecordMode(v, m, enable) /\ m \in Mode
  BY DEF SetAnsiMode, Mode
<1>2. Keeps(t, v) /\ v.current = t.current
  <2>1. CASE m # "KeyboardAction"
    <3>1. v = t
      BY <2>1
    <3> QED BY <3>1, KeepsNot
  <2>2. CASE m = "KeyboardAction"
    <3>1. v = PushStatusDisplay(t, shift) \/ v = PopStatusDisplay(t, shift)
      BY <2>2
    <3> HIDE DEF v
    <3> QED BY <3>1, PushPopStatusDisplayKeeps
  <2> QED BY <2>1, <2>2
<1> HIDE DEF v
<1>3. TermOK(v) /\ Safe(t, v) /\ Agrees(t, v)
  BY <1>2, KeepsInStep DEF Keeps
<1>4. Safe(v, u) /\ Agrees(v, u)
  BY <1>1, <1>3, RecordModeAgrees
<1> QED BY <1>3, <1>4, SafeTwice, AgreesTwice

\* Setting a DEC mode sets its copy in the cursor and the meaning of CSI s.
LEMMA SetDECModeInStep ==
    ASSUME NEW t, TermOK(t), NEW m \in {"AutoWrap", "Origin", "LeftRightMargin", "UseAlternateScreen"},
           NEW enable \in BOOLEAN, NEW shift \in Int, NEW u, u = SetDECMode(t, m, enable, shift)
    PROVE  /\ Safe(t, u) /\ InStep(t, u)
           /\ m \in {"AutoWrap", "Origin"} => Agrees(t, u)
<1>1. CASE m \in {"AutoWrap", "Origin"}
  <2>1. u = RecordMode(SetCursorMode(t, m, enable), m, enable)
    BY <1>1 DEF SetDECMode
  <2>2. Safe(t, u) /\ Agrees(t, u)
    BY <1>1, <2>1, SetCursorModeAgrees
  <2> QED BY <2>2, AgreesInStep
<1>2. CASE m = "LeftRightMargin"
  <2>1. u = RecordMode(SetLeftRightMarginMode(t, enable), "LeftRightMargin", enable)
    BY <1>2 DEF SetDECMode
  <2>2. Safe(t, u) /\ Agrees(t, u)
    BY <2>1, SetLeftRightMarginModeAgrees
  <2> QED BY <1>2, <2>2, AgreesInStep
<1>3. CASE m = "UseAlternateScreen"
  <2> DEFINE s == IF enable THEN "alternate" ELSE "primary"
             v == SetScreen(t, s, shift)
  <2>1. u = RecordMode(v, m, enable) /\ m \in Mode
    BY <1>3 DEF SetDECMode, Mode
  <2>2. s \in {"primary", "alternate"}
    OBVIOUS
  <2> HIDE DEF s
  <2>3. Keeps(t, v)
    BY <2>2, SetScreenKeeps
  <2> HIDE DEF v
  <2>4. TermOK(v) /\ Safe(t, v) /\ InStep(t, v) /\ SameModes(t, v)
    BY <2>3, KeepsInStep DEF Keeps
  <2>5. Safe(v, u) /\ Agrees(v, u)
    BY <1>3, <2>1, <2>4, RecordModeAgrees
  <2>6. Safe(t, u)
    BY <2>4, <2>5, SafeTwice
  <2>7. (t.current = u.current /\ ModeFlagsAgree(t)) => ModeFlagsAgree(u)
    BY <2>4, <2>5 DEF InStep, Agrees, SameModes
  <2>8. SequenceAgrees(t) => SequenceAgrees(u)
    BY <2>4, <2>5 DEF SameModes, SequenceAgrees, Agrees
  <2> QED BY <1>3, <2>6, <2>7, <2>8 DEF InStep
<1> QED BY <1>1, <1>2, <1>3

\* XTSAVE and XTRESTORE change what is saved.
LEMMA SavedModesSafe ==
    ASSUME NEW t, TermOK(t), NEW m \in SavableMode, NEW q \in Seq(BOOLEAN), q # t.savedModes[m],
           NEW u, u = [t EXCEPT !.savedModes[m] = q]
    PROVE  Safe(t, u) /\ u.savedModes # t.savedModes
<1>1. t \in TermType
  BY DEF TermOK
<1> DEFINE g == [t.savedModes EXCEPT ![m] = q]
<1>2. g \in [SavableMode -> Seq(BOOLEAN)] /\ g[m] = q
  BY <1>1 DEF TermType
<1>3. u = [t EXCEPT !.savedModes = g]
  OBVIOUS
<1> HIDE DEF g
<1>4. /\ u \in TermType /\ u.size = t.size /\ u.current = t.current /\ u.type = t.type
      /\ u.display = t.display /\ u.pty = t.pty /\ u.screens = t.screens
      /\ u.margins = t.margins /\ u.tabs = t.tabs
      /\ u.savedModes = g
  BY <1>1, <1>2, <1>3 DEF TermType
<1>5. MainPage(u) = MainPage(t)
  BY <1>4 DEF MainPage, StatusLineHeight
<1>6. TermOK(u)
  BY <1>4, <1>5 DEF TermOK
<1>7. Safe(t, u)
  BY <1>4, <1>6 DEF Safe, Shown, OnPage, TabsFit
<1> QED BY <1>2, <1>4, <1>7

\* XTSAVE changes no mode.
LEMMA SaveModeInStep ==
    ASSUME NEW t, TermOK(t), NEW m \in SavableMode, NEW u, u = SaveMode(t, m)
    PROVE  Safe(t, u) /\ InStep(t, u)
<1> DEFINE p == t.savedModes[m]
           e == m \in t.modes
           q == Append(p, e)
<1>0. p \in Seq(BOOLEAN)
  BY DEF TermOK, TermType
<1>1. p \in Seq(BOOLEAN) /\ e \in BOOLEAN
  BY <1>0
<1>2. u = [t EXCEPT !.savedModes[m] = q]
  BY DEF SaveMode
<1> HIDE DEF p, e
<1>3. q \in Seq(BOOLEAN) /\ q # p
  <2>1. q \in Seq(BOOLEAN) /\ Len(q) = Len(p) + 1 /\ Len(p) \in Nat
    BY <1>1, AppendProperties, LenProperties
  <2> HIDE DEF q
  <2> QED BY <2>1
<1> HIDE DEF q
<1>4. Safe(t, u) /\ u.savedModes # t.savedModes
  BY <1>2, <1>3, SavedModesSafe DEF p
<1> QED BY <1>4 DEF InStep

\* XTRESTORE is safe; it alone may leave a copy behind.
LEMMA RestoreModeInStep ==
    ASSUME NEW t, TermOK(t), NEW m \in SavableMode, NEW u, u = RestoreMode(t, m)
    PROVE  Safe(t, u) /\ InStep(t, u)
<1> DEFINE p == t.savedModes[m]
<1>1. p \in Seq(BOOLEAN)
  BY DEF TermOK, TermType
<1>2. CASE p = <<>>
  <2>1. u = t
    BY <1>2 DEF RestoreMode
  <2> QED BY <2>1, KeepsNot, KeepsInStep
<1>3. CASE p # <<>>
  <2> DEFINE e == Last(p)
             v == RecordMode(t, m, e)
             q == Front(p)
  <2>1. u = [v EXCEPT !.savedModes[m] = Front(v.savedModes[m])]
    BY <1>3 DEF RestoreMode
  <2> HIDE DEF p
  <2>2. Len(p) \in Nat /\ Len(p) # 0
    BY <1>1, <1>3, LenProperties, EmptySeq
  <2>3. e \in BOOLEAN
    BY <1>1, <2>2, LenProperties DEF Last
  <2>4. q \in Seq(BOOLEAN) /\ q # p
    <3>2. q \in Seq(BOOLEAN) /\ Len(q) = Len(p) - 1
      BY <1>1, <1>3, FrontElements
    <3> HIDE DEF q
    <3> QED BY <2>2, <3>2
  <2> HIDE DEF e
  <2>5. m \in Mode
    BY DEF SavableMode, Mode
  <2>6. Safe(t, v) /\ v.savedModes = t.savedModes
    BY <2>3, <2>5, RecordModeSafe
  <2>7. u = [v EXCEPT !.savedModes[m] = q] /\ q # v.savedModes[m]
    BY <2>1, <2>4, <2>6 DEF p
  <2> HIDE DEF v, q
  <2>8. TermOK(v)
    BY <2>6 DEF Safe
  <2>9. Safe(v, u) /\ u.savedModes # v.savedModes
    BY <2>4, <2>7, <2>8, SavedModesSafe
  <2>10. Safe(t, u)
    BY <2>6, <2>9, SafeTwice
  <2> QED BY <2>6, <2>9, <2>10 DEF InStep
<1> QED BY <1>2, <1>3

\* HTS and TBC
LEMMA SetTabsSame ==
    ASSUME NEW t, TermOK(t), NEW q \in Seq(Nat), InOrder(q), NEW u, u = [t EXCEPT !.tabs = q]
    PROVE  /\ TermOK(u) /\ SameModes(t, u) /\ u.current = t.current /\ (Shown(t) => Shown(u))
           /\ u.tabs = q /\ u.size = t.size
<1>1. t \in TermType
  BY DEF TermOK
<1>2. /\ u \in TermType /\ u.size = t.size /\ u.current = t.current /\ u.type = t.type
      /\ u.display = t.display /\ u.pty = t.pty /\ u.screens = t.screens
      /\ u.margins = t.margins /\ u.tabs = q
      /\ u.modes = t.modes /\ u.csiS = t.csiS /\ u.savedModes = t.savedModes
  BY <1>1 DEF TermType
<1>3. MainPage(u) = MainPage(t)
  BY <1>2 DEF MainPage, StatusLineHeight
<1>4. TermOK(u)
  BY <1>2, <1>3 DEF TermOK
<1> QED BY <1>2, <1>4 DEF SameModes, Shown, OnPage

\* HTS sets a tab stop on the page if the cursor is on it.
LEMMA SetTabUnderCursorSame ==
    ASSUME NEW t, TermOK(t), CursorOf(t).col >= 0, NEW u, u = SetTabUnderCursor(t)
    PROVE  /\ TermOK(u) /\ SameModes(t, u) /\ u.current = t.current /\ (Shown(t) => Shown(u))
           /\ TabsFit(t) /\ On(CursorOf(t), PageOf(t)) => TabsFit(u)
<1> DEFINE p == t.tabs
           c == CursorOf(t).col
           q == SortTabs(Append(p, c))
           w == t.size.columns
<1>1. p \in Seq(Nat) /\ InOrder(p) /\ c \in Nat /\ w \in Nat /\ PageOf(t).columns = w
  <2>1. c \in Int /\ c >= 0
    BY PositionFacts
  <2> HIDE DEF c
  <2>2. c \in Nat
    BY <2>1
  <2> QED BY <2>2, PageColumns DEF TermOK, TermType, SizeType, Count
<1>2. u = [t EXCEPT !.tabs = q]
  BY DEF SetTabUnderCursor
<1>3. On(CursorOf(t), PageOf(t)) => c < w
  <2>1. On(CursorOf(t), PageOf(t)) => c \in 0..w - 1
    BY <1>1 DEF On
  <2> HIDE DEF c, w
  <2> QED BY <1>1, <2>1
<1> HIDE DEF p, c, w
<1>4. q \in Seq(Nat) /\ InOrder(q) /\ (Below(p, w) /\ c < w => Below(q, w))
  BY <1>1, SortTabsSorts
<1> HIDE DEF q
<1>5. /\ TermOK(u) /\ SameModes(t, u) /\ u.current = t.current /\ (Shown(t) => Shown(u))
      /\ u.tabs = q /\ u.size = t.size
  BY <1>2, <1>4, SetTabsSame
<1>6. TabsFit(t) /\ On(CursorOf(t), PageOf(t)) => TabsFit(u)
  BY <1>3, <1>4, <1>5 DEF TabsFit, p, w
<1> QED BY <1>5, <1>6

\* TBC keeps the tab stops in order.
LEMMA HorizontalTabClearKeeps ==
    ASSUME NEW t, TermOK(t), NEW ps \in {0, 3}, NEW u, u = HorizontalTabClear(t, ps)
    PROVE  Keeps(t, u) /\ u.current = t.current
<1> DEFINE w == t.size.columns
<1>1. t.tabs \in Seq(Nat) /\ InOrder(t.tabs) /\ w \in Count /\ PageOf(t).columns = w
  BY PageColumns DEF TermOK, TermType, SizeType
<1>2. ASSUME NEW q \in Seq(Nat), InOrder(q), Below(t.tabs, w) => Below(q, w),
             u = [t EXCEPT !.tabs = q]
      PROVE  Keeps(t, u) /\ u.current = t.current
  <2>1. /\ TermOK(u) /\ SameModes(t, u) /\ u.current = t.current /\ (Shown(t) => Shown(u))
        /\ u.tabs = q /\ u.size = t.size
    BY <1>2, SetTabsSame
  <2> QED BY <1>2, <2>1 DEF Keeps, TabsFit
<1>3. CASE ps = 3
  <2>1. u = [t EXCEPT !.tabs = <<>>]
    BY <1>3 DEF HorizontalTabClear, ClearAllTabs
  <2>2. <<>> \in Seq(Nat) /\ InOrder(<<>>) /\ Below(<<>>, w)
    BY DEF InOrder, Below
  <2> QED BY <1>2, <2>1, <2>2
<1>4. CASE ps = 0
  <2> DEFINE defaults == [i \in 1..((w - 1) \div TabWidth) |-> i * TabWidth - 1]
             tabs == IF t.tabs = <<>> THEN defaults ELSE t.tabs
             here == {i \in DOMAIN tabs : tabs[i] = CursorOf(t).col}
             k == Min(here)
             q == IF here = {} THEN tabs ELSE RemoveAt(tabs, k)
  <2>1. u = [t EXCEPT !.tabs = q]
    BY <1>1, <1>4 DEF HorizontalTabClear, ClearTabUnderCursor
  <2> HIDE DEF w
  <2>2. defaults \in Seq(Nat) /\ InOrder(defaults) /\ Below(defaults, w)
    BY <1>1, DefaultTabs
  <2> HIDE DEF defaults
  <2>3. tabs \in Seq(Nat) /\ InOrder(tabs) /\ (Below(t.tabs, w) => Below(tabs, w)) /\ w \in Nat
    BY <1>1, <2>2 DEF Count
  <2> HIDE DEF tabs
  <2>4. q \in Seq(Nat) /\ InOrder(q) /\ (Below(t.tabs, w) => Below(q, w))
    <3>1. CASE here = {}
      BY <2>3, <3>1
    <3>2. CASE here # {}
      <4>1. here \subseteq Nat /\ here \subseteq DOMAIN tabs
        BY <2>3, LenProperties
      <4> HIDE DEF here
      <4>2. k \in DOMAIN tabs
        BY <3>2, <4>1, MinOfSome
      <4> HIDE DEF k
      <4> DEFINE r == RemoveAt(tabs, k)
      <4>3. q = r
        BY <3>2
      <4> HIDE DEF q
      <4>4. r \in Seq(Nat) /\ InOrder(r) /\ (Below(tabs, w) => Below(r, w))
        BY <2>3, <4>2, RemoveAtInOrder
      <4> HIDE DEF r
      <4> QED BY <2>3, <4>3, <4>4
    <3> QED BY <3>1, <3>2
  <2> HIDE DEF q
  <2>5. u = [t EXCEPT !.tabs = q]
    BY <2>1
  <2> QED BY <1>2, <2>4, <2>5
<1> QED BY <1>3, <1>4

-----------------------------------------------------------------------------
(* Resets.                                                                 *)

\* The cursor after a reset is on every page.
LEMMA HomeCursorType ==
    HomeCursor \in CursorType /\ HomeCursor.line = 0 /\ HomeCursor.col = 0
    /\ HomeCursor.autoWrap /\ ~HomeCursor.origin
  BY DEF HomeCursor, CursorType

\* DECSTR
LEMMA SoftResetInStep ==
    ASSUME NEW t, TermOK(t), NEW shift \in Int, NEW y, y = SoftReset(t, shift)
    PROVE  Safe(t, y) /\ InStep(t, y)
<1> DEFINE off == FALSE
           a == [t EXCEPT !.screens[t.current].saved = HomeCursor]
           u == SetDECMode(a, "Origin", off, shift)
           k == SetAnsiMode(u, "KeyboardAction", off, shift)
           v == SetDECMode(k, "AutoWrap", off, shift)
           bottom == t.size.lines - 1
           right == t.size.columns - 1
           s == SetTopBottomMargin(v, 0, bottom)
           w == SetLeftRightMargin(s, 0, right)
           x == SetActiveStatusDisplay(w, "Main")
<1>1. y = SetStatusDisplay(x, "None", shift)
  BY DEF SoftReset
<1>2. bottom \in Int /\ right \in Int /\ off \in BOOLEAN
  <2>1. t.size.lines \in Int /\ t.size.columns \in Int
    BY PageColumns DEF SizeType, Count
  <2> QED BY <2>1
<1> HIDE DEF off, bottom, right
<1>3. Keeps(t, a) /\ a.current = t.current
  BY HomeCursorType, SavedCursorKeeps
<1> HIDE DEF a
<1>4. TermOK(a) /\ Safe(t, a) /\ Agrees(t, a)
  BY <1>3, KeepsInStep DEF Keeps
<1>5. Safe(a, u) /\ Agrees(a, u)
  BY <1>2, <1>4, SetDECModeInStep
<1> HIDE DEF u
<1>6. TermOK(u)
  BY <1>5 DEF Safe
<1>7. Safe(u, k) /\ Agrees(u, k)
  BY <1>2, <1>6, SetAnsiModeAgrees
<1> HIDE DEF k
<1>8. TermOK(k)
  BY <1>7 DEF Safe
<1>9. Safe(k, v) /\ Agrees(k, v)
  BY <1>2, <1>8, SetDECModeInStep
<1> HIDE DEF v
<1>10. TermOK(v)
  BY <1>9 DEF Safe
<1>11. Keeps(v, s) /\ s.current = v.current
  BY <1>2, <1>10, SetTopBottomMarginKeeps
<1> HIDE DEF s
<1>12. TermOK(s) /\ Safe(v, s) /\ Agrees(v, s)
  BY <1>11, KeepsInStep DEF Keeps
<1>13. Keeps(s, w) /\ w.current = s.current
  BY <1>2, <1>12, SetLeftRightMarginKeeps
<1> HIDE DEF w
<1>14. TermOK(w) /\ Safe(s, w) /\ Agrees(s, w)
  BY <1>13, KeepsInStep DEF Keeps
<1>15. Keeps(w, x)
  BY <1>14, SetActiveStatusDisplayKeeps
<1> HIDE DEF x
<1>16. TermOK(x) /\ "None" \in DisplayType
  BY <1>15 DEF Keeps, DisplayType
<1>17. Keeps(x, y)
  BY <1>1, <1>16, SetStatusDisplayKeeps
<1>18. Keeps(w, y)
  BY <1>15, <1>17, KeepsTwice
<1>19. Safe(w, y) /\ InStep(w, y)
  BY <1>18, KeepsInStep
<1>20. Agrees(t, w)
  BY <1>4, <1>5, <1>7, <1>9, <1>12, <1>14, AgreesTwice
<1>21. Safe(t, y)
  BY <1>4, <1>5, <1>7, <1>9, <1>12, <1>14, <1>19, SafeTwice
<1> QED BY <1>19, <1>20, <1>21 DEF Agrees, InStep

\* Every screen with its cursor at home.
LEMMA ResetTerminal ==
    ASSUME NEW u, TermOK(u), NEW v,
           v = [u EXCEPT !.modes = {"AutoWrap"}, !.savedModes = [m \in SavableMode |-> <<>>],
                         !.screens = [s \in DOMAIN @ |-> [@[s] EXCEPT !.cursor = HomeCursor]],
                         !.tabs = <<>>,
                         !.margins.status = FullMargin(u.screens.status.page)]
    PROVE  /\ TermOK(v) /\ Shown(v) /\ TabsFit(v) /\ MainPage(v) = MainPage(u)
           /\ v.modes = {"AutoWrap"}
           /\ \A s \in Names : v.screens[s].cursor = HomeCursor
<1>1. /\ u \in TermType /\ u.screens \in [Names -> ScreenType] /\ "status" \in Names
      /\ u.margins \in [{"main", "status"} -> MarginType] /\ u.type \in Names
  BY DEF TermOK, TermType, Names
<1> DEFINE page == u.screens["status"].page
           m == FullMargin(page)
           sm == [k \in SavableMode |-> <<>>]
           ss == [s \in Names |-> [u.screens[s] EXCEPT !.cursor = HomeCursor]]
           mm == [u.margins EXCEPT !["status"] = m]
<1>2. page \in PageType
  BY <1>1 DEF ScreenType
<1>3. m \in MarginType /\ m.left = 0 /\ m.right = page.columns - 1
  BY <1>2, FullMarginFits
<1>4. v = [u EXCEPT !.modes = {"AutoWrap"}, !.savedModes = sm, !.screens = ss, !.tabs = <<>>,
                    !.margins = mm]
  BY <1>1
<1>5. sm \in [SavableMode -> Seq(BOOLEAN)] /\ {"AutoWrap"} \in SUBSET Mode /\ <<>> \in Seq(Nat)
  BY DEF Mode
<1>6. /\ ss \in [Names -> ScreenType]
      /\ \A s \in Names : ss[s].cursor = HomeCursor /\ ss[s].page = u.screens[s].page
  <2>1. \A s \in Names : u.screens[s] \in ScreenType
    BY <1>1
  <2>2. \A s \in Names : /\ [u.screens[s] EXCEPT !.cursor = HomeCursor] \in ScreenType
                         /\ [u.screens[s] EXCEPT !.cursor = HomeCursor].cursor = HomeCursor
                         /\ [u.screens[s] EXCEPT !.cursor = HomeCursor].page = u.screens[s].page
    BY <2>1, HomeCursorType DEF ScreenType
  <2> QED BY <2>2
<1> HIDE DEF m
<1>7. mm \in [{"main", "status"} -> MarginType] /\ mm["status"] = m /\ mm["main"] = u.margins["main"]
  BY <1>1, <1>3
<1> HIDE DEF sm, ss, mm
<1>8. /\ v \in TermType /\ v.size = u.size /\ v.current = u.current /\ v.type = u.type
      /\ v.display = u.display /\ v.pty = u.pty /\ v.screens = ss
      /\ v.margins = mm /\ v.tabs = <<>> /\ v.modes = {"AutoWrap"}
  BY ZenonT(60), <1>1, <1>4, <1>5, <1>6, <1>7 DEF TermType
<1>9. MainPage(v) = MainPage(u)
  BY <1>8 DEF MainPage, StatusLineHeight
<1>10. InOrder(<<>>) /\ Below(<<>>, v.size.columns)
  BY DEF InOrder, Below
<1>11. page.columns = u.size.columns
  BY DEF TermOK
<1>12. TermOK(v)
  BY <1>1, <1>3, <1>6, <1>7, <1>8, <1>9, <1>10, <1>11 DEF TermOK
<1>13. Shown(v)
  <2> DEFINE p == v.screens[v.type].page
  <2>1. p \in PageType /\ v.screens[v.type].cursor = HomeCursor
    BY <1>1, <1>6, <1>8 DEF ScreenType
  <2>2. p.lines \in Count /\ p.columns \in Count
    BY <2>1 DEF PageType
  <2> DEFINE h == p.lines
             w == p.columns
  <2>3. 0 \in 0..(h - 1) /\ 0 \in 0..(w - 1)
    <3>1. h \in Nat /\ h >= 1 /\ w \in Nat /\ w >= 1
      BY <2>2 DEF Count
    <3> HIDE DEF h, w
    <3> QED BY <3>1
  <2> QED BY <2>1, <2>3, HomeCursorType DEF Shown, OnPage
<1>14. TabsFit(v)
  BY <1>8, <1>10 DEF TabsFit
<1> QED BY <1>6, <1>8, <1>9, <1>12, <1>13, <1>14

\* RIS
LEMMA HardResetInStep ==
    ASSUME NEW t, TermOK(t), NEW shift \in Int, NEW y, y = HardReset(t, shift)
    PROVE  Safe(t, y) /\ InStep(t, y)
<1> DEFINE a == SetScreen(t, "primary", shift)
           u == ApplyPageSizeToMainDisplay(a, "alternate", shift)
           v == [u EXCEPT !.modes = {"AutoWrap"}, !.savedModes = [m \in SavableMode |-> <<>>],
                          !.screens = [s \in DOMAIN @ |-> [@[s] EXCEPT !.cursor = HomeCursor]],
                          !.tabs = <<>>,
                          !.margins.status = FullMargin(u.screens.status.page)]
           b == SetActiveStatusDisplay(v, "Main")
           m == FullMargin(MainPage(u))
           w == [b EXCEPT !.margins.main = m]
<1>1. y = SetStatusDisplay(w, "None", shift)
  BY DEF HardReset
<1>2. Keeps(t, a) /\ a.type = "primary"
  BY SetScreenKeeps
<1> HIDE DEF a
<1>3. TermOK(a)
  BY <1>2 DEF Keeps
<1>4. Shaped(a)
  BY <1>3 DEF Shaped, TermOK
<1>5. /\ u \in TermType
      /\ u.size = a.size /\ u.current = a.current /\ u.type = a.type
      /\ u.display = a.display /\ u.pty = a.pty
      /\ u.margins["main"] = FullMargin(MainPage(a))
      /\ u.margins["status"].left = 0 /\ u.margins["status"].right = a.size.columns - 1
      /\ InOrder(u.tabs)
      /\ u.screens["status"].page.columns = a.size.columns
      /\ \A z \in Names : z \notin {"alternate", "status"} => u.screens[z] = a.screens[z]
  BY <1>4, ApplyPageSizeSizes
<1> HIDE DEF u
<1>6. MainPage(u) = MainPage(a)
  BY <1>5 DEF MainPage, StatusLineHeight
<1>7. u.screens[u.type] = a.screens[a.type] /\ a.screens[a.type].page = MainPage(a) /\ a.pty = MainPage(a)
  <2>1. a.type \in Names /\ a.type \notin {"alternate", "status"}
    BY <1>2 DEF Names
  <2> QED BY <1>3, <1>5, <2>1 DEF TermOK
<1>8. u.current \in {u.type, "status"}
  BY <1>3, <1>5 DEF TermOK
<1>9. TermOK(u)
  BY <1>5, <1>6, <1>7, <1>8, SizedOK
<1>10. /\ TermOK(v) /\ Shown(v) /\ TabsFit(v) /\ MainPage(v) = MainPage(u)
       /\ v.modes = {"AutoWrap"}
       /\ \A s \in Names : v.screens[s].cursor = HomeCursor
  BY <1>9, ResetTerminal
<1> HIDE DEF v
<1>11. Keeps(v, b) /\ MainPage(b) = MainPage(v)
  BY <1>10, SetActiveStatusDisplayKeeps
<1> HIDE DEF b
<1>12. TermOK(b)
  BY <1>11 DEF Keeps
<1>13. m \in MarginType /\ Fits(m, MainPage(b))
  <2>1. MainPage(u) \in PageType
    BY <1>5, MainPageType
  <2> QED BY <1>10, <1>11, <2>1, FullMarginFits
<1> HIDE DEF m
<1>14. Keeps(b, w)
  BY <1>12, <1>13, MarginKeeps
<1> HIDE DEF w
<1>15. TermOK(w) /\ "None" \in DisplayType
  BY <1>14 DEF Keeps, DisplayType
<1>16. Keeps(w, y)
  BY <1>1, <1>15, SetStatusDisplayKeeps
<1>17. Keeps(v, y)
  BY <1>11, <1>14, <1>16, KeepsTwice
<1>18. Safe(t, y)
  BY <1>10, <1>17 DEF Keeps, Safe
<1>19. y.modes = {"AutoWrap"} /\ y.current \in Names
  BY <1>10, <1>17 DEF Keeps, SameModes, TermOK, TermType
<1>20. CursorOf(y).autoWrap /\ ~CursorOf(y).origin
  BY <1>10, <1>17, <1>19, HomeCursorType DEF Keeps, SameModes, CursorOf
<1>21. ModeFlagsAgree(y)
  BY <1>19, <1>20 DEF ModeFlagsAgree
<1> QED BY <1>18, <1>19, <1>21 DEF InStep

-----------------------------------------------------------------------------
(* Steps.                                                                  *)

\* What every sequence, resize and screen switch keeps.
StepOK(t, u) ==
    /\ TermOK(u) /\ InStep(t, u)
    /\ Shown(t) /\ ~LeavesPage(t) /\ u # SetCurrentColumn(t, -1) => Shown(u)
    /\ TabsFit(t) /\ On(CursorOf(t), PageOf(t)) => TabsFit(u)

\* A safe step in which the modes stay in step.
LEMMA SafeStep ==
    ASSUME NEW t, NEW u, Safe(t, u), InStep(t, u)
    PROVE  StepOK(t, u)
  BY DEF Safe, StepOK

\* A step that keeps what verifyState() requires.
LEMMA KeepsStep ==
    ASSUME NEW t, NEW u, Keeps(t, u)
    PROVE  StepOK(t, u)
  BY KeepsInStep, SafeStep

\* A step that only moves the cursor.
LEMMA MovesStep ==
    ASSUME NEW t, TermOK(t), NEW u, Moves(t, u),
           (t.current = t.type /\ On(CursorOf(t), PageOf(t)) /\ ~LeavesPage(t)
                /\ u # SetCurrentColumn(t, -1))
                => On(CursorOf(u), PageOf(t))
    PROVE  StepOK(t, u)
<1>1. /\ TermOK(u) /\ SameModes(t, u) /\ u.current = t.current
      /\ TabsFit(t) => TabsFit(u)
      /\ /\ Shown(t)
         /\ t.current = t.type /\ On(CursorOf(t), PageOf(t)) => On(CursorOf(u), PageOf(t))
         => Shown(u)
  BY MovesSame
<1>2. InStep(t, u)
  <2>1. u.current \in Names
    BY <1>1 DEF TermOK, TermType
  <2>2. ModeFlagsAgree(t) => ModeFlagsAgree(u)
    BY <1>1, <2>1 DEF SameModes, ModeFlagsAgree, CursorOf
  <2> QED BY <1>1, <2>2 DEF InStep, SameModes, SequenceAgrees
<1>3. Shown(t) /\ ~LeavesPage(t) /\ u # SetCurrentColumn(t, -1) => Shown(u)
  BY <1>1
<1> QED BY <1>1, <1>2, <1>3 DEF StepOK

\* A step that moves the cursor within the page.
LEMMA StaysStep ==
    ASSUME NEW t, TermOK(t), NEW u, Stays(t, u)
    PROVE  StepOK(t, u)
  BY StaysKeeps, KeepsStep

\* Text, line feeds and repetitions.
LEMMA WriteTextStep ==
    ASSUME NEW t, TermOK(t), NEW width \in Nat
    PROVE  StepOK(t, WriteText(t, width))
<1> DEFINE u == WriteText(t, width)
<1>1. /\ Moves(t, u)
      /\ /\ t.current = t.type /\ On(CursorOf(t), PageOf(t))
         /\ CursorOf(t).line # PageOf(t).lines - 1 \/ CursorOf(t).line = MarginOf(t).bottom
         => On(CursorOf(u), PageOf(t))
  BY WriteTextMoves
<1> HIDE DEF u
<1>2. t.current = t.type /\ ~LeavesPage(t)
        => CursorOf(t).line # PageOf(t).lines - 1 \/ CursorOf(t).line = MarginOf(t).bottom
  BY DEF LeavesPage
<1>3. StepOK(t, u)
  BY <1>1, <1>2, MovesStep
<1> QED BY <1>3 DEF u

\* LF, VT and FF.
LEMMA LinefeedStep ==
    ASSUME NEW t, TermOK(t), NEW fastPipe
    PROVE  StepOK(t, Linefeed(t, fastPipe))
<1> DEFINE u == Linefeed(t, fastPipe)
           left == MarginOf(t).left
           k == CursorOf(t).col
           col == IF fastPipe \/ "AutomaticNewLine" \in t.modes THEN left ELSE k
<1>1. u = LinefeedTo(t, col)
  BY DEF Linefeed
<1>2. left \in Int /\ 0 <= left /\ k \in Int /\ left \in 0..PageOf(t).columns - 1
  BY PositionFacts
<1>3. On(CursorOf(t), PageOf(t)) => k \in 0..PageOf(t).columns - 1
  BY DEF On
<1> HIDE DEF left, k, u
<1>4. col \in Int /\ (On(CursorOf(t), PageOf(t)) => col \in 0..PageOf(t).columns - 1)
  BY <1>2, <1>3
<1> HIDE DEF col
<1>5. Moves(t, u)
  BY <1>1, <1>4, LinefeedToMoves
<1>6. ASSUME t.current = t.type, On(CursorOf(t), PageOf(t)), ~LeavesPage(t)
      PROVE  On(CursorOf(u), PageOf(t))
  <2>1. CursorOf(t).line = PageOf(t).lines - 1 => CursorOf(t).line = MarginOf(t).bottom
    BY <1>6 DEF LeavesPage
  <2> QED BY <1>1, <1>4, <1>6, <2>1, LinefeedOnPage
<1>7. StepOK(t, u)
  BY <1>5, <1>6, MovesStep
<1> QED BY <1>7 DEF u

\* REP writes no further than the right margin.
LEMMA RepeatStep ==
    ASSUME NEW t, TermOK(t), NEW n \in Nat, NEW room, room = MarginOf(t).right - CursorOf(t).col,
           NEW count, count = IF room < 0 THEN n ELSE Min({n, room})
    PROVE  StepOK(t, WriteTimes(t, count))
<1> DEFINE u == WriteTimes(t, count)
           r == MarginOf(t).right
           k == CursorOf(t).col
<1>1. r \in Int /\ k \in Int /\ room = r - k
  BY PositionFacts
<1> HIDE DEF r, k
<1>2. room \in Int
  BY <1>1
<1>3. count \in Nat /\ (~(room < 0) => count <= room)
  <2>1. Min({n, room}) = IF n <= room THEN n ELSE room
    BY <1>2, MinMaxOfTwo
  <2> QED BY <1>2, <2>1
<1>4. ContainsColumn(MarginOf(t), CursorOf(t).col) => count <= MarginOf(t).right - CursorOf(t).col
  <2>1. ContainsColumn(MarginOf(t), CursorOf(t).col) => k <= r
    BY DEF ContainsColumn, k, r
  <2>2. k <= r => count <= r - k
    BY <1>1, <1>2, <1>3
  <2> QED BY <2>1, <2>2 DEF k, r
<1>5. Moves(t, u)
  BY <1>3, WriteTimesMoves
<1>6. ASSUME t.current = t.type, On(CursorOf(t), PageOf(t)), ~LeavesPage(t)
      PROVE  On(CursorOf(u), PageOf(t))
  BY <1>3, <1>4, <1>6, WriteTimesOnPage
<1> HIDE DEF u
<1>7. StepOK(t, u)
  BY <1>5, <1>6, MovesStep
<1> QED BY <1>7 DEF u

\* index() and reverseIndex()
LEMMA IndexStep ==
    ASSUME NEW t, TermOK(t), NEW u, NEW n \in Int, u = t \/ u = MoveLines(t, n)
    PROVE  StepOK(t, u)
<1>1. CASE u = t
  BY <1>1, KeepsNot, KeepsStep
<1>2. CASE u = MoveLines(t, n)
  BY <1>2, MoveLinesMoves, MovesStep
<1> QED BY <1>1, <1>2

\* CUP and HVP with any coordinates.
LEMMA MoveCursorToStep ==
    ASSUME NEW t, TermOK(t), NEW line \in Int, NEW col \in Int
    PROVE  StepOK(t, MoveCursorTo(t, line, col))
  BY MoveCursorToMoves, StaysStep DEF Stays

\* A change of the margins and the cursor to their origin.
LEMMA MarginStep ==
    ASSUME NEW t, TermOK(t), NEW v, Keeps(t, v)
    PROVE  StepOK(t, MoveCursorTo(v, 0, 0))
<1> DEFINE u == MoveCursorTo(v, 0, 0)
<1>1. TermOK(v)
  BY DEF Keeps
<1>2. Stays(v, u)
  BY <1>1, MoveCursorToMoves DEF Stays
<1> HIDE DEF u
<1>3. Keeps(t, u)
  BY <1>1, <1>2, StaysKeeps, KeepsTwice
<1>4. StepOK(t, u)
  BY <1>3, KeepsStep
<1> QED BY <1>4 DEF u

\* The window is resized to any size, with any reflow.
LEMMA ResizeStep ==
    ASSUME NEW t, TermOK(t), NEW size \in SizeType, NEW shift \in Int
    PROVE  StepOK(t, ResizeScreen(t, size, shift))
<1> DEFINE u == ResizeScreen(t, size, shift)
<1>1. t \in TermType /\ t.current \in {t.type, "status"} /\ InOrder(t.tabs)
  BY DEF TermOK
<1>2. TermOK(u) /\ SameModes(t, u) /\ Shown(u) /\ TabsFit(u)
  BY <1>1, ResizeScreenSizes
<1> HIDE DEF u
<1>3. StepOK(t, u)
  BY <1>2, KeepsStep DEF Keeps
<1> QED BY <1>3 DEF u

-----------------------------------------------------------------------------
\* Sequences that move the cursor.
LEMMA CursorStep ==
    ASSUME TermOK(term), NEW n \in Nat,
           \/ CBT(n) \/ CHT(n) \/ CHA(n) \/ CNL(n) \/ CPL(n) \/ VPA(n)
           \/ CUB(n) \/ CUD(n) \/ CUF(n) \/ CUU(n) \/ (\E k \in Nat : CUP(n, k))
    PROVE  StepOK(term, term')
<1> DEFINE line == LogicalPosition(term)[1]
           col == CursorOf(term).col
<1>1. line \in Int /\ col \in Int /\ n \in Int /\ n - 1 \in Int /\ -n \in Int
  BY TabFacts, PositionFacts
<1>2. CASE CBT(n)
  BY <1>1, <1>2, CursorBackwardTabStays, StaysStep DEF CBT, Moved
<1>3. CASE CHT(n)
  BY <1>1, <1>3, CursorForwardTabStays, StaysStep DEF CHT, Moved
<1>4. CASE CHA(n)
  <2>1. term' = SetCurrentColumn(term, n - 1)
    BY <1>4 DEF CHA, Moved
  <2>2. Moves(term, term') /\ (n > 0 /\ On(CursorOf(term), PageOf(term)) => On(CursorOf(term'), PageOf(term)))
    BY <1>1, <2>1, SetCurrentColumnMoves
  <2>3. n = 0 => term' = SetCurrentColumn(term, -1)
    BY <2>1
  <2>4. n > 0 \/ n = 0
    OBVIOUS
  <2> QED BY <2>2, <2>3, <2>4, MovesStep
<1>5. CASE CNL(n)
  <2>1. term' = MoveCursorTo(term, line + n, 0)
    BY <1>5 DEF CNL, Moved, MoveCursorToNextLine
  <2> HIDE DEF line
  <2>2. line + n \in Int
    BY <1>1
  <2> QED BY <2>1, <2>2, MoveCursorToStep
<1>6. CASE CPL(n)
  <2> DEFINE y == line - Min({n, line})
  <2>1. term' = MoveCursorTo(term, y, 0)
    BY <1>6 DEF CPL, Moved, MoveCursorToPrevLine
  <2> HIDE DEF line
  <2>2. y \in Int
    <3>1. Min({n, line}) = IF n <= line THEN n ELSE line
      BY <1>1, MinMaxOfTwo
    <3> QED BY <1>1, <3>1
  <2> HIDE DEF y
  <2> QED BY <2>1, <2>2, MoveCursorToStep
<1>7. CASE VPA(n)
  <2>1. term' = MoveCursorTo(term, n - 1, col)
    BY <1>7 DEF VPA, Moved
  <2> HIDE DEF col
  <2> QED BY <1>1, <2>1, MoveCursorToStep
<1>8. CASE CUB(n)
  BY <1>1, <1>8, MoveCursorForwardMoves, StaysStep DEF CUB, Moved, Stays
<1>9. CASE CUF(n)
  BY <1>1, <1>9, MoveCursorForwardMoves, StaysStep DEF CUF, Moved, Stays
<1>10. CASE CUD(n)
  BY <1>1, <1>10, IndexStep DEF CUD, Moved
<1>11. CASE CUU(n)
  BY <1>1, <1>11, IndexStep DEF CUU, Moved
<1>12. CASE \E k \in Nat : CUP(n, k)
  <2>1. PICK k \in Nat : CUP(n, k)
    BY <1>12
  <2>2. n - 1 \in Int /\ k - 1 \in Int
    BY <1>1
  <2> QED BY <2>1, <2>2, MoveCursorToStep DEF CUP, Moved
<1> QED BY <1>2, <1>3, <1>4, <1>5, <1>6, <1>7, <1>8, <1>9, <1>10, <1>11, <1>12

\* Text and control characters.
LEMMA TextStep ==
    ASSUME TermOK(term),
           \/ \E width \in 0..2 : Graphic(width)
           \/ \E n \in Nat : GraphicBulk(n) \/ REP(n)
           \/ LF \/ BS \/ TAB \/ CR \/ IND \/ RI \/ DECBI \/ DECFI
    PROVE  StepOK(term, term')
<1>1. CASE \E width \in 0..2 : Graphic(width)
  BY <1>1, WriteTextStep DEF Graphic, Moved
<1>2. CASE \E n \in Nat : GraphicBulk(n)
  <2>1. PICK n \in Nat : n \in 1..MaxBulkTextSequenceWidth(term) /\ term' = WriteBulk(term, n)
    BY <1>2 DEF GraphicBulk, Moved
  <2> DEFINE u == WriteBulk(term, n)
  <2>2. /\ Moves(term, u)
        /\ term.current = term.type /\ On(CursorOf(term), PageOf(term)) /\ ~LeavesPage(term)
             => On(CursorOf(u), PageOf(term))
    BY <2>1, WriteBulkMoves
  <2> HIDE DEF u
  <2>3. StepOK(term, u)
    BY <2>2, MovesStep
  <2> QED BY <2>1, <2>3 DEF u
<1>3. CASE \E n \in Nat : REP(n)
  <2>1. PICK n \in Nat : REP(n)
    BY <1>3
  <2> DEFINE room == MarginOf(term).right - CursorOf(term).col
             count == IF room < 0 THEN n ELSE Min({n, room})
  <2>2. term' = WriteTimes(term, count)
    BY <2>1 DEF REP, Moved
  <2>3. StepOK(term, WriteTimes(term, count))
    BY RepeatStep
  <2> HIDE DEF count
  <2> QED BY <2>2, <2>3
<1>4. CASE LF
  BY <1>4, LinefeedStep DEF LF, Moved
<1>5. CASE BS
  BY <1>5, BackspaceMoves, StaysStep DEF BS, Moved, Stays
<1>6. CASE TAB
  BY <1>6, MoveCursorToNextTabStays, StaysStep DEF TAB, Moved
<1>7. CASE CR
  BY <1>7, SetCurrentColumnMoves, StaysStep DEF CR, Moved, Stays
<1>8. CASE IND
  <2>1. term' = term \/ term' = MoveLines(term, 1)
    BY <1>8 DEF IND, Moved, Index
  <2> QED BY <2>1, IndexStep
<1>9. CASE RI
  <2>1. term' = term \/ term' = MoveLines(term, -1)
    BY <1>9 DEF RI, Moved, ReverseIndex
  <2> QED BY <2>1, IndexStep
<1>10. CASE DECBI \/ DECFI
  <2>1. term' = term \/ term' = MoveCursorForward(term, 1)
    BY <1>10 DEF DECBI, DECFI, Moved, BackIndex, ForwardIndex
  <2>2. CASE term' = term
    BY <2>2, KeepsNot, KeepsStep
  <2>3. CASE term' = MoveCursorForward(term, 1)
    BY <2>3, MoveCursorForwardMoves, StaysStep DEF Stays
  <2> QED BY <2>1, <2>2, <2>3
<1> QED BY <1>1, <1>2, <1>3, <1>4, <1>5, <1>6, <1>7, <1>8, <1>9, <1>10

\* Sequences that change more than the cursor.
LEMMA ChangeStep ==
    ASSUME TermOK(term),
           \/ HTS \/ DECSC \/ DECRC \/ DECALN \/ DECSTR \/ RIS
           \/ \E ps \in {0, 3} : TBC(ps)
           \/ \E m \in SavableMode : XTSAVE(m) \/ XTRESTORE(m)
           \/ \E display \in {"None", "Indicator", "HostWritable"} : DECSSDT(display)
           \/ \E active \in {"Main", "StatusLine"} : DECSASD(active)
    PROVE  StepOK(term, term')
<1>1. Shift \subseteq Int
  BY DEF Shift
<1>2. CASE HTS
  <2>1. term' = SetTabUnderCursor(term) /\ CursorOf(term).col >= 0
    BY <1>2 DEF HTS, Changed
  <2>2. /\ TermOK(term') /\ SameModes(term, term') /\ term'.current = term.current
        /\ Shown(term) => Shown(term')
        /\ TabsFit(term) /\ On(CursorOf(term), PageOf(term)) => TabsFit(term')
    BY <2>1, SetTabUnderCursorSame
  <2>3. InStep(term, term')
    <3>1. term'.current \in Names
      BY <2>2 DEF TermOK, TermType
    <3>2. ModeFlagsAgree(term) => ModeFlagsAgree(term)'
      BY <2>2, <3>1 DEF SameModes, ModeFlagsAgree, CursorOf
    <3> QED BY <2>2, <3>2 DEF InStep, SameModes, SequenceAgrees
  <2> QED BY <2>2, <2>3 DEF StepOK
<1>3. CASE DECSC
  <2> DEFINE c == CursorOf(term)
  <2>1. term' = [term EXCEPT !.screens[term.current].saved = c] /\ c \in CursorType
    BY <1>3, TermFacts DEF DECSC, Changed, SaveCursor
  <2> HIDE DEF c
  <2> QED BY <2>1, SavedCursorKeeps, KeepsStep
<1>4. CASE DECRC
  BY <1>4, RestoreCursorAgrees, AgreesInStep, SafeStep DEF DECRC, Changed
<1>5. CASE DECALN
  BY <1>5, ScreenAlignmentKeeps, KeepsStep DEF DECALN, Changed
<1>6. CASE DECSTR
  BY <1>1, <1>6, SoftResetInStep, SafeStep DEF DECSTR, Changed
<1>7. CASE RIS
  BY <1>1, <1>7, HardResetInStep, SafeStep DEF RIS, Changed
<1>8. CASE \E ps \in {0, 3} : TBC(ps)
  BY <1>8, HorizontalTabClearKeeps, KeepsStep DEF TBC, Changed
<1>9. CASE \E m \in SavableMode : XTSAVE(m) \/ XTRESTORE(m)
  BY <1>9, SaveModeInStep, RestoreModeInStep, SafeStep DEF XTSAVE, XTRESTORE, Changed
<1>10. CASE \E display \in {"None", "Indicator", "HostWritable"} : DECSSDT(display)
  BY <1>1, <1>10, SetStatusDisplayKeeps, KeepsStep DEF DECSSDT, Changed, DisplayType
<1>11. CASE \E active \in {"Main", "StatusLine"} : DECSASD(active)
  BY <1>11, SetActiveStatusDisplayKeeps, KeepsStep DEF DECSASD, Changed
<1> QED BY <1>2, <1>3, <1>4, <1>5, <1>6, <1>7, <1>8, <1>9, <1>10, <1>11

\* Margins, modes and sizes.
LEMMA SettingStep ==
    ASSUME TermOK(term),
           \/ \E n, k \in Nat : DECSTBM(n, k) \/ DECSLRM(n, k)
           \/ \E n \in Nat : DECSNLS(n)
           \/ \E enable \in BOOLEAN :
                \/ \E m \in {"AutoWrap", "Origin", "LeftRightMargin", "UseAlternateScreen"} : DECSM(m, enable)
                \/ \E m \in {"AutomaticNewLine", "KeyboardAction"} : SM(m, enable)
           \/ \E size \in Sizes : Resize(size)
    PROVE  StepOK(term, term')
<1>1. Shift \subseteq Int
  BY DEF Shift
<1>2. CASE \E n, k \in Nat : DECSTBM(n, k)
  <2>1. PICK n \in Nat, k \in Nat : DECSTBM(n, k)
    BY <1>2
  <2> DEFINE top == n - 1
             bottom == k - 1
             v == SetTopBottomMargin(term, top, bottom)
  <2>2. term' = MoveCursorTo(v, 0, 0) /\ top \in Int /\ bottom \in Int
    BY <2>1 DEF DECSTBM, Changed
  <2> HIDE DEF top, bottom
  <2>3. Keeps(term, v)
    BY <2>2, SetTopBottomMarginKeeps
  <2> HIDE DEF v
  <2> QED BY <2>2, <2>3, MarginStep
<1>3. CASE \E n, k \in Nat : DECSLRM(n, k)
  <2>1. PICK n \in Nat, k \in Nat : DECSLRM(n, k)
    BY <1>3
  <2> DEFINE left == n - 1
             right == k - 1
             v == SetLeftRightMargin(term, left, right)
  <2>2. term' = MoveCursorTo(v, 0, 0) /\ left \in Int /\ right \in Int
    BY <2>1 DEF DECSLRM, Changed
  <2> HIDE DEF left, right
  <2>3. Keeps(term, v)
    BY <2>2, SetLeftRightMarginKeeps
  <2> HIDE DEF v
  <2> QED BY <2>2, <2>3, MarginStep
<1>4. CASE \E n \in Nat : DECSNLS(n)
  <2>1. PICK n \in Nat, shift \in Shift :
            /\ PageOf(term).lines > 1 /\ n > 0
            /\ term' = ResizeScreen(term, [lines |-> PageOf(term).lines, columns |-> n], shift)
    BY <1>4 DEF DECSNLS, Changed
  <2> DEFINE h == PageOf(term).lines
             size == [lines |-> h, columns |-> n]
  <2>2. h \in Count /\ h > 1 /\ term' = ResizeScreen(term, size, shift)
    BY <2>1, PositionFacts
  <2> HIDE DEF h
  <2>3. h \in Nat \ {0, 1} /\ n \in Count
    BY <2>1, <2>2 DEF Count
  <2>4. size \in SizeType
    BY <2>3 DEF SizeType
  <2> HIDE DEF size
  <2> QED BY <1>1, <2>2, <2>4, ResizeStep
<1>5. CASE \E enable \in BOOLEAN :
             \E m \in {"AutoWrap", "Origin", "LeftRightMargin", "UseAlternateScreen"} : DECSM(m, enable)
  <2>1. PICK enable \in BOOLEAN, m \in {"AutoWrap", "Origin", "LeftRightMargin", "UseAlternateScreen"},
             shift \in Shift : term' = SetDECMode(term, m, enable, shift)
    BY <1>5 DEF DECSM, Changed
  <2> QED BY <1>1, <2>1, SetDECModeInStep, SafeStep
<1>6. CASE \E enable \in BOOLEAN : \E m \in {"AutomaticNewLine", "KeyboardAction"} : SM(m, enable)
  <2>1. PICK enable \in BOOLEAN, m \in {"AutomaticNewLine", "KeyboardAction"}, shift \in Shift :
            term' = SetAnsiMode(term, m, enable, shift)
    BY <1>6 DEF SM, Changed
  <2> QED BY <1>1, <2>1, SetAnsiModeAgrees, AgreesInStep, SafeStep
<1>7. CASE \E size \in Sizes : Resize(size)
  <2>1. PICK size \in Sizes, shift \in Shift : term' = ResizeScreen(term, size, shift)
    BY <1>7 DEF Resize, Changed
  <2>2. size \in SizeType
    BY <2>1, ScreenAssumption DEF Sizes, SizeType, Count
  <2> QED BY <1>1, <2>1, <2>2, ResizeStep
<1> QED BY <1>2, <1>3, <1>4, <1>5, <1>6, <1>7

\* Every step of the specification, for any parameters.
LEMMA NextStep ==
    ASSUME TermOK(term), Next
    PROVE  StepOK(term, term')
<1>1. \A n \in Param : n \in Nat
  BY ScreenAssumption DEF Param
<1> DEFINE cursor == \E n \in Nat :
               \/ CBT(n) \/ CHT(n) \/ CHA(n) \/ CNL(n) \/ CPL(n) \/ VPA(n)
               \/ CUB(n) \/ CUD(n) \/ CUF(n) \/ CUU(n) \/ (\E k \in Nat : CUP(n, k))
           text ==
               \/ \E width \in 0..2 : Graphic(width)
               \/ \E n \in Nat : GraphicBulk(n) \/ REP(n)
               \/ LF \/ BS \/ TAB \/ CR \/ IND \/ RI \/ DECBI \/ DECFI
           change ==
               \/ HTS \/ DECSC \/ DECRC \/ DECALN \/ DECSTR \/ RIS
               \/ \E ps \in {0, 3} : TBC(ps)
               \/ \E m \in SavableMode : XTSAVE(m) \/ XTRESTORE(m)
               \/ \E display \in {"None", "Indicator", "HostWritable"} : DECSSDT(display)
               \/ \E active \in {"Main", "StatusLine"} : DECSASD(active)
           setting ==
               \/ \E n, k \in Nat : DECSTBM(n, k) \/ DECSLRM(n, k)
               \/ \E n \in Nat : DECSNLS(n)
               \/ \E enable \in BOOLEAN :
                    \/ \E m \in {"AutoWrap", "Origin", "LeftRightMargin", "UseAlternateScreen"} : DECSM(m, enable)
                    \/ \E m \in {"AutomaticNewLine", "KeyboardAction"} : SM(m, enable)
               \/ \E size \in Sizes : Resize(size)
<1>2. cursor \/ text \/ change \/ setting
  BY <1>1, Zenon DEF Next
<1>3. CASE cursor
  BY <1>3, CursorStep
<1>4. CASE text
  BY <1>4, TextStep
<1>5. CASE change
  BY <1>5, ChangeStep
<1>6. CASE setting
  BY <1>6, SettingStep
<1> QED BY <1>2, <1>3, <1>4, <1>5, <1>6

-----------------------------------------------------------------------------
(* The theorems.                                                           *)

\* The inductive invariant.
ScreenInv == TermOK(term) /\ changes \in 0..MaxChanges

\* The terminal after its start.
LEMMA InitOK ==
    ASSUME Init
    PROVE  ScreenInv
<1>1. PICK page \in Sizes :
          LET status == [lines |-> 1, columns |-> page.columns]
              blank(p) == [page |-> p, cursor |-> HomeCursor, saved |-> HomeCursor]
          IN  term = [size    |-> page,
                      screens |-> [primary |-> blank(page), alternate |-> blank(page), status |-> blank(status)],
                      margins |-> [main |-> FullMargin(page), status |-> FullMargin(status)],
                      current |-> "primary", type |-> "primary", active |-> "Main",
                      display |-> "None", savedDisplay |-> "", modes |-> {"AutoWrap"},
                      savedModes |-> [m \in SavableMode |-> <<>>],
                      csiS |-> "SCOSC", tabs |-> <<>>, pty |-> page]
  BY DEF Init
<1> DEFINE status == [lines |-> 1, columns |-> page.columns]
           home == HomeCursor
           full == FullMargin(page)
           narrow == FullMargin(status)
           saved == [m \in SavableMode |-> <<>>]
           shown == [page |-> page, cursor |-> home, saved |-> home]
           line == [page |-> status, cursor |-> home, saved |-> home]
           screens == [primary |-> shown, alternate |-> shown, status |-> line]
           margins == [main |-> full, status |-> narrow]
<1>2. page \in SizeType /\ page \in PageType /\ status \in PageType
  <2>1. page \in [lines : LineCounts, columns : ColumnCounts]
    BY <1>1 DEF Sizes
  <2>2. LineCounts \subseteq Nat \ {0, 1} /\ ColumnCounts \subseteq Count
    BY ScreenAssumption DEF Count
  <2>3. page \in SizeType /\ page.columns \in Count
    BY <2>1, <2>2 DEF SizeType
  <2>4. page \in PageType
    BY <2>3 DEF SizeType, PageType, Count
  <2>5. status \in PageType
    BY <2>3 DEF PageType, Count
  <2> QED BY <2>3, <2>4, <2>5
<1>3. /\ full \in MarginType /\ Fits(full, page)
      /\ narrow \in MarginType /\ narrow.left = 0 /\ narrow.right = page.columns - 1
  BY <1>2, FullMarginFits
<1>4. home \in CursorType
  BY HomeCursorType
<1>5. saved \in [SavableMode -> Seq(BOOLEAN)]
  OBVIOUS
<1>6. status.columns = page.columns
  OBVIOUS
<1>7. term = [size |-> page, screens |-> screens, margins |-> margins,
              current |-> "primary", type |-> "primary", active |-> "Main",
              display |-> "None", savedDisplay |-> "", modes |-> {"AutoWrap"},
              savedModes |-> saved, csiS |-> "SCOSC", tabs |-> <<>>, pty |-> page]
  BY <1>1
<1> HIDE DEF status, home, full, narrow, saved
<1>8. shown \in ScreenType /\ line \in ScreenType
  BY <1>2, <1>4 DEF ScreenType
<1>9. /\ screens \in [Names -> ScreenType]
      /\ screens["primary"].page = page /\ screens["status"].page = status
  <2>1. shown.page = page /\ line.page = status
    OBVIOUS
  <2> HIDE DEF shown, line
  <2> QED BY <1>8, <2>1 DEF Names
<1>10. margins \in [{"main", "status"} -> MarginType] /\ margins["main"] = full /\ margins["status"] = narrow
  BY <1>3
<1> HIDE DEF screens, margins
<1>11. {"AutoWrap"} \in SUBSET Mode /\ <<>> \in Seq(Nat) /\ InOrder(<<>>)
  BY DEF Mode, InOrder
<1>12. term \in TermType
  BY <1>2, <1>5, <1>7, <1>9, <1>10, <1>11 DEF TermType, Names, DisplayType
<1>13. MainPage(term) = page
  <2>1. term.size = page /\ term.display = "None"
    BY <1>7
  <2> QED BY <1>2, <2>1 DEF MainPage, StatusLineHeight, SizeType
<1>14. /\ term.current = "primary" /\ term.type = "primary" /\ term.pty = page /\ term.size = page
       /\ term.screens = screens /\ term.margins = margins /\ term.tabs = <<>>
  BY <1>7
<1>15. TermOK(term)
  BY <1>3, <1>6, <1>9, <1>10, <1>11, <1>12, <1>13, <1>14 DEF TermOK
<1>16. changes \in 0..MaxChanges
  <2>1. changes = 0 /\ MaxChanges \in Nat
    BY ScreenAssumption DEF Init
  <2> QED BY <2>1
<1> QED BY <1>15, <1>16 DEF ScreenInv

\* The bound on the changes.
LEMMA ChangesBounded ==
    ASSUME changes \in 0..MaxChanges, Next
    PROVE  changes' \in 0..MaxChanges
<1>1. changes' = changes \/ (changes < MaxChanges /\ changes' = changes + 1)
  BY DEF Next, Moved, Changed, Graphic, GraphicBulk, LF, BS, TAB, CR, IND, RI, DECBI, DECFI,
         CBT, CHT, CHA, CNL, CPL, CUB, CUD, CUF, CUU, CUP, VPA, REP, HTS, TBC, DECSC, DECRC,
         DECALN, DECSTBM, DECSLRM, DECSM, SM, XTSAVE, XTRESTORE, DECSTR, RIS, DECSSDT,
         DECSASD, DECSNLS, Resize
<1> QED BY <1>1, ScreenAssumption

\* Every step of the specification keeps the invariant.
LEMMA InvStep ==
    ASSUME ScreenInv, [Next]_vars
    PROVE  ScreenInv'
<1>1. CASE Next
  <2>1. TermOK(term')
    BY <1>1, NextStep DEF ScreenInv, StepOK
  <2> QED BY <1>1, <2>1, ChangesBounded DEF ScreenInv
<1>2. CASE UNCHANGED vars
  BY <1>2 DEF vars, ScreenInv
<1> QED BY <1>1, <1>2

\* Whatever the application sends, the sizes of the window, of the screens, of the
\* margins and of the pseudo terminal hang together, on a page of any size.
THEOREM SizesHangTogether ==
    Spec => []ScreenInv
<1>1. Init => ScreenInv
  BY InitOK
<1>2. ScreenInv /\ [Next]_vars => ScreenInv'
  BY InvStep
<1> QED BY <1>1, <1>2, PTL DEF Spec

\* Types, for a terminal of any size.
THEOREM ScreenTypes ==
    Spec => []TypeOK
<1>1. ASSUME ScreenInv PROVE TypeOK
  <2>1. term \in TermType /\ changes \in 0..MaxChanges
    BY <1>1 DEF ScreenInv, TermOK
  <2>2. term.tabs \in Seq(Int)
    <3>1. term.tabs \in Seq(Nat)
      BY <2>1 DEF TermType
    <3> QED BY <3>1
  <2>3. term.screens \in [Names -> ScreenType]
    BY <2>1 DEF TermType
  <2>4. ASSUME NEW s \in DOMAIN term.screens
        PROVE  term.screens[s].cursor.line \in Int /\ term.screens[s].cursor.col \in Int
    BY <2>3 DEF ScreenType, CursorType
  <2>5. term.current \in Names /\ term.type \in {"primary", "alternate"} /\ term.modes \subseteq Mode
    BY <2>1 DEF TermType
  <2> QED BY <2>1, <2>2, <2>4, <2>5 DEF TypeOK, Names
<1> QED BY <1>1, SizesHangTogether, PTL

\* The application always knows the size of the page that it draws on: resizes,
\* status lines that come and go and screens that are resized only when switched to
\* never leave the pseudo terminal with another size (Terminal::resizeScreen(),
\* setStatusDisplay(), setScreen()).
THEOREM ScreenApplicationKnowsPage ==
    Spec => []ApplicationKnowsPage
<1>1. ScreenInv => ApplicationKnowsPage
  BY DEF ScreenInv, TermOK, ApplicationKnowsPage
<1> QED BY <1>1, SizesHangTogether, PTL

\* Tab stops in order, as verifyState() compares them.
LEMMA TabsOnPageFit ==
    ASSUME NEW t, TermOK(t)
    PROVE  TabsOnPage(t) <=> TabsFit(t)
<1>1. t.tabs \in Seq(Nat) /\ InOrder(t.tabs)
  BY DEF TermOK, TermType
<1>2. ASSUME NEW i \in 2..Len(t.tabs) PROVE t.tabs[i - 1] <= t.tabs[i]
  BY <1>1, <1>2 DEF InOrder
<1> QED BY <1>2 DEF TabsOnPage, TabsFit, Below

\* What Terminal::verifyState() and Screen::verifyState() require of cursor, tab stops
\* and margins is kept by every sequence, resize and screen switch, on pages of any
\* size and with any parameters; the exceptions are those that LeavesPage lists and
\* the step of a CHA 0 or HPA 0 itself.
THEOREM ScreenVerifyStateKept ==
    Spec => VerifyStateKept
<1>1. ASSUME ScreenInv, [Next]_vars
      PROVE  [CursorStaysOnPage /\ TabsStayOnPage /\ MarginsFit']_vars
  <2>1. CASE Next
    <3>1. TermOK(term) /\ StepOK(term, term')
      BY <1>1, <2>1, NextStep DEF ScreenInv
    <3>2. TermOK(term')
      BY <3>1 DEF StepOK
    <3>3. CursorStaysOnPage
      BY <3>1 DEF CursorStaysOnPage, ColumnZero, StepOK, Shown
    <3>4. OnPage(term, term.current) => On(CursorOf(term), PageOf(term))
      BY DEF OnPage, On, CursorOf, PageOf
    <3>5. TabsStayOnPage
      BY <3>1, <3>2, <3>4, TabsOnPageFit DEF TabsStayOnPage, StepOK
    <3>6. MarginsFit'
      BY <3>2 DEF MarginsFit, TermOK, Fits
    <3> QED BY <3>3, <3>5, <3>6
  <2>2. CASE UNCHANGED vars
    BY <2>2
  <2> QED BY <1>1, <2>1, <2>2
<1> QED BY <1>1, SizesHangTogether, PTL DEF Spec, VerifyStateKept

\* The modes and the copies of them in the cursors and in the meaning of CSI s stay in
\* step, but for the sequences that ModesStayInStep excepts.
THEOREM ScreenModesInStep ==
    Spec => ModesStayInStep
<1> DEFINE A == term'.savedModes = term.savedModes =>
                  /\ ModeFlagsAgree(term) /\ term.current = term'.current => ModeFlagsAgree(term')
                  /\ SequenceAgrees(term) /\ term'.modes # {"AutoWrap"} => SequenceAgrees(term')
<1>1. ASSUME ScreenInv, [Next]_vars PROVE [A]_vars
  <2>1. CASE Next
    <3>1. StepOK(term, term')
      BY <1>1, <2>1, NextStep DEF ScreenInv
    <3>2. A
      BY <3>1 DEF StepOK, InStep
    <3> QED BY <3>2
  <2>2. CASE UNCHANGED vars
    BY <2>2
  <2> QED BY <1>1, <2>1, <2>2
<1> QED BY <1>1, SizesHangTogether, PTL DEF Spec, ModesStayInStep

\* Text written at once leaves the same terminal as the same text character by
\* character, for texts of any length (Screen::tryEmplaceChars() and writeText()).
THEOREM ScreenFastPathAgrees ==
    Spec => []FastPathAgrees
<1>1. ScreenInv => FastPathAgrees
  BY BulkAsTimes DEF ScreenInv, FastPathAgrees, MayWrite
<1> QED BY <1>1, SizesHangTogether, PTL
=============================================================================
