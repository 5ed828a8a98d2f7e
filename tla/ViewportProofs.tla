--------------------------- MODULE ViewportProofs ---------------------------
(***************************************************************************)
(* Proofs about Viewport for every page size, history limit and sequence   *)
(* of operations.                                                          *)
(***************************************************************************)
EXTENDS Viewport, TLAPS

Modes == {"Insert", "Normal", "Visual"}
States == {"None", "Waiting", "InProgress", "Complete"}
Selections == [from : Int, to : Int, state : States]
Views == [offset : Nat, cursor : Int, mode : Modes, selection : Selections]
Geometries == [seen : Nat, page : Nat \ {0}, alt : BOOLEAN]

-----------------------------------------------------------------------------
(* What the operations on a view return. *)

\* A clamped number is a number.
LEMMA ClampInt == \A x, lo, hi \in Int : Clamp(x, lo, hi) \in Int
  BY DEF Clamp, Higher, Lower

\* Viewport::_modified changes the cursor alone.
LEMMA OnViewportChangedView ==
  ASSUME NEW v \in Views, NEW g \in Geometries
  PROVE  /\ OnViewportChanged(v, g) \in Views
         /\ OnViewportChanged(v, g).offset = v.offset
         /\ OnViewportChanged(v, g).mode = v.mode
  <1> DEFINE c == Clamp(v.cursor, -v.offset, g.page - 1 - v.offset)
  <1>0. v.cursor \in Int /\ v.offset \in Nat /\ g.page \in Int
    BY DEF Views, Geometries
  <1>1. c \in Int
    <2>1. -v.offset \in Int /\ g.page - 1 - v.offset \in Int
      BY <1>0
    <2> QED
      BY <1>0, <2>1, ClampInt
  <1> HIDE DEF c
  <1>2. OnViewportChanged(v, g) \in {v, [v EXCEPT !.cursor = c]}
    BY DEF OnViewportChanged, c
  <1> QED
    BY <1>1, <1>2 DEF Views

\* scrollTo() leaves the offset alone or makes it one within the history.
LEMMA ScrollToView ==
  ASSUME NEW v \in Views, NEW o \in Int, NEW g \in Geometries
  PROVE  /\ ScrollTo(v, o, g) \in Views
         /\ \/ ScrollTo(v, o, g).offset = v.offset
            \/ /\ ScrollTo(v, o, g).offset = o
               /\ o \in 0..g.seen
         /\ ScrollTo(v, 0, g).offset = 0
  <1>0. v.offset \in Nat /\ g.seen \in Nat
    BY DEF Views, Geometries
  <1>1. \A p \in Int : p \in 0..g.seen =>
            /\ OnViewportChanged([v EXCEPT !.offset = p], g) \in Views
            /\ OnViewportChanged([v EXCEPT !.offset = p], g).offset = p
    <2> SUFFICES ASSUME NEW p \in 0..g.seen
                 PROVE  /\ OnViewportChanged([v EXCEPT !.offset = p], g) \in Views
                        /\ OnViewportChanged([v EXCEPT !.offset = p], g).offset = p
      OBVIOUS
    <2>1. p \in Nat
      BY <1>0
    <2>2. [v EXCEPT !.offset = p] \in Views /\ [v EXCEPT !.offset = p].offset = p
      BY <2>1 DEF Views
    <2> QED
      BY <2>2, OnViewportChangedView
  <1>2. /\ ScrollTo(v, o, g) \in Views
        /\ \/ ScrollTo(v, o, g).offset = v.offset
           \/ ScrollTo(v, o, g).offset = o /\ o \in 0..g.seen
    BY <1>1 DEF ScrollTo
  <1>3. ScrollTo(v, 0, g).offset = 0
    BY <1>0, <1>1 DEF ScrollTo
  <1> QED
    BY <1>2, <1>3

\* So do the operations that scroll by a number of lines.
LEMMA ViewportScrollView ==
  ASSUME NEW v \in Views, NEW n \in Int, NEW g \in Geometries
  PROVE  /\ ViewportScrollUp(v, n, g) \in Views
         /\ ViewportScrollDown(v, n, g) \in Views
         /\ \/ ViewportScrollUp(v, n, g).offset = v.offset
            \/ ViewportScrollUp(v, n, g).offset <= g.seen
         /\ \/ ViewportScrollDown(v, n, g).offset = v.offset
            \/ ViewportScrollDown(v, n, g).offset <= g.seen
         /\ g.seen = 0 /\ n >= 0 => ViewportScrollUp(v, n, g).offset <= g.seen
  <1>0. v.offset \in Nat /\ g.seen \in Nat
    BY DEF Views, Geometries
  <1> DEFINE up == Lower(v.offset + n, g.seen)
             down == Higher(v.offset - n, 0)
  <1>1. up \in Int /\ down \in Int
    BY <1>0 DEF Lower, Higher
  <1>2. g.seen = 0 /\ n >= 0 => up = 0
    BY <1>0 DEF Lower
  <1>3. /\ ViewportScrollUp(v, n, g) = ScrollTo(v, up, g)
        /\ ViewportScrollDown(v, n, g) = ScrollTo(v, down, g)
    BY DEF ViewportScrollUp, ViewportScrollDown
  <1> HIDE DEF up, down
  <1>4. ScrollTo(v, up, g) \in Views /\ ScrollTo(v, down, g) \in Views
    BY <1>1, ScrollToView
  <1>5. /\ \/ ScrollTo(v, up, g).offset = v.offset
           \/ ScrollTo(v, up, g).offset <= g.seen
        /\ \/ ScrollTo(v, down, g).offset = v.offset
           \/ ScrollTo(v, down, g).offset <= g.seen
    BY <1>0, <1>1, ScrollToView
  <1>6. g.seen = 0 /\ n >= 0 => ScrollTo(v, up, g).offset <= g.seen
    BY <1>0, <1>2, ScrollToView
  <1> QED
    BY <1>3, <1>4, <1>5, <1>6

\* And makeVisibleWithinSafeArea().
LEMMA MakeVisibleView ==
  ASSUME NEW v \in Views, NEW line \in Int, NEW padding \in Nat, NEW g \in Geometries
  PROVE  /\ MakeVisible(v, line, padding, g) \in Views
         /\ \/ MakeVisible(v, line, padding, g).offset = v.offset
            \/ MakeVisible(v, line, padding, g).offset <= g.seen
  <1>1. v.offset \in Nat /\ g.page \in Int /\ g.seen \in Nat
    BY DEF Views, Geometries
  <1> DEFINE up == padding - v.offset - line
             down == line - (g.page - 1 - v.offset - padding)
  <1>2. up \in Int /\ down \in Int
    BY <1>1
  <1>3. MakeVisible(v, line, padding, g) \in
          {ViewportScrollUp(v, up, g), ViewportScrollDown(v, down, g), v}
    BY DEF MakeVisible
  <1> HIDE DEF up, down
  <1>4. CASE MakeVisible(v, line, padding, g) = ViewportScrollUp(v, up, g)
    BY <1>2, <1>4, ViewportScrollView
  <1>5. CASE MakeVisible(v, line, padding, g) = ViewportScrollDown(v, down, g)
    BY <1>2, <1>5, ViewportScrollView
  <1> QED
    BY <1>3, <1>4, <1>5

\* A selection is made of two lines and a state.
LEMMA SelectedSelection ==
  \A from, to \in Int, state \in States : Selected(from, to, state) \in Selections
  BY DEF Selected, Selections

\* Clearing the selection leaves the viewport alone.
LEMMA ClearSelectionView ==
  ASSUME NEW v \in Views, NEW pressed \in BOOLEAN
  PROVE  /\ ClearSelection(v, pressed) \in Views
         /\ ClearSelection(v, pressed).offset = v.offset
  <1>1. None \in Selections
    BY DEF None, Selections, States
  <1>2. (IF v.mode = "Visual" THEN "Normal" ELSE v.mode) \in Modes
    BY DEF Views, Modes
  <1> QED
    BY <1>1, <1>2 DEF ClearSelection, Views

\* So does moving it with the text.
LEMMA ApplyScrollView ==
  ASSUME NEW v \in Views, NEW n \in Int, NEW h \in Int, NEW pressed \in BOOLEAN
  PROVE  /\ ApplyScroll(v, n, h, pressed) \in Views
         /\ ApplyScroll(v, n, h, pressed).offset = v.offset
  <1> DEFINE f == Higher(v.selection.from - n, -h)
             t == Higher(v.selection.to - n, -h)
  <1>1. v.selection \in Selections /\ v.selection.from \in Int /\ v.selection.to \in Int
    BY DEF Views, Selections
  <1>2. f \in Int /\ t \in Int
    BY <1>1 DEF Higher
  <1>3. ApplyScroll(v, n, h, pressed) \in
          {v, ClearSelection(v, pressed), [v EXCEPT !.selection.from = f, !.selection.to = t]}
    BY DEF ApplyScroll
  <1> HIDE DEF f, t
  <1>4. /\ [v EXCEPT !.selection.from = f, !.selection.to = t] \in Views
        /\ [v EXCEPT !.selection.from = f, !.selection.to = t].offset = v.offset
    BY <1>1, <1>2 DEF Views, Selections
  <1> QED
    BY <1>3, <1>4, ClearSelectionView

\* onBufferScrolled() keeps the viewport in the history, and brings it back to
\* it when the history is gone.
LEMMA OnBufferScrolledView ==
  ASSUME NEW v \in Views, NEW n \in Nat, NEW g \in Geometries, NEW h \in Int, mouseDown \in BOOLEAN
  PROVE  /\ OnBufferScrolled(v, n, g, h) \in Views
         /\ v.offset <= g.seen => OnBufferScrolled(v, n, g, h).offset <= g.seen
         /\ g.seen = 0 => OnBufferScrolled(v, n, g, h).offset = 0
  <1> DEFINE moved == [v EXCEPT !.cursor = v.cursor - n]
  <1>1. v.cursor - n \in Int
    BY DEF Views
  <1>2. moved \in Views /\ moved.offset = v.offset
    BY <1>1 DEF Views
  <1>3. v.offset \in Nat /\ g.seen \in Nat
    BY DEF Views, Geometries
  <1>4. FollowText(v, n, g) = IF v.offset # 0 \/ v.mode = "Normal"
                              THEN ViewportScrollUp(moved, n, g) ELSE moved
    BY DEF FollowText
  <1> HIDE DEF moved
  <1>5. /\ FollowText(v, n, g) \in Views
        /\ v.offset <= g.seen => FollowText(v, n, g).offset <= g.seen
        /\ g.seen = 0 => FollowText(v, n, g).offset = 0
    <2>1. n \in Int /\ n >= 0
      OBVIOUS
    <2>2. /\ FollowText(v, n, g) \in Views
          /\ v.offset <= g.seen => FollowText(v, n, g).offset <= g.seen
      BY <1>2, <1>3, <1>4, <2>1, ViewportScrollView
    <2>3. ASSUME g.seen = 0 PROVE FollowText(v, n, g).offset = 0
      <3>1. CASE v.offset # 0 \/ v.mode = "Normal"
        <4>1. FollowText(v, n, g) = ViewportScrollUp(moved, n, g)
          BY <1>4, <3>1
        <4>2. FollowText(v, n, g).offset \in Nat /\ FollowText(v, n, g).offset <= 0
          BY <1>2, <2>1, <2>2, <2>3, <4>1, ViewportScrollView DEF Views
        <4> QED
          BY <4>2
      <3>2. CASE ~(v.offset # 0 \/ v.mode = "Normal")
        BY <1>2, <1>4, <3>2
      <3> QED
        BY <3>1, <3>2
    <2> QED
      BY <2>2, <2>3
  <1> QED
    BY <1>5, ApplyScrollView DEF OnBufferScrolled

-----------------------------------------------------------------------------
(* The types of the variables, and the ring that is large enough. *)

\* The initial state has the right types.
LEMMA TypeInit == Init => TypeOK
  <1> SUFFICES ASSUME Init PROVE TypeOK
    OBVIOUS
  <1>1. None \in Selections
    BY DEF None, Selections, States
  <1>2. view \in Views
    BY <1>1 DEF Init, Views, Modes
  <1>4. mouseDown \in BOOLEAN
    BY DEF Init
  <1> QED
    BY <1>2, <1>4, ViewportAssumption DEF Init, TypeOK, Views, Modes, Selections, States

\* What TypeOK says of the view and of what the operations read.
LEMMA TypeFacts ==
  ASSUME TypeOK
  PROVE  /\ view \in Views
         /\ view.offset \in Nat /\ view.cursor \in Int /\ view.selection \in Selections
         /\ view.selection.from \in Int /\ view.selection.to \in Int
         /\ Geometry \in Geometries
         /\ \A h \in Nat : [Geometry EXCEPT !.seen = h] \in Geometries
         /\ Geometry.seen \in Nat /\ page \in Nat /\ page > 0
         /\ history \in Nat /\ capacity \in Nat /\ history <= capacity /\ base \in Int
  <1>1. history \in Nat /\ capacity \in Nat /\ history <= capacity /\ page \in Nat \ {0} /\ base \in Int
    BY DEF TypeOK
  <1>2. view \in Views
    BY DEF TypeOK, Views, Modes, Selections, States
  <1>3. Seen(current, history) \in Nat
    BY <1>1 DEF Seen
  <1>4. (screenType = "Alternate") \in BOOLEAN
    OBVIOUS
  <1>5. /\ Geometry \in Geometries
        /\ \A h \in Nat : [Geometry EXCEPT !.seen = h] \in Geometries
        /\ Geometry.seen \in Nat
    BY <1>1, <1>3, <1>4 DEF Geometry, Geometries
  <1>6. view.selection \in Selections /\ view.selection.from \in Int /\ view.selection.to \in Int
    BY <1>2 DEF Views, Selections
  <1> QED
    BY <1>1, <1>2, <1>5, <1>6 DEF Views

\* A step that leaves the grid alone has the right types if its view has.
LEMMA TypeKept ==
  ASSUME TypeOK, view' \in Views, UNCHANGED gridVars,
         screenType' \in {"Primary", "Alternate"}, current' \in {screenType', "Status"},
         active' \in {"Main", "StatusLine"}, mouseDown' \in BOOLEAN,
         changes' \in 0..MaxChanges
  PROVE  TypeOK'
  BY DEF TypeOK, gridVars, Views, Modes, Selections, States

\* Every step keeps the types, and the history within the ring.
LEMMA TypeStep == TypeOK /\ [Next]_vars => TypeOK'
  <1> SUFFICES ASSUME TypeOK, [Next]_vars PROVE TypeOK'
    OBVIOUS
  <1>s. /\ screenType \in {"Primary", "Alternate"} /\ current \in {screenType, "Status"}
        /\ active \in {"Main", "StatusLine"} /\ mouseDown \in BOOLEAN
        /\ changes \in 0..MaxChanges
    BY DEF TypeOK
  <1>n. None \in Selections
    BY DEF None, Selections, States
  <1>1. CASE BufferScroll
    <2>0. changes' \in 0..MaxChanges
      BY <1>1, <1>s, ViewportAssumption DEF BufferScroll
    <2>m. CASE MarginScroll
      <3>1. view' = OnBufferScrolled(view, 0, Geometry, history)
        BY <2>m DEF MarginScroll
      <3>2. \A n \in Nat : OnBufferScrolled(view, n, Geometry, history) \in Views
        BY <1>s, TypeFacts, OnBufferScrolledView
      <3>3. view' \in Views
        BY <3>1, <3>2
      <3> QED
        BY <1>s, <2>0, <2>m, <3>3, TypeKept DEF MarginScroll, screenVars
    <2> SUFFICES ASSUME ~MarginScroll PROVE TypeOK'
      BY <2>m
    <2>1. PICK n \in 1..MaxScroll : PagedScroll(n) \/ HistorylessScroll(n)
      BY <1>1 DEF BufferScroll
    <2>2. n \in Nat
      BY <2>1, ViewportAssumption
    <2>3. CASE HistorylessScroll(n)
      <3>1. view' \in Views
        BY <1>s, <2>2, <2>3, TypeFacts, OnBufferScrolledView DEF HistorylessScroll
      <3> QED
        BY <1>s, <2>0, <2>3, <3>1, TypeKept DEF HistorylessScroll, screenVars
    <2>4. CASE PagedScroll(n)
      <3> DEFINE free == capacity - history
                 r == IF free = 0 THEN n ELSE Lower(n, free)
                 h == history + Lower(n, free)
      <3>1. r \in Nat /\ h \in 0..capacity /\ h \in Nat
        BY <2>2, TypeFacts DEF Lower
      <3>2. /\ history' = h /\ base' = base + n
            /\ view' = OnBufferScrolled(view, r, [Geometry EXCEPT !.seen = h], h)
            /\ UNCHANGED <<screenVars, page, capacity, mouseDown>>
        BY <2>4 DEF PagedScroll
      <3> DEFINE g == [Geometry EXCEPT !.seen = h]
      <3>g. g \in Geometries
        BY <3>1, TypeFacts
      <3>v. view' = OnBufferScrolled(view, r, g, h)
        BY <3>2
      <3> HIDE DEF h, r, free, g
      <3>i. h \in Int
        BY <3>1
      <3>3. view' \in Views
        BY <1>s, <3>1, <3>i, <3>g, <3>v, TypeFacts, OnBufferScrolledView
      <3>4. base' \in Int
        BY <2>2, <3>2, TypeFacts
      <3> QED
        BY <2>0, <3>1, <3>2, <3>3, <3>4
        DEF TypeOK, screenVars, Views, Modes, Selections, States
    <2> QED
      BY <2>1, <2>3, <2>4
  <1>2. CASE ScrollViewport
    <2>1. 0..history \subseteq Int /\ 1..MaxScroll \subseteq Int
      BY TypeFacts, ViewportAssumption
    <2>0. view \in Views /\ Geometry \in Geometries /\ Geometry.seen \in Int
      BY TypeFacts
    <2>2. view' \in Views
      <3>1. \/ \E n \in Int : view' = ViewportScrollUp(view, n, Geometry)
            \/ \E n \in Int : view' = ViewportScrollDown(view, n, Geometry)
            \/ \E o \in Int : view' = ScrollTo(view, o, Geometry)
        BY <1>2, <2>0, <2>1 DEF ScrollViewport
      <3> QED
        BY <2>0, <3>1, ScrollToView, ViewportScrollView
    <2> QED
      BY <1>2, <1>s, <2>2, TypeKept DEF ScrollViewport, screenVars
  <1>3. CASE SetScreen
    <2> DEFINE other == IF screenType = "Primary" THEN "Alternate" ELSE "Primary"
               g == [seen |-> Seen(other, history), page |-> page, alt |-> other = "Alternate"]
    <2>1. g \in Geometries
      <3>1. Seen(other, history) \in Nat /\ page \in Nat \ {0}
        BY TypeFacts DEF Seen
      <3> QED
        BY <3>1 DEF Geometries
    <2>2. /\ view' = ScrollTo(ClearSelection(view, mouseDown), 0, g)
          /\ screenType' = other /\ current' = other
      BY <1>3 DEF SetScreen
    <2> HIDE DEF g
    <2>c. ClearSelection(view, mouseDown) \in Views
      BY <1>s, TypeFacts, ClearSelectionView
    <2>3. view' \in Views
      BY <2>1, <2>2, <2>c, ScrollToView
    <2> QED
      BY <1>3, <1>s, <2>2, <2>3, TypeKept DEF SetScreen
  <1>4. CASE SetActiveStatusDisplay
    <2>1. view' \in Views
      BY <1>4, TypeFacts DEF SetActiveStatusDisplay
    <2> QED
      BY <1>4, <1>s, <2>1, TypeKept DEF SetActiveStatusDisplay
  <1>5. CASE ScrollbackBufferCleared
    <2>1. ClearSelection(view, mouseDown) \in Views
      BY <1>s, TypeFacts, ClearSelectionView
    <2>2. [Geometry EXCEPT !.seen = 0] \in Geometries
      BY TypeFacts
    <2> DEFINE cleared == ClearSelection(view, mouseDown)
               g == [Geometry EXCEPT !.seen = 0]
    <2>v. view' = cleared \/ view' = ScrollTo(cleared, 0, g)
      BY <1>5 DEF ScrollbackBufferCleared
    <2> HIDE DEF cleared, g
    <2>3. view' \in Views
      <3>1. cleared \in Views /\ g \in Geometries
        BY <2>1, <2>2 DEF cleared, g
      <3> QED
        BY <2>v, <3>1, ScrollToView
    <2>4. history' \in 0..capacity
      BY <1>5, TypeFacts DEF ScrollbackBufferCleared
    <2> QED
      BY <1>5, <2>3, <2>4
      DEF ScrollbackBufferCleared, TypeOK, screenVars, Views, Modes, Selections, States
  <1>6. CASE HardReset
    <2> DEFINE g == [seen |-> 0, page |-> page, alt |-> FALSE]
               w == IF screenType = "Primary" THEN view
                    ELSE ScrollTo(ClearSelection(view, mouseDown), 0, g)
    <2>1. g \in Geometries
      BY TypeFacts DEF Geometries
    <2>2. /\ view' = OnBufferScrolled(w, 1, g, 0)
          /\ screenType' = "Primary" /\ current' = "Primary" /\ active' = "Main" /\ history' = 0
          /\ changes' = changes + 1 /\ changes < MaxChanges
          /\ UNCHANGED <<page, capacity, base, mouseDown>>
      BY <1>6 DEF HardReset
    <2> HIDE DEF g
    <2>c. ClearSelection(view, mouseDown) \in Views
      BY <1>s, TypeFacts, ClearSelectionView
    <2>d. ScrollTo(ClearSelection(view, mouseDown), 0, g) \in Views
      BY <2>1, <2>c, ScrollToView
    <2>3. w \in Views
      BY <2>d, TypeFacts
    <2> HIDE DEF w
    <2>4. view' \in Views
      BY <1>s, <2>1, <2>2, <2>3, OnBufferScrolledView
    <2>5. history' \in 0..capacity /\ changes' \in 0..MaxChanges
      BY <1>s, <2>2, TypeFacts, ViewportAssumption
    <2> QED
      BY <2>2, <2>4, <2>5 DEF TypeOK, Views, Modes, Selections, States
  <1>7. CASE ResizeScreen
    <2>1. PICK h \in 1..MaxPage :
            /\ page' = h
            /\ capacity' = IF h - page > 0 THEN Higher(capacity - (h - page), HistoryLimit)
                           ELSE capacity - (h - page)
            /\ \E moved \in IF h - page > 0 THEN {0, -Lower(h - page, history)} ELSE 0..(-(h - page)) :
                  /\ history' = Lower(history + moved, capacity')
                  /\ base' = base + moved
            /\ view' = [view EXCEPT !.cursor =
                          Clamp(view.cursor + h - (page + StatusLines), 0, h + StatusLines - 1)]
      BY <1>7 DEF ResizeScreen
    <2>2. h \in Nat /\ h > 0
      BY <2>1, ViewportAssumption
    <2>3. PICK moved \in IF h - page > 0 THEN {0, -Lower(h - page, history)} ELSE 0..(-(h - page)) :
            history' = Lower(history + moved, capacity') /\ base' = base + moved
      BY <2>1
    <2>4. moved \in Int /\ history + moved >= 0
      BY <2>2, <2>3, TypeFacts DEF Lower
    <2>5. capacity' \in Nat
      BY <2>1, <2>2, TypeFacts, ViewportAssumption DEF Higher
    <2>6. history' \in 0..capacity'
      BY <2>3, <2>4, <2>5, TypeFacts DEF Lower
    <2>7. base' \in Int
      BY <2>3, <2>4, TypeFacts
    <2> DEFINE c == Clamp(view.cursor + h - (page + StatusLines), 0, h + StatusLines - 1)
    <2>8. c \in Int
      <3>1. /\ view.cursor + h - (page + StatusLines) \in Int
            /\ h + StatusLines - 1 \in Int
        BY <2>2, TypeFacts DEF StatusLines
      <3> QED
        BY <3>1, ClampInt
    <2>9. view' \in Views
      <3>1. view' = [view EXCEPT !.cursor = c]
        BY <2>1
      <3> HIDE DEF c
      <3> QED
        BY <2>8, <3>1, TypeFacts DEF Views
    <2>10. changes' \in 0..MaxChanges /\ UNCHANGED <<screenVars, mouseDown>>
      BY <1>7, <1>s, ViewportAssumption DEF ResizeScreen
    <2>11. page' \in Nat \ {0}
      BY <2>1, <2>2
    <2> QED
      BY <2>5, <2>6, <2>7, <2>9, <2>10, <2>11
      DEF TypeOK, screenVars, Views, Modes, Selections, States
  <1>8. CASE EnterNormalMode
    <2>1. view' \in Views
      <3>1. PICK line \in 0..(page - 1) :
              view' = [view EXCEPT !.mode = "Normal", !.selection = None,
                                   !.cursor = IF view.mode = "Insert" THEN line ELSE view.cursor]
        BY <1>8 DEF EnterNormalMode
      <3> DEFINE c == IF view.mode = "Insert" THEN line ELSE view.cursor
      <3>2. c \in Int
        BY <3>1, TypeFacts
      <3>3. view' = [view EXCEPT !.mode = "Normal", !.selection = None, !.cursor = c]
        BY <3>1
      <3> HIDE DEF c
      <3> QED
        BY <1>n, <3>2, <3>3, TypeFacts DEF Views, Modes
    <2> QED
      BY <1>8, <1>s, <2>1, TypeKept DEF EnterNormalMode, screenVars
  <1>9. CASE EnterInsertMode
    <2>1. [view EXCEPT !.mode = "Insert"] \in Views
      BY TypeFacts DEF Views, Modes
    <2> DEFINE w == [view EXCEPT !.mode = "Insert"]
    <2>w. w \in Views /\ view' = ScrollTo(w, 0, Geometry)
      BY <1>9, <2>1 DEF EnterInsertMode
    <2> HIDE DEF w
    <2>2. view' \in Views
      <3>1. Geometry \in Geometries
        BY TypeFacts
      <3> QED
        BY <2>w, <3>1, ScrollToView
    <2> QED
      BY <1>9, <1>s, <2>2, TypeKept DEF EnterInsertMode, screenVars
  <1>10. CASE MoveCursorTo
    <2>1. PICK line \in (-Geometry.seen)..(page - 1) :
            LET v == MakeVisible([view EXCEPT !.cursor = line], line, ScrollOff, Geometry)
            IN  view' = IF v.mode = "Visual" /\ v.selection # None
                        THEN [v EXCEPT !.selection.to = v.cursor, !.selection.state = "InProgress"]
                        ELSE v
      BY <1>10 DEF MoveCursorTo
    <2> DEFINE w == [view EXCEPT !.cursor = line]
               v == MakeVisible(w, line, ScrollOff, Geometry)
    <2>2. line \in Int /\ w \in Views
      BY <2>1, TypeFacts DEF Views
    <2>g. Geometry \in Geometries /\ ScrollOff \in Nat
      BY TypeFacts, ViewportAssumption
    <2>3. v \in Views
      <3> HIDE DEF w
      <3> QED
        BY <2>2, <2>g, MakeVisibleView
    <2>4. \/ view' = v
          \/ view' = [v EXCEPT !.selection.to = v.cursor, !.selection.state = "InProgress"]
      BY <2>1
    <2> HIDE DEF w, v
    <2>5. v.cursor \in Int
      BY <2>3 DEF Views
    <2>6. [v EXCEPT !.selection.to = v.cursor, !.selection.state = "InProgress"] \in Views
      BY <2>3, <2>5 DEF Views, Selections, States
    <2>7. view' \in Views
      BY <2>3, <2>4, <2>6
    <2> QED
      BY <1>10, <1>s, <2>7, TypeKept DEF MoveCursorTo, screenVars
  <1>11. CASE EnterVisualMode
    <2> DEFINE from == IF view.selection = None THEN view.cursor ELSE view.selection.from
    <2>1. from \in Int
      BY TypeFacts
    <2>2. Selected(from, view.cursor, "InProgress") \in Selections
      BY <2>1, TypeFacts, SelectedSelection DEF States
    <2>3. view' = [view EXCEPT !.mode = "Visual", !.selection = Selected(from, view.cursor, "InProgress")]
      BY <1>11 DEF EnterVisualMode
    <2> HIDE DEF from
    <2>5. view' \in Views
      BY <2>2, <2>3, TypeFacts DEF Views, Modes
    <2> QED
      BY <1>11, <1>s, <2>5, TypeKept DEF EnterVisualMode, screenVars
  <1>12. CASE MousePress
    <2>1. PICK y \in 0..(page - 1), state \in {"Waiting", "InProgress"} :
            LET line == y - view.offset
                v == [view EXCEPT !.cursor = IF view.mode = "Insert" THEN @ ELSE line]
            IN  view' = [(IF state = "Waiting" THEN ClearSelection(v, TRUE) ELSE v)
                            EXCEPT !.selection = Selected(line, line, state)]
      BY <1>12 DEF MousePress
    <2> DEFINE line == y - view.offset
               c == IF view.mode = "Insert" THEN view.cursor ELSE line
               v == [view EXCEPT !.cursor = c]
               w == IF state = "Waiting" THEN ClearSelection(v, TRUE) ELSE v
    <2>2. line \in Int
      BY <2>1, TypeFacts
    <2>3. view' = [w EXCEPT !.selection = Selected(line, line, state)]
      BY <2>1
    <2> HIDE DEF line
    <2>5. c \in Int
      BY <2>2, TypeFacts
    <2> HIDE DEF c
    <2>6. v \in Views
      BY <2>5, TypeFacts DEF Views
    <2> HIDE DEF v
    <2>7. w \in Views
      BY <2>6, ClearSelectionView
    <2>8. Selected(line, line, state) \in Selections
      BY <2>1, <2>2, SelectedSelection DEF States
    <2> HIDE DEF w
    <2>9. view' \in Views
      BY <2>3, <2>7, <2>8 DEF Views
    <2>10. mouseDown' \in BOOLEAN
      BY <1>12 DEF MousePress
    <2> QED
      BY <1>12, <1>s, <2>9, <2>10, TypeKept DEF MousePress, screenVars
  <1>13. CASE MouseMove
    <2>1. PICK y \in 0..(page - 1) :
            LET line == y - view.offset
                shown == MakeVisible([view EXCEPT !.cursor = line], line, 0, Geometry)
            IN  \/ view' = [view EXCEPT !.selection = Selected(line, line, "Waiting")]
                \/ \E v \in {shown, view} :
                      view' = [v EXCEPT
                         !.cursor = line,
                         !.mode = IF view.mode = "Insert" THEN "Insert" ELSE "Visual",
                         !.selection = Selected(view.selection.from, line, "InProgress")]
      BY <1>13 DEF MouseMove
    <2> DEFINE line == y - view.offset
               m == IF view.mode = "Insert" THEN "Insert" ELSE "Visual"
               w == [view EXCEPT !.cursor = line]
               shown == MakeVisible(w, line, 0, Geometry)
    <2>2. line \in Int
      BY <2>1, TypeFacts
    <2>3. m \in Modes
      BY DEF Modes
    <2>4. /\ Selected(line, line, "Waiting") \in Selections
          /\ Selected(view.selection.from, line, "InProgress") \in Selections
      BY <2>2, TypeFacts, SelectedSelection DEF States
    <2>5. \/ view' = [view EXCEPT !.selection = Selected(line, line, "Waiting")]
          \/ \E v \in {shown, view} :
                view' = [v EXCEPT !.cursor = line, !.mode = m,
                            !.selection = Selected(view.selection.from, line, "InProgress")]
      BY <2>1
    <2> HIDE DEF line, m
    <2>6. w \in Views /\ view \in Views
      BY <2>2, TypeFacts DEF Views
    <2> HIDE DEF w
    <2>8. shown \in Views
      BY <2>2, <2>6, TypeFacts, MakeVisibleView
    <2> HIDE DEF shown
    <2>7. view' \in Views
      BY <2>2, <2>3, <2>4, <2>5, <2>6, <2>8 DEF Views
    <2> QED
      BY <1>13, <1>s, <2>7, TypeKept DEF MouseMove, screenVars
  <1>14. CASE MouseRelease
    <2>1. [view EXCEPT !.selection = None] \in Views
      BY <1>n, TypeFacts DEF Views
    <2>2. [view EXCEPT !.selection.state = "Complete"] \in Views
      BY TypeFacts DEF Views, Selections, States
    <2>3. view' \in Views
      BY <1>14, <2>1, <2>2, TypeFacts DEF MouseRelease
    <2>4. mouseDown' \in BOOLEAN
      BY <1>14 DEF MouseRelease
    <2> QED
      BY <1>14, <1>s, <2>3, <2>4, TypeKept DEF MouseRelease, screenVars
  <1>15. CASE UNCHANGED vars
    BY <1>15 DEF TypeOK, vars
  <1> QED
    BY <1>1, <1>2, <1>3, <1>4, <1>5, <1>6, <1>7, <1>8, <1>9, <1>10, <1>11, <1>12, <1>13, <1>14, <1>15
    DEF Next

\* The variables keep their types, output goes to the screen that is shown or
\* to the status line, and the lines in use always fit into the ring: for every
\* page size and history limit, resizes included.
THEOREM ViewportTypes == Spec => []TypeOK
  <1>1. Init => TypeOK
    BY TypeInit
  <1>2. TypeOK /\ [Next]_vars => TypeOK'
    BY TypeStep
  <1> QED
    BY <1>1, <1>2, PTL DEF Spec

-----------------------------------------------------------------------------
(* The viewport stays within the history, unless the page is made higher. *)

\* A step that leaves screen and history alone keeps the viewport where the
\* lemmas above leave it.
LEMMA OffsetKept ==
  ASSUME TypeOK, OffsetInHistory, view' \in Views, UNCHANGED <<screenType, history>>,
         \/ view'.offset = view.offset
         \/ view'.offset <= Geometry.seen
  PROVE  OffsetInHistory'
  <1>1. Geometry.seen = Seen(current, history) /\ current \in {screenType, "Status"}
    BY DEF Geometry, TypeOK
  <1>2. Seen(current, history) <= Seen(screenType, history)
    BY <1>1, TypeFacts DEF Seen
  <1>3. Seen(screenType, history)' = Seen(screenType, history)
    BY DEF Seen
  <1>4. Seen(screenType, history) \in Nat /\ Geometry.seen \in Nat
    BY TypeFacts DEF Seen
  <1>5. view.offset <= Seen(screenType, history) /\ view.offset \in Nat
    BY TypeFacts DEF OffsetInHistory
  <1>6. view'.offset \in Nat
    BY DEF Views
  <1>7. view'.offset <= Seen(screenType, history)
    BY <1>1, <1>2, <1>4, <1>5, <1>6
  <1> QED
    BY <1>3, <1>7 DEF OffsetInHistory

\* Every step but a resize to a higher page keeps the viewport in the history.
LEMMA OffsetStep ==
  ASSUME "resize" \notin Ops \/ page' <= page, TypeOK, TypeOK', OffsetInHistory, [Next]_vars
  PROVE  OffsetInHistory'
  <1>0. /\ view' \in Views /\ view'.offset \in Nat
        /\ view \in Views /\ view.offset \in Nat
        /\ Geometry \in Geometries /\ Geometry.seen \in Nat
        /\ mouseDown \in BOOLEAN /\ current \in {screenType, "Status"}
        /\ history \in Nat /\ page \in Nat \ {0}
    <2>1. view' \in Views
      BY DEF TypeOK, Views, Modes, Selections, States
    <2> QED
      BY <2>1, TypeFacts DEF TypeOK, Views
  <1>c. /\ ClearSelection(view, mouseDown) \in Views
        /\ ClearSelection(view, mouseDown).offset = view.offset
    BY <1>0, ClearSelectionView
  <1>1. CASE BufferScroll
    <2>m. CASE MarginScroll
      <3>1. view' = OnBufferScrolled(view, 0, Geometry, history)
        BY <2>m DEF MarginScroll
      <3>2. /\ \A n \in Nat : view.offset <= Geometry.seen =>
                  OnBufferScrolled(view, n, Geometry, history).offset <= Geometry.seen
            /\ \A n \in Nat : Geometry.seen = 0 =>
                  OnBufferScrolled(view, n, Geometry, history).offset = 0
        <4>1. view \in Views /\ Geometry \in Geometries /\ mouseDown \in BOOLEAN /\ history \in Int
          BY <1>0
        <4> QED
          BY <4>1, OnBufferScrolledView
      <3>3. view.offset <= Geometry.seen \/ Geometry.seen = 0
        BY <1>0 DEF OffsetInHistory, Geometry, Seen
      <3>4. view'.offset <= Geometry.seen
        BY <1>0, <3>1, <3>2, <3>3
      <3> QED
        BY <1>0, <2>m, <3>4, OffsetKept DEF MarginScroll, screenVars, gridVars
    <2> SUFFICES ASSUME ~MarginScroll PROVE OffsetInHistory'
      BY <2>m
    <2>1. PICK n \in 1..MaxScroll : PagedScroll(n) \/ HistorylessScroll(n)
      BY <1>1 DEF BufferScroll
    <2>2. n \in Nat
      BY <2>1, ViewportAssumption
    <2>3. CASE HistorylessScroll(n)
      <3>1. Geometry.seen = 0
        BY <2>3 DEF HistorylessScroll, Geometry, Seen
      <3>2. view' = OnBufferScrolled(view, n, Geometry, history)
        BY <2>3 DEF HistorylessScroll
      <3>i. history \in Int
        BY <1>0
      <3>o. view'.offset = 0
        BY <1>0, <2>2, <3>1, <3>2, <3>i, OnBufferScrolledView
      <3>3. view'.offset <= Geometry.seen
        BY <1>0, <3>o
      <3> QED
        BY <1>0, <2>3, <3>3, OffsetKept DEF HistorylessScroll, screenVars, gridVars
    <2>4. CASE PagedScroll(n)
      <3> DEFINE free == capacity - history
                 r == IF free = 0 THEN n ELSE Lower(n, free)
                 h == history + Lower(n, free)
                 g == [Geometry EXCEPT !.seen = h]
      <3>1. r \in Nat /\ h \in Int /\ h \in Nat /\ history <= h
        BY <2>2, TypeFacts DEF Lower
      <3>2. /\ history' = h /\ current = "Primary" /\ screenType' = screenType
            /\ view' = OnBufferScrolled(view, r, g, h)
        BY <2>4 DEF PagedScroll, screenVars
      <3>3. g \in Geometries /\ g.seen = h
        <4>1. g \in Geometries
          BY <3>1, TypeFacts
        <4>2. g.seen = h
          BY <1>0 DEF Geometries
        <4> QED
          BY <4>1, <4>2
      <3>4. screenType = "Primary"
        BY <1>0, <3>2
      <3>5. view.offset <= h
        <4>1. view.offset <= history
          BY <3>4 DEF OffsetInHistory, Seen
        <4> HIDE DEF h
        <4> QED
          BY <1>0, <3>1, <4>1
      <3> HIDE DEF h, r, free, g
      <3>6. view'.offset <= h
        BY <1>0, <3>1, <3>2, <3>3, <3>5, OnBufferScrolledView
      <3> QED
        BY <3>2, <3>4, <3>6 DEF OffsetInHistory, Seen
    <2> QED
      BY <2>1, <2>3, <2>4
  <1>2. CASE ScrollViewport
    <2>1. \/ \E n \in Int : view' = ViewportScrollUp(view, n, Geometry)
          \/ \E n \in Int : view' = ViewportScrollDown(view, n, Geometry)
          \/ \E o \in Int : view' = ScrollTo(view, o, Geometry)
      <3>1. 0..history \subseteq Int /\ 1..MaxScroll \subseteq Int
        BY <1>0, ViewportAssumption
      <3> QED
        BY <1>0, <1>2, <3>1 DEF ScrollViewport
    <2>2. view'.offset = view.offset \/ view'.offset <= Geometry.seen
      BY <1>0, <2>1, ScrollToView, ViewportScrollView
    <2> QED
      BY <1>0, <1>2, <2>2, OffsetKept DEF ScrollViewport, screenVars, gridVars
  <1>3. CASE SetScreen
    <2> DEFINE other == IF screenType = "Primary" THEN "Alternate" ELSE "Primary"
               g == [seen |-> Seen(other, history), page |-> page, alt |-> other = "Alternate"]
    <2>1. g \in Geometries
      <3>1. Seen(other, history) \in Nat
        BY <1>0 DEF Seen
      <3> QED
        BY <1>0, <3>1 DEF Geometries
    <2>2. view' = ScrollTo(ClearSelection(view, mouseDown), 0, g)
      BY <1>3 DEF SetScreen
    <2> HIDE DEF g
    <2>3. view'.offset = 0
      BY <1>c, <2>1, <2>2, ScrollToView
    <2>4. history' \in Nat
      BY <1>0, <1>3 DEF SetScreen, gridVars
    <2> QED
      BY <2>3, <2>4 DEF OffsetInHistory, Seen
  <1>4. CASE SetActiveStatusDisplay
    BY <1>0, <1>4, OffsetKept DEF SetActiveStatusDisplay, gridVars
  <1>5. CASE ScrollbackBufferCleared
    <2>1. history' \in Nat /\ screenType' = screenType
      BY <1>0, <1>5 DEF ScrollbackBufferCleared, screenVars
    <2>2. CASE screenType = "Alternate"
      <3>1. view' = ClearSelection(view, mouseDown)
        BY <1>5, <2>2 DEF ScrollbackBufferCleared
      <3> QED
        BY <1>c, <2>1, <2>2, <3>1 DEF OffsetInHistory, Seen
    <2>3. CASE screenType # "Alternate"
      <3> DEFINE g == [Geometry EXCEPT !.seen = 0]
      <3>1. g \in Geometries
        BY TypeFacts
      <3>2. view' = ScrollTo(ClearSelection(view, mouseDown), 0, g)
        BY <1>5, <2>3 DEF ScrollbackBufferCleared
      <3> HIDE DEF g
      <3>3. view'.offset = 0
        BY <1>c, <3>1, <3>2, ScrollToView
      <3> QED
        BY <2>1, <3>3 DEF OffsetInHistory, Seen
    <2> QED
      BY <2>2, <2>3
  <1>6. CASE HardReset
    <2> DEFINE g == [seen |-> 0, page |-> page, alt |-> FALSE]
               w == IF screenType = "Primary" THEN view
                    ELSE ScrollTo(ClearSelection(view, mouseDown), 0, g)
    <2>1. g \in Geometries /\ g.seen = 0
      BY <1>0 DEF Geometries
    <2>2. view' = OnBufferScrolled(w, 1, g, 0) /\ history' = 0
      BY <1>6 DEF HardReset
    <2> HIDE DEF g
    <2>3. ScrollTo(ClearSelection(view, mouseDown), 0, g) \in Views
      BY <1>c, <2>1, ScrollToView
    <2>4. w \in Views
      BY <1>0, <2>3
    <2> HIDE DEF w
    <2>5. view'.offset = 0
      <3>1. mouseDown \in BOOLEAN
        BY <1>0
      <3>2. \A h \in Int, n \in Nat : OnBufferScrolled(w, n, g, h).offset = 0
        BY <2>1, <2>4, <3>1, OnBufferScrolledView
      <3> QED
        BY <2>2, <3>2
    <2> QED
      BY <2>2, <2>5 DEF OffsetInHistory, Seen
  <1>7. CASE "resize" \in Ops /\ ResizeScreen
    <2>1. PICK h \in 1..MaxPage :
            /\ page' = h
            /\ capacity' = IF h - page > 0 THEN Higher(capacity - (h - page), HistoryLimit)
                           ELSE capacity - (h - page)
            /\ \E moved \in IF h - page > 0 THEN {0, -Lower(h - page, history)} ELSE 0..(-(h - page)) :
                  history' = Lower(history + moved, capacity')
            /\ view' = [view EXCEPT !.cursor =
                          Clamp(view.cursor + h - (page + StatusLines), 0, h + StatusLines - 1)]
      BY <1>7 DEF ResizeScreen
    <2>2. h \in Nat /\ h <= page
      BY <1>7, <2>1, ViewportAssumption
    <2>3. capacity' = capacity + (page - h)
      BY <1>0, <2>1, <2>2, TypeFacts
    <2>4. \E moved \in 0..(page - h) : history' = Lower(history + moved, capacity')
      BY <1>0, <2>1, <2>2
    <2>5. history <= history'
      BY <1>0, <2>2, <2>3, <2>4, TypeFacts DEF Lower
    <2>6. view'.offset = view.offset
      BY <1>0, <2>1 DEF Views
    <2>7. screenType = "Primary" /\ screenType' = "Primary"
      BY <1>7 DEF ResizeScreen, screenVars
    <2>8. view.offset <= history
      BY <2>7 DEF OffsetInHistory, Seen
    <2>9. view'.offset <= history'
      <3>1. history' \in Nat
        BY DEF TypeOK
      <3> QED
        BY <1>0, <2>5, <2>6, <2>8, <3>1
    <2> QED
      BY <2>7, <2>9 DEF OffsetInHistory, Seen
  <1>8. CASE EnterNormalMode
    <2>1. view'.offset = view.offset
      BY <1>0, <1>8 DEF EnterNormalMode, Views
    <2> QED
      BY <1>0, <1>8, <2>1, OffsetKept DEF EnterNormalMode, screenVars, gridVars
  <1>9. CASE EnterInsertMode
    <2> DEFINE w == [view EXCEPT !.mode = "Insert"]
    <2>1. w \in Views /\ view' = ScrollTo(w, 0, Geometry)
      BY <1>0, <1>9 DEF EnterInsertMode, Views, Modes
    <2> HIDE DEF w
    <2>2. view'.offset = 0
      BY <1>0, <2>1, ScrollToView
    <2>3. view'.offset <= Geometry.seen
      BY <1>0, <2>2
    <2> QED
      BY <1>0, <1>9, <2>3, OffsetKept DEF EnterInsertMode, screenVars, gridVars
  <1>10. CASE MoveCursorTo
    <2>1. PICK line \in (-Geometry.seen)..(page - 1) :
            LET v == MakeVisible([view EXCEPT !.cursor = line], line, ScrollOff, Geometry)
            IN  \/ view' = v
                \/ view' = [v EXCEPT !.selection.to = v.cursor, !.selection.state = "InProgress"]
      BY <1>10 DEF MoveCursorTo
    <2> DEFINE w == [view EXCEPT !.cursor = line]
               v == MakeVisible(w, line, ScrollOff, Geometry)
    <2>2. line \in Int
      BY <1>0, <2>1
    <2>3. w \in Views /\ w.offset = view.offset /\ ScrollOff \in Nat
      BY <1>0, <2>2, ViewportAssumption DEF Views
    <2> HIDE DEF w
    <2>4. v \in Views /\ (v.offset = view.offset \/ v.offset <= Geometry.seen)
      <3>1. Geometry \in Geometries
        BY <1>0
      <3> QED
        BY <2>2, <2>3, <3>1, MakeVisibleView
    <2>5. \/ view' = v
          \/ view' = [v EXCEPT !.selection.to = v.cursor, !.selection.state = "InProgress"]
      BY <2>1 DEF w
    <2> HIDE DEF v
    <2>6. view'.offset = v.offset
      BY <2>4, <2>5 DEF Views
    <2> QED
      BY <1>0, <1>10, <2>4, <2>6, OffsetKept DEF MoveCursorTo, screenVars, gridVars
  <1>11. CASE EnterVisualMode
    <2>1. view'.offset = view.offset
      BY <1>0, <1>11 DEF EnterVisualMode, Views
    <2> QED
      BY <1>0, <1>11, <2>1, OffsetKept DEF EnterVisualMode, screenVars, gridVars
  <1>12. CASE MousePress
    <2>1. PICK y \in 0..(page - 1), state \in {"Waiting", "InProgress"} :
            LET line == y - view.offset
                v == [view EXCEPT !.cursor = IF view.mode = "Insert" THEN @ ELSE line]
            IN  view' = [(IF state = "Waiting" THEN ClearSelection(v, TRUE) ELSE v)
                            EXCEPT !.selection = Selected(line, line, state)]
      BY <1>12 DEF MousePress
    <2> DEFINE line == y - view.offset
               c == IF view.mode = "Insert" THEN view.cursor ELSE line
               v == [view EXCEPT !.cursor = c]
               w == IF state = "Waiting" THEN ClearSelection(v, TRUE) ELSE v
    <2>2. view' = [w EXCEPT !.selection = Selected(line, line, state)]
      BY <2>1
    <2>3. c \in Int
      BY <2>1, TypeFacts
    <2> HIDE DEF c
    <2>4. v \in Views /\ v.offset = view.offset
      BY <1>0, <2>3 DEF Views
    <2> HIDE DEF v
    <2>5. w \in Views /\ w.offset = view.offset
      BY <2>4, ClearSelectionView
    <2> HIDE DEF w, line
    <2>6. view'.offset = view.offset
      BY <2>2, <2>5 DEF Views
    <2> QED
      BY <1>0, <1>12, <2>6, OffsetKept DEF MousePress, screenVars, gridVars
  <1>13. CASE MouseMove
    <2>1. PICK y \in 0..(page - 1) :
            LET line == y - view.offset
                shown == MakeVisible([view EXCEPT !.cursor = line], line, 0, Geometry)
            IN  \/ view' = [view EXCEPT !.selection = Selected(line, line, "Waiting")]
                \/ \E v \in {shown, view} :
                      view' = [v EXCEPT
                         !.cursor = line,
                         !.mode = IF view.mode = "Insert" THEN "Insert" ELSE "Visual",
                         !.selection = Selected(view.selection.from, line, "InProgress")]
      BY <1>13 DEF MouseMove
    <2> DEFINE line == y - view.offset
               w == [view EXCEPT !.cursor = line]
               shown == MakeVisible(w, line, 0, Geometry)
    <2>2. line \in Int
      BY <1>0, <2>1
    <2>3. w \in Views /\ w.offset = view.offset
      BY <1>0, <2>2 DEF Views
    <2>4. shown \in Views /\ (shown.offset = view.offset \/ shown.offset <= Geometry.seen)
      <3> HIDE DEF w, line
      <3> QED
        BY <1>0, <2>2, <2>3, MakeVisibleView
    <2>5. view'.offset \in {view.offset, shown.offset}
      <3>1. view'.offset = view.offset \/ \E v \in {shown, view} : view'.offset = v.offset
        <4> HIDE DEF shown
        <4> QED
          BY <1>0, <2>1, <2>4 DEF Views, shown
      <3> QED
        BY <3>1
    <2>6. view'.offset = view.offset \/ view'.offset <= Geometry.seen
      <3> HIDE DEF shown
      <3> QED
        BY <2>4, <2>5
    <2> QED
      BY <1>0, <1>13, <2>6, OffsetKept DEF MouseMove, screenVars, gridVars
  <1>14. CASE MouseRelease
    <2>1. view'.offset = view.offset
      BY <1>0, <1>14 DEF MouseRelease, Views
    <2> QED
      BY <1>0, <1>14, <2>1, OffsetKept DEF MouseRelease, screenVars, gridVars
  <1>15. CASE UNCHANGED vars
    BY <1>15 DEF OffsetInHistory, vars, Seen
  <1> QED
    BY <1>1, <1>2, <1>3, <1>4, <1>5, <1>6, <1>7, <1>8, <1>9, <1>10, <1>11, <1>12, <1>13, <1>14, <1>15
    DEF Next

\* Whatever happens, but a resize that makes the page higher, does not take the
\* viewport out of the history: output on either screen or the status line, a
\* screen switch, a reset, ED 3 and what the user does, for every page size and
\* history limit.
THEOREM ViewportOffsetStays == Spec => OffsetStays
  <1>1. TypeOK /\ TypeOK' /\ [Next]_vars => [OffsetInHistory /\ page' <= page => OffsetInHistory']_vars
    BY OffsetStep
  <1>2. Spec => []TypeOK
    BY ViewportTypes
  <1> QED
    BY <1>1, <1>2, PTL DEF Spec, OffsetStays

\* Without a resize the viewport never reaches beyond the history of the screen
\* that is shown, as Grid::render() asserts, for every page size, history limit
\* and sequence of output, resets, screen switches and user input.
THEOREM ViewportOffset == "resize" \notin Ops => (Spec => []OffsetInHistory)
  <1> SUFFICES ASSUME "resize" \notin Ops PROVE Spec => []OffsetInHistory
    OBVIOUS
  <1>1. Init => TypeOK /\ OffsetInHistory
    <2>1. Init => OffsetInHistory
      BY DEF Init, OffsetInHistory, Seen
    <2> QED
      BY <2>1, TypeInit
  <1>2. TypeOK /\ OffsetInHistory /\ [Next]_vars => TypeOK' /\ OffsetInHistory'
    BY TypeStep, OffsetStep
  <1> QED
    BY <1>1, <1>2, PTL DEF Spec

-----------------------------------------------------------------------------
(* Text stays where the user sees it. *)

\* onViewportChanged() pulls a cursor outside of the page onto it.
LEMMA CursorFollows ==
  ASSUME NEW v \in Views, NEW g \in Geometries, v.mode # "Insert",
         NEW w, w = OnViewportChanged(v, g)
  PROVE  /\ -v.offset <= v.cursor /\ v.cursor <= g.page - 1 - v.offset => w.cursor = v.cursor
         /\ v.cursor < -v.offset => w.cursor = -v.offset
  <1> DEFINE c == v.cursor
             o == v.offset
             h == g.page
             x == Clamp(c, -o, h - 1 - o)
  <1>1. c \in Int /\ o \in Nat /\ h \in Nat /\ h > 0
    BY DEF Views, Geometries
  <1>2. w.cursor = x
    BY DEF OnViewportChanged, Views
  <1> HIDE DEF c, o, h
  <1>3. /\ -o <= c /\ c <= h - 1 - o => x = c
        /\ c < -o => x = -o
    BY <1>1 DEF Clamp, Higher, Lower
  <1> HIDE DEF x
  <1> QED BY <1>2, <1>3 DEF c, o, h

\* The first half of onBufferScrolled(): while the history is looked at, the viewport
\* moves with the text, and so does the cursor, as far as the history reaches.
LEMMA FollowTextPins ==
  ASSUME NEW v \in Views, NEW n \in Nat, NEW h \in Nat, NEW g \in Geometries,
         g.seen = h, ~g.alt, v.offset <= h, NEW w, w = FollowText(v, n, g)
  PROVE  /\ w \in Views /\ w.mode = v.mode /\ w.selection = v.selection
         /\ v.offset # 0 => \/ w.offset = v.offset + n
                            \/ w.offset = h /\ h < v.offset + n
         /\ v.mode # "Insert" /\ v.cursor \in (-v.offset)..(g.page - 1 - v.offset) =>
              w.cursor = v.cursor - n \/ -h > v.cursor - n
  <1> DEFINE c == v.cursor - n
             x == v.offset
             o == Lower(x + n, h)
             p == g.page
             moved == [v EXCEPT !.cursor = c]
             there == [moved EXCEPT !.offset = o]
  <1>1. x \in Nat /\ v.cursor \in Int /\ c \in Int /\ p \in Nat /\ p > 0
    BY DEF Views, Geometries
  <1>2. o \in Nat /\ o <= h /\ o \in 0..h /\ (o = x + n \/ (o = h /\ h < x + n))
    BY <1>1 DEF Lower
  <1> HIDE DEF c, x, o, p
  <1>3. /\ moved \in Views /\ moved.cursor = c /\ moved.offset = x
        /\ moved.mode = v.mode /\ moved.selection = v.selection
    BY <1>1 DEF Views, x
  <1>4. /\ there \in Views /\ there.cursor = c /\ there.offset = o
        /\ there.mode = v.mode /\ there.selection = v.selection
    BY <1>1, <1>2 DEF Views
  <1>5. w = IF x # 0 \/ v.mode = "Normal" THEN ViewportScrollUp(moved, n, g) ELSE moved
    BY DEF FollowText, c, x
  <1>6. ViewportScrollUp(moved, n, g) = ScrollTo(moved, o, g)
    BY <1>3 DEF ViewportScrollUp, o
  <1>7. ScrollTo(moved, o, g) = IF o = x THEN moved ELSE OnViewportChanged(there, g)
    BY <1>2, <1>3 DEF ScrollTo
  <1>8. w = moved \/ (w = OnViewportChanged(there, g) /\ o # x)
    BY <1>5, <1>6, <1>7
  <1>9. x # 0 => (w = moved /\ o = x) \/ w = OnViewportChanged(there, g)
    BY <1>5, <1>6, <1>7
  <1> HIDE DEF moved, there
  <1>10. /\ OnViewportChanged(there, g) \in Views
         /\ OnViewportChanged(there, g).offset = o /\ OnViewportChanged(there, g).mode = v.mode
    BY <1>4, OnViewportChangedView
  <1>11. OnViewportChanged(there, g).selection = v.selection
    BY <1>4 DEF OnViewportChanged, Views
  <1>12. w \in Views /\ w.mode = v.mode /\ w.selection = v.selection
    BY <1>3, <1>8, <1>10, <1>11
  <1>13. x # 0 => w.offset = x + n \/ (w.offset = h /\ h < x + n)
    BY <1>2, <1>3, <1>9, <1>10
  <1>14. ASSUME v.mode # "Insert", -x <= v.cursor, v.cursor <= p - 1 - x
         PROVE  w.cursor = c \/ -h > c
    <2>1. CASE w = moved
      BY <1>3, <2>1
    <2>2. CASE w = OnViewportChanged(there, g)
      <3>1. -o <= c => w.cursor = c
        <4>1. c <= p - 1 - o
          BY <1>1, <1>2, <1>14 DEF c
        <4> QED BY <1>4, <1>14, <2>2, <4>1, CursorFollows DEF p
      <3>2. c < -o => o = h
        BY <1>1, <1>2, <1>14 DEF c
      <3> QED BY <1>1, <1>2, <3>1, <3>2
    <2> QED BY <1>8, <2>1, <2>2
  <1>15. v.mode # "Insert" /\ v.cursor \in (-x)..(p - 1 - x) => w.cursor = c \/ -h > c
    BY <1>1, <1>14
  <1> QED BY <1>12, <1>13, <1>15 DEF c, x, p

\* Selection::applyScroll(): the selection moves with the text.
LEMMA ApplyScrollPins ==
  ASSUME NEW v \in Views, NEW n \in Nat, NEW h \in Nat, NEW pressed \in BOOLEAN,
         NEW w, w = ApplyScroll(v, n, h, pressed)
  PROVE  /\ w.offset = v.offset /\ w.cursor = v.cursor
         /\ v.selection # None /\ v.mode # "Visual" =>
              \/ w.selection = None
              \/ /\ w.selection.from = Higher(v.selection.from - n, -h)
                 /\ w.selection.to = Higher(v.selection.to - n, -h)
  <1> DEFINE s == v.selection
             a == Higher(s.from - n, -h)
             b == Higher(s.to - n, -h)
             moved == [v EXCEPT !.selection.from = a, !.selection.to = b]
  <1>1. s \in Selections /\ v \in Views
    BY DEF Views
  <1>2. w = IF s = None THEN v ELSE IF s.from > -h /\ s.to > -h THEN moved ELSE ClearSelection(v, pressed)
    BY DEF ApplyScroll
  <1> HIDE DEF a, b
  <1>3. /\ moved.offset = v.offset /\ moved.cursor = v.cursor
        /\ moved.selection.from = a /\ moved.selection.to = b
    BY <1>1 DEF Views, Selections
  <1> HIDE DEF moved
  <1>4. ClearSelection(v, pressed).offset = v.offset /\ ClearSelection(v, pressed).cursor = v.cursor
    BY DEF ClearSelection, Views
  <1>5. v.mode # "Visual" => ClearSelection(v, pressed).selection = None
    BY DEF ClearSelection, Views
  <1> QED BY <1>2, <1>3, <1>4, <1>5 DEF a, b

\* Both halves, for output that scrolls the text by n lines.
LEMMA OutputPins ==
  ASSUME TypeOK, current = "Primary", OffsetInHistory,
         NEW n \in Nat, NEW h \in Nat, history <= h, NEW g \in Geometries,
         g.seen = h, g.page = page, ~g.alt,
         history' = h, base' = base + n, view' = OnBufferScrolled(view, n, g, h)
  PROVE  ViewportPinned /\ CursorPinned /\ SelectionPinned
  <1> DEFINE v == view
             w == FollowText(v, n, g)
             u == ApplyScroll(w, n, h, mouseDown)
  <1>1. v \in Views /\ v.offset \in Nat /\ v.cursor \in Int /\ base \in Int /\ mouseDown \in BOOLEAN
    BY TypeFacts DEF TypeOK
  <1>2. v.offset <= h
    <2>1. screenType = "Primary" /\ history \in Nat
      BY TypeFacts DEF TypeOK
    <2> QED BY <1>1, <2>1 DEF OffsetInHistory, Seen
  <1>3. view' = u
    BY DEF OnBufferScrolled
  <1> HIDE DEF w, u
  <1>4. /\ w \in Views /\ w.mode = v.mode /\ w.selection = v.selection
        /\ v.offset # 0 => w.offset = v.offset + n \/ (w.offset = h /\ h < v.offset + n)
        /\ v.mode # "Insert" /\ v.cursor \in (-v.offset)..(g.page - 1 - v.offset) =>
             w.cursor = v.cursor - n \/ -h > v.cursor - n
    BY <1>1, <1>2, FollowTextPins DEF w
  <1>5. /\ u.offset = w.offset /\ u.cursor = w.cursor
        /\ w.selection # None /\ w.mode # "Visual" =>
             \/ u.selection = None
             \/ /\ u.selection.from = Higher(w.selection.from - n, -h)
                /\ u.selection.to = Higher(w.selection.to - n, -h)
    BY <1>1, <1>4, ApplyScrollPins DEF u
  <1>6. ViewportPinned
    <2>1. v.offset # 0 => u.offset = v.offset + n \/ (u.offset = h /\ h < v.offset + n)
      BY <1>4, <1>5
    <2>2. view.offset # 0 => \/ base' - view'.offset = base - view.offset
                             \/ view'.offset = history' /\ base' - history' > base - view.offset
      BY <1>1, <1>3, <2>1
    <2> QED BY <2>2 DEF ViewportPinned
  <1>7. CursorPinned
    <2>1. v.mode # "Insert" /\ CursorVisible => u.cursor = v.cursor - n \/ -h > v.cursor - n
      BY <1>4, <1>5 DEF CursorVisible
    <2>2. view.mode # "Insert" /\ CursorVisible =>
            base' + view'.cursor = base + view.cursor \/ base' - history' > base + view.cursor
      BY <1>1, <1>3, <2>1
    <2> QED BY <2>2 DEF CursorPinned
  <1>8. SelectionPinned
    <2>1. ASSUME view.selection # None, view.mode # "Visual" PROVE SelectionFollows
      <3> DEFINE a == view.selection.from
                 b == view.selection.to
      <3>1. a \in Int /\ b \in Int
        BY TypeFacts
      <3>2. u.selection = None \/ (u.selection.from = Higher(a - n, -h) /\ u.selection.to = Higher(b - n, -h))
        BY <1>4, <1>5, <2>1
      <3> HIDE DEF a, b
      <3>3. /\ base' + Higher(a - n, -h) = Higher(base + a, base' - h)
            /\ base' + Higher(b - n, -h) = Higher(base + b, base' - h)
        BY <1>1, <3>1 DEF Higher
      <3> QED BY <1>3, <3>2, <3>3 DEF SelectionFollows, a, b
    <2> QED BY <2>1 DEF SelectionPinned
  <1> QED BY <1>6, <1>7, <1>8

\* Every step of output leaves the three positions on their text.
LEMMA OutputStep ==
  ASSUME TypeOK, BufferScroll, current = "Primary", OffsetInHistory, ScrollReported
  PROVE  ViewportPinned /\ CursorPinned /\ SelectionPinned
  <1>1. /\ Geometry \in Geometries /\ history \in Nat /\ capacity \in Nat /\ history <= capacity
        /\ base \in Int /\ screenType = "Primary"
        /\ \A h \in Nat : [Geometry EXCEPT !.seen = h] \in Geometries
    BY TypeFacts DEF TypeOK
  <1>2. /\ Geometry.seen = history /\ Geometry.page = page /\ ~Geometry.alt
        /\ \A h \in Nat : /\ [Geometry EXCEPT !.seen = h].seen = h
                          /\ [Geometry EXCEPT !.seen = h].page = page
                          /\ ~[Geometry EXCEPT !.seen = h].alt
    BY <1>1 DEF Geometry, Seen
  <1>3. CASE MarginScroll
    <2>1. history' = history /\ base' = base + 0 /\ view' = OnBufferScrolled(view, 0, Geometry, history)
      BY <1>1, <1>3 DEF MarginScroll, gridVars
    <2> QED BY <1>1, <1>2, <2>1, OutputPins
  <1>4. ASSUME NEW n \in 1..MaxScroll, PagedScroll(n)
        PROVE  ViewportPinned /\ CursorPinned /\ SelectionPinned
    <2> DEFINE free == capacity - history
               returned == IF free = 0 THEN n ELSE Lower(n, free)
               h == history + Lower(n, free)
               g == [Geometry EXCEPT !.seen = h]
    <2>1. history' = h /\ base' = base + n /\ view' = OnBufferScrolled(view, returned, g, h)
      BY <1>4 DEF PagedScroll
    <2>2. n \in Nat /\ free \in Nat /\ h \in Nat /\ history <= h
      BY <1>1, ViewportAssumption DEF Lower
    <2>3. free = 0 \/ n <= free
      BY <1>1, <2>1, <2>2 DEF ScrollReported
    <2>4. returned = n
      BY <2>2, <2>3 DEF Lower
    <2> HIDE DEF free, returned, h
    <2>5. g \in Geometries /\ g.seen = h /\ g.page = page /\ ~g.alt
      BY <1>1, <1>2, <2>2
    <2> HIDE DEF g
    <2> QED BY <2>1, <2>2, <2>4, <2>5, OutputPins
  <1>5. \A n \in 1..MaxScroll : ~HistorylessScroll(n)
    BY DEF HistorylessScroll
  <1> QED BY <1>3, <1>4, <1>5 DEF BufferScroll

\* Output leaves what the user looks at, the vi cursor and a selection made with the
\* mouse on their text, for every page size, history limit and length of the scroll, in
\* every state that the application and the user can reach (onBufferScrolled()).
THEOREM ViewportTextPinned == Spec => TextPinned
  <1>1. TypeOK /\ [Next]_vars => [ScrollReported => ViewportPinned /\ CursorPinned /\ SelectionPinned]_vars
    BY OutputStep DEF ViewportPinned, CursorPinned, SelectionPinned, OutputToPrimary
  <1> QED
    BY <1>1, ViewportTypes, PTL DEF Spec, TextPinned

=============================================================================
