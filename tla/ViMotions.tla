----------------------------- MODULE ViMotions -----------------------------
(***************************************************************************)
(* The motions and text objects of the vi modes (ViCommands): where the    *)
(* cursor goes from a place in a text.  The text is Top .. Bottom lines of *)
(* one history line and the page, a cell is empty ("") or holds a letter   *)
(* ("a"), punctuation (".") or a bracket; "W" is two cells wide.  A line   *)
(* that begins with "." is marked, as prompts are.                         *)
(*                                                                         *)
(* The jump list (JumpHistory): places that motions recorded, kept as line *)
(* offsets while output scrolls the text underneath them.  Its lines are   *)
(* numbered from the first ever written; the page has one line below the   *)
(* cursor's when the text does not yet scroll.                             *)
(***************************************************************************)
EXTENDS Integers, Sequences, SequencesExt, FiniteSetsExt, TLC

CONSTANTS ScrollOff,       \* lines kept visible around the cursor
          WideAtEnd,       \* whether a wide character may end a line
          MaxJumps         \* bound on the operations of a jump list

VARIABLES mv,              \* a text and a motion in it
          jump             \* the jump list

Top == -1
Bottom == 1
PageLines == 2
PageColumns == 4
RightMargin == PageColumns - 1
MaxMotionCount == 2
TextLines == {<<"", "", "", "">>, <<"(", "a", ")", "">>, <<".", "(", "", "a">>, <<"{", "", "", "">>}
             \cup (IF WideAtEnd THEN {<<"a", "(", "W", "">>} ELSE {<<"a", "a", ")", "a">>})
At(l, c) == [line |-> l, column |-> c]
Locations == [line : Top .. Bottom, column : 0 .. RightMargin]
Precedes(a, b) == a.line < b.line \/ (a.line = b.line /\ a.column < b.column)

Line(l) == mv.text[l + 2]
Cell(p) == IF p.column \in 0 .. RightMargin THEN Line(p.line)[p.column + 1] ELSE "outside"
IsCellEmpty(p) == Cell(p) = ""
IsLineEmpty(l) == \A c \in 1 .. PageColumns : Line(l)[c] = ""
Marked(l) == Line(l)[1] = "."
RightMostNonEmptyAt(l) == At(l, Max({c \in 0 .. RightMargin : c = 0 \/ Line(l)[c + 1] # ""}))
CellWidthAt(p) == IF Cell(p) = "W" THEN 2 ELSE 1

MotionsInit ==
  mv = [text |-> <<>>, from |-> At(0, 0), to |-> At(0, 0), range |-> <<At(0, 0), At(0, 0)>>, motion |-> "none",
        count |-> 0, hangs |-> FALSE]
Setup(text, cursor) ==
  /\ mv.text = <<>>
  /\ mv' = [mv EXCEPT !.text = text, !.from = cursor, !.to = cursor]

(***************************************************************************)
(* Steps of one cell, and words.                                           *)
(***************************************************************************)
Prev(p) ==
  IF p.column > 0 THEN At(p.line, p.column - 1)
  ELSE IF p.line > Top THEN LET r == RightMostNonEmptyAt(p.line - 1).column
                            IN  At(p.line - 1, IF r + 1 < PageColumns THEN r + 1 ELSE r)
  ELSE p
Next1(p) ==
  IF p.column < RightMargin THEN At(p.line, p.column + CellWidthAt(p))
  ELSE IF p.line < Bottom THEN At(p.line + 1, 0)
  ELSE p
SnapToCell(p) == At(p.line, Max({c \in 0 .. p.column : c = 0 \/ Line(p.line)[c + 1] # ""}))
Times(n, Step(_), p) == IF n = 1 THEN Step(p) ELSE Step(Step(p))

WordSkipClass(p) ==
  CASE Cell(p) = "a" -> "Word" [] Cell(p) = "W" -> "Keyword" [] Cell(p) = "" -> "Whitespace" [] OTHER -> "Other"
WordDelimited(p) == Cell(p) \notin {"a", "W"}
RECURSIVE SkipUntilWordBegin(_, _)
SkipUntilWordBegin(p, initial) ==
  LET class == WordSkipClass(p)
      blank == class = "Whitespace" /\ initial # "Whitespace"
  IN  IF p = At(Bottom, RightMargin) \/ ~(class = initial \/ blank) THEN p
      ELSE SkipUntilWordBegin(Next1(p), IF blank THEN "Whitespace" ELSE initial)
WordForward(p) == SkipUntilWordBegin(Next1(p), WordSkipClass(p))
RECURSIVE SkipToWordBegin(_, _)
SkipToWordBegin(p, class) ==
  LET left == WordSkipClass(Prev(p))
      blank == WordSkipClass(Prev(Prev(p)))
  IN  IF p = At(Top, 0) \/ left # class THEN p
      ELSE SkipToWordBegin(Prev(p), IF class = "Whitespace" /\ blank # "Whitespace" THEN blank ELSE class)
FindBeginOfWordAt(p, jumpOver) == SkipToWordBegin(p, WordSkipClass(IF jumpOver THEN Prev(p) ELSE p))
FindEndOfWordAt(p, jumpOver) ==
  LET start == IF p.column + 1 < PageColumns /\ jumpOver THEN p.column + 1 ELSE p.column
      delimited(c) == WordDelimited(At(p.line, c))
      \* The column before the current one, which is the same at first.
      left(c) == IF c = start THEN c ELSE c - 1
  IN  At(p.line, left(Min({c \in start .. RightMargin : c = RightMargin \/ (~delimited(left(c)) /\ delimited(c))})))
BigWordForward(p) ==
  LET start == IF p.column < RightMargin THEN p.column + 1 ELSE p.column
      empty(c) == IsCellEmpty(At(p.line, c))
  IN  At(p.line, Min({c \in start .. RightMargin : c = RightMargin \/ (c > start /\ ~empty(c) /\ empty(c - 1))}))
BigWordEndForward(p) ==
  LET start == IF p.column < RightMargin THEN p.column + 1 ELSE p.column
      empty(c) == IsCellEmpty(At(p.line, c))
      stop == Min({c \in start .. RightMargin : c = RightMargin \/ (c > start /\ empty(c) /\ ~empty(c - 1))})
  IN  At(p.line, IF stop > start THEN stop - 1 ELSE start)
BigWordBackward(p) ==
  LET start == IF p.column > 0 THEN p.column - 1 ELSE 0
      empty(c) == IsCellEmpty(At(p.line, c))
      stop == Max({c \in 0 .. start : c = 0 \/ (c < start /\ empty(c) /\ ~empty(c + 1))})
  IN  At(p.line, IF stop = 0 THEN 0 ELSE stop + 1)

(***************************************************************************)
(* Matching pairs.  The walk counts brackets, the one at the cursor too.   *)
(***************************************************************************)
MatchingPair == ("(" :> ")") @@ (")" :> "(") @@ ("{" :> "}") @@ ("}" :> "{")
RECURSIVE Walk(_, _, _, _, _)
Walk(Step(_), open, close, p, depth) ==
  LET now == IF Cell(p) = open THEN depth + 1 ELSE IF Cell(p) = close THEN depth - 1 ELSE depth
  IN  IF (Cell(p) \in {open, close} /\ now = 0) \/ Step(p) = p THEN p ELSE Walk(Step, open, close, Step(p), now)
FindMatchingPairLeft(p, left, right, depth) == Walk(Prev, right, left, p, depth)
FindMatchingPairRight(p, left, right, depth) == Walk(Next1, left, right, p, depth)
FindMatchingPairFrom(p) ==
  CASE Cell(p) \in {"(", "{"} -> FindMatchingPairRight(p, Cell(p), MatchingPair[Cell(p)], 0)
    [] Cell(p) \in {")", "}"} -> FindMatchingPairLeft(p, MatchingPair[Cell(p)], Cell(p), 0)
    [] OTHER -> p
ExpandMatchingPair(p, scope, left, right) ==
  LET depth == IF left # right THEN 1 ELSE -1
      a == FindMatchingPairLeft(p, left, right, depth)
      b == FindMatchingPairRight(p, left, right, depth)
  IN  IF scope = "Inner" THEN <<IF Cell(a) = left THEN Next1(a) ELSE a, IF Cell(b) = right THEN Prev(b) ELSE b>> ELSE <<a, b>>

(***************************************************************************)
(* Lines.                                                                  *)
(***************************************************************************)
LineUpTo(l, Stop(_)) == Max({i \in Top .. l : i = Top \/ Stop(i)})
LineDownTo(l, Stop(_)) == Min({i \in l .. Bottom : i = Bottom \/ Stop(i)})
Up1(l) == IF l > Top THEN l - 1 ELSE l
Down1(l) == IF l < Bottom THEN l + 1 ELSE l
HoldsOnly(l, ch) == Line(l)[1] = ch /\ \A c \in 2 .. PageColumns : Line(l)[c] = ""
GlobalCharUp(p, ch, n) ==
  LET step(q) == At(LineUpTo(IF p.column = 0 THEN Up1(q.line) ELSE q.line, LAMBDA l : HoldsOnly(l, ch)), 0) IN Times(n, step, p)
GlobalCharDown(p, ch, n) ==
  LET step(q) == At(LineDownTo(IF p.column = 0 THEN Down1(q.line) ELSE q.line, LAMBDA l : HoldsOnly(l, ch)), 0) IN Times(n, step, p)
LineMarkUp(p, n) ==
  LET step(q) == At(LineUpTo(IF Marked(q.line) THEN Up1(q.line) ELSE q.line, Marked), 0) IN Times(n, step, p)
LineMarkDown(p, n) ==
  LET step(q) == At(LineDownTo(IF p.column = 0 THEN Down1(q.line) ELSE q.line, Marked), 0) IN Times(n, step, p)
ParagraphBackward(p) ==
  LET start == IF p.line > 0 THEN p.line - 1 ELSE p.line
  IN  SnapToCell(At(LineUpTo(start, LAMBDA l : l < start /\ IsLineEmpty(l) /\ ~IsLineEmpty(l + 1)), 0))
ParagraphForward(p) ==
  LET start == Down1(p.line)
  IN  SnapToCell(At(LineDownTo(start, LAMBDA l : l > start /\ IsLineEmpty(l) /\ ~IsLineEmpty(l - 1)), 0))
LineMotion(motion, p, n, scroll) ==
  CASE motion = "LineDown" -> At(Min({p.line + n, Bottom}), p.column)
    [] motion = "LineUp" -> At(Max({p.line - n, Top}), p.column)
    [] motion = "PageDown" -> At(Min({p.line + PageLines \div 2, Bottom}), p.column)
    [] motion = "PageUp" -> At(Max({p.line - PageLines \div 2, Top}), p.column)
    [] motion = "FileBegin" -> SnapToCell(At(Top, 0))
    [] motion = "FileEnd" -> SnapToCell(At(Bottom, 0))
    [] motion = "PageTop" -> SnapToCell(At(ScrollOff - scroll, 0))
    [] motion = "PageBottom" -> SnapToCell(At(PageLines - ScrollOff - 1 - scroll, 0))
    [] motion = "LinesCenter" -> At(PageLines \div 2 - 1 - scroll, p.column)
    [] motion = "LineBegin" -> At(p.line, 0)
    [] motion = "LineEnd" -> RightMostNonEmptyAt(p.line)
    [] motion = "LineTextBegin" -> At(p.line, Min({c \in 0 .. RightMargin : c = RightMargin \/ ~IsCellEmpty(At(p.line, c))}))
    [] motion = "ScreenColumn" -> SnapToCell(At(p.line, Min({n - 1, RightMargin})))

(***************************************************************************)
(* Characters and search.  Nowhere stands for no result.                   *)
(***************************************************************************)
LastChar == "a"
Nowhere == [line |-> Top - 1, column |-> 0]
ToCharRight1(p) ==
  LET found == {c \in Next1(p).column .. RightMargin : Cell(At(p.line, c)) = LastChar}
  IN  IF p = Nowhere \/ Next1(p).line # p.line \/ found = {} THEN Nowhere ELSE At(p.line, Min(found))
\* Only the line above ends the search to the left.
ToCharLeftHangs(p) == p.line = Top /\ \A c \in 0 .. Prev(p).column : Cell(At(p.line, c)) # LastChar
ToCharLeft1(p) ==
  LET found == {c \in 0 .. Prev(p).column : Cell(At(p.line, c)) = LastChar}
  IN  IF p = Nowhere \/ Prev(p).line # p.line \/ found = {} THEN Nowhere ELSE At(p.line, Max(found))
OrHere(p, result, delta) == IF result = Nowhere THEN p ELSE At(result.line, result.column + delta)
Search(p) == LET found == {q \in Locations : ~Precedes(q, p) /\ Cell(q) = LastChar}
             IN  IF found = {} THEN Nowhere ELSE CHOOSE q \in found : \A r \in found : ~Precedes(r, q)
SearchReverse1(p) == LET found == {q \in Locations : ~Precedes(p, q) /\ Cell(q) = LastChar}
                    IN  IF found = {} THEN Nowhere ELSE CHOOSE q \in found : \A r \in found : ~Precedes(q, r)
SearchResultForward(p, n) ==
  LET step(q) == IF q = Nowhere THEN q ELSE Search(Next1(q)) IN OrHere(p, Times(n, step, p), 0)
SearchResultBackward(p, n) ==
  LET step(q) == IF q = Nowhere THEN q ELSE SearchReverse1(Prev(q)) IN OrHere(p, Times(n, step, p), 0)

(***************************************************************************)
(* translateToCellLocationAndRecord, and the text objects.                 *)
(***************************************************************************)
LineMotions == {"LineDown", "LineUp", "PageDown", "PageUp", "FileBegin", "FileEnd", "LineBegin", "LineEnd", "LineTextBegin",
                "ScreenColumn"}
ViewMotions == {"PageTop", "PageBottom", "LinesCenter"}
OtherMotions == {"CharLeft", "CharRight", "WordForward", "WordBackward", "WordEndForward", "BigWordForward",
                 "BigWordEndForward", "BigWordBackward", "ParenthesisMatching", "GlobalCurlyOpenUp", "GlobalCurlyOpenDown",
                 "LineMarkUp", "LineMarkDown", "ParagraphBackward", "ParagraphForward", "SearchResultForward",
                 "SearchResultBackward", "ToCharRight", "TillBeforeCharRight", "ToCharLeft", "TillAfterCharLeft"}
TranslateToCellLocation(motion, p, n) ==
  CASE motion = "CharLeft" -> Times(n, Prev, p)
    [] motion = "CharRight" -> Times(n, Next1, p)
    [] motion = "WordForward" -> Times(n, WordForward, p)
    [] motion = "WordBackward" -> LET step(q) == FindBeginOfWordAt(q, TRUE) IN Times(n, step, p)
    [] motion = "WordEndForward" -> FindEndOfWordAt(p, TRUE)         \* from the cursor, whatever the count
    [] motion = "BigWordForward" -> BigWordForward(p)
    [] motion = "BigWordEndForward" -> BigWordEndForward(p)
    [] motion = "BigWordBackward" -> BigWordBackward(p)
    [] motion = "ParenthesisMatching" -> FindMatchingPairFrom(p)
    [] motion = "GlobalCurlyOpenUp" -> GlobalCharUp(p, "{", n)
    [] motion = "GlobalCurlyOpenDown" -> GlobalCharDown(p, "{", n)
    [] motion = "LineMarkUp" -> LineMarkUp(p, n)
    [] motion = "LineMarkDown" -> LineMarkDown(p, n)
    [] motion = "ParagraphBackward" -> ParagraphBackward(p)
    [] motion = "ParagraphForward" -> ParagraphForward(p)
    [] motion = "SearchResultForward" -> SearchResultForward(p, n)
    [] motion = "SearchResultBackward" -> SearchResultBackward(p, n)
    [] motion = "ToCharRight" -> OrHere(p, Times(n, ToCharRight1, p), 0)
    [] motion = "TillBeforeCharRight" -> OrHere(p, Times(n, ToCharRight1, p), -1)
    [] motion = "ToCharLeft" -> OrHere(p, Times(n, ToCharLeft1, p), 0)
    [] motion = "TillAfterCharLeft" -> OrHere(p, Times(n, ToCharLeft1, p), 1)
HangsIn(motion, p, n) ==
  motion \in {"ToCharLeft", "TillAfterCharLeft"} /\ (ToCharLeftHangs(p) \/ (n = 2 /\ ToCharLeft1(p) # Nowhere /\ ToCharLeftHangs(ToCharLeft1(p))))
TextObjects == {"LineMark", "Paragraph", "RoundBrackets", "Word", "BigWord"}
TranslateToCellRange(scope, object, p) ==
  CASE object = "RoundBrackets" -> ExpandMatchingPair(p, scope, "(", ")")
    [] object = "Word" -> <<FindBeginOfWordAt(p, FALSE), FindEndOfWordAt(p, FALSE)>>
    [] object = "BigWord" ->
         LET run(c, d) == \A i \in c .. d : ~IsCellEmpty(At(p.line, i))
         IN  <<At(p.line, Min({c \in 0 .. p.column : run(c, p.column - 1)})),
               At(p.line, Max({c \in p.column .. RightMargin : run(p.column + 1, c)}))>>
    [] object = "Paragraph" ->
         <<At(LineUpTo(p.line, LAMBDA l : IsLineEmpty(l - 1)), p.column), At(LineDownTo(p.line, IsLineEmpty), p.column)>>
    [] object = "LineMark" ->
         LET a == LineUpTo(p.line, Marked)
             b == LineDownTo(p.line, Marked)
             inner(l, d) == IF scope = "Inner" /\ l # p.line THEN l + d ELSE l
         IN  <<At(inner(a, 1), 0), At(inner(b, -1), RightMargin)>>

Idle == mv.text # <<>> /\ mv.motion = "none"
MoveCursor(motion, n) ==
  /\ Idle
  /\ mv' = [mv EXCEPT !.motion = motion, !.count = n, !.hangs = HangsIn(motion, mv.from, n),
                      !.to = IF HangsIn(motion, mv.from, n) THEN mv.from ELSE TranslateToCellLocation(motion, mv.from, n)]
MoveByLine(motion, n) ==
  /\ Idle
  /\ \E scroll \in IF motion \in ViewMotions THEN 0 .. -Top ELSE {0} :
        mv' = [mv EXCEPT !.motion = motion, !.count = n, !.to = LineMotion(motion, mv.from, n, scroll)]
SelectObject(scope, object) ==
  /\ Idle
  /\ mv' = [mv EXCEPT !.motion = object, !.range = TranslateToCellRange(scope, object, mv.from), !.count = IF scope = "Inner" THEN 1 ELSE 2]

MotionsNext ==
  \/ \E a, b, c \in TextLines : a \in {<<"(", "a", ")", "">>, <<".", "(", "", "a">>} /\ \E cursor \in Locations : Setup(<<a, b, c>>, cursor)
  \/ \E n \in 1 .. MaxMotionCount : \E motion \in OtherMotions : MoveCursor(motion, n)
  \/ \E n \in 1 .. MaxMotionCount : \E motion \in LineMotions \cup ViewMotions : MoveByLine(motion, n)
  \/ \E scope \in {"Inner", "A"} : \E object \in TextObjects : SelectObject(scope, object)

(***************************************************************************)
(* Whatever the text, the count and the motion, the cursor stays in the    *)
(* history and the page: a location outside of them is looked up in the    *)
(* ring and in the cells of a line without a further test.                 *)
(***************************************************************************)
MotionInGrid == mv.to \in Locations /\ mv.range[1] \in Locations /\ mv.range[2] \in Locations

(***************************************************************************)
(* A motion that looks forward never goes back, and one that looks back    *)
(* never goes forward.                                                     *)
(***************************************************************************)
MotionDirection ==
  /\ mv.motion \in {"CharRight", "WordForward", "WordEndForward", "BigWordForward", "BigWordEndForward", "LineDown", "PageDown",
                    "SearchResultForward", "ToCharRight"} => ~Precedes(mv.to, mv.from)
  /\ mv.motion \in {"CharLeft", "WordBackward", "BigWordBackward", "LineUp", "PageUp", "GlobalCurlyOpenUp", "LineMarkUp",
                    "ParagraphBackward", "ToCharLeft"} => ~Precedes(mv.from, mv.to)

\* Two brackets belong together: what is between them is balanced.
Opened(p, q) == LET within(ch) == Cardinality({r \in Locations : ~Precedes(r, p) /\ ~Precedes(q, r) /\ Cell(r) = ch})
                IN  within("(") - within(")")
Pair(p, q) == /\ Cell(p) = "(" /\ Cell(q) = ")" /\ Precedes(p, q) /\ Opened(p, q) = 0
              /\ \A r \in Locations : ~Precedes(r, p) /\ Precedes(r, q) => Opened(p, r) > 0

(***************************************************************************)
(* % on a bracket goes to the bracket it belongs to, in either direction   *)
(* and across lines (findMatchingPairFrom).                                *)
(***************************************************************************)
FindsItsPair ==
  mv.motion = "ParenthesisMatching" =>
    \A q \in Locations : Cell(q) \in {"(", ")"} /\ (Pair(mv.from, q) \/ Pair(q, mv.from)) => mv.to = q

(***************************************************************************)
(* The text object of a bracket pair, selected from between brackets that  *)
(* belong together, is the innermost such pair (expandMatchingPair counts  *)
(* in both directions from the cursor).                                    *)
(***************************************************************************)
ObjectIsPair ==
  (mv.motion = "RoundBrackets" /\ mv.count = 2 /\ Cell(mv.from) \notin {"(", ")"}) =>
    \A p, q \in Locations :
      (Cell(p) = "(" /\ Precedes(p, mv.from) /\ Cell(q) = ")" /\ Precedes(mv.from, q) /\ Pair(p, q))
        => Pair(mv.range[1], mv.range[2]) /\ ~Precedes(mv.range[1], p) /\ ~Precedes(q, mv.range[2])

(***************************************************************************)
(* What does not hold of this code.                                        *)
(***************************************************************************)
\* Every motion ends; F and T on the topmost line do not when the character is not there.
MotionEnds == ~mv.hangs

\* A bracket without its pair leaves the cursor where it is; it goes to the end of the text.
UnmatchedStays == mv.motion = "ParenthesisMatching" /\ mv.to # mv.from => Cell(mv.to) \in DOMAIN MatchingPair

\* The count of e is the number of words.
CountCounts == mv.motion = "WordEndForward" /\ mv.count = 2 => mv.to = FindEndOfWordAt(FindEndOfWordAt(mv.from, TRUE), TRUE)

\* Forward to a paragraph or mark is never back; from the last line it is.
ForwardByParagraph == mv.motion \in {"ParagraphForward", "LineMarkDown", "GlobalCurlyOpenDown", "TillBeforeCharRight"} => ~Precedes(mv.to, mv.from)

\* The object of a pair selected from its bracket is this pair; the bracket at the cursor is counted again.
ObjectFromBracket ==
  mv.motion = "RoundBrackets" /\ mv.count = 2 /\ Cell(mv.from) = "(" => \A q \in Locations : Pair(mv.from, q) => mv.range[2] = q

-----------------------------------------------------------------------------
(* The jump list.                                                          *)

JumpInit ==
  jump = [history |-> <<>>, current |-> 0, offset |-> 0,
          places |-> <<>>,              \* the lines that were recorded, by number
          scrolled |-> 0, atBottom |-> FALSE,
          steady |-> TRUE,              \* since the first recorded place every linefeed scrolled, and was told
          cursor |-> 0, fault |-> FALSE, before |-> <<>>, steps |-> 0]

(***************************************************************************)
(* Operations of the list.  The last place was given as an offset; before  *)
(* it is used the lines fed since then are subtracted.                     *)
(***************************************************************************)
ApplyOffset(s) == [s EXCEPT !.history = [i \in DOMAIN @ |-> @[i] - s.offset], !.offset = 0]
AddUncorrected(s, line) == [s EXCEPT !.history = Append(@, line), !.places = Append(@, line + s.scrolled)]
Add(s, line) == AddUncorrected(ApplyOffset(s), line)
JumpToLast(s) ==
  LET t == ApplyOffset(s)
      skipped == IF t.history # <<>> /\ Last(t.history) = t.cursor
                 THEN [t EXCEPT !.history = Front(@), !.places = Front(@)] ELSE t
  IN  CASE t.history = <<>> -> [t EXCEPT !.fault = TRUE]
        [] t.history # <<>> /\ skipped.history = <<>> -> skipped
        [] OTHER -> [skipped EXCEPT !.history = Append(Front(@), t.cursor), !.places = Append(Front(@), t.cursor + t.scrolled),
                                    !.current = Len(skipped.history), !.cursor = Last(skipped.history)]
\* An index of Len(history), counted from 0, is past the end.
JumpToMark(s, current) == [s EXCEPT !.current = current, !.fault = current \notin 0 .. Len(s.history) - 1,
                                    !.cursor = IF current \in 0 .. Len(s.history) - 1 THEN s.history[current + 1] ELSE @]
JumpToMarkBackward(s) ==
  LET t == ApplyOffset(s) IN JumpToMark(t, IF t.current = 0 THEN Len(t.history) - 1 ELSE t.current - 1)
JumpToMarkForward(s) ==
  LET t == ApplyOffset(s) IN JumpToMark(t, IF t.current = Len(t.history) THEN 0 ELSE t.current + 1)

(***************************************************************************)
(* What calls it.  A fault ends the program.                               *)
(***************************************************************************)
CanJump == jump.steps < MaxJumps /\ ~jump.fault
Counted(s, what) == [s EXCEPT !.steps = @ + 1, !.before = <<what, jump.cursor>>]
\* A motion that records where it goes.
RecordedMotion(line) ==
  /\ CanJump
  /\ jump' = Counted([Add(jump, line) EXCEPT !.cursor = line], "motion")
Jump(what, result) ==
  /\ CanJump
  /\ jump' = Counted(result, what)
\* A linefeed tells the list of a line as soon as there is a history; the text scrolls when the cursor is at the bottom, and with it
\* the vi cursor.
Linefeed ==
  /\ CanJump
  /\ jump' = Counted([jump EXCEPT !.offset = IF jump.scrolled > 0 THEN @ + 1 ELSE @,
                                  !.scrolled = IF jump.atBottom THEN @ + 1 ELSE @,
                                  !.cursor = IF jump.atBottom THEN @ - 1 ELSE @,
                                  !.atBottom = TRUE,
                                  !.steady = jump.history = <<>> \/ (@ /\ jump.atBottom /\ jump.scrolled > 0)], "linefeed")
\* Output moves the cursor up again.
CursorUp ==
  /\ CanJump /\ jump.atBottom
  /\ jump' = Counted([jump EXCEPT !.atBottom = FALSE], "up")

JumpNext ==
  \/ \E line \in {0, 1} : RecordedMotion(line)
  \/ Jump("last", JumpToLast(jump))
  \/ jump.history # <<>> /\ Jump("back", JumpToMarkBackward(jump))
  \/ jump.history # <<>> /\ Jump("forward", JumpToMarkForward(jump))
  \/ Linefeed \/ CursorUp

(***************************************************************************)
(* Two jumps to the last point lead back to where the first one began      *)
(* (jumpToLast leaves the place it came from in the list).                 *)
(***************************************************************************)
LastJumpReturns ==
  (jump.before # <<>> /\ jump.before[1] = "last" /\ jump'.before # jump.before /\ jump'.before[1] = "last"
   /\ ~jump'.fault /\ jump.cursor # jump.before[2]) => jump'.cursor = jump.before[2]

\* A recorded place is the line it was recorded at.
PlacesFollowText == \A i \in DOMAIN jump.history : jump.history[i] - jump.offset = jump.places[i] - jump.scrolled

(***************************************************************************)
(* While every linefeed scrolls, a recorded place stays the line it was    *)
(* recorded at, also when places are added and used in between             *)
(* (JumpHistory::applyOffset).                                             *)
(***************************************************************************)
PlacesFollowScrolling == jump.steady => PlacesFollowText

(***************************************************************************)
(* What does not hold of this code: PlacesFollowText on its own, and that  *)
(* no jump reads outside the list.                                         *)
(***************************************************************************)
JumpsInside == ~jump.fault
=============================================================================
