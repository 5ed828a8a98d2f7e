-------------------------- MODULE GraphicsRendition --------------------------
(***************************************************************************)
(* Select Graphic Rendition: how the parameters of SGR change the cursor's *)
(* attributes (Screen.cpp, CellUtil.h), how DECRQSS reports them, and how  *)
(* a screenshot writes the attributes of its cells (VTWriter.cpp).  The    *)
(* report and the screenshot are SGR again: both are read back here.       *)
(***************************************************************************)
EXTENDS Integers, Sequences, SequencesExt, FiniteSets, TLC

CONSTANTS
  MaxSgr,           \* bound: SGR sequences received
  MaxShotCells,     \* bound: cells of a screenshot
  ShotColors        \* names of the colours a screenshot meets (see ShotColor)

VARIABLE sgr        \* _cursor.graphicsRendition, _savedGraphicsRenditions and a line to write

(***************************************************************************)
(* Colours and attributes.                                                 *)
(***************************************************************************)
UndefinedColor == <<"undefined">>
DefaultColor == <<"default">>
Indexed(n) == <<"indexed", n % 256>>
Bright(n) == <<"bright", n>>
RGB(r, g, b) == <<"rgb", r, g, b>>
NoAttributes == [fg |-> DefaultColor, bg |-> DefaultColor, ul |-> DefaultColor, flags |-> {}]

Underlines == {"Underline", "DoublyUnderlined", "CurlyUnderlined", "DottedUnderline", "DashedUnderline"}
Blinks == {"Blinking", "RapidBlinking"}

\* makeCellFlags(): what an SGR number does to the flags of a cell.
Enables == (1 :> "Bold") @@ (2 :> "Faint") @@ (3 :> "Italic") @@ (4 :> "Underline")
  @@ (5 :> "Blinking") @@ (6 :> "RapidBlinking") @@ (7 :> "Inverse") @@ (8 :> "Hidden")
  @@ (9 :> "CrossedOut") @@ (21 :> "DoublyUnderlined") @@ (51 :> "Framed") @@ (53 :> "Overline")
Disables == (22 :> {"Bold", "Faint"}) @@ (23 :> {"Italic"}) @@ (24 :> Underlines)
  @@ (25 :> Blinks) @@ (27 :> {"Inverse"}) @@ (28 :> {"Hidden"}) @@ (29 :> {"CrossedOut"})
  @@ (54 :> {"Framed"}) @@ (55 :> {"Overline"})
Rivals(flag) == IF flag \in Underlines THEN Underlines ELSE IF flag \in Blinks THEN Blinks ELSE {}

Enabled(flags, flag) == (flags \ Rivals(flag)) \cup {flag}

(***************************************************************************)
(* Parameters: [n, sub], where sub marks one separated by a colon.         *)
(***************************************************************************)
P(n) == [n |-> n, sub |-> FALSE]
Sub(n) == [n |-> n, sub |-> TRUE]
SubParameterCount(ps, i) ==
  IF ps[i].sub THEN 0
  ELSE Cardinality({k \in (i + 1)..Len(ps) : \A j \in (i + 1)..k : ps[j].sub})

\* parseColor(): the colour at parameter i and the last parameter it used.
AllBytes(ns) == \A k \in DOMAIN ns : ns[k] <= 255
ColorOfSubParameters(ps, i, len) ==
  LET at(k) == ps[i + k].n
      rgb == <<at(len - 2), at(len - 1), at(len)>>
  IN CASE at(1) = 2 /\ len \in {4, 5} -> IF AllBytes(rgb) THEN <<"rgb">> \o rgb ELSE UndefinedColor
       [] at(1) = 5 -> IF at(2) <= 255 THEN Indexed(at(2)) ELSE UndefinedColor
       [] OTHER -> UndefinedColor

\* The form with semicolons.  A third parameter that exists is an index, whatever its value.
ColorOfParameters(ps, i) ==
  LET has(k) == i + k <= Len(ps)
      at(k) == ps[i + k].n
      rgb == <<at(2), at(3), at(4)>>
      fail(k) == [color |-> UndefinedColor, last |-> i + k + 1]
  IN CASE ~has(1) -> fail(0)
       [] has(1) /\ at(1) = 5 ->
            IF has(2) THEN [color |-> Indexed(at(2)), last |-> i + 2] ELSE fail(1)
       [] has(1) /\ at(1) = 2 ->
            IF ~has(4) THEN fail(1)
            ELSE IF AllBytes(rgb) THEN [color |-> <<"rgb">> \o rgb, last |-> i + 4] ELSE fail(4)
       [] OTHER -> fail(1)

ParseColor(ps, i) ==
  LET len == SubParameterCount(ps, i)
      color == IF len = 0 THEN UndefinedColor ELSE ColorOfSubParameters(ps, i, len)
  IN IF color # UndefinedColor THEN [color |-> color, last |-> i + len] ELSE ColorOfParameters(ps, i)

(***************************************************************************)
(* applySGR()                                                              *)
(***************************************************************************)
UnderlineStyle(n) ==
  CASE n = 2 -> "DoublyUnderlined" [] n = 3 -> "CurlyUnderlined" [] n = 4 -> "DottedUnderline"
    [] n = 5 -> "DashedUnderline" [] OTHER -> "Underline"

ColorField == (38 :> "fg") @@ (48 :> "bg") @@ (58 :> "ul")

\* The effect of the parameter at i: the attributes, and the last parameter it used.
ApplyParameter(a, ps, i) ==
  LET n == ps[i].n
      one(b) == [attributes |-> b, last |-> i]
  IN CASE n = 0 -> one(NoAttributes)
       [] n = 4 /\ SubParameterCount(ps, i) = 1 ->
            [attributes |->
               [a EXCEPT !.flags = IF ps[i + 1].n = 0 THEN @ \ Underlines
                                   ELSE Enabled(@, UnderlineStyle(ps[i + 1].n))],
             last |-> i + 1]
       [] n \in DOMAIN ColorField ->
            LET c == ParseColor(ps, i) IN
            [attributes |-> [a EXCEPT ![ColorField[n]] = c.color], last |-> c.last]
       [] n \in DOMAIN Enables -> one([a EXCEPT !.flags = Enabled(@, Enables[n])])
       [] n \in DOMAIN Disables -> one([a EXCEPT !.flags = @ \ Disables[n]])
       [] n \in 30..37 -> one([a EXCEPT !.fg = Indexed(n - 30)])
       [] n \in 40..47 -> one([a EXCEPT !.bg = Indexed(n - 40)])
       [] n = 39 -> one([a EXCEPT !.fg = DefaultColor])
       [] n = 49 -> one([a EXCEPT !.bg = DefaultColor])
       [] n \in 90..97 -> one([a EXCEPT !.fg = Bright(n - 90)])
       [] n \in 100..107 -> one([a EXCEPT !.bg = Bright(n - 100)])
       [] OTHER -> one(a)

RECURSIVE ApplyFrom(_, _, _)
ApplyFrom(a, ps, i) ==
  IF i > Len(ps) THEN a
  ELSE LET e == ApplyParameter(a, ps, i) IN ApplyFrom(e.attributes, ps, e.last + 1)
ApplySGR(a, ps) == IF ps = <<>> THEN NoAttributes ELSE ApplyFrom(a, ps, 1)

(***************************************************************************)
(* DECRQSS "m": vtSequenceParameterString().                               *)
(***************************************************************************)
Plain(ns) == [k \in DOMAIN ns |-> P(ns[k])]
ReportColor(c, base) ==
  CASE c[1] = "indexed" /\ c[2] < 8 -> Plain(<<base + c[2]>>)
    [] c[1] = "indexed" /\ c[2] >= 8 -> Plain(<<base + 8, 5, c[2]>>)
    [] c[1] = "default" -> Plain(<<base + 9>>)
    [] c[1] = "bright" -> Plain(<<base + 60 + c[2]>>)
    [] c[1] = "rgb" -> Plain(<<base + 8, 2, c[2], c[3], c[4]>>)
    [] OTHER -> <<>>
ReportUnderlineColor(c) == IF c[1] = "rgb" THEN Plain(<<58, 2, c[2], c[3], c[4]>>) ELSE <<>>

Masks ==
  << <<"Bold", Plain(<<1>>)>>, <<"Faint", Plain(<<2>>)>>, <<"Italic", Plain(<<3>>)>>,
     <<"Underline", Plain(<<4>>)>>, <<"Blinking", Plain(<<5>>)>>, <<"RapidBlinking", Plain(<<6>>)>>,
     <<"Inverse", Plain(<<7>>)>>, <<"Hidden", Plain(<<8>>)>>, <<"CrossedOut", Plain(<<9>>)>>,
     <<"DoublyUnderlined", <<P(4), Sub(2)>> >>, <<"CurlyUnderlined", <<P(4), Sub(3)>> >>,
     <<"DottedUnderline", <<P(4), Sub(4)>> >>, <<"DashedUnderline", <<P(4), Sub(5)>> >>,
     <<"Framed", Plain(<<51>>)>>, <<"Overline", Plain(<<53>>)>> >>
ReportFlags(flags) ==
  FoldLeft(LAMBDA ps, m : IF m[1] \in flags THEN ps \o m[2] ELSE ps, <<>>, Masks)

ReportSGR(a) ==
  <<P(0)>> \o ReportColor(a.fg, 30) \o ReportColor(a.bg, 40) \o ReportUnderlineColor(a.ul)
  \o ReportFlags(a.flags)

(***************************************************************************)
(* VTWriter: the SGR parameters not written yet, those written last, and   *)
(* the stream, in which 0 stands for the text of one cell.                 *)
(***************************************************************************)
MaxParameterCount == 16
NewWriter == [sgr |-> <<>>, last |-> <<>>, out |-> <<>>]

SgrFlush(w) ==
  IF w.sgr = <<>> THEN w
  ELSE [sgr |-> <<>>, last |-> w.sgr,
        out |-> IF w.sgr = w.last THEN w.out ELSE Append(w.out, Plain(w.sgr))]
\* sgrAdd(n) writes a number once when it follows itself.
SgrAdd(w, n) ==
  IF n = 0 THEN [w EXCEPT !.sgr = <<0>>]
  ELSE LET again == w.sgr # <<>> /\ Last(w.sgr) = n
           added == IF again THEN w ELSE [w EXCEPT !.sgr = Append(@, n)]
       IN IF Len(added.sgr) = MaxParameterCount THEN SgrFlush(added) ELSE added
\* sgrAdd(n, values...)
SgrAddAll(w, ns) ==
  LET room == IF Len(w.sgr) + Len(ns) - 1 > MaxParameterCount THEN SgrFlush(w) ELSE w
  IN [room EXCEPT !.sgr = @ \o ns]
SgrAddEach(w, ns) == FoldLeft(LAMBDA v, n : SgrAdd(v, n), w, ns)

Numbers(ps) == [k \in DOMAIN ps |-> ps[k].n]
SetForegroundColor(w, c) ==
  LET ns == Numbers(ReportColor(c, 30)) IN IF Len(ns) = 1 THEN SgrAdd(w, ns[1]) ELSE SgrAddAll(w, ns)
SetBackgroundColor(w, c) == SgrAddEach(w, Numbers(ReportColor(c, 40)))
WriteCell(w) == LET f == SgrFlush(w) IN [f EXCEPT !.out = Append(@, <<>>)]

WriteLine(w, line) ==
  LET colored(v, c) == SetBackgroundColor(SetForegroundColor(v, c.fg), c.bg)
      cell(v, c) == WriteCell(colored(SgrAdd(v, IF c.bold THEN 1 ELSE 22), c))
      first == line.cells[1]
      body == IF line.trivial
              THEN FoldLeft(LAMBDA v, c : WriteCell(v), colored(w, first), line.cells)
              ELSE FoldLeft(cell, w, line.cells)
  IN SgrAdd(body, 0)
Screenshot(lines) == FoldLeft(LAMBDA w, l : SgrFlush(WriteLine(w, l)), NewWriter, lines).out

\* What a terminal shows for the stream: the attributes of each cell.
Replayed(out) ==
  FoldLeft(LAMBDA r, ps : IF ps = <<>> THEN [r EXCEPT !.cells = Append(@, r.now)]
                         ELSE [r EXCEPT !.now = ApplySGR(@, ps)],
          [now |-> NoAttributes, cells |-> <<>>], out).cells

(***************************************************************************)
(* The program's sequences.  38:5 with nothing behind it reads past the    *)
(* parameters and is left out.                                             *)
(***************************************************************************)
Single == {0, 1, 2, 3, 4, 5, 6, 7, 8, 9, 21, 22, 23, 24, 25, 27, 28, 29, 31, 37, 39, 40, 47, 49,
           51, 53, 54, 55, 58, 59, 90, 97, 100, 107}
WellFormed ==
  {<<>>} \cup {Plain(<<n>>) : n \in Single} \cup {<<P(4), Sub(n)>> : n \in 0..6}
  \cup {Plain(<<f, 5, 3>>) : f \in {38, 48, 58}} \cup {Plain(<<f, 5, 200>>) : f \in {38, 48}}
  \cup {Plain(<<f, 2, 0, 0, 255>>) : f \in {38, 48, 58}} \cup {<<P(48), Sub(2), Sub(0), Sub(7), Sub(7), Sub(1)>>}
  \cup {<<P(38), Sub(5), Sub(9)>>, <<P(38), Sub(2), Sub(1), Sub(4), Sub(9)>>}
  \cup {Plain(<<1, 38, 5, 9, 4, 48, 2, 5, 5, 5, 9>>)}
Malformed ==
  {Plain(<<38>>), Plain(<<38, 5>>), Plain(<<38, 5, 300>>), Plain(<<48, 2, 1, 4, 300>>),
   Plain(<<38, 2, 1, 4>>), <<P(38), Sub(2), Sub(1), Sub(4)>>, <<P(38), Sub(3), Sub(1), Sub(4), Sub(5), Sub(6)>>}

ShotColor == [Default |-> DefaultColor, Red |-> Indexed(1), Index45 |-> Indexed(45), Magenta |-> Indexed(5),
              Bright4 |-> Bright(4), Sea |-> RGB(1, 9, 7), Black |-> RGB(0, 0, 0), Gray |-> RGB(9, 9, 9)]
ShotCells == [fg : {ShotColor[n] : n \in ShotColors}, bg : {ShotColor[n] : n \in ShotColors}, bold : BOOLEAN]

GraphicsInit == sgr = [stage |-> "cursor", received |-> 0, cursor |-> NoAttributes, saved |-> NoAttributes,
                       bad |-> FALSE, lines |-> <<>>]

OnCursor == sgr.stage = "cursor" /\ sgr.received < MaxSgr
Set(a) == sgr' = [sgr EXCEPT !.received = @ + 1, !.cursor = a, !.bad = FALSE]
SGR(ps) == OnCursor /\ Set(ApplySGR(sgr.cursor, ps))
SGRMalformed(ps) ==
  OnCursor /\ sgr' = [sgr EXCEPT !.received = @ + 1, !.cursor = ApplySGR(@, ps), !.bad = TRUE]
SGRSAVE == OnCursor /\ sgr' = [sgr EXCEPT !.received = @ + 1, !.saved = sgr.cursor, !.bad = FALSE]
SGRRESTORE == OnCursor /\ Set(sgr.saved)
DECSCA(protect) ==
  OnCursor /\ Set([sgr.cursor EXCEPT !.flags = IF protect THEN @ \cup {"CharacterProtected"}
                                                ELSE @ \ {"CharacterProtected"}])

\* The lines of the page a screenshot is taken of.
StartPage == sgr.stage = "cursor" /\ sgr.received = 0 /\ sgr' = [sgr EXCEPT !.stage = "page"]
CellsOnPage == FoldLeft(LAMBDA n, l : n + Len(l.cells), 0, sgr.lines)
AddLine(c, trivial) ==
  /\ sgr.stage = "page" /\ CellsOnPage < MaxShotCells
  /\ sgr' = [sgr EXCEPT !.lines = Append(@, [cells |-> <<c>>, trivial |-> trivial])]
AddCell(c) ==
  /\ sgr.stage = "page" /\ CellsOnPage < MaxShotCells /\ sgr.lines # <<>>
  /\ Last(sgr.lines).trivial => c = Last(sgr.lines).cells[1]
  /\ sgr' = [sgr EXCEPT !.lines[Len(sgr.lines)].cells = Append(@, c)]

GraphicsNext ==
  \/ \E ps \in WellFormed : SGR(ps)
  \/ \E ps \in Malformed : SGRMalformed(ps)
  \/ SGRSAVE
  \/ SGRRESTORE
  \/ \E protect \in BOOLEAN : DECSCA(protect)
  \/ StartPage
  \/ \E c \in ShotCells, trivial \in BOOLEAN : AddLine(c, trivial)
  \/ \E c \in ShotCells : AddCell(c)

(***************************************************************************)
(* Properties.                                                             *)
(***************************************************************************)
\* Attributes a report can be expected to carry: no colour left undefined by a malformed SGR, an
\* underline colour that is the default or RGB, and no protection, which DECSCA reports.
Reportable(a) ==
  /\ UndefinedColor \notin {a.fg, a.bg, a.ul}
  /\ a.ul[1] \in {"default", "rgb"}
  /\ "CharacterProtected" \notin a.flags

\* The answer to DECRQSS "m", sent back as SGR on top of any other rendition, brings the reported
\* rendition back: vtSequenceParameterString() and applySGR() agree on every attribute.
ReportRestoresRendition ==
  sgr.stage = "cursor" /\ sgr.received > 0 /\ Reportable(sgr.cursor) =>
    \A other \in {NoAttributes, [fg |-> Bright(1), bg |-> RGB(1, 1, 1), ul |-> RGB(3, 3, 3),
                                 flags |-> {"Bold", "CurlyUnderlined", "RapidBlinking", "Framed"}]} :
      ApplySGR(other, ReportSGR(sgr.cursor)) = sgr.cursor

\* A rendition has one underline and one speed of blinking, whatever was set before (makeCellFlags()).
OneUnderline ==
  Cardinality(sgr.cursor.flags \cap Underlines) <= 1 /\ Cardinality(sgr.cursor.flags \cap Blinks) <= 1

\* A screenshot, shown by a terminal, has the colours and the weight of the page's cells: the writer
\* leaves a parameter out only where it changes nothing.
ScreenshotKeepsColors ==
  sgr.stage = "page" =>
    LET cells == FlattenSeq([k \in DOMAIN sgr.lines |-> [i \in DOMAIN sgr.lines[k].cells |->
                   [cell |-> sgr.lines[k].cells[i], trivial |-> sgr.lines[k].trivial]]])
        shown == Replayed(Screenshot(sgr.lines))
    IN /\ Len(shown) = Len(cells)
       /\ \A i \in DOMAIN cells :
            /\ shown[i].fg = cells[i].cell.fg /\ shown[i].bg = cells[i].cell.bg
            /\ cells[i].trivial \/ (("Bold" \in shown[i].flags) <=> cells[i].cell.bold)

(***************************************************************************)
(* What the code does not keep.                                            *)
(***************************************************************************)
\* A malformed colour changes no flag: parseColor() skips what belongs to it.
MalformedColorHasNoFlags == [][sgr'.bad => sgr'.cursor.flags = sgr.cursor.flags]_sgr
\* SGR leaves the protection of DECSCA alone.
RenditionKeepsProtection ==
  [][\A ps \in WellFormed : SGR(ps) => ("CharacterProtected" \in sgr.cursor.flags <=> "CharacterProtected" \in sgr'.cursor.flags)]_sgr
\* An underline colour set by an index is reported.
UnderlineColorReported ==
  sgr.stage = "cursor" /\ UndefinedColor \notin {sgr.cursor.fg, sgr.cursor.bg, sgr.cursor.ul}
    => ApplySGR(NoAttributes, ReportSGR(sgr.cursor)).ul = sgr.cursor.ul
=============================================================================
