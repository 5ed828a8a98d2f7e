----------------------------- MODULE StatusLine -----------------------------
(***************************************************************************)
(* The indicator status line: the texts of the configuration are parsed to *)
(* segments of items, an update serializes them to VT sequences and writes *)
(* these to a screen of one line: left, middle, right.                     *)
(*                                                                         *)
(* A configured text is a sequence of tokens: the characters that mean     *)
(* something to the parser, names, and single characters.  A sequence to   *)
(* the screen is <<"char", c, <<>> >>, <<"sgr", "", parameters>>,          *)
(* <<"save", "", <<>> >> or <<"restore", "", <<>> >>.                      *)
(***************************************************************************)
EXTENDS GraphicsRendition

CONSTANTS
  BarColumns,                               \* columns of the page
  LeftTexts, MiddleTexts, RightTexts,       \* names of the texts (see TextOf) a definition may use
  MaxBarSteps                               \* bound: steps of a behaviour

VARIABLE bar

ItemText(words) == <<"{">> \o words \o <<"}">>
TextOf ==
  [empty    |-> <<>>,
   title    |-> ItemText(<<"Title">>),
   framed   |-> <<"a">> \o ItemText(<<"Title", ":", "Left", "=", "<", ",", "Right", "=", ">">>),
   bold     |-> ItemText(<<"InputMode", ":", "Bold", ",", "Italic">>) \o <<"a">>,
   colored  |-> ItemText(<<"Text", ":", "Underline", ",", "text", "=", "b", ",", "Color", "=", "#1">>),
   clock    |-> <<"a">> \o ItemText(<<"Clock", ":", "Faint">>),
   state    |-> ItemText(<<"HistoryLineCount", ":", "CurlyUnderline">>) \o ItemText(<<"ProtectedMode">>) \o ItemText(<<"SearchMode">>),
   prompt   |-> ItemText(<<"SearchPrompt", ":", "DashedUnderline">>),
   tabs     |-> ItemText(<<"Tabs", ":", "Inverse">>) \o <<"a">>,
   active   |-> ItemText(<<"Tabs", ":", "Inverse", ",", "ActiveColor", "=", "#1">>) \o <<"a">>,
   unknown  |-> ItemText(<<"Nothing">>) \o <<"a", "{", "Title">>,
   trace    |-> ItemText(<<"TraceMode", ":", "Bold">>),
   double   |-> ItemText(<<"Title", ":", "DoubleUnderline">>)]

-----------------------------------------------------------------------------
(* interpolated_string.cpp *)

Positions(text, c, from) == {i \in from .. Len(text) : text[i] = c}
FirstOf(S) == CHOOSE i \in S : \A j \in S : i <= j
Until(text, c) == IF Positions(text, c, 1) = {} THEN text ELSE SubSeq(text, 1, FirstOf(Positions(text, c, 1)) - 1)
Behind(text, c) == IF Positions(text, c, 1) = {} THEN <<>> ELSE SubSeq(text, FirstOf(Positions(text, c, 1)) + 1, Len(text))

ParseAttribute(f, attribute) ==
  IF Positions(attribute, "=", 1) # {}
  THEN [f EXCEPT !.attributes = (Until(attribute, "=") :> Behind(attribute, "=")) @@ @]
  ELSE [f EXCEPT !.flags = @ \cup {attribute}]

CommaSeparated(text) ==
  LET pieces == FoldLeft(LAMBDA ps, c : IF c = "," THEN Append(ps, <<>>) ELSE [ps EXCEPT ![Len(ps)] = Append(@, c)], << <<>> >>, text)
  IN  IF Last(pieces) = <<>> THEN Front(pieces) ELSE pieces

TextFragment(words) == [item |-> FALSE, name |-> words, flags |-> {}, attributes |-> <<>>]
ParseInterpolation(text) ==
  FoldLeft(ParseAttribute, [TextFragment(Until(text, ":")) EXCEPT !.item = TRUE], CommaSeparated(Behind(text, ":")))

RECURSIVE ParseInterpolatedString(_), ParseFragments(_, _), ParseClosed(_, _, _)
ParseInterpolatedString(text) ==
  IF text = <<>> THEN <<>>
  ELSE IF Positions(text, "{", 1) = {} THEN <<TextFragment(text)>>
  ELSE ParseFragments(text, FirstOf(Positions(text, "{", 1)))
\* Without a closing brace the rest is one fragment, its opening brace included.
ParseFragments(text, start) ==
  (IF start = 1 THEN <<>> ELSE <<TextFragment(SubSeq(text, 1, start - 1))>>)
  \o IF Positions(text, "}", start) = {} THEN <<ParseInterpolation(SubSeq(text, start, Len(text)))>>
     ELSE ParseClosed(text, start, FirstOf(Positions(text, "}", start)))
ParseClosed(text, start, closing) ==
  <<ParseInterpolation(SubSeq(text, start + 1, closing - 1))>> \o ParseInterpolatedString(SubSeq(text, closing + 1, Len(text)))

-----------------------------------------------------------------------------
(* Items (makeStatusLineItem) *)

FlagNames ==
  ("Bold" :> "Bold") @@ ("Faint" :> "Faint") @@ ("Italic" :> "Italic") @@ ("Underline" :> "Underline")
  @@ ("Blinking" :> "Blinking") @@ ("Inverse" :> "Inverse") @@ ("CrossedOut" :> "CrossedOut")
  @@ ("DoubleUnderline" :> "DoublyUnderlined") @@ ("CurlyUnderline" :> "CurlyUnderlined")
  @@ ("DottedUnderline" :> "DottedUnderline") @@ ("DashedUnderline" :> "DashedUnderline")
  @@ ("RapidBlinking" :> "RapidBlinking") @@ ("Overline" :> "Overline")
ItemNames ==
  {"CellSGR", "CellTextUTF8", "CellTextUTF32", "Clock", "Command", "HistoryLineCount", "Hyperlink", "InputMode",
   "ProtectedMode", "SearchMode", "SearchPrompt", "Title", "Text", "VTType", "Tabs"}

AttributeOf(f, key) == IF <<key>> \in DOMAIN f.attributes THEN f.attributes[<<key>>] ELSE <<>>
Known(f) ==
  /\ Len(f.name) = 1 /\ f.name[1] \in ItemNames
  /\ f.name[1] = "Command" => <<"Program">> \in DOMAIN f.attributes
MakeStatusLineItem(f) ==
  [kind |-> f.name[1], text |-> AttributeOf(f, "text"),
   flags |-> {FlagNames[n] : n \in {m \in DOMAIN FlagNames : <<m>> \in f.flags}},
   left |-> AttributeOf(f, "Left"), right |-> AttributeOf(f, "Right"),
   color |-> AttributeOf(f, "Color"), background |-> AttributeOf(f, "BackgroundColor"), active |-> AttributeOf(f, "ActiveColor"), behind |-> AttributeOf(f, "ActiveBackground")]
PlainText(words) ==
  [kind |-> "Text", text |-> words, flags |-> {}, left |-> <<>>, right |-> <<>>, color |-> <<>>, background |-> <<>>, active |-> <<>>, behind |-> <<>>]

\* Names that are not known are left out.
ItemsOf(kept) == [i \in DOMAIN kept |-> IF kept[i].item THEN MakeStatusLineItem(kept[i]) ELSE PlainText(kept[i].name)]
ParseStatusLineSegment(text) == ItemsOf(SelectSeq(ParseInterpolatedString(text), LAMBDA f : ~f.item \/ Known(f)))
ParseStatusLineDefinition(l, m, r) ==
  [left |-> ParseStatusLineSegment(TextOf[l]), middle |-> ParseStatusLineSegment(TextOf[m]), right |-> ParseStatusLineSegment(TextOf[r])]

-----------------------------------------------------------------------------
(* VTSerializer *)

Chars(words) == [i \in DOMAIN words |-> <<"char", words[i], <<>> >>]
Sgr(ps) == << <<"sgr", "", ps>> >>
SaveRendition == << <<"save", "", <<>> >> >>
RestoreRendition == << <<"restore", "", <<>> >> >>

MakeColor(color, base) == IF color = <<>> THEN <<>> ELSE Sgr(<<P(base + 8), Sub(2), Sub(1), Sub(1), Sub(1)>>)

\* The order is that of the enumeration.
FlagNumbers ==
  << <<"Bold", <<P(1)>> >>, <<"Faint", <<P(2)>> >>, <<"Italic", <<P(3)>> >>, <<"Underline", <<P(4)>> >>,
     <<"Blinking", <<P(5)>> >>, <<"Inverse", <<P(7)>> >>, <<"CrossedOut", <<P(9)>> >>,
     <<"DoublyUnderlined", <<P(4), Sub(4)>> >>, <<"CurlyUnderlined", <<P(4), Sub(3)>> >>,
     <<"DottedUnderline", <<P(4), Sub(1)>> >>, <<"DashedUnderline", <<P(4), Sub(5)>> >>,
     <<"Overline", <<P(53)>> >>, <<"RapidBlinking", <<P(6)>> >> >>
ApplyStyles(item) ==
  FoldLeft(LAMBDA out, m : IF m[1] \in item.flags THEN out \o Sgr(m[2]) ELSE out,
           MakeColor(item.color, 30) \o MakeColor(item.background, 40), FlagNumbers)

\* Tabs are numbered; a colour for the active one is written even when no styles are asked for.
TabText(item, w, i) ==
  IF i = w.active /\ (item.active # <<>> \/ item.behind # <<>>)
  THEN SaveRendition \o MakeColor(item.active, 30) \o MakeColor(item.behind, 40) \o Chars(<<ToString(i)>>) \o RestoreRendition
  ELSE Chars(<<ToString(i)>>)
TabsText(item, w) ==
  FoldLeft(LAMBDA out, i : (IF out = <<>> THEN <<>> ELSE out \o Chars(<<" ">>)) \o TabText(item, w, i), <<>>, [i \in 1 .. w.tabs |-> i])

Block == "block"       \* a character of three bytes
VisitItem(item, w) ==
  CASE item.kind = "Title" -> Chars([i \in 1 .. w.title |-> "t"])
    [] item.kind = "Text" -> Chars(item.text)
    [] item.kind = "Clock" -> Chars(<<"1", "2">>)
    [] item.kind = "InputMode" -> Chars(<<w.mode>>)
    [] item.kind = "ProtectedMode" -> IF w.allowed THEN <<>> ELSE Chars(<<"P">>)
    [] item.kind = "SearchMode" -> IF w.editing THEN Chars(<<"S">>) ELSE <<>>
    [] item.kind = "SearchPrompt" -> IF w.editing THEN Chars(<<"?", Block>>) ELSE <<>>
    [] item.kind = "HistoryLineCount" ->
         IF ~w.primary THEN <<>> ELSE IF w.offset > 0 THEN Chars(<<ToString(w.offset), "/", "9">>) ELSE Chars(<<"9">>)
    [] item.kind = "Tabs" -> TabsText(item, w)
    [] OTHER -> Chars(<<"x">>)           \* what a command, a cell, a hyperlink or the terminal's name gives

Surrounded(item, text, styled) ==
  CASE text = <<>> -> <<>>
    [] text # <<>> /\ styled -> SaveRendition \o ApplyStyles(item) \o Chars(item.left) \o text \o Chars(item.right) \o RestoreRendition
    [] text # <<>> /\ ~styled -> Chars(item.left) \o text \o Chars(item.right)
SerializeItem(item, w, styled) == Surrounded(item, VisitItem(item, w), styled)
SerializeToVT(segment, w, styled) == FoldLeft(LAMBDA out, item : out \o SerializeItem(item, w, styled), <<>>, segment)

\* std::string::size()
SizeOf(out) == FoldLeft(LAMBDA n, t : n + (IF t[1] # "char" THEN 5 ELSE IF t[2] = Block THEN 3 ELSE 1), 0, out)

-----------------------------------------------------------------------------
(* The screen of the status line *)

SetColumn(s, column) == [s EXCEPT !.column = IF column < BarColumns THEN column ELSE BarColumns - 1, !.wrap = FALSE]
BlankBar(attributes) == [c \in 1 .. BarColumns |-> [ch |-> " ", attributes |-> attributes]]

\* A character; behind the last column the line is scrolled away.
PutAt(s, c) ==
  [s EXCEPT !.row[s.column + 1] = [ch |-> c, attributes |-> s.attributes],
            !.column = IF @ + 1 < BarColumns THEN @ + 1 ELSE @, !.wrap = s.column + 1 = BarColumns]
PutChar(s, c) == PutAt(IF s.wrap THEN [s EXCEPT !.row = BlankBar(s.attributes), !.column = 0] ELSE s, c)
WriteToStatusLine(s, out) ==
  FoldLeft(LAMBDA t, o : CASE o[1] = "char" -> PutChar(t, o[2])
                           [] o[1] = "sgr" -> [t EXCEPT !.attributes = ApplySGR(@, o[3])]
                           [] o[1] = "save" -> [t EXCEPT !.saved = t.attributes]
                           [] OTHER -> [t EXCEPT !.attributes = t.saved], s, out)

IndicatorColor(w) == CASE ~w.focused -> Indexed(1) [] w.focused /\ w.mode = "I" -> Indexed(2) [] w.focused /\ w.mode = "N" -> Indexed(3) [] OTHER -> Indexed(4)

RightColumn(s) == BarColumns - SizeOf(SerializeToVT(s.definition.right, s.w, FALSE))

Center == BarColumns \div 2 - 1
WriteCentered(s, size) ==
  IF Center > size \div 2
  THEN WriteToStatusLine(SetColumn(s, Center - size \div 4), SerializeToVT(s.definition.middle, s.w, TRUE))
  ELSE SetColumn(s, Center - size \div 4)
WriteMiddle(s) == WriteCentered(s, SizeOf(SerializeToVT(s.definition.middle, s.w, FALSE)))
WriteRightAt(s, at, out) ==
  IF at > 0 THEN [WriteToStatusLine(SetColumn(s, at), out) EXCEPT !.past = out # <<>> /\ s.column > at] ELSE s
WriteRight(s) == WriteRightAt(s, RightColumn(s), SerializeToVT(s.definition.right, s.w, TRUE))

Cleared(s, attributes) == [SetColumn(s, 0) EXCEPT !.attributes = attributes, !.row = BlankBar(attributes), !.past = FALSE]
WriteRest(s) == IF s.definition.middle # <<>> \/ s.definition.right # <<>> THEN WriteRight(WriteMiddle(s)) ELSE s
UpdateIndicatorStatusLine(s) ==
  [WriteRest(WriteToStatusLine(Cleared(s, [s.attributes EXCEPT !.fg = IndicatorColor(s.w), !.bg = IndicatorColor(s.w)]),
                               SerializeToVT(s.definition.left, s.w, TRUE)))
   EXCEPT !.shown = <<s.left, s.middle, s.right, s.w>>]

-----------------------------------------------------------------------------
(* Actions *)

BarWorld == [title |-> 1, mode |-> "I", focused |-> TRUE, allowed |-> TRUE, editing |-> FALSE, primary |-> TRUE, offset |-> 0, tabs |-> 1, active |-> 1]

BarInit ==
  bar = [left |-> "title", middle |-> "empty", right |-> "clock", definition |-> ParseStatusLineDefinition("title", "empty", "clock"), w |-> BarWorld, row |-> BlankBar(NoAttributes), column |-> 0, wrap |-> FALSE,
         attributes |-> NoAttributes, saved |-> NoAttributes, past |-> FALSE, shown |-> <<>>, steps |-> MaxBarSteps]

BarStep(next) == bar.steps > 0 /\ bar' = [next EXCEPT !.steps = @ - 1]
Define(l, m, r) ==
  UpdateIndicatorStatusLine([bar EXCEPT !.left = l, !.middle = m, !.right = r, !.definition = ParseStatusLineDefinition(l, m, r)])
SetStatusLineDefinition(l, m, r) == BarStep(Define(l, m, r))
ResetStatusLineDefinition == BarStep(Define("title", "empty", "clock"))
\* A frame: fillRenderBufferStatusLine()
RenderStatusLine == bar' = UpdateIndicatorStatusLine(bar)
\* What the items show changes, until the next frame only there.
ChangeTitle(n) == BarStep([bar EXCEPT !.w.title = n])
ChangeMode(m) == BarStep([bar EXCEPT !.w.mode = m])
ChangeFocus == BarStep([bar EXCEPT !.w.focused = ~@])
ChangeInput == BarStep([bar EXCEPT !.w.allowed = ~@])
ChangeSearch == BarStep([bar EXCEPT !.w.editing = ~@])
ScrollOrSwitch(primary, offset) == BarStep([bar EXCEPT !.w.primary = primary, !.w.offset = offset])
ChangeTabs(active) == BarStep([bar EXCEPT !.w.tabs = 2, !.w.active = active])

BarNext ==
  \/ \E l \in LeftTexts, m \in MiddleTexts, r \in RightTexts : SetStatusLineDefinition(l, m, r)
  \/ ResetStatusLineDefinition
  \/ RenderStatusLine
  \/ \E n \in {0, 3} : ChangeTitle(n)
  \/ \E m \in {"N", "V"} : ChangeMode(m)
  \/ ChangeFocus \/ ChangeInput \/ ChangeSearch
  \/ \E primary \in BOOLEAN, offset \in 0 .. 1 : ScrollOrSwitch(primary, offset)
  \/ \E active \in 1 .. 2 : ChangeTabs(active)

-----------------------------------------------------------------------------
(* Properties *)

\* A frame in which nothing that is shown changed leaves the status line as it was: no style of an item
\* outlives it, neither to the text behind it nor to the next update, which only sets the colours
\* (Terminal::updateIndicatorStatusLine, VTSerializer).
StableLine == bar'.shown = bar.shown => bar'.row = bar.row

\* The text of the right segment ends in the last column, whatever styles and items it has.
RightAtEdge ==
  bar.shown = <<bar.left, bar.middle, bar.right, bar.w>> =>
    \A text \in {SelectSeq(SerializeToVT(bar.definition.right, bar.w, FALSE), LAMBDA t : t[1] = "char")} :
        Len(text) < BarColumns => \A i \in DOMAIN text : bar.row[BarColumns - Len(text) + i].ch = text[i][2]

\* The first item of the line has the flags that its text in the configuration names, if no other segment
\* is written over it: the flags pass two translations, to CellFlag and to SGR.
StyleShown ==
  bar.shown = <<bar.left, "empty", "empty", bar.w>> /\ TextOf[bar.left] # <<>> =>
    \A f \in {Head(ParseInterpolatedString(TextOf[bar.left]))} :
        f.item /\ Known(f) /\ VisitItem(bar.definition.left[1], bar.w) # <<>> =>
          \A n \in DOMAIN FlagNames : <<n>> \in f.flags => FlagNames[n] \in bar.row[1].attributes.flags

\* The right segment is shown only if the rest ends before it.  Not so: where the rest ends is not looked at.
RightAfterRest == ~bar.past

\* Every item of the text is known.  Not so for the trace mode of the default configuration.
ItemsKnown == \A f \in ToSet(ParseInterpolatedString(TextOf[bar.left])) : f.item => Known(f)
=============================================================================
