---------------------------- MODULE ColorPalettes ----------------------------
(***************************************************************************)
(* The colour palette: the colours programs set, query and reset with OSC  *)
(* 4, 10..14, 104 and 110..119, the saved palettes of XTPUSHCOLORS and     *)
(* XTPOPCOLORS, and the report of a changed colour scheme.  The channels   *)
(* of a colour are handled alike; the model keeps one, a byte.             *)
(***************************************************************************)
EXTENDS Integers, Sequences, SequencesExt, FiniteSets

CONSTANT MaxPaletteSteps    \* bound: sequences received

VARIABLE pals   \* Terminal::_colorPalette, _defaultColorPalette, _savedColorPalettes and the last answer

MaxColorPaletteSaveStackSize == 10
NoColor == -3
CellForegroundColor == -1
CellBackgroundColor == -2

(***************************************************************************)
(* Names of the dynamic colours and the numbers of the commands that set   *)
(* them (COLORFG .. COLORMOUSEBG).                                         *)
(***************************************************************************)
CommandNumbers ==
  [DefaultForegroundColor |-> 10, DefaultBackgroundColor |-> 11, TextCursorColor |-> 12,
   MouseForegroundColor |-> 13, MouseBackgroundColor |-> 14]
SetDynamicColorCommand(name) ==
  IF name = "HighlightForegroundColor" THEN 19 ELSE IF name = "HighlightBackgroundColor" THEN 17
  ELSE CommandNumbers[name]
Settable == DOMAIN CommandNumbers
DynamicColors == Settable \cup {"HighlightForegroundColor", "HighlightBackgroundColor"}

Indices == {0, 1, 44}       \* the entries of ColorPalette::palette programs touch in the model
DefaultColorPalette(i) ==
  LET red == (i - 16) \div 36          \* 16..231 are a cube of 6 x 6 x 6 colours
  IN IF i = 0 THEN 0 ELSE IF i = 1 THEN 198 ELSE IF red = 0 THEN 0 ELSE 40 * red + 55
DarkPalette ==
  [dynamic |-> [DefaultForegroundColor |-> 208, DefaultBackgroundColor |-> 26, TextCursorColor |-> CellForegroundColor,
                MouseForegroundColor |-> 128, MouseBackgroundColor |-> 128,
                HighlightForegroundColor |-> CellForegroundColor, HighlightBackgroundColor |-> 64],
   palette |-> [i \in Indices |-> DefaultColorPalette(i)]]
LightPalette == [DarkPalette EXCEPT !.dynamic.DefaultForegroundColor = 26, !.dynamic.DefaultBackgroundColor = 208,
                                    !.dynamic.TextCursorColor = CellBackgroundColor]

(***************************************************************************)
(* Texts of colours: <<form, digits>>.                                     *)
(***************************************************************************)
ParseColorText(text) ==
  CASE text[1] \in {"rgb:RR", "#RR"} -> text[2]
    [] text[1] = "#R" -> (text[2] * 16) % 256
    [] OTHER -> NoColor              \* "?", numbers, other words, and "rgb:RRRR"
SetDynamicColorValue(color) == <<"rgb:RRRR", 257 * color>>

RequestDynamicColor(p, name) ==
  LET c == p.dynamic[name]
      shown == IF name # "TextCursorColor" THEN c
               ELSE IF c = CellForegroundColor THEN p.dynamic.DefaultForegroundColor
               ELSE IF c = CellBackgroundColor THEN p.dynamic.DefaultBackgroundColor ELSE c
  IN IF shown < 0 THEN <<>> ELSE << <<SetDynamicColorCommand(name), SetDynamicColorValue(shown)>> >>
SetDynamicColor(p, name, color) == [p EXCEPT !.dynamic[name] = color]
ResetDynamicColor(p, d, name) == [p EXCEPT !.dynamic[name] = d.dynamic[name]]

\* OSC 4: pairs of an index and a colour or "?"; what follows a bad word is not read.
QueryOrSetKeepingIndex(p, words) ==
  FoldLeft(LAMBDA s, w :
      CASE ~s.ok -> s
        [] s.ok /\ s.index < 0 ->
             IF w[1] = "number" /\ w[2] \in 0..255 THEN [s EXCEPT !.index = w[2]] ELSE [s EXCEPT !.ok = FALSE]
        [] s.ok /\ s.index >= 0 /\ w[1] = "?" ->
             [s EXCEPT !.replies = Append(@, <<s.index, <<"rgb:RRRR", 257 * s.p.palette[s.index]>>>>)]
        [] s.ok /\ s.index >= 0 /\ w[1] # "?" ->
             IF ParseColorText(w) = NoColor THEN [s EXCEPT !.ok = FALSE]
             ELSE [s EXCEPT !.p.palette[s.index] = ParseColorText(w), !.index = -1],
    [p |-> p, index |-> -1, ok |-> TRUE, replies |-> <<>>], words)
QueryOrSetColorPalette(p, words) ==
  FoldLeft(LAMBDA s, w :
      CASE ~s.ok -> s
        [] s.ok /\ s.index < 0 ->
             IF w[1] = "number" /\ w[2] \in 0..255 THEN [s EXCEPT !.index = w[2]] ELSE [s EXCEPT !.ok = FALSE]
        [] s.ok /\ s.index >= 0 /\ w[1] = "?" ->
             [s EXCEPT !.replies = Append(@, <<s.index, <<"rgb:RRRR", 257 * s.p.palette[s.index]>>>>), !.index = -1]
        [] s.ok /\ s.index >= 0 /\ w[1] # "?" ->
             IF ParseColorText(w) = NoColor THEN [s EXCEPT !.ok = FALSE]
             ELSE [s EXCEPT !.p.palette[s.index] = ParseColorText(w), !.index = -1],
    [p |-> p, index |-> -1, ok |-> TRUE, replies |-> <<>>], words)

(***************************************************************************)
(* Saved palettes.  Slot 0 is the top of the stack.                        *)
(***************************************************************************)
SlotIndex(saved, slot) == IF slot = 0 THEN IF saved = <<>> THEN 1 ELSE Len(saved) ELSE slot
PushColorPalette(t, slot) ==
  LET i == SlotIndex(t.saved, slot)
      size == IF i > Len(t.saved) THEN i ELSE Len(t.saved)
      grown == [k \in 1..size |-> IF k <= Len(t.saved) THEN t.saved[k] ELSE DarkPalette]
  IN IF slot > MaxColorPaletteSaveStackSize THEN t
     ELSE [t EXCEPT !.saved = [grown EXCEPT ![i] = t.now],
                    !.lastSaved = IF slot # 0 /\ @ < size THEN size ELSE @]
\* A slot behind the stack is read all the same: nothing is known of the palette from there on.
PopColorPalette(t, slot) ==
  LET i == IF slot = 0 THEN Len(t.saved) ELSE slot
  IN IF t.saved = <<>> THEN t
     ELSE IF i > Len(t.saved) THEN [t EXCEPT !.outOfRange = TRUE]
     ELSE [t EXCEPT !.now = t.saved[i], !.saved = IF slot = 0 THEN Front(@) ELSE @]
EachSlot(op(_, _), t, slots) == FoldLeft(op, t, IF slots = <<>> THEN <<0>> ELSE slots)

IsLightColor(c) == 8 * c > 8 * 128
ReportColorPaletteUpdate(p) ==
  << <<997, <<"hint", IF IsLightColor(p.dynamic.DefaultForegroundColor) THEN 1 ELSE 2>>>> >>

(***************************************************************************)
(* Actions: the sequences received, and a new colour scheme.               *)
(***************************************************************************)
PaletteInit ==
  pals = [now |-> DarkPalette, default |-> DarkPalette, saved |-> <<>>, lastSaved |-> 0, reports |-> FALSE,
          reply |-> <<>>, by |-> <<"start", <<>>>>, outOfRange |-> FALSE, pushed |-> [s \in {} |-> DarkPalette],
          nested |-> <<>>, steps |-> 0]
PaletteStep(by, t) ==
  /\ pals.steps < MaxPaletteSteps /\ ~pals.outOfRange
  /\ pals' = [t EXCEPT !.by = by, !.steps = @ + 1]
Answering(t, reply) == [t EXCEPT !.reply = reply]

ColorTexts == {<<"?", 0>>, <<"rgb:RR", 90>>, <<"#R", 9>>, <<"rgb:RRRR", 23130>>}
SetOrRequestDynamicColor(name, text) ==
  PaletteStep(<<"dynamic", <<>>>>,
    IF text[1] = "?" THEN Answering(pals, RequestDynamicColor(pals.now, name))
    ELSE IF ParseColorText(text) = NoColor THEN Answering(pals, <<>>)
    ELSE Answering([pals EXCEPT !.now = SetDynamicColor(@, name, ParseColorText(text))], <<>>))
ResetDynamicColorReceived(name) ==
  PaletteStep(<<"dynamic", <<>>>>,
    Answering([pals EXCEPT !.now = ResetDynamicColor(@, pals.default, name)], <<>>))

Lists == {<< <<"number", 0>>, <<"?", 0>>, <<"number", 1>>, <<"rgb:RR", 90>> >>,
          << <<"number", 1>>, <<"#RR", 7>>, <<"number", 44>>, <<"rgb:RRRR", 7>>, <<"number", 0>>, <<"#RR", 7>> >>,
          << <<"number", 44>>, <<"#R", 9>>, <<"number", 256>>, <<"?", 0>> >>,
          << <<"number", 44>>, <<"?", 0>>, <<"number", 44>>, <<"#RR", 3>>, <<"number", 44>>, <<"?", 0>> >>}
SETCOLPAL(words) ==
  LET r == QueryOrSetColorPalette(pals.now, words)
  IN PaletteStep(<<"SETCOLPAL", words>>, Answering([pals EXCEPT !.now = r.p], r.replies))

\* OSC 104: without an index everything is reset; an index is read into 8 bits.
RCOLPAL(words) ==
  PaletteStep(<<"RCOLPAL", words>>, Answering(
    IF words = <<>> THEN [pals EXCEPT !.now = pals.default]
    ELSE IF words[1][1] # "number" THEN pals
    ELSE LET i == words[1][2] % 256 IN [pals EXCEPT !.now.palette[i] = pals.default.palette[i]], <<>>))

XTPUSHCOLORS(slots) ==
  LET t == EachSlot(PushColorPalette, pals, slots)
      slot == IF slots = <<>> THEN 0 ELSE slots[1]     \* what the program believes it has pushed
      at == IF slot = 0 THEN SlotIndex(pals.saved, 0) ELSE slot
  IN PaletteStep(<<"XTPUSHCOLORS", slots>>, Answering(
       [t EXCEPT !.pushed = IF slot > MaxColorPaletteSaveStackSize THEN @
                            ELSE [s \in DOMAIN @ \cup {at} |-> IF s = at THEN pals.now ELSE @[s]],
                 !.nested = IF slots = <<>> THEN Append(@, pals.now) ELSE @], <<>>))
XTPOPCOLORS(slots) ==
  LET t == EachSlot(PopColorPalette, pals, slots)
  IN PaletteStep(<<"XTPOPCOLORS", slots>>, Answering(
       [t EXCEPT !.pushed = [s \in {s \in DOMAIN @ : s <= Len(t.saved)} |-> @[s]],
                 !.nested = IF slots = <<>> /\ @ # <<>> THEN Front(@) ELSE @], <<>>))
XTREPORTCOLORS ==
  PaletteStep(<<"report", <<>>>>, Answering(pals, << <<Len(pals.saved), <<"last", pals.lastSaved>>>> >>))

RequestColorScheme == PaletteStep(<<"report", <<>>>>, Answering(pals, ReportColorPaletteUpdate(pals.now)))
SetReportColorPaletteUpdated == ~pals.reports /\ PaletteStep(<<"report", <<>>>>, [pals EXCEPT !.reports = TRUE])
ResetColorPaletteTo(colors) ==
  PaletteStep(<<"scheme", <<>>>>,
    Answering([pals EXCEPT !.now = colors, !.default = colors],
              IF pals.reports THEN ReportColorPaletteUpdate(colors) ELSE <<>>))
ResetTerminalPalette == PaletteStep(<<"reset", <<>>>>, Answering([pals EXCEPT !.now = pals.default], <<>>))

PaletteNext ==
  \/ \E name \in Settable, text \in ColorTexts : SetOrRequestDynamicColor(name, text)
  \/ \E name \in DynamicColors : ResetDynamicColorReceived(name)
  \/ \E words \in Lists : SETCOLPAL(words)
  \/ \E words \in {<<>>, << <<"number", 1>> >>, << <<"number", 300>> >>, << <<"bad", 0>> >>} : RCOLPAL(words)
  \/ \E slots \in {<<>>, <<1>>, <<2>>, <<11>>} : XTPUSHCOLORS(slots) \/ XTPOPCOLORS(slots)
  \/ XTREPORTCOLORS \/ RequestColorScheme \/ SetReportColorPaletteUpdated \/ ResetTerminalPalette
  \/ \E colors \in {DarkPalette, LightPalette} : ResetColorPaletteTo(colors)

(***************************************************************************)
(* Properties.                                                             *)
(***************************************************************************)
\* The answer to a query names the command that sets the queried colour: the answered colour, sent
\* with that command, leaves every query answered as before.
AnswerSetsQueriedColor ==
  \A name \in Settable :
    LET r == RequestDynamicColor(pals.now, name)
    IN /\ r # <<>>
       /\ \E target \in Settable :
            /\ CommandNumbers[target] = r[1][1]
            /\ LET q == SetDynamicColor(pals.now, target, r[1][2][2] \div 257)
               IN \A other \in Settable : RequestDynamicColor(q, other) = RequestDynamicColor(pals.now, other)

\* A list of OSC 4 made of complete pairs does what its pairs do one by one, in their order, and is
\* answered once for each query.
ListWellFormed(words) ==
  Len(words) % 2 = 0 /\ \A k \in 1..Len(words) :
    IF k % 2 = 1 THEN words[k][1] = "number" /\ words[k][2] \in 0..255
    ELSE words[k][1] = "?" \/ ParseColorText(words[k]) # NoColor
PairsOf(words) == [k \in 1..(Len(words) \div 2) |-> <<words[2 * k - 1], words[2 * k]>>]
ListDoesItsPairs ==
  (pals'.by[1] = "SETCOLPAL" /\ ListWellFormed(pals'.by[2])) =>
    LET each == FoldLeft(LAMBDA s, w : IF w[2][1] = "?" THEN [s EXCEPT !.n = @ + 1]
                                       ELSE [s EXCEPT !.p.palette[w[1][2]] = ParseColorText(w[2])],
                         [p |-> pals.now, n |-> 0], PairsOf(pals'.by[2]))
    IN pals'.now = each.p /\ Len(pals'.reply) = each.n

\* XTPOPCOLORS restores the palette that was current when its slot was last pushed to.
PopRestoresSlot ==
  (pals'.by[1] = "XTPOPCOLORS" /\ pals.saved # <<>>) =>
    LET slot == IF pals'.by[2] = <<>> THEN Len(pals.saved) ELSE pals'.by[2][1]
    IN slot \in DOMAIN pals.pushed => pals'.now = pals.pushed[slot]

\* Pushes without a slot nest: the pops that follow restore their palettes in reverse order.  Not so:
\* such a push overwrites the top of a stack that is not empty.
NestedPaletteRestored ==
  [][(pals'.by = <<"XTPOPCOLORS", <<>>>> /\ pals.nested # <<>>) => pals'.now = Last(pals.nested)]_pals

\* XTPOPCOLORS reads only slots of the stack.  Not so.
PopsInsideStack == ~pals.outOfRange

\* An index above 255 resets no entry of the palette.  Not so: OSC 104 reads it modulo 256.
IndexRefused ==
  [][pals'.by = <<"RCOLPAL", << <<"number", 300>> >>>> => pals'.now = pals.now]_pals

\* An answered colour is one the terminal accepts in a command that sets it.  Not so: it answers with
\* four digits for each channel and reads two.
AnswerAccepted ==
  \A k \in DOMAIN pals.reply : pals.reply[k][2][1] = "rgb:RRRR" => ParseColorText(pals.reply[k][2]) # NoColor
==============================================================================
