---------------------------- MODULE StatusReports ----------------------------
(***************************************************************************)
(* What a program is told when it asks: DECRQSS, the size reports, tab     *)
(* stops, device attributes, XTSMGRAPHICS and XTGETTCAP, together with the *)
(* commands that change the settings asked for.  An answer is the name of  *)
(* the function it has the form of, with its parameters.                   *)
(***************************************************************************)
EXTENDS Integers, Sequences, SequencesExt, FiniteSets, FiniteSetsExt

CONSTANTS
  ReportPages,        \* <<lines, columns>> of the window, by name
  MaxReportSteps      \* bound: sequences received

VARIABLE reports      \* the settings, and the answers to the last sequence

PageOfName == [small |-> <<23, 20>>, large |-> <<25, 20>>]
DefaultTabWidth == 8
CellPixels == <<10, 20>>          \* width, height
RegisterLimit == 4                \* maxSixelColorRegisters: the palette and its limit
CanvasLimit == <<200, 300>>       \* Settings::maxImageSize

(***************************************************************************)
(* Page, margins, status line.                                             *)
(***************************************************************************)
MainLines(t) == t.lines - (IF t.display = "None" THEN 0 ELSE 1)
\* The page of the current screen, which is the host writable line while that is the active display.
ScreenLines(t) == IF t.activeDisplay = "Main" THEN MainLines(t) ELSE 1
ScreenMargin(t) == IF t.activeDisplay = "Main" THEN t.vertical ELSE <<0, t.lines - MainLines(t) - 1>>
ResizePage(t, lines, columns) ==
  LET u == [t EXCEPT !.lines = lines, !.columns = columns]
  IN [u EXCEPT !.vertical = <<0, MainLines(u) - 1>>, !.horizontal = <<0, columns - 1>>,
               !.stops = SelectSeq(@, LAMBDA c : c < columns)]
ReportedDisplay(t, display) ==
  LET u == [t EXCEPT !.display = display]
  IN IF MainLines(u) = MainLines(t) THEN u ELSE ResizePage(u, t.lines, t.columns)
Sanitized(old, low, high, limit) ==
  LET from == IF low < 0 THEN 0 ELSE low
      to == IF high > limit THEN limit ELSE high
  IN IF from < to THEN <<from, to>> ELSE old

(***************************************************************************)
(* Functions that change a setting: what a terminal in state t makes of    *)
(* <<function, parameters>>.  Others are refused.                          *)
(***************************************************************************)
CursorStyles == << <<"Blink", "Block">>, <<"Steady", "Block">>, <<"Blink", "Underscore">>,
                   <<"Steady", "Underscore">>, <<"Blink", "Bar">>, <<"Steady", "Bar">> >>
SetCursorStyle(t, p) ==
  IF p = 0 THEN [t EXCEPT !.style = t.factoryStyle]
  ELSE IF p \in DOMAIN CursorStyles THEN [t EXCEPT !.style = CursorStyles[p]] ELSE t
SelectProtection(t, p) == IF p = 1 THEN [t EXCEPT !.protected[t.activeDisplay] = TRUE]
                          ELSE IF p \in {0, 2} THEN [t EXCEPT !.protected[t.activeDisplay] = FALSE] ELSE t
\* The host writable line is shown when the user, or the configuration, permits it.
SelectStatusDisplay(t, p) ==
  CASE p = 0 -> ReportedDisplay(t, "None") [] p = 1 -> ReportedDisplay(t, "Indicator")
    [] p = 2 -> ReportedDisplay(t, "HostWritable") [] OTHER -> t
SelectActiveDisplay(t, p) ==
  CASE p = 0 -> [t EXCEPT !.activeDisplay = "Main"] [] p = 1 -> [t EXCEPT !.activeDisplay = "StatusLine"] [] OTHER -> t
ApplyFunction(t, fn) ==
  LET p == fn[2] IN
  CASE fn[1] = "DECSCUSR" -> SetCursorStyle(t, p[1])
    [] fn[1] = "DECSCA" -> SelectProtection(t, p[1])
    [] fn[1] = "DECSSDT" -> SelectStatusDisplay(t, p[1])
    [] fn[1] = "DECSASD" -> SelectActiveDisplay(t, p[1])
    [] fn[1] = "DECSTBM" -> [t EXCEPT !.vertical = Sanitized(@, p[1] - 1, p[2] - 1, MainLines(t) - 1)]
    [] fn[1] = "DECSLRM" -> [t EXCEPT !.horizontal = Sanitized(@, p[1] - 1, p[2] - 1, t.columns - 1)]
    [] fn[1] = "DECSNLS" -> ResizePage(t, ScreenLines(t), p[1])   \* the parameter is taken for the columns
    [] OTHER -> t                                                 \* DECSCL, DECSLPP and "|$" are refused

(***************************************************************************)
(* DECRQSS.                                                                *)
(***************************************************************************)
Level(id) ==
  CASE id \in {"VT510", "VT520", "VT525"} -> 5 [] id = "VT420" -> 4
    [] id \in {"VT320", "VT330", "VT340"} -> 3 [] id \in {"VT220", "VT240"} -> 2 [] OTHER -> 1
Shapes2 == [Block |-> 1, Underscore |-> 3, Bar |-> 5, Rectangle |-> 7]
NumberOf(table, x) == (CHOOSE k \in DOMAIN table : table[k] = x) - 1
CursorStyleNumberInverted(t) == Shapes2[t.style[2]] + (IF t.style[1] = "Steady" THEN 0 ELSE 1)
CursorStyleNumber(t) == Shapes2[t.style[2]] + (IF t.style[1] = "Steady" THEN 1 ELSE 0)
RequestStatusString(t, request) ==
  CASE request = "DECSCL" -> <<"DECSCL", <<60 + Level(t.id), 1>>>>
    [] request = "DECSCUSR" -> <<"DECSCUSR", <<CursorStyleNumber(t)>>>>
    [] request = "DECSLPP" /\ ScreenLines(t) >= 24 -> <<"DECSLPP", <<ScreenLines(t)>>>>
    [] request = "DECSTBM" -> <<"DECSTBM", <<1 + ScreenMargin(t)[1], ScreenMargin(t)[2]>>>>
    [] request = "DECSLRM" -> <<"DECSLRM", <<1 + t.horizontal[1], t.horizontal[2]>>>>
    [] request = "DECSCPP" -> <<"|$", <<t.columns>>>>
    [] request = "DECSNLS" -> <<"DECSNLS", <<ScreenLines(t)>>>>
    [] request = "DECSCA" -> <<"DECSCA", <<IF t.protected[t.activeDisplay] THEN 1 ELSE 2>>>>
    [] request = "DECSASD" -> <<"DECSASD", <<NumberOf(<<"Main", "StatusLine">>, t.activeDisplay)>>>>
    [] request = "DECSSDT" -> <<"DECSSDT", <<NumberOf(<<"None", "Indicator", "HostWritable">>, t.display)>>>>
    [] OTHER -> <<"invalid", <<>>>>
Requests == {"DECSCL", "DECSCUSR", "DECSLPP", "DECSTBM", "DECSLRM", "DECSCPP", "DECSNLS", "DECSCA", "DECSASD", "DECSSDT"}
\* A request that is not in the table is not answered.  (SGR is in module GraphicsRendition.)
HookDECRQSS(t, request) == IF request \in Requests THEN <<RequestStatusString(t, request)>> ELSE <<>>

(***************************************************************************)
(* Tab stops (0-based columns; none stands for the default ones).          *)
(***************************************************************************)
RequestTabStops(t) ==
  IF t.stops # <<>> THEN [k \in DOMAIN t.stops |-> t.stops[k] + 1]
  ELSE <<1>> \o [k \in 1..((t.columns - 1) \div DefaultTabWidth) |-> k * DefaultTabWidth + 1]
NextStop(t, column) ==
  LET further == {c \in ToSet(t.stops) : c > column}
      right == t.horizontal[2]
  IN IF t.stops # <<>> THEN IF further # {} THEN Min(further) ELSE right
     ELSE Min({column + DefaultTabWidth - (column % DefaultTabWidth), right})
SetStop(t, column) == [t EXCEPT !.stops = SortSeq(Append(@, column), <)]
\* TBC: default stops become explicit ones, a column to the left of where they were.
ClearStop(t, column) ==
  LET explicit == IF t.stops # <<>> THEN t.stops
                  ELSE [k \in 1..((t.columns - 1) \div DefaultTabWidth) |-> k * DefaultTabWidth - 1]
      first == SelectInSeq(explicit, LAMBDA c : c = column)
  IN [t EXCEPT !.stops = IF first = 0 THEN explicit ELSE RemoveAt(explicit, first)]

(***************************************************************************)
(* Sizes, titles, device attributes.                                       *)
(***************************************************************************)
RequestPixelSize(t, cell) ==
  IF cell THEN <<"t", <<6, CellPixels[2], CellPixels[1]>>>>
  ELSE <<"t", <<4, MainLines(t) * CellPixels[2], t.columns * CellPixels[1]>>>>
RequestCharacterSize(t, window) == <<"t", <<IF window THEN 9 ELSE 8, MainLines(t), t.columns>>>>
SaveWindowTitle(t) == [t EXCEPT !.titles = Append(@, t.title)]
RestoreWindowTitle(t) == IF t.titles = <<>> THEN t ELSE [t EXCEPT !.title = Last(t.titles), !.titles = Front(@)]
SendDeviceAttributes(t) == <<"DA1", <<IF Level(t.id) = 1 THEN 1 ELSE 60 + Level(t.id)>>>>

(***************************************************************************)
(* XTSMGRAPHICS: item, action (1 read, 2 reset, 3 set, 4 limit), value.    *)
(***************************************************************************)
SetRegisters(n) == Min({n, RegisterLimit})
\* std::min() of two sizes: by width, then by height.
SmallerSize(a, b) == IF b[1] < a[1] \/ (b[1] = a[1] /\ b[2] < a[2]) THEN b ELSE a
SmGraphics(t, item, action, value) ==
  LET answer(u, what) == [u EXCEPT !.answers = <<<<"graphics", <<item>> \o what>>>>]
      view == <<t.columns * CellPixels[1], MainLines(t) * CellPixels[2]>>
  IN CASE item = 1 /\ action = 1 -> answer(t, <<0, t.registers>>)
       [] item = 1 /\ action = 4 -> answer(t, <<0, RegisterLimit>>)
       [] item = 1 /\ action = 2 -> answer([t EXCEPT !.registers = SetRegisters(RegisterLimit)], <<0, RegisterLimit>>)
       [] item = 1 /\ action = 3 -> answer([t EXCEPT !.registers = SetRegisters(value[1])], <<0, value[1]>>)
       [] item = 2 /\ action = 1 -> answer(t, <<0, Min({view[1], t.canvas[1]}), Min({view[2], t.canvas[2]})>>)
       [] item = 2 /\ action = 4 -> answer(t, <<0>> \o CanvasLimit)
       [] item = 2 /\ action = 2 -> [t EXCEPT !.canvas = CanvasLimit, !.answers = <<>>]
       [] item = 2 /\ action = 3 ->
            LET size == SmallerSize(value, CanvasLimit) IN answer([t EXCEPT !.canvas = size], <<0>> \o size)
       [] OTHER -> [t EXCEPT !.answers = <<>>]       \* ReGIS is not answered

(***************************************************************************)
(* XTGETTCAP: each name that is hexadecimal is answered.                   *)
(***************************************************************************)
RequestCapability(name) ==
  CASE name = "boolean" -> <<"capability", <<1>>>> [] name = "numeric" -> <<"capability", <<1, 256>>>>
    [] name = "string" -> <<"capability", <<1, 1>>>> [] OTHER -> <<"capability", <<0>>>>
HookXTGETTCAP(names) ==
  LET hex == SelectSeq(names, LAMBDA n : n # "notHex") IN [k \in DOMAIN hex |-> RequestCapability(hex[k])]

(***************************************************************************)
(* Actions.                                                                *)
(***************************************************************************)
ReportsInit ==
  reports = [lines |-> 0, columns |-> 0, vertical |-> <<0, 0>>, horizontal |-> <<0, 0>>, display |-> "None",
             activeDisplay |-> "Main", style |-> <<"Steady", "Block">>, factoryStyle |-> <<"Steady", "Block">>,
             protected |-> [Main |-> FALSE, StatusLine |-> FALSE], id |-> "VT525", stops |-> <<>>, title |-> "shell", titles |-> <<>>,
             registers |-> RegisterLimit, canvas |-> CanvasLimit, answers |-> <<>>, by |-> "start", steps |-> 0]
OpenTerminal(page, id, factory) ==
  /\ reports.by = "start"
  /\ LET t == ResizePage(reports, PageOfName[page][1], PageOfName[page][2])
     IN reports' = [t EXCEPT !.id = id, !.style = factory, !.factoryStyle = factory, !.by = "opened"]
Received2(by, t) ==
  /\ reports.by # "start" /\ reports.steps < MaxReportSteps
  /\ reports' = [t EXCEPT !.by = by, !.steps = @ + 1]
Silent(t) == [t EXCEPT !.answers = <<>>]
Answer(answers) == [reports EXCEPT !.answers = answers]

\* Left and right margins are enabled (DECLRMM).  Bound: no window of one line.
SetFunction(fn) == (fn[1] = "DECSNLS" => ScreenLines(reports) > 1) /\ Received2("set", Silent(ApplyFunction(reports, fn)))
DECRQSS(request) == Received2("DECRQSS", Answer(HookDECRQSS(reports, request)))
DECRQPSR(p) == Received2("DECRQPSR", Answer(IF p = 2 THEN <<<<"tabs", RequestTabStops(reports)>>>> ELSE <<>>))
SetTab(column) == Received2("set", Silent(SetStop(reports, column)))
ClearTab(column) == Received2("TBC0", Silent(ClearStop(reports, column)))
ClearTabs == Received2("TBC3", Silent([reports EXCEPT !.stops = <<>>]))
SetTitle(title) == Received2("set", Silent([reports EXCEPT !.title = title]))
\* CSI t: titles, sizes; the window is resized later, if at all (module Screen).
WINDOWMANIP(p, q) ==
  Received2("set",
    CASE p = 22 -> Silent(IF q \in {0, 2} THEN SaveWindowTitle(reports) ELSE reports)
      [] p = 23 -> Silent(IF q \in {0, 2} THEN RestoreWindowTitle(reports) ELSE reports)
      [] p = 14 -> Answer(<<RequestPixelSize(reports, FALSE)>>)
      [] p = 16 -> Answer(<<RequestPixelSize(reports, TRUE)>>)
      [] p \in {18, 19} -> Answer(<<RequestCharacterSize(reports, p = 19)>>)
      [] OTHER -> Silent(reports))
DA1 == Received2("DA1", Answer(<<SendDeviceAttributes(reports)>>))
XTSMGRAPHICS(item, action, value) ==
  Received2("graphics",
    IF item = 2 /\ action = 3 /\ 0 \in {value[1], value[2]} THEN Silent(reports)     \* Invalid
    ELSE SmGraphics(reports, item, action, value))
XTGETTCAP(names) == Received2("XTGETTCAP", Answer(HookXTGETTCAP(names)))

SetFunctions == {<<"DECSCUSR", <<k>>>> : k \in {0, 3, 6, 7}} \cup {<<"DECSCA", <<k>>>> : k \in 1..2}
  \cup {<<"DECSSDT", <<k>>>> : k \in 0..2} \cup {<<"DECSASD", <<k>>>> : k \in 0..1}
  \cup {<<"DECSTBM", <<2, 9>>>>, <<"DECSLRM", <<3, 30>>>>, <<"DECSNLS", <<19>>>>}
ReportsNext ==
  \/ \E page \in ReportPages, id \in {"VT100", "VT330"},
        factory \in {<<"Steady", "Block">>, <<"Blink", "Rectangle">>} : OpenTerminal(page, id, factory)
  \/ \E fn \in SetFunctions : SetFunction(fn)
  \/ \E request \in Requests \cup {"unknown"} : DECRQSS(request)
  \/ \E p \in 1..2 : DECRQPSR(p)
  \/ \E column \in {0, 5, 8} : SetTab(column) \/ ClearTab(column)
  \/ ClearTabs \/ SetTitle("editor") \/ DA1
  \/ \E p \in {8, 14, 16, 18, 19, 22, 23}, q \in {0, 1} : WINDOWMANIP(p, q)
  \/ \E item \in 1..3, action \in 1..4, value \in {<<0, 0>>, <<9, 0>>, <<100, 900>>, <<300, 30>>} :
       XTSMGRAPHICS(item, action, value)
  \/ \E names \in {<<"numeric", "notHex">>, <<"boolean", "string">>, <<"unknown">>} : XTGETTCAP(names)

(***************************************************************************)
(* Properties.                                                             *)
(***************************************************************************)
Opened2 == reports.by # "start"
\* A setting DECRQSS is asked for can be set again by the answer, whatever it became in between: the
\* style of the cursor (one a program can set), the protection and both selections of the status line.
AnswerRestoresSetting ==
  Opened2 =>
    \A r \in {<<"DECSCUSR", 1>>, <<"DECSCUSR", 4>>, <<"DECSCA", 1>>, <<"DECSCA", 2>>, <<"DECSASD", 0>>,
              <<"DECSASD", 1>>, <<"DECSSDT", 0>>, <<"DECSSDT", 1>>} :
      LET between == ApplyFunction(reports, <<r[1], <<r[2]>>>>)
          back == ApplyFunction(between, RequestStatusString(reports, r[1]))
      IN /\ reports.style[2] # "Rectangle" => back.style = reports.style
         /\ back.protected = reports.protected /\ back.display = reports.display
         /\ back.activeDisplay = reports.activeDisplay

\* DECTABSR names the columns at which the cursor stops when it is moved by tabs from the first
\* column to the last one.
StopsReached(t) == {c \in 1..(t.columns - 2) : \E from \in 0..(c - 1) : NextStop(t, from) = c}
TabAnswerTrue ==
  (Opened2 /\ reports.horizontal = <<0, reports.columns - 1>>) =>
    {c - 1 : c \in ToSet(RequestTabStops(reports))} \cap (1..(reports.columns - 2)) = StopsReached(reports)

\* While the main display is active, different ways to ask for the same fact are answered alike: lines and columns, pixels for the
\* page and for a cell, the level of the terminal.
AnswersAgree ==
  (Opened2 /\ reports.activeDisplay = "Main") =>
    LET size == RequestCharacterSize(reports, FALSE)[2]
        area == RequestPixelSize(reports, FALSE)[2]
        cell == RequestPixelSize(reports, TRUE)[2]
    IN /\ size[2] = RequestStatusString(reports, "DECSNLS")[2][1]
       /\ size[3] = RequestStatusString(reports, "DECSCPP")[2][1]
       /\ area[2] = size[2] * cell[2] /\ area[3] = size[3] * cell[3]
       /\ SendDeviceAttributes(reports)[2][1] % 10 = RequestStatusString(reports, "DECSCL")[2][1] % 10

\* Colour registers and the width of images stay within the limits that are reported for them.
RegistersWithinLimit == reports.registers <= RegisterLimit /\ reports.canvas[1] <= CanvasLimit[1]

\* The height of images stays within its limit, too.  Not so: sizes are compared by their widths.
CanvasWithinLimit == reports.canvas[2] <= CanvasLimit[2]

\* Margins are restored by the answer to a request for them.  Not so: the lower and the right margin
\* are answered one less.
AnswerRestoresMargins ==
  (Opened2 /\ reports.activeDisplay = "Main") => /\ ApplyFunction(reports, RequestStatusString(reports, "DECSTBM")).vertical = reports.vertical
             /\ ApplyFunction(reports, RequestStatusString(reports, "DECSLRM")).horizontal = reports.horizontal

\* The number of lines is restored by the answer to a request for it.  Not so: the columns change.
AnswerRestoresLines ==
  (Opened2 /\ reports.display = "None" /\ reports.activeDisplay = "Main") =>
    LET back == ApplyFunction(reports, RequestStatusString(reports, "DECSNLS"))
    IN back.lines = reports.lines /\ back.columns = reports.columns

\* Clearing the tab stop of a column leaves the others.  Not so while the default stops are in use.
ClearKeepsOtherStops ==
  [][reports'.by = "TBC0" => Cardinality(StopsReached(reports) \ StopsReached(reports')) <= 1]_reports

\* Clearing all tab stops leaves none.  Not so: the default ones are back.
ClearedStopsGone == [][reports'.by = "TBC3" => StopsReached(reports') = {}]_reports

\* The answer to a change of the graphics settings tells what they are.  Not so: the registers are
\* answered as asked for, and the reset of the size of images is not answered.
GraphicsAnswerTrue ==
  [][(reports'.by = "graphics" /\ reports'.registers # reports.registers) =>
       reports'.answers[1][2][3] = reports'.registers]_reports

\* DECRQSS for a function that is not known is answered as invalid.  Not so: it is not answered.
EveryRequestAnswered == reports.by = "DECRQSS" => reports.answers # <<>>
==============================================================================
