---------------------------- MODULE VTFunctions ----------------------------
(***************************************************************************)
(* The table of VT functions (vtbackend/Functions.h) and how a received    *)
(* sequence is matched against the part of it that is active: the          *)
(* conformance level and DECLRMM decide which functions take part, and     *)
(* select() finds one by binary search.                                    *)
(***************************************************************************)
EXTENDS Integers, Sequences, TLC

VARIABLE functions      \* SupportedSequences and what it depends on

VT100 == 0
VT220 == 1
VT240 == 2
VT330 == 18
VT320 == 24
VT420 == 41
VT510 == 61
VT520 == 64
VTTypes == {VT100, VT220, VT240, VT330, 19, VT320, VT420, VT510, VT520, 65}

ArgsMax == 127
Category == [C0 |-> 0, ESC |-> 1, CSI |-> 2, OSC |-> 3, DCS |-> 4]

\* One entry: symbols are character codes, 0 stands for "none".
Function(name, category, leader, argc0, argc1, intermediate, final, level) ==
  [name |-> name, category |-> category, leader |-> leader, min |-> argc0, max |-> argc1,
   intermediate |-> intermediate, final |-> final, level |-> level]
C0(name, final, vt) == Function(name, "C0", 0, 0, 0, 0, final, vt)
ESC(name, intermediate, final, vt) == Function(name, "ESC", 0, 0, 0, intermediate, final, vt)
CSI(name, leader, argc0, argc1, intermediate, final, vt) ==
  Function(name, "CSI", leader, argc0, argc1, intermediate, final, vt)
DCS(name, leader, argc0, argc1, intermediate, final, vt) ==
  Function(name, "DCS", leader, argc0, argc1, intermediate, final, vt)
OSC(name, code) == Function(name, "OSC", 0, 0, code, 0, 0, VT100)

C0Functions ==
<< C0("EOT", 4, VT100), C0("BEL", 7, VT100), C0("BS", 8, VT100), C0("TAB", 9, VT100),
  C0("LF", 10, VT100), C0("VT", 11, VT100), C0("FF", 12, VT100), C0("CR", 13, VT100),
  C0("LS1", 14, VT220), C0("LS0", 15, VT220) >>

ESCFunctions ==
<< ESC("DECALN", 35, 56, VT100), ESC("DECBI", 0, 54, VT100), ESC("DECFI", 0, 57, VT100),
  ESC("DECKPAM", 0, 61, VT100), ESC("DECKPNM", 0, 62, VT100), ESC("DECRS", 0, 56, VT100),
  ESC("DECSC", 0, 55, VT100), ESC("HTS", 0, 72, VT100), ESC("IND", 0, 68, VT100),
  ESC("NEL", 0, 69, VT100), ESC("RI", 0, 77, VT100), ESC("RIS", 0, 99, VT100),
  ESC("SCS_G0_SPECIAL", 40, 48, VT100), ESC("SCS_G0_USASCII", 40, 66, VT100),
  ESC("SCS_G1_SPECIAL", 41, 48, VT100), ESC("SCS_G1_USASCII", 41, 66, VT100),
  ESC("SS2", 0, 78, VT220), ESC("SS3", 0, 79, VT220) >>

CSIFunctions ==
<< CSI("ANSIDSR", 0, 1, 1, 0, 110, VT100), CSI("ANSISYSSC", 0, 0, 0, 0, 117, VT100),
  CSI("CBT", 0, 0, 1, 0, 90, VT100), CSI("CHA", 0, 0, 1, 0, 71, VT100),
  CSI("CHT", 0, 0, 1, 0, 73, VT100), CSI("CNL", 0, 0, 1, 0, 69, VT100),
  CSI("CPL", 0, 0, 1, 0, 70, VT100), CSI("CSIUENHCE", 61, 1, 2, 0, 117, VT100),
  CSI("CSIUENTER", 62, 0, 1, 0, 117, VT100), CSI("CSIULEAVE", 60, 0, 1, 0, 117, VT100),
  CSI("CSIUQUERY", 63, 0, 0, 0, 117, VT100), CSI("CUB", 0, 0, 1, 0, 68, VT100),
  CSI("CUD", 0, 0, 1, 0, 66, VT100), CSI("CUF", 0, 0, 1, 0, 67, VT100),
  CSI("CUP", 0, 0, 2, 0, 72, VT100), CSI("CUU", 0, 0, 1, 0, 65, VT100),
  CSI("DA1", 0, 0, 1, 0, 99, VT100), CSI("DA2", 62, 0, 1, 0, 99, VT100),
  CSI("DA3", 61, 0, 1, 0, 99, VT100), CSI("DCH", 0, 0, 1, 0, 80, VT100),
  CSI("DECCARA", 0, 5, ArgsMax, 36, 114, VT420), CSI("DECCRA", 0, 0, 8, 36, 118, VT420),
  CSI("DECDC", 0, 0, 1, 39, 126, VT420), CSI("DECERA", 0, 0, 4, 36, 122, VT420),
  CSI("DECFRA", 0, 0, 5, 36, 120, VT420), CSI("DECIC", 0, 0, 1, 39, 125, VT420),
  CSI("DECPS", 0, 3, 18, 44, 126, VT520), CSI("DECRM", 63, 1, ArgsMax, 0, 108, VT100),
  CSI("DECRQM", 63, 1, 1, 36, 112, VT100), CSI("DECRQM_ANSI", 0, 1, 1, 36, 112, VT100),
  CSI("DECRQPSR", 0, 1, 1, 36, 119, VT320), CSI("DECSASD", 0, 0, 1, 36, 125, VT420),
  CSI("DECSCA", 0, 0, 1, 34, 113, VT240), CSI("DECSCL", 0, 2, 2, 34, 112, VT220),
  CSI("DECSCPP", 0, 0, 1, 36, 124, VT100), CSI("DECSCUSR", 0, 0, 1, 32, 113, VT520),
  CSI("DECSED", 63, 0, 1, 0, 74, VT240), CSI("DECSEL", 63, 0, 1, 0, 75, VT240),
  CSI("DECSERA", 0, 0, 4, 36, 123, VT240), CSI("DECSLRM", 0, 0, 2, 0, 115, VT420),
  CSI("DECSM", 63, 1, ArgsMax, 0, 104, VT100), CSI("DECSNLS", 0, 0, 1, 42, 124, VT420),
  CSI("DECSSCLS", 0, 0, 1, 32, 112, VT510), CSI("DECSSDT", 0, 0, 1, 36, 126, VT320),
  CSI("DECSTBM", 0, 0, 2, 0, 114, VT100), CSI("DECSTR", 0, 0, 0, 33, 112, VT100),
  CSI("DECXCPR", 0, 0, 0, 0, 54, VT100), CSI("DL", 0, 0, 1, 0, 77, VT100),
  CSI("DSR", 63, 1, 1, 0, 110, VT100), CSI("ECH", 0, 0, 1, 0, 88, VT420),
  CSI("ED", 0, 0, ArgsMax, 0, 74, VT100), CSI("EL", 0, 0, 1, 0, 75, VT100),
  CSI("HPA", 0, 1, 1, 0, 96, VT100), CSI("HPR", 0, 1, 1, 0, 97, VT100),
  CSI("HVP", 0, 0, 2, 0, 102, VT100), CSI("ICH", 0, 0, 1, 0, 64, VT420),
  CSI("IL", 0, 0, 1, 0, 76, VT100), CSI("REP", 0, 1, 1, 0, 98, VT100),
  CSI("RM", 0, 1, ArgsMax, 0, 108, VT100), CSI("SCOSC", 0, 0, 0, 0, 115, VT100),
  CSI("SD", 0, 0, 1, 0, 84, VT100), CSI("SETMARK", 62, 0, 0, 0, 77, VT100),
  CSI("SGR", 0, 0, ArgsMax, 0, 109, VT100), CSI("SM", 0, 1, ArgsMax, 0, 104, VT100),
  CSI("SU", 0, 0, 1, 0, 83, VT100), CSI("TBC", 0, 0, 1, 0, 103, VT100),
  CSI("VPA", 0, 0, 1, 0, 100, VT100), CSI("WINMANIP", 0, 1, 3, 0, 116, VT100),
  CSI("XTCAPTURE", 62, 0, 2, 0, 116, VT100), CSI("XTPOPCOLORS", 0, 0, ArgsMax, 35, 81, VT100),
  CSI("XTPUSHCOLORS", 0, 0, ArgsMax, 35, 80, VT100), CSI("SGRRESTORE", 0, 0, 0, 35, 125, VT100),
  CSI("SGRSAVE", 0, 0, 0, 35, 123, VT100), CSI("XTREPORTCOLORS", 0, 0, 0, 35, 82, VT100),
  CSI("XTRESTORE", 63, 0, ArgsMax, 0, 114, VT100), CSI("XTSAVE", 63, 0, ArgsMax, 0, 115, VT100),
  CSI("XTSHIFTESCAPE", 62, 0, 1, 0, 115, VT100), CSI("XTSMGRAPHICS", 63, 2, 4, 0, 83, VT100),
  CSI("XTVERSION", 62, 0, 1, 0, 113, VT100) >>

DCSFunctions ==
<< DCS("DECRQSS", 0, 0, 0, 36, 113, VT420), DCS("DECSIXEL", 0, 0, 3, 0, 113, VT330),
  DCS("STP", 0, 0, 0, 36, 112, VT100), DCS("XTGETTCAP", 0, 0, 0, 43, 113, VT100) >>

OSCFunctions ==
<< OSC("CLIPBOARD", 52), OSC("COLORBG", 11), OSC("COLORCURSOR", 12), OSC("COLORFG", 10),
  OSC("COLORMOUSEBG", 14), OSC("COLORMOUSEFG", 13), OSC("COLORSPECIAL", 106),
  OSC("DUMPSTATE", 888), OSC("HYPERLINK", 8), OSC("NOTIFY", 777), OSC("RCOLORBG", 111),
  OSC("RCOLORCURSOR", 112), OSC("RCOLORFG", 110), OSC("RCOLORHIGHLIGHTBG", 117),
  OSC("RCOLORHIGHLIGHTFG", 119), OSC("RCOLORMOUSEBG", 114), OSC("RCOLORMOUSEFG", 113),
  OSC("RCOLPAL", 104), OSC("SETCOLPAL", 4), OSC("SETCWD", 7), OSC("SETFONT", 50),
  OSC("SETFONTALL", 60), OSC("SETICON", 1), OSC("SETTITLE", 0), OSC("SETWINTITLE", 2),
  OSC("SETXPROP", 3) >>

AllFunctions == C0Functions \o ESCFunctions \o CSIFunctions \o DCSFunctions \o OSCFunctions
Named(name) == SelectSeq(AllFunctions, LAMBDA f : f.name = name)

(***************************************************************************)
(* Order and matching.                                                     *)
(***************************************************************************)
\* compare() of two entries: the first key that differs decides.
SortKey(f) == <<Category[f.category], f.final, f.leader, f.intermediate, f.min, f.max>>
LexLess(a, b) == \E k \in DOMAIN a : a[k] < b[k] /\ \A j \in 1 .. k - 1 : a[j] = b[j]
Before(f, g) == LexLess(SortKey(f), SortKey(g))

\* compare() of a selector with an entry; OSC selectors carry the code in argc.
CompareSelector(s, f) ==
  LET a == <<Category[s.category], s.final, s.leader, s.intermediate>>
      b == <<Category[f.category], f.final, f.leader, f.intermediate>>
  IN  IF LexLess(a, b) THEN -1
      ELSE IF LexLess(b, a) THEN 1
      ELSE IF s.category = "OSC" THEN s.argc - f.max
      ELSE IF s.argc < f.min THEN -1 ELSE IF s.argc > f.max THEN 1 ELSE 0

NoFunction == "none"

\* select(): one search function per list, over the interval still open.
\* Indices are the code's plus one; b = i - 1 at i == 0 is its early return.
Select(s, list) ==
  LET search[a \in 1 .. Len(list) + 1, b \in 0 .. Len(list)] ==
        IF a > b THEN NoFunction
        ELSE LET i == (a + b) \div 2
                 rel == CompareSelector(s, list[i])
             IN  IF rel > 0 THEN search[i + 1, b]
                 ELSE IF rel < 0 THEN search[a, i - 1] ELSE list[i].name
  IN  search[1, Len(list)]

Sorted(list) == SortSeq(list, Before)

(***************************************************************************)
(* SupportedSequences: the active part of the array, kept sorted.          *)
(***************************************************************************)
ResetSequences(vt) == Sorted(SelectSeq(AllFunctions, LAMBDA f : f.level <= vt))
DisableSequence(list, name) == SelectSeq(list, LAMBDA f : f.name # name)
EnableSequence(list, name) ==
  IF \E i \in DOMAIN list : list[i].name = name THEN list ELSE Sorted(list \o Named(name))

\* Terminal::setMode(DECMode::LeftRightMargin, enable), the part on the table.
SwitchMargin(list, enable) ==
  IF enable THEN DisableSequence(EnableSequence(list, "DECSLRM"), "SCOSC")
  ELSE DisableSequence(EnableSequence(list, "SCOSC"), "DECSLRM")

Selector(f, argc) == [category |-> f.category, leader |-> f.leader, argc |-> argc,
                      intermediate |-> f.intermediate, final |-> f.final]
Arguments(f) == IF f.category = "OSC" THEN {f.max} ELSE {f.min, f.max} \cup ((f.min .. f.max) \cap (0 .. 3))

\* The terminal's constructor resets DECLRMM; `switched' tells whether DECLRMM
\* has been set or reset since the conformance level was last chosen, `last' is
\* the sequence received last and the function it was dispatched to.
NothingReceived == [symbols |-> NoFunction, argc |-> 0, active |-> FALSE, selected |-> NoFunction]
FunctionsInit ==
  functions = [active |-> SwitchMargin(Sorted(AllFunctions), FALSE), margin |-> FALSE,
               switched |-> TRUE, last |-> NothingReceived]

SetLeftRightMargin(enable) ==
  functions' = [functions EXCEPT !.active = SwitchMargin(@, enable), !.margin = enable,
                                 !.switched = TRUE]

\* Terminal::setTerminalId(), when a session is configured from its profile.
SetTerminalId(vt) ==
  functions' = [functions EXCEPT !.active = ResetSequences(vt), !.switched = FALSE]

\* A sequence with the symbols of a function and an argument count it accepts.
Receive(f) ==
  \E n \in Arguments(f) :
     functions' = [functions EXCEPT !.last =
        [symbols |-> f.name, argc |-> n, selected |-> Select(Selector(f, n), functions.active),
         active |-> \E i \in DOMAIN functions.active : functions.active[i].name = f.name]]

\* Receiving a sequence leaves the table alone, so it is looked at last.
FunctionsNext ==
  /\ functions.last = NothingReceived
  /\ \/ \E enable \in BOOLEAN : SetLeftRightMargin(enable)
     \/ \E vt \in VTTypes : SetTerminalId(vt)
     \/ \E i \in DOMAIN AllFunctions : Receive(AllFunctions[i])

(***************************************************************************)
(* Properties.                                                             *)
(***************************************************************************)
\* A sequence that carries the symbols of an active function and an argument
\* count it accepts is dispatched to that function.  The binary search finds it
\* although it compares argument counts as ranges, whatever functions the level
\* and DECLRMM took out of the list.  CSI s keeps two meanings until DECLRMM is
\* next set or reset, since choosing a level activates SCOSC and DECSLRM.
SelectedIsMeant ==
  functions.last.active =>
     \/ functions.last.selected = functions.last.symbols
     \/ ~functions.switched /\ functions.last.symbols \in {"SCOSC", "DECSLRM"}

\* Once DECLRMM has been set or reset, CSI s saves the cursor exactly while the
\* mode is off and sets the margins exactly while it is on, at every level.
SaveCursorOrMargins ==
  functions.switched =>
     /\ functions.last.symbols = "SCOSC" =>
          functions.last.selected = IF functions.margin THEN "DECSLRM" ELSE "SCOSC"
     /\ functions.last.symbols = "DECSLRM" /\ functions.last.argc > 0 =>
          functions.last.selected = IF functions.margin THEN "DECSLRM" ELSE NoFunction

=============================================================================
