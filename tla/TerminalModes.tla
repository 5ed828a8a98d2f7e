---------------------------- MODULE TerminalModes ----------------------------
(***************************************************************************)
(* ANSI and DEC modes: their numbers on the wire and in the program        *)
(* (primitives.h), setting and resetting them (Terminal::setMode), saving, *)
(* restoring and freezing them, what they change in the input generator,   *)
(* and the answer to DECRQM.                                               *)
(***************************************************************************)
EXTENDS Integers, Sequences, SequencesExt, FiniteSets

CONSTANTS
  DecNumbers,       \* the numbers DECSM, DECRM, XTSAVE and XTRESTORE are received with
  MaxModeSteps      \* bound: sequences received

VARIABLE modes      \* Terminal::_modes, _currentScreenType and the input generator's flags

(***************************************************************************)
(* enum DECMode, its values, and toDECModeNum().                           *)
(***************************************************************************)
DECModes ==
  << <<"UseApplicationCursorKeys", 0, 1>>, <<"DesignateCharsetUSASCII", 1, 2>>, <<"Columns132", 2, 3>>,
     <<"SmoothScroll", 3, 4>>, <<"ReverseVideo", 4, 5>>, <<"MouseProtocolX10", 5, 9>>,
     <<"MouseProtocolNormalTracking", 6, 1000>>, <<"MouseProtocolHighlightTracking", 7, 1001>>,
     <<"MouseProtocolButtonTracking", 8, 1002>>, <<"MouseProtocolAnyEventTracking", 9, 1003>>,
     <<"SaveCursor", 10, 1048>>, <<"ExtendedAltScreen", 11, 1049>>, <<"Origin", 12, 6>>, <<"AutoWrap", 13, 7>>,
     <<"PrinterExtend", 14, 19>>, <<"LeftRightMargin", 15, 69>>, <<"ShowToolbar", 16, 10>>,
     <<"BlinkingCursor", 17, 12>>, <<"VisibleCursor", 18, 25>>, <<"ShowScrollbar", 19, 30>>,
     <<"AllowColumns80to132", 20, 40>>, <<"DebugLogging", 21, 46>>, <<"UseAlternateScreen", 22, 47>>,
     <<"BracketedPaste", 23, 2004>>, <<"FocusTracking", 24, 1004>>, <<"NoSixelScrolling", 25, 80>>,
     <<"UsePrivateColorRegisters", 26, 1070>>, <<"MouseExtended", 1005, 1005>>, <<"MouseSGR", 1006, 1006>>,
     <<"MouseAlternateScroll", 1007, 1007>>, <<"MouseURXVT", 1015, 1015>>, <<"MouseSGRPixels", 1016, 1016>>,
     <<"BatchedRendering", 2026, 2026>>, <<"Unicode", 2027, 2027>>, <<"TextReflow", 2028, 2028>>,
     <<"MousePassiveTracking", 2029, 2029>>, <<"ReportGridCellSelection", 2030, 2030>>,
     <<"ReportColorPaletteUpdated", 2031, 2031>>, <<"SixelCursorNextToGraphic", 8452, 8452>> >>
Rows == {DECModes[k] : k \in DOMAIN DECModes}
NoMode == "none"
NamedBy(column, n) == IF \E r \in Rows : r[column] = n THEN (CHOOSE r \in Rows : r[column] = n)[1] ELSE NoMode

\* static_cast<DECMode>(n), when isValidDECMode(n).
IsValidDECMode(n) == \E r \in Rows : r[2] = n
DECModeOfValue(n) == NamedBy(2, n)
ToDECModeNum(n) == IF IsValidDECMode(n) THEN (CHOOSE r \in Rows : r[2] = n)[3] ELSE n
\* toDECMode(): the mode a number of DECSM stands for.
ToDECMode(n) == IF n = 1047 THEN "UseAlternateScreen" ELSE IF n = 1070 THEN NoMode ELSE NamedBy(3, n)

AnsiModes == {2, 4, 12, 20}

(***************************************************************************)
(* Terminal::setMode(DECMode) and what it changes.                         *)
(***************************************************************************)
MouseProtocolOf == [MouseProtocolX10 |-> "X10", MouseProtocolNormalTracking |-> "Normal",
  MouseProtocolHighlightTracking |-> "Highlight", MouseProtocolButtonTracking |-> "Button",
  MouseProtocolAnyEventTracking |-> "AnyEvent"]
NoProtocolMode == "None"

SetScreenType(t, alternate) ==
  IF alternate = t.alternate THEN t
  ELSE [t EXCEPT !.alternate = alternate,
                 !.input.wheel = IF ~alternate THEN "Default"
                                 ELSE IF "MouseAlternateScroll" \in t.enabled THEN "Application" ELSE "Normal"]

\* The effect of a mode that sets no other mode, without recording it.
Effect(t, m, enable) ==
  LET wheel == IF enable THEN "Application" ELSE "Normal" IN
  CASE m = "UseApplicationCursorKeys" ->
         [t EXCEPT !.input.cursorKeys = enable, !.input.wheel = IF t.alternate THEN wheel ELSE @]
    [] m = "UseAlternateScreen" -> SetScreenType(t, enable)
    [] m = "BatchedRendering" -> [t EXCEPT !.synchronized = enable]
    [] m = "BracketedPaste" -> [t EXCEPT !.input.bracketed = enable]
    [] m = "FocusTracking" -> [t EXCEPT !.input.focus = enable]
    [] m = "MouseSGR" -> [t EXCEPT !.input.transport = IF enable THEN "SGR" ELSE "Default"]
    [] m = "MouseSGRPixels" -> [t EXCEPT !.input.transport = IF enable THEN "SGRPixels" ELSE "Default"]
    [] m = "MouseExtended" -> [t EXCEPT !.input.transport = "Extended"]
    [] m = "MouseURXVT" -> [t EXCEPT !.input.transport = "URXVT"]
    [] m = "MousePassiveTracking" -> [t EXCEPT !.input.passive = enable]
    [] m = "MouseAlternateScroll" -> [t EXCEPT !.input.wheel = wheel]
    [] m \in DOMAIN MouseProtocolOf ->
         [t EXCEPT !.input.protocol = IF enable THEN MouseProtocolOf[m] ELSE NoProtocolMode,
                   !.input.wheel = IF enable THEN "Default" ELSE @]
    [] OTHER -> t      \* margins, cursor and page: module Screen

Record(t, m, enable) ==
  IF m \in t.frozen THEN t ELSE [t EXCEPT !.enabled = IF enable THEN @ \cup {m} ELSE @ \ {m}]

SetOne(t, m, enable) == IF m \in t.frozen THEN t ELSE Record(Effect(t, m, enable), m, enable)
SetEach(t, ms, enable) == FoldLeft(LAMBDA u, m : SetOne(u, m, enable), t, ms)

\* setMode() behind its check of frozen modes.
SetModeUnchecked(t, m, enable) ==
  CASE m = "MousePassiveTracking" ->
         Record(SetEach(Effect(t, m, enable), <<"MouseSGR", "MouseProtocolButtonTracking">>, enable), m, enable)
    [] m = "ExtendedAltScreen" -> Record(SetOne(t, "UseAlternateScreen", enable), m, enable)
    [] m = "Columns132" /\ "AllowColumns80to132" \in t.enabled ->
         Record([SetOne(t, "LeftRightMargin", FALSE) EXCEPT !.columns = IF enable THEN 132 ELSE 80], m, enable)
    [] OTHER -> Record(Effect(t, m, enable), m, enable)
SetMode(t, m, enable) == IF m \in t.frozen THEN t ELSE SetModeUnchecked(t, m, enable)

(***************************************************************************)
(* Frozen modes, the two resets, saved modes.                              *)
(***************************************************************************)
\* frozen_dec_modes of the configuration: the key is cast to a DECMode.  Batched rendering is not frozen.
FrozenConfigs == [none |-> <<>>, sgr |-> << <<1006, TRUE>> >>, wrap |-> << <<7, FALSE>> >>,
                  paste |-> << <<23, TRUE>> >>, sync |-> << <<2026, FALSE>>, <<2027, TRUE>> >>]
LoadFrozen(config) ==
  LET valid == SelectSeq(FrozenConfigs[config], LAMBDA e : IsValidDECMode(e[1]))
  IN [k \in DOMAIN valid |-> <<DECModeOfValue(valid[k][1]), valid[k][2]>>]
FreezeMode(t, entry) ==
  LET u == SetMode(t, entry[1], entry[2])
  IN IF entry[1] = "BatchedRendering" THEN u ELSE [u EXCEPT !.frozen = @ \cup {entry[1]}]

Startup == <<"AutoWrap", "SixelCursorNextToGraphic", "TextReflow", "Unicode", "VisibleCursor">>
NoInput == [cursorKeys |-> FALSE, bracketed |-> FALSE, focus |-> FALSE, protocol |-> NoProtocolMode,
            transport |-> "Default", wheel |-> "Default", passive |-> FALSE]

\* RIS resets the input generator last; its passive tracking stays.
HardResetModes(t) ==
  LET u == [SetScreenType(t, FALSE) EXCEPT !.enabled = {}, !.frozen = {}, !.ansi = {}, !.saved = [m \in {} |-> <<>>]]
      v == FoldLeft(FreezeMode, SetEach(u, Startup, TRUE), LoadFrozen(t.config))
  IN [v EXCEPT !.input = [NoInput EXCEPT !.passive = v.input.passive]]

SoftResetModes(t) ==
  LET u == SetMode(SetMode(t, "BatchedRendering", FALSE), "TextReflow", TRUE)
      v == SetMode(SetMode(u, "VisibleCursor", TRUE), "Origin", FALSE)
  IN [SetMode(SetMode(v, "AutoWrap", FALSE), "UseApplicationCursorKeys", FALSE) EXCEPT !.ansi = @ \ {2, 4}]

Saved(t, m) == IF m \in DOMAIN t.saved THEN t.saved[m] ELSE <<>>
WithSaved(t, m, stack) == [t EXCEPT !.saved = [k \in DOMAIN @ \cup {m} |-> IF k = m THEN stack ELSE @[k]]]
SaveModes(t, m) == WithSaved(t, m, Append(Saved(t, m), m \in t.enabled))
\* Restoring records the mode; nothing else of it is restored.
RestoreModes(t, m) ==
  IF Saved(t, m) = <<>> THEN t
  ELSE Record(WithSaved(t, m, Front(Saved(t, m))), m, Last(Saved(t, m)))

(***************************************************************************)
(* DECRQM: the number and the state answered (1 set, 2 reset, 0 unknown).  *)
(***************************************************************************)
RequestDECMode(t, n) ==
  <<ToDECModeNum(n), IF ~IsValidDECMode(n) THEN 0 ELSE IF DECModeOfValue(n) \in t.enabled THEN 1 ELSE 2>>
RequestAnsiMode(t, n) == <<n, IF n \notin AnsiModes THEN 0 ELSE IF n \in t.ansi THEN 1 ELSE 2>>

(***************************************************************************)
(* Actions.                                                                *)
(***************************************************************************)
ModesInit ==
  modes = [config |-> "none", enabled |-> {}, frozen |-> {}, ansi |-> {}, saved |-> [m \in {} |-> <<>>],
           alternate |-> FALSE, synchronized |-> FALSE, columns |-> 0, input |-> NoInput,
           by |-> "start", steps |-> 0]

StartTerminal(config) ==
  /\ modes.by = "start"
  /\ LET t == SetEach([modes EXCEPT !.config = config], Startup, TRUE)
         u == FoldLeft(FreezeMode, SetOne(t, "LeftRightMargin", FALSE), LoadFrozen(config))
     IN modes' = [u EXCEPT !.by = "DECSM"]

Received(by, t) ==
  /\ modes.by # "start" /\ modes.steps < MaxModeSteps
  /\ modes' = [t EXCEPT !.by = by, !.steps = @ + 1]
SetModeDEC(n, enable) ==
  /\ ToDECMode(n) # NoMode
  /\ Received("DECSM", SetMode(modes, ToDECMode(n), enable))
SetAnsiModes(enable) ==     \* of the ANSI modes only IRM is supported
  Received("DECSM", [modes EXCEPT !.ansi = IF enable THEN @ \cup {4} ELSE @ \ {4}])
SaveDECModes(n) == ToDECMode(n) # NoMode /\ Received("XTSAVE", SaveModes(modes, ToDECMode(n)))
RestoreDECModes(n) == ToDECMode(n) # NoMode /\ Received("XTRESTORE", RestoreModes(modes, ToDECMode(n)))
SoftResetTerminal == Received("DECSTR", SoftResetModes(modes))
HardResetTerminal == Received("RIS", HardResetModes(modes))

ModesNext ==
  \/ \E config \in DOMAIN FrozenConfigs : StartTerminal(config)
  \/ \E n \in DecNumbers : \/ \E enable \in BOOLEAN : SetModeDEC(n, enable)
                           \/ SaveDECModes(n) \/ RestoreDECModes(n)
  \/ \E enable \in BOOLEAN : SetAnsiModes(enable)
  \/ SoftResetTerminal \/ HardResetTerminal

(***************************************************************************)
(* Properties.                                                             *)
(***************************************************************************)
ModesStarted == modes.by # "start"
Truth(n, set) == <<n, IF set THEN 1 ELSE 2>>

\* The ANSI modes, and the DEC modes whose value in the program is their number, are reported by
\* DECRQM as they are.
NumberedModesReported ==
  ModesStarted =>
    /\ \A r \in {r \in Rows : r[3] = r[2]} :
         RequestDECMode(modes, r[3]) = Truth(r[3], r[1] \in modes.enabled)
    /\ \A n \in AnsiModes : RequestAnsiMode(modes, n) = Truth(n, n \in modes.ansi)

\* The flags the input generator keeps of modes, and the current screen.
InputAgrees(t) ==
  /\ t.input.cursorKeys <=> "UseApplicationCursorKeys" \in t.enabled
  /\ t.input.bracketed <=> "BracketedPaste" \in t.enabled
  /\ t.input.focus <=> "FocusTracking" \in t.enabled
  /\ t.input.passive <=> "MousePassiveTracking" \in t.enabled
  /\ t.alternate <=> "UseAlternateScreen" \in t.enabled
  /\ t.synchronized <=> "BatchedRendering" \in t.enabled

\* Setting, resetting and the soft reset keep what the input generator does in step with the modes
\* a program can ask for, with frozen modes too: setMode() returns before it changes anything.
InputFollowsModes ==
  modes'.by \in {"DECSM", "DECSTR"} /\ InputAgrees(modes) => InputAgrees(modes')

\* A mode the configuration froze has the configured state and stays frozen, through every
\* sequence and both resets.
FrozenModesHold ==
  ModesStarted =>
    \A k \in DOMAIN LoadFrozen(modes.config) :
      LET m == LoadFrozen(modes.config)[k] IN
      m[1] # "BatchedRendering" => m[1] \in modes.frozen /\ (m[1] \in modes.enabled <=> m[2])

(***************************************************************************)
(* What the code does not keep.                                            *)
(***************************************************************************)
\* DECRQM answers for the mode it was asked for.
EveryModeReported ==
  ModesStarted =>
    \A n \in DecNumbers : RequestDECMode(modes, n) = Truth(n, ToDECMode(n) \in modes.enabled)
\* Restoring a mode restores what it does.
RestoreTakesEffect == [][modes'.by = "XTRESTORE" /\ InputAgrees(modes) => InputAgrees(modes')]_modes
\* A frozen mode is in effect after a hard reset.
FrozenInEffectAfterReset == [][modes'.by = "RIS" => InputAgrees(modes')]_modes
\* The configuration freezes the mode its key is the number of.
ConfiguredModeFrozen ==
  ModesStarted =>
    \A k \in DOMAIN FrozenConfigs[modes.config] :
      LET e == FrozenConfigs[modes.config][k] IN
      ToDECMode(e[1]) # NoMode => ToDECMode(e[1]) \in modes.frozen
\* A mouse protocol is active while one of its modes is set.
MouseModeActive ==
  (modes.input.protocol = NoProtocolMode) <=> (DOMAIN MouseProtocolOf \cap modes.enabled = {})
=============================================================================
