---------------------------- MODULE InputMapping ----------------------------
(***************************************************************************)
(* Input mappings of contour: the built-in tables, the entries of the      *)
(* configuration file they are written as, the reader that builds the      *)
(* tables from a file, and the lookup of an input (Config.h, Config.cpp,   *)
(* Actions.h, MatchModes.h, InputBinding.h).                               *)
(***************************************************************************)
EXTENDS Naturals, Sequences, SequencesExt, Functions

VARIABLE imap     \* the file, the tables it gave, and the file and tables after saving again

(***************************************************************************)
(* Modes a binding asks for.                                               *)
(***************************************************************************)
Flags == {"AltScreen", "AppCursor", "AppKeypad", "Insert", "Select", "Search", "Trace"}
AnyMode == [on |-> {}, off |-> {}]
EnableMode(modes, flag) == [on |-> modes.on \cup {flag}, off |-> modes.off \ {flag}]
DisableMode(modes, flag) == [on |-> modes.on \ {flag}, off |-> modes.off \cup {flag}]
TestMatchMode(flags, modes) == modes.on \subseteq flags /\ modes.off \cap flags = {}

(***************************************************************************)
(* Actions and bindings.  An argument of "" is the default one.            *)
(***************************************************************************)
PlainActions ==
  {"CancelSelection", "ClearHistoryAndReset", "CopyPreviousMarkRange", "CreateDebugDump",
   "DecreaseFontSize", "DecreaseOpacity", "FocusNextSearchMatch", "FocusPreviousSearchMatch",
   "FollowHyperlink", "IncreaseFontSize", "IncreaseOpacity", "NoSearchHighlight", "OpenConfiguration",
   "OpenFileManager", "OpenSelection", "Quit", "ResetConfig", "ResetFontSize", "ScreenshotVT",
   "SaveScreenshot", "CopyScreenshot", "ScrollDown", "ScrollMarkDown", "ScrollMarkUp", "ScrollOneDown",
   "ScrollOneUp", "ScrollPageDown", "ScrollPageUp", "ScrollToBottom", "ScrollToTop", "ScrollUp",
   "SearchReverse", "ToggleAllKeyMaps", "ToggleFullscreen", "ToggleInputProtection",
   "ToggleStatusLine", "ToggleTitleBar", "TraceBreakAtEmptyQueue", "TraceEnter", "TraceLeave",
   "TraceStep", "ViNormalMode", "CreateNewTab", "CloseTab", "MoveTabToLeft", "MoveTabToRight",
   "SwitchToPreviousTab", "SwitchToTabLeft", "SwitchToTabRight"}
\* The argument is looked up without a test that it is there: a missing one throws.
NeedsArgument == {"ChangeProfile", "MoveTabTo", "SwitchToTab", "ReloadConfig", "SendChars",
                  "WriteScreen", "CreateSelection"}
MayHaveArgument == {"NewTerminal", "CopySelection", "PasteClipboard", "PasteSelection"}
ActionNames == PlainActions \cup NeedsArgument \cup MayHaveArgument
WithArgument(name, arg) == [name |-> name, arg |-> arg]
Binding(modes, mods, input, action) ==
  [modes |-> modes, mods |-> mods, input |-> input, actions |-> <<action>>]
Bind(modes, mods, input, name) == Binding(modes, mods, input, WithArgument(name, ""))

SelectInsert == [on |-> {"Select", "Insert"}, off |-> {}]
InsertOnly == [on |-> {"Insert"}, off |-> {}]
NotAlternate == [on |-> {}, off |-> {"AltScreen"}]
DefaultKeyMappings ==
  <<Bind(AnyMode, {"Alt"}, "Enter", "ToggleFullscreen"),
    Bind(SelectInsert, {}, "Escape", "CancelSelection"),
    Bind(AnyMode, {"Shift"}, "DownArrow", "ScrollOneDown"), Bind(AnyMode, {"Shift"}, "End", "ScrollToBottom"),
    Bind(AnyMode, {"Shift"}, "Home", "ScrollToTop"), Bind(AnyMode, {"Shift"}, "PageDown", "ScrollPageDown"),
    Bind(AnyMode, {"Shift"}, "PageUp", "ScrollPageUp"), Bind(AnyMode, {"Shift"}, "UpArrow", "ScrollOneUp"),
    Bind(AnyMode, {}, "F3", "FocusNextSearchMatch"), Bind(AnyMode, {"Shift"}, "F3", "FocusPreviousSearchMatch"),
    Bind(AnyMode, {"Shift"}, "LeftArrow", "SwitchToTabLeft"),
    Bind(AnyMode, {"Shift"}, "RightArrow", "SwitchToTabRight")>>
ShiftControl == {"Shift", "Control"}
AltControl == {"Alt", "Control"}
FirstCharMappings ==
  <<Bind(AnyMode, ShiftControl, "-", "DecreaseFontSize"), Bind(AnyMode, ShiftControl, "_", "DecreaseFontSize"),
    Bind(AnyMode, ShiftControl, "N", "NewTerminal"),
    Binding(AnyMode, AltControl, "V", WithArgument("PasteClipboard", "strip")),
    Bind(AnyMode, ShiftControl, "V", "PasteClipboard"), Bind(AnyMode, AltControl, "S", "ScreenshotVT"),
    Bind(AnyMode, {"Control"}, "0", "ResetFontSize"), Bind(AnyMode, ShiftControl, "T", "CreateNewTab")>>
TabDigits == <<"1", "2", "3", "4", "5", "6", "7", "8", "9", "0">>
TabCharMappings ==
  [i \in 1 .. 10 |-> Binding(AnyMode, {"Alt"}, TabDigits[i], WithArgument("SwitchToTab", TabDigits[i]))]
LastCharMappings ==
  <<Bind(SelectInsert, {"Control"}, "C", "CopySelection"), Bind(SelectInsert, {"Control"}, "C", "CancelSelection"),
    Bind(SelectInsert, {"Control"}, "V", "PasteClipboard"), Bind(SelectInsert, {"Control"}, "V", "CancelSelection"),
    Bind(InsertOnly, ShiftControl, ",", "OpenConfiguration"), Bind(InsertOnly, ShiftControl, " ", "ViNormalMode"),
    Bind(AnyMode, ShiftControl, ",", "OpenConfiguration"), Bind(AnyMode, ShiftControl, "Q", "Quit"),
    Bind(NotAlternate, AltControl, "K", "ScrollMarkUp"), Bind(NotAlternate, AltControl, "J", "ScrollMarkDown"),
    Bind(AnyMode, AltControl, "O", "OpenFileManager"), Bind(AnyMode, AltControl, ".", "ToggleStatusLine"),
    Bind(AnyMode, ShiftControl, "F", "SearchReverse"), Bind(AnyMode, ShiftControl, "H", "NoSearchHighlight")>>
DefaultMouseMappings ==
  <<Bind(AnyMode, {"Control"}, "Left", "FollowHyperlink"), Bind(AnyMode, {}, "Middle", "PasteSelection"),
    Bind(AnyMode, {}, "WheelDown", "ScrollDown"), Bind(AnyMode, {}, "WheelUp", "ScrollUp"),
    Bind(AnyMode, {"Alt"}, "WheelDown", "DecreaseOpacity"), Bind(AnyMode, {"Alt"}, "WheelUp", "IncreaseOpacity"),
    Bind(AnyMode, {"Control"}, "WheelDown", "DecreaseFontSize"),
    Bind(AnyMode, {"Control"}, "WheelUp", "IncreaseFontSize"),
    Bind(AnyMode, {"Shift"}, "WheelDown", "ScrollPageDown"), Bind(AnyMode, {"Shift"}, "WheelUp", "ScrollPageUp")>>
Tables(keys, chars, mouse) == [key |-> keys, char |-> chars, mouse |-> mouse]
DefaultMappings == Tables(DefaultKeyMappings, FirstCharMappings \o TabCharMappings \o LastCharMappings,
                          DefaultMouseMappings)
NoMappings == Tables(<<>>, <<>>, <<>>)

\* The actions of the first binding that matches, or none.
Apply(table, input, mods, flags) ==
  LET matching == SelectSeq(table, LAMBDA b : /\ b.mods = mods /\ b.input = input
                                              /\ TestMatchMode(flags, b.modes))
  IN  IF matching = <<>> THEN <<>> ELSE matching[1].actions

(***************************************************************************)
(* Names the reader knows, all compared without case.                      *)
(***************************************************************************)
ParseKey ==
  {"F1", "F2", "F3", "F12", "F13", "F35", "Escape", "Enter", "Tab", "Backspace", "DownArrow", "LeftArrow",
   "RightArrow", "UpArrow", "Insert", "Delete", "Home", "End", "PageUp", "PageDown", "MediaPlay",
   "MediaStop", "MediaPrevious", "MediaNext", "MediaPause", "MediaTogglePlayPause", "VolumeUp",
   "VolumeDown", "VolumeMute", "PrintScreen", "Pause", "Menu", "Numpad_Add", "Numpad_Divide",
   "Numpad_Multiply", "Numpad_Subtract", "Numpad_Decimal", "Numpad_Enter", "Numpad_Equal",
   "Numpad_0", "Numpad_1", "Numpad_9"}
NamedChars ==
  [LESS |-> "<", GREATER |-> ">", PLUS |-> "+", APOSTROPHE |-> "'", ADD |-> "+", BACKSLASH |-> "x",
   COMMA |-> ",", DECIMAL |-> ".", DIVIDE |-> "/", EQUAL |-> "=", LEFT_BRACKET |-> "[", MINUS |-> "-",
   MULTIPLY |-> "*", PERIOD |-> ".", RIGHT_BRACKET |-> "]", SEMICOLON |-> ";", SLASH |-> "/",
   SUBTRACT |-> "-", SPACE |-> " "]
Characters == {TabDigits[i] : i \in 1 .. 10} \cup Range(NamedChars)
              \cup {"_", "N", "V", "S", "T", "C", "Q", "K", "J", "O", "F", "H"}
ParseMouseButton == {"WheelUp", "WheelDown", "Left", "Middle", "Right"}
ParseModifierKey == [Alt |-> "Alt", Control |-> "Control", Shift |-> "Shift", Super |-> "Super", Meta |-> "Super"]
FlagNames == [f \in Flags \cup {"Alt"} |-> IF f = "Alt" THEN "AltScreen" ELSE f]

(***************************************************************************)
(* An entry of the file.  mods is the set of names or {"missing"}; mode is *)
(* the sequence of <<negated, name>>; key and mouse are "" when absent.    *)
(***************************************************************************)
Entry(mods, key, mouse, name, arg, mode) ==
  [mods |-> mods, key |-> key, mouse |-> mouse, action |-> name, arg |-> arg, mode |-> mode]

\* What is written after the name of an action.
FormatAction(action) ==
  IF action.name \in {"MoveTabTo", "SwitchToTab", "WriteScreen", "CreateSelection"} THEN action.arg ELSE ""
FormatModes(modes) == [i \in 1 .. Len(SetToSeq(modes.on \cup modes.off)) |->
                         LET f == SetToSeq(modes.on \cup modes.off)[i] IN <<f \in modes.off, f>>]
FormatKeyMapping(b) ==
  Entry(b.mods, b.input, "", b.actions[1].name, FormatAction(b.actions[1]), FormatModes(b.modes))
FormatMouseMapping(b) == Entry(b.mods, "", b.input, b.actions[1].name, FormatAction(b.actions[1]), <<>>)
CreateKeyMapping(tables) ==
  [i \in 1 .. Len(tables.key) |-> FormatKeyMapping(tables.key[i])]
  \o [i \in 1 .. Len(tables.char) |-> FormatKeyMapping(tables.char[i])]
  \o [i \in 1 .. Len(tables.mouse) |-> FormatMouseMapping(tables.mouse[i])]

ParseMatchModes(mode) ==
  FoldLeft(LAMBDA m, arg : IF arg[2] \notin DOMAIN FlagNames THEN m
                           ELSE IF arg[1] THEN DisableMode(m, FlagNames[arg[2]])
                           ELSE EnableMode(m, FlagNames[arg[2]]), AnyMode, mode)
\* The set of modifiers, or {"invalid"}.
ParseModifier(names) == IF names \subseteq DOMAIN ParseModifierKey
                        THEN {ParseModifierKey[n] : n \in names} ELSE {"invalid"}
\* The action, or the name "throws".  The profile to change to is the action's own name.
ParseAction(e) ==
  CASE e.action \notin ActionNames -> WithArgument("throws", "")
    [] e.action \in NeedsArgument /\ e.arg = "" -> WithArgument("throws", "")
    [] e.action = "ChangeProfile" -> WithArgument(e.action, e.action)
    [] e.action \in PlainActions -> WithArgument(e.action, "")
    [] OTHER -> WithArgument(e.action, e.arg)

AppendOrCreateBinding(table, modes, mods, input, action) ==
  LET same == {i \in 1 .. Len(table) : /\ table[i].modes = modes /\ table[i].mods = mods
                                       /\ table[i].input = input}
  IN  IF same = {} THEN Append(table, Binding(modes, mods, input, action))
      ELSE LET i == CHOOSE i \in same : \A j \in same : i <= j
           IN  [table EXCEPT ![i].actions = Append(@, action)]
ParseKeyOrChar(name) ==
  CASE name \in ParseKey -> <<"key", name>>
    [] name \in Characters -> <<"char", name>>
    [] name \in DOMAIN NamedChars -> <<"char", NamedChars[name]>>
    [] OTHER -> <<"none", "">>
TryAdd(tables, e, action) ==
  LET input == ParseKeyOrChar(e.key)
      mods == ParseModifier(e.mods)
      modes == ParseMatchModes(e.mode)
      Added(kind, name) == [tables EXCEPT ![kind] = AppendOrCreateBinding(@, modes, mods, name, action)]
  IN  CASE mods = {"invalid"} -> tables
        [] e.key # "" /\ input[1] # "none" -> Added(input[1], input[2])
        [] e.mouse \in ParseMouseButton -> Added("mouse", e.mouse)
        [] OTHER -> tables

\* The tables are emptied first; an entry that throws ends the reading.
LoadInputMappings(file) ==
  FoldLeft(LAMBDA r, e : IF ~r.ok THEN r
                         ELSE IF ParseAction(e).name = "throws" THEN [r EXCEPT !.ok = FALSE]
                         ELSE [r EXCEPT !.tables = TryAdd(@, e, ParseAction(e))],
           [ok |-> TRUE, tables |-> NoMappings], file)

(***************************************************************************)
(* The user keeps the built-in tables, or writes a file in which one entry *)
(* is his own; the program loads it, saves it and loads it again.          *)
(***************************************************************************)
Around == <<Entry({"Shift"}, "F1", "", "Quit", "", <<>>)>>
ModeLists == {<<>>} \cup {<<<<n, f>>>> : n \in BOOLEAN, f \in {"Alt", "Search", "Unheard"}}
             \cup {<<<<FALSE, "Insert">>, <<n, "Insert">>, <<TRUE, "Trace">>>> : n \in BOOLEAN}
UserEntries ==
  {Entry({"Control"}, k, "", "Quit", "", <<>>) : k \in ParseKey \cup DOMAIN NamedChars \cup {"C", "Unheard"}}
  \cup {Entry({"Control"}, "", b, "Quit", "", mode) : b \in ParseMouseButton \cup {"Unheard"}, mode \in ModeLists}
  \cup {Entry(mods, "F2", "", "Quit", "", mode) :
          mods \in {{}, {"Alt", "Control"}, {"Meta"}, {"missing"}, {"Hyper", "Shift"}}, mode \in ModeLists}
  \cup {Entry({"Alt"}, "F3", "", a, arg, <<>>) : a \in ActionNames \cup {"Unheard"}, arg \in {"", "given"}}

InputMappingInit ==
  imap = [phase |-> "new", entry |-> Around[1], file |-> <<>>, first |-> [ok |-> TRUE, tables |-> NoMappings],
          again |-> [ok |-> TRUE, tables |-> NoMappings]]
UseDefaults ==
  imap' = [imap EXCEPT !.phase = "default", !.file = CreateKeyMapping(DefaultMappings),
             !.first = [ok |-> TRUE, tables |-> DefaultMappings]]
WriteFile ==
  \E e \in UserEntries : imap' = [imap EXCEPT !.phase = "user", !.entry = e, !.file = Around \o <<e>> \o Around]
LoadFile == imap' = [imap EXCEPT !.phase = "read", !.first = LoadInputMappings(imap.file)]
SaveAndLoad ==
  imap' = [imap EXCEPT !.phase = IF imap.phase = "default" THEN "default_again" ELSE "again",
             !.again = LoadInputMappings(CreateKeyMapping(imap.first.tables))]
InputMappingNext ==
  \/ imap.phase = "new" /\ (UseDefaults \/ WriteFile)
  \/ imap.phase = "user" /\ LoadFile
  \/ imap.phase \in {"default", "read"} /\ SaveAndLoad

(***************************************************************************)
(* Properties.                                                             *)
(***************************************************************************)
\* The built-in bindings that were written to the first configuration file start, once
\* loaded, with the same action for every input, set of modifiers and modes; only the
\* argument of PasteClipboard is lost.
DefaultsSurvive ==
  imap.phase = "default_again" =>
     /\ imap.again.ok
     /\ \A kind \in {"key", "char", "mouse"} : \A i \in 1 .. Len(DefaultMappings[kind]) :
          LET b == DefaultMappings[kind][i]
          IN  \A flags \in SUBSET {"Select", "Insert", "AltScreen"} :
                LET was == Apply(DefaultMappings[kind], b.input, b.mods, flags)
                    now == Apply(imap.again.tables[kind], b.input, b.mods, flags)
                IN  /\ (was = <<>>) = (now = <<>>)
                    /\ was # <<>> => /\ was[1].name = now[1].name
                                     /\ was[1].arg = now[1].arg \/ was[1].arg = "strip"

\* An entry whose modifier or input is not known is left out and the entries around it
\* are kept.
BadEntryIsLocal ==
  imap.phase = "read" /\ imap.entry.action = "Quit"
  /\ (~imap.entry.mods \subseteq DOMAIN ParseModifierKey \/ "Unheard" \in {imap.entry.key, imap.entry.mouse}) =>
     imap.first = LoadInputMappings(Around \o Around)

\* Saving and loading once more changes no binding of a key; modes of mouse bindings,
\* second actions and most arguments are not written.
SavedModesAgree ==
  imap.phase = "again" /\ imap.again.ok =>
     \A kind \in {"key", "char"} :
        /\ Len(imap.again.tables[kind]) = Len(imap.first.tables[kind])
        /\ \A i \in 1 .. Len(imap.first.tables[kind]) :
             imap.again.tables[kind][i].modes = imap.first.tables[kind][i].modes

\* A file the program has written itself is read to its end.
WrittenFileLoads == imap.phase \in {"again", "default_again"} /\ imap.first.ok => imap.again.ok

\* Every action of a key that was bound is still bound after saving.
SavedActionsAgree == imap.phase \in {"again", "default_again"} => imap.again.tables = imap.first.tables

\* One entry that cannot be used does not cost the entries after it.
LaterEntriesKept == imap.phase = "read" => imap.first.ok
=============================================================================
