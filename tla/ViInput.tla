------------------------------ MODULE ViInput ------------------------------
(***************************************************************************)
(* The vi-like input modes (ViInputHandler, and the parts of ViCommands    *)
(* and Terminal it drives): counts, commands of several keys, the modes,   *)
(* the search editor and the selection with the mouse.  A command is a     *)
(* sequence of keys; the tables are given for one or two keys of each      *)
(* kind.                                                                   *)
(***************************************************************************)
EXTENDS Integers, Sequences, SequencesExt, TLC

CONSTANT MaxViEvents

VARIABLE vi

(***************************************************************************)
(* The command tables.  "any" matches one byte.                            *)
(***************************************************************************)
MotionMappings == {<<"w">>, <<"0">>, <<"g", "g">>, <<"Down">>}
CharMotions == {<<"t", "any">>}
ScopeMappings == {"i", "a"}
TextObjectMappings == {"w", "("}
InScope == {<<s, o>> : s \in ScopeMappings, o \in TextObjectMappings}
Operators == {"y", "o"}
SharedCommands == MotionMappings \cup CharMotions \cup {<<"J">>, <<";">>, <<"/">>, <<"v">>, <<"C-V">>}
NormalCommands ==
  SharedCommands \cup {<<"i">>, <<"a">>, <<"Escape">>, <<"p">>, <<"#">>}
  \cup {<<op, op>> : op \in Operators} \cup {<<op>> \o c : op \in Operators, c \in MotionMappings \cup CharMotions \cup InScope}
VisualCommands == SharedCommands \cup InScope \cup {<<op>> : op \in Operators}
VisualModes == {"Visual", "VisualLine", "VisualBlock"}
Commands(mode) == IF mode \in VisualModes THEN VisualCommands ELSE NormalCommands

\* Written as several bytes: "<Down>", "<ESC>", "C-v", and a character outside ASCII.
Multibyte == "a-umlaut"
SeveralBytes == {"Down", "Escape", "C-V", Multibyte}
MatchesAt(pattern, key) == pattern = key \/ (pattern = "any" /\ key \notin SeveralBytes)
StartsWith(command, keys) ==
  Len(keys) <= Len(command) /\ \A i \in 1 .. Len(keys) : MatchesAt(command[i], keys[i])
Matches(mode, keys) == {c \in Commands(mode) : Len(c) = Len(keys) /\ StartsWith(c, keys)}
IsPrefix2(mode, keys) == \E c \in Commands(mode) : Len(keys) < Len(c) /\ StartsWith(c, keys)

\* A selection, the visual mode it belongs to, and whether two to four clicks made it.
Selection(state, mode, clicked) == [state |-> state, mode |-> mode, clicked |-> clicked]
NoSelection == Selection("none", "none", FALSE)

ViInit ==
  vi = [mode |-> "Insert", edit |-> "Disabled", term |-> <<>>, pattern |-> <<>>, pending |-> <<>>, count |-> 0,
        status |-> <<>>,                    \* the status displays that were pushed
        selection |-> NoSelection, left |-> FALSE, speedClicks |-> 0, byClick |-> FALSE, events |-> 0,
        typed |-> <<>>,                     \* the keys since the last command ended
        done |-> <<>>, sent |-> "nothing"]  \* the last command and its count, and what the application got of the last event

(***************************************************************************)
(* Modes.                                                                  *)
(***************************************************************************)
ClearPendingInput(s) == [s EXCEPT !.pending = <<>>, !.count = 0]
ClearSearch(s) == [s EXCEPT !.term = <<>>, !.pattern = <<>>]
PopStatus(s) == [s EXCEPT !.status = IF @ = <<>> THEN @ ELSE Front(@)]
PushStatus(s) == [s EXCEPT !.status = Append(@, "Indicator")]
\* A visual mode begins a selection, normal mode clears it, insert mode forgets the search.
ModeChanged(s, mode) ==
  IF mode = "Insert" THEN PopStatus([s EXCEPT !.pattern = <<>>, !.byClick = FALSE])
  ELSE PushStatus([s EXCEPT !.selection = IF mode = "Normal" THEN NoSelection ELSE Selection("InProgress", mode, FALSE)])
SetModeKeepingInput(s, mode) ==
  IF s.mode = mode THEN s
  ELSE LET changed == ModeChanged([s EXCEPT !.mode = mode], mode) IN IF mode = "Insert" THEN ClearSearch(changed) ELSE changed
SetViMode(s, mode) ==
  IF s.mode = mode THEN s
  ELSE LET changed == ModeChanged(ClearPendingInput([s EXCEPT !.mode = mode]), mode)
       IN  IF mode = "Insert" THEN ClearSearch(changed) ELSE changed
ToggleMode(s, mode) == SetViMode(s, IF s.mode # mode THEN mode ELSE "Normal")

(***************************************************************************)
(* Commands.                                                               *)
(***************************************************************************)
StartSearch(s) == [s EXCEPT !.edit = "Enabled"]
CountOf(s) == IF s.count = 0 THEN 1 ELSE s.count
\* What a command does besides moving the cursor.
ExecuteCommand(s, command) ==
  CASE command \in {<<"i">>, <<"a">>, <<"Escape">>} /\ s.mode = "Normal" -> SetViMode(s, "Insert")
    [] command = <<"v">> -> IF s.mode \in VisualModes THEN ToggleMode(s, "Normal") ELSE ToggleMode(s, "Visual")
    [] command = <<"C-V">> -> ToggleMode(s, "VisualBlock")
    [] command = <<"/">> -> StartSearch(s)
    [] command = <<"#">> -> [s EXCEPT !.pattern = <<"word">>, !.byClick = FALSE]
    [] command = <<"p">> -> [s EXCEPT !.sent = "paste"]
    [] s.mode \in VisualModes /\ command \in {<<op>> : op \in Operators} -> SetViMode(s, "Normal")
    [] s.mode \in VisualModes /\ command \in InScope -> [s EXCEPT !.selection = Selection("InProgress", "Visual", FALSE)]
    [] s.mode = "Normal" /\ command[1] \in Operators -> [s EXCEPT !.selection = NoSelection]
    [] OTHER -> s
HandlePendingInput(s) ==
  LET exact == Matches(s.mode, s.pending)
  IN  CASE exact # {} -> [ClearPendingInput(ExecuteCommand(s, CHOOSE c \in exact : TRUE)) EXCEPT
                            !.done = <<CHOOSE c \in exact : TRUE, CountOf(s), s.typed, s.mode>>, !.typed = <<>>]
        [] exact = {} /\ ~IsPrefix2(s.mode, s.pending) -> [ClearPendingInput(s) EXCEPT !.typed = <<>>]
        [] OTHER -> s

(***************************************************************************)
(* The search editor.  The pattern of the terminal is what is searched.    *)
(***************************************************************************)
UpdateSearchTerm(s) == [s EXCEPT !.pattern = s.term, !.byClick = FALSE]
HandleSearchEditor(s, ch) ==
  CASE ch = "Esc" ->
         LET left == IF s.edit = "ExternallyEnabled" THEN SetViMode([s EXCEPT !.term = <<>>], "Insert") ELSE [s EXCEPT !.term = <<>>]
         IN  UpdateSearchTerm([left EXCEPT !.edit = "Disabled", !.pattern = <<>>])
    [] ch = "Enter" ->    \* by default an external search ends in insert mode
         LET left == IF s.edit = "ExternallyEnabled" THEN SetViMode(s, "Insert") ELSE s
         IN  UpdateSearchTerm([left EXCEPT !.edit = "Disabled"])
    [] ch = "Backspace" -> UpdateSearchTerm([s EXCEPT !.term = IF @ = <<>> THEN @ ELSE Front(@)])
    [] ch = "C-U" -> UpdateSearchTerm([s EXCEPT !.term = <<>>])
    [] ch \notin {"Esc", "Enter", "Backspace", "C-U", "C-V"} -> UpdateSearchTerm([s EXCEPT !.term = Append(@, ch)])
    [] OTHER -> s

(***************************************************************************)
(* Events.                                                                 *)
(***************************************************************************)
ViActive == vi.events < MaxViEvents
NextEvent(s) == [s EXCEPT !.events = @ + 1, !.sent = "nothing"]
Digits2 == ("0" :> 0) @@ ("2" :> 2)
IsCount(s, ch) == ch = "2" \/ (ch = "0" /\ s.count # 0)
Keyed(s, ch) == [s EXCEPT !.typed = Append(@, ch)]
SendCharPress(s, ch) ==
  CASE s.edit # "Disabled" -> HandleSearchEditor(s, ch)
    [] s.edit = "Disabled" /\ s.mode = "Insert" -> [s EXCEPT !.sent = ch]
    [] s.edit = "Disabled" /\ s.mode # "Insert" /\ ch = "Esc" -> [SetViMode(ClearPendingInput(s), "Normal") EXCEPT !.typed = <<>>]
    [] s.edit = "Disabled" /\ s.mode # "Insert" /\ IsCount(s, ch) -> Keyed([s EXCEPT !.count = @ * 10 + Digits2[ch]], ch)
    [] OTHER -> HandlePendingInput(Keyed([s EXCEPT !.pending = Append(@, ch)], ch))
SendCharPressEvent(ch) ==
  /\ ViActive
  /\ vi' = SendCharPress(NextEvent(vi), ch)
\* Keys that are no characters: arrows and the like are names, others only have the pending keys looked at again.
SendKeyPress(s, key) ==
  CASE s.edit # "Disabled" -> IF key \in {"Esc", "Enter", "Backspace"} THEN HandleSearchEditor(s, key) ELSE s
    [] s.edit = "Disabled" /\ s.mode = "Insert" -> [s EXCEPT !.sent = key]
    [] s.edit = "Disabled" /\ s.mode \in VisualModes /\ key = "Esc" ->
         [SetViMode(ClearPendingInput(s), "Normal") EXCEPT !.sent = key, !.typed = <<>>]
    [] s.edit = "Disabled" /\ s.mode = "Normal" /\ key = "Esc" ->
         HandlePendingInput(Keyed([s EXCEPT !.pending = Append(@, "Escape")], "Escape"))
    [] s.edit = "Disabled" /\ s.mode # "Insert" /\ key = "Down" ->
         HandlePendingInput(Keyed([s EXCEPT !.pending = Append(@, key)], key))
    [] OTHER -> IF s.pending = <<>> THEN s ELSE HandlePendingInput(s)
SendKeyPressEvent(key) ==
  /\ ViActive
  /\ vi' = SendKeyPress(NextEvent(vi), key)
\* The actions ViNormalMode and SearchReverse of the configuration.
ViNormalMode ==
  /\ ViActive
  /\ vi' = LET s == NextEvent(vi)
           IN  CASE s.mode = "Insert" -> SetViMode(s, "Normal")
                 [] s.mode = "Normal" -> [SetViMode(s, "Insert") EXCEPT !.typed = <<>>]
                 [] OTHER -> s
StartSearchExternally ==
  /\ ViActive
  /\ LET s == [NextEvent(vi) EXCEPT !.term = <<>>]
     IN  vi' = IF s.mode # "Insert" THEN [s EXCEPT !.edit = "Enabled"]
               ELSE SetViMode([s EXCEPT !.edit = "ExternallyEnabled"], "Normal")
\* A paste goes into the pattern while the search is edited.
PasteIntoSearch ==
  /\ ViActive /\ vi.edit # "Disabled"
  /\ vi' = [NextEvent(vi) EXCEPT !.pattern = Append(@, "pasted")]

(***************************************************************************)
(* The left mouse button, with no application that tracks the mouse (see   *)
(* MouseInput).  The first click drops the selection, and with it a visual *)
(* mode, and waits for a move to begin one; two, three and four clicks     *)
(* select words and lines.  What is selected is searched for.              *)
(***************************************************************************)
ClearSelection(s) ==
  IF s.mode \notin VisualModes THEN [s EXCEPT !.selection = NoSelection]
  ELSE IF s.left THEN SetViMode(s, "Normal") ELSE s
UpdateSelectionMatches(s) == [s EXCEPT !.pattern = <<"selected">>, !.byClick = TRUE]
FirstClick(s, mode) ==
  LET searched == IF s.byClick THEN [s EXCEPT !.pattern = <<>>, !.byClick = FALSE] ELSE s
  IN  [ClearSelection(searched) EXCEPT !.selection = Selection("Waiting", mode, FALSE)]
HandleMouseSelection(s, mode) ==
  CASE s.speedClicks = 1 -> FirstClick(s, mode)
    [] s.speedClicks \in {2, 3} -> UpdateSelectionMatches([s EXCEPT !.selection = Selection("InProgress", "Visual", TRUE)])
    [] s.speedClicks = 4 -> [s EXCEPT !.selection = Selection("InProgress", "VisualLine", TRUE)]
\* Keys typed for a mode that the mouse leaves are forgotten.
ByMouse(s) == vi' = IF s.mode = vi.mode THEN s ELSE [s EXCEPT !.typed = <<>>]
MousePress(recent, mode) ==
  /\ ViActive /\ ~vi.left
  /\ ByMouse(HandleMouseSelection([NextEvent(vi) EXCEPT !.left = TRUE, !.speedClicks = ((IF recent THEN @ ELSE 0) % 4) + 1],
                                  mode))
Extend(s) ==
  LET t == IF s.mode = "Insert" THEN s ELSE SetViMode(s, s.selection.mode)
  IN  UpdateSelectionMatches([t EXCEPT !.selection.state = "InProgress"])
MouseMove ==
  /\ ViActive /\ vi.left
  /\ LET s == [NextEvent(vi) EXCEPT !.speedClicks = 0]
     IN  ByMouse(CASE s.selection.state = "none" -> [s EXCEPT !.selection = Selection("Waiting", "Visual", FALSE)]
                   [] s.selection.state \in {"Waiting", "InProgress"} -> Extend(s)
                   [] s.selection.state = "Complete" -> s)
MouseRelease ==
  /\ vi.left
  /\ vi' = [vi EXCEPT !.left = FALSE, !.sent = "nothing",
                      !.selection = CASE @.state = "Waiting" -> NoSelection
                                      [] @.state = "InProgress" /\ vi.mode = "Insert" -> [@ EXCEPT !.state = "Complete"]
                                      [] OTHER -> @]
\* The action CancelSelection, another screen, a cleared history, a resize: by the user or the application at any time.
SelectionDropped ==
  /\ ViActive /\ vi.selection.state # "none"
  /\ ByMouse(ClearSelection(NextEvent(vi)))

ViNext ==
  \/ \E ch \in {"w", "0", "2", "g", "t", "i", "y", "v", "/", "Esc", "C-V", "p", Multibyte} : SendCharPressEvent(ch)
  \/ \E key \in {"Esc", "Down", "Enter", "F1"} : SendKeyPressEvent(key)
  \/ ViNormalMode \/ StartSearchExternally \/ PasteIntoSearch
  \/ \E recent \in BOOLEAN, mode \in {"Visual", "VisualBlock"} : MousePress(recent, mode)
  \/ MouseMove \/ MouseRelease \/ SelectionDropped

(***************************************************************************)
(* A command is what was typed for it: its keys are the keys since the     *)
(* last command, rejected input or cancellation, with the digits taken     *)
(* out, and its count is the number these digits form (the grammar Count?  *)
(* (Operator | Motion) of ViInputHandler.h).                               *)
(***************************************************************************)
CommandAsTyped ==
  vi.done # <<>> =>
    LET typed == vi.done[3]
        isDigit(i) == typed[i] = "2" \/ (typed[i] = "0" /\ \E j \in 1 .. i - 1 : typed[j] = "2")
        number == FoldLeft(LAMBDA n, d : n * 10 + Digits2[d], 0, SelectSeq(typed, LAMBDA k : k = "2" \/ (k = "0" /\ vi.done[1] # <<"0">>)))
        keys == SelectSeq(typed, LAMBDA k : k # "2" /\ (k # "0" \/ \A i \in 1 .. Len(typed) : typed[i] # "2"))
    IN  StartsWith(vi.done[1], keys) /\ vi.done[2] = IF number = 0 THEN 1 ELSE number

(***************************************************************************)
(* Pending keys can always become a command of the mode in use; otherwise  *)
(* every key after them would be swallowed (setMode forgets them).         *)
(***************************************************************************)
PendingCompletes == vi.pending # <<>> => IsPrefix2(vi.mode, vi.pending)

(***************************************************************************)
(* A visual mode always has a selection in progress, and normal mode has   *)
(* none but one that several clicks made or a button that is held is about *)
(* to begin, whether keys, the mouse, an action or the application changed *)
(* the mode or dropped the selection (ViCommands::modeChanged,             *)
(* Terminal::clearSelection, sendMouseReleaseEvent).                       *)
(***************************************************************************)
SelectionWithVisual ==
  /\ vi.mode \in VisualModes => vi.selection.state = "InProgress"
  /\ vi.mode = "Normal" => \/ vi.selection.state = "none" \/ vi.selection.clicked
                           \/ vi.selection.state = "Waiting" /\ vi.left

(***************************************************************************)
(* What does not hold of this code.  In the vi modes no key reaches the    *)
(* application.                                                            *)
(***************************************************************************)
KeysStayInVi == [][vi.mode # "Insert" /\ vi' # vi => vi'.sent \in {"nothing", "paste"}]_vi

\* A command with an operator starts without a selection (the assertion of extractTextAndHighlightRange).
NormalHasNoSelection == vi.mode = "Normal" /\ ~vi.left => vi.selection.state = "none"

\* In insert mode the search is not edited, keys go to the application.
InsertNotEditing == vi.mode = "Insert" => vi.edit = "Disabled"

\* What is searched is what the editor shows, pasted text included.
PatternKept == [][vi.edit # "Disabled" /\ vi'.edit = vi.edit /\ Len(vi'.term) > Len(vi.term) /\ vi.pattern # <<>> =>
                    Len(vi'.pattern) > Len(vi.pattern)]_vi

\* The status display of insert mode is back after the vi modes.
StatusRestored == vi.mode = "Insert" => vi.status = <<>>

\* Any character can follow t, also a digit.
AnyCharacterFollows == [][vi.pending = <<"t">> /\ Len(vi'.typed) > Len(vi.typed) => vi'.done # vi.done]_vi
=============================================================================
