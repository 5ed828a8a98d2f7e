---------------------------- MODULE KeyboardInput ----------------------------
(***************************************************************************)
(* From key events to bytes for the application (InputGenerator): the      *)
(* legacy encoding, the extended one with its stack of flags, paste and    *)
(* replies, and the buffer between the generator and the PTY.  An encoded  *)
(* event is a record and stands for its bytes; the PTY may take only some  *)
(* of the records.  The GUI thread sends events and flushes, the terminal  *)
(* thread adds replies while it parses and flushes some of them itself; no *)
(* lock orders the two.                                                    *)
(***************************************************************************)
EXTENDS Integers, Sequences, FiniteSets, Functions, SequencesExt, TLC

CONSTANTS MaxStackDepth,      \* 32 in the code
          MaxKeyEvents        \* events of one run

VARIABLE keys

(***************************************************************************)
(* Keys, modifiers and encoded events.                                     *)
(***************************************************************************)
FunctionKeys == [n \in 1 .. 35 |-> "F" \o ToString(n)]
Arrows == ("UpArrow" :> "A") @@ ("DownArrow" :> "B") @@ ("RightArrow" :> "C") @@ ("LeftArrow" :> "D")
          @@ ("Home" :> "H") @@ ("End" :> "F")
EditingKeys == ("Insert" :> 2) @@ ("Delete" :> 3) @@ ("PageUp" :> 5) @@ ("PageDown" :> 6)
Digits == [n \in 0 .. 9 |-> "Numpad_" \o ToString(n)]
NumpadOperators == <<"Numpad_Decimal", "Numpad_Divide", "Numpad_Multiply", "Numpad_Subtract", "Numpad_Add",
                     "Numpad_Enter", "Numpad_Equal">>
ModifierKeys == <<"LeftShift", "LeftControl", "LeftAlt", "LeftSuper", "LeftHyper", "LeftMeta", "RightShift",
                  "RightControl", "RightAlt", "RightSuper", "RightHyper", "RightMeta", "IsoLevel3Shift",
                  "IsoLevel5Shift">>
LockKeys == <<"CapsLock", "ScrollLock", "NumLock", "PrintScreen", "Pause", "Menu">>
MediaKeys == ("MediaPlay" :> 57428) @@ ("MediaPause" :> 57429) @@ ("MediaTogglePlayPause" :> 57430)
             @@ ("MediaStop" :> 57432) @@ ("MediaNext" :> 57435) @@ ("MediaPrevious" :> 57436)
             @@ ("VolumeDown" :> 57438) @@ ("VolumeUp" :> 57439) @@ ("VolumeMute" :> 57440)
Unsupported == Range(ModifierKeys) \cup Range(LockKeys) \cup DOMAIN MediaKeys
Keys == Range(FunctionKeys) \cup DOMAIN Arrows \cup DOMAIN EditingKeys \cup Range(Digits)
        \cup Range(NumpadOperators) \cup Unsupported \cup {"Escape", "Enter", "Tab", "Backspace"}

Bit == ("Shift" :> 1) @@ ("Alt" :> 2) @@ ("Control" :> 4) @@ ("Super" :> 8)
ModifierSets == {{}, {"Shift"}, {"Alt"}, {"Control"}, {"Shift", "Control"}, {"Shift", "Alt"}}
Value(mods) == FoldFunctionOnSet(+, 0, Bit, mods)
MakeVirtualTerminalParam(mods) == 1 + Value(mods)

Empty == [esc |-> FALSE, intro |-> "", code |-> 0, alternates |-> <<0, 0>>, mods |-> 0, event |-> 0, final |-> ""]
Byte(code) == [Empty EXCEPT !.intro = "byte", !.code = code]
Sequence(intro, code, final) == [Empty EXCEPT !.intro = intro, !.code = code, !.final = final]
Bracket(code) == Sequence("CSI", code, "~")
Rejected == <<>>

(***************************************************************************)
(* The legacy encoding.  A mapping has up to four forms, Empty is absent.  *)
(***************************************************************************)
FunctionKeyMapping(std, mods, appCursor, appKeypad) ==
  [std |-> std, mods |-> mods, appCursor |-> appCursor, appKeypad |-> appKeypad]
SelectSequence(s, mods, mapping) ==
  LET prefixed(seq) == <<[seq EXCEPT !.esc = "Alt" \in mods]>>
  IN  CASE mods # {} /\ mapping.mods # Empty -> <<[mapping.mods EXCEPT !.mods = MakeVirtualTerminalParam(mods)]>>
        [] ~(mods # {} /\ mapping.mods # Empty) /\ s.cursorKeys = "Application" /\ mapping.appCursor # Empty ->
             prefixed(mapping.appCursor)
        [] ~(mods # {} /\ mapping.mods # Empty) /\ ~(s.cursorKeys = "Application" /\ mapping.appCursor # Empty)
           /\ s.numpadKeys = "Application" /\ mapping.appKeypad # Empty -> prefixed(mapping.appKeypad)
        [] OTHER -> prefixed(mapping.std)

TildeCodes == <<15, 17, 18, 19, 20, 21, 23, 24, 25, 26, 28, 29>> \o [i \in 1 .. 19 |-> 30 + i]
KeypadForms == [n \in 0 .. 9 |-> CASE n = 0 -> Sequence("CSI", 2, "~") [] n = 1 -> Sequence("SS3", 0, "F")
                                   [] n = 2 -> Sequence("CSI", 0, "B") [] n = 3 -> Sequence("CSI", 6, "~")
                                   [] n = 4 -> Sequence("CSI", 0, "D") [] n = 5 -> Sequence("CSI", 0, "E")
                                   [] n = 6 -> Sequence("CSI", 0, "C") [] n = 7 -> Sequence("SS3", 0, "H")
                                   [] n = 8 -> Sequence("CSI", 0, "A") [] n = 9 -> Sequence("CSI", 5, "~")]
OperatorForms == <<<<46, Sequence("CSI", 3, "~")>>, <<47, Sequence("SS3", 0, "o")>>, <<42, Sequence("SS3", 0, "j")>>,
                   <<45, Sequence("SS3", 0, "m")>>, <<43, Sequence("SS3", 0, "k")>>, <<13, Sequence("SS3", 0, "M")>>,
                   <<61, Sequence("SS3", 0, "X")>>>>
StandardMapping(key, mods) ==
  CASE key \in {FunctionKeys[n] : n \in 1 .. 4} ->
         LET seq == Sequence("SS3", 0, CHOOSE c \in {"P", "Q", "R", "S"} : key = ("P" :> "F1" @@ "Q" :> "F2" @@ "R" :> "F3" @@ "S" :> "F4")[c])
         IN  FunctionKeyMapping(seq, seq, Empty, Empty)
    [] key \in {FunctionKeys[n] : n \in 5 .. 35} ->
         LET seq == Bracket(TildeCodes[(CHOOSE n \in 5 .. 35 : FunctionKeys[n] = key) - 4])
         IN  FunctionKeyMapping(seq, seq, Empty, Empty)
    [] key = "Enter" -> FunctionKeyMapping(Byte(13), Empty, Empty, Empty)
    [] key = "Backspace" -> FunctionKeyMapping(Byte(IF "Control" \in mods THEN 8 ELSE 127), Empty, Empty, Empty)
    [] key \in DOMAIN Arrows -> FunctionKeyMapping(Sequence("CSI", 0, Arrows[key]), Sequence("CSI", 1, Arrows[key]),
                                                   Sequence("SS3", 0, Arrows[key]), Empty)
    [] key \in DOMAIN EditingKeys ->
         LET seq == Bracket(EditingKeys[key])
         IN  FunctionKeyMapping(seq, seq, Empty, IF key \in {"PageUp", "PageDown"} THEN seq ELSE Empty)
    [] key \in Range(Digits) ->
         LET n == CHOOSE d \in 0 .. 9 : Digits[d] = key
         IN  FunctionKeyMapping(Byte(48 + n), Empty, Empty, KeypadForms[n])
    [] key \in Range(NumpadOperators) ->
         LET form == OperatorForms[CHOOSE i \in 1 .. 7 : NumpadOperators[i] = key]
         IN  FunctionKeyMapping(Byte(form[1]), Empty, Empty, form[2])

\* Control with a character of this table sends a C0 code.
ControlCode(ch) ==
  CASE ch \in {32, 50} -> 0 [] ch \in 65 .. 90 -> ch - 64 [] ch \in {51, 91} -> 27 [] ch \in {52, 92} -> 28
    [] ch \in {53, 93} -> 29 [] ch \in {54, 126, 94} -> 30 [] ch \in {55, 63, 95} -> 31 [] ch = 56 -> 127
    [] ch = 9 -> 9 [] OTHER -> ch
StandardGenerateChar(ch, mods, event) ==
  IF event = "Release" THEN Rejected
  ELSE LET plain == CASE ch = 8 -> Byte(IF "Control" \in mods THEN 8 ELSE 127)
                      [] ch = 9 /\ mods = {"Shift"} -> Sequence("CSI", 0, "Z")
                      [] ch # 8 /\ mods \ {"Shift"} = {"Control"} -> Byte(ControlCode(ch))
                      [] OTHER -> Byte(ch)
       IN  <<[plain EXCEPT !.esc = mods = {"Alt"}]>>
StandardGenerateKey(s, key, mods, event) ==
  CASE event = "Release" \/ key \in Unsupported -> Rejected
    [] event # "Release" /\ key = "Escape" -> <<Byte(27)>>
    [] event # "Release" /\ key = "Tab" -> StandardGenerateChar(9, mods, event)
    [] OTHER -> SelectSequence(s, mods, StandardMapping(key, mods))

(***************************************************************************)
(* The extended encoding.                                                  *)
(***************************************************************************)
EventTypes == ("Press" :> 1) @@ ("Repeat" :> 2) @@ ("Release" :> 3)
FlagsOf(s) == s.stack[Len(s.stack)]
EnabledEvent(s, event) == event # "Release" \/ "ReportEventTypes" \in FlagsOf(s)
EncodeModifiers(s, seq, mods, event) ==
  CASE "ReportEventTypes" \in FlagsOf(s) -> [seq EXCEPT !.mods = Value(mods), !.event = EventTypes[event]]
    [] "ReportEventTypes" \notin FlagsOf(s) /\ mods # {} -> [seq EXCEPT !.mods = 1 + Value(mods)]
    [] OTHER -> seq
ToLower(ch) == IF ch \in 65 .. 90 THEN ch + 32 ELSE ch
ToUpper(ch) == IF ch \in 97 .. 122 THEN ch - 32 ELSE ch
\* Outside ASCII the code is left out (-1).
EncodeCharacter(s, ch, physicalKey, mods) ==
  LET shifted == IF "Shift" \in mods /\ ch \in 32 .. 127 THEN ToUpper(ch) ELSE 0
      physical == IF physicalKey \in {0, ch, shifted} THEN 0 ELSE physicalKey
      seq == Sequence("CSI", IF ch < 128 THEN ToLower(ch) ELSE -1, "u")
  IN  IF "ReportAlternateKeys" \in FlagsOf(s) THEN [seq EXCEPT !.alternates = <<shifted, physical>>] ELSE seq
KeyCode(key, operators) ==
  LET position(list) == CHOOSE i \in DOMAIN list : list[i] = key
  IN  CASE key = "Escape" -> <<27, "u">> [] key = "Enter" -> <<13, "u">> [] key = "Tab" -> <<9, "u">>
        [] key = "Backspace" -> <<127, "u">>
        [] key = "Home" -> <<7, "~">> [] key = "End" -> <<8, "~">>
        [] key \in DOMAIN Arrows \ {"Home", "End"} -> <<1, Arrows[key]>>
        [] key \in DOMAIN EditingKeys -> <<EditingKeys[key], "~">>
        [] key \in Range(FunctionKeys) ->
             LET n == position(FunctionKeys)
             IN  IF n <= 4 THEN <<10 + n, "~">> ELSE IF n <= 12 THEN <<TildeCodes[n - 4], "~">> ELSE <<57363 + n, "u">>
        [] key \in Range(LockKeys) -> <<57357 + position(LockKeys), "u">>
        [] key \in DOMAIN MediaKeys -> <<MediaKeys[key], "u">>
        [] key \in Range(ModifierKeys) -> <<57440 + position(ModifierKeys), "u">>
        [] key \in Range(Digits) -> <<57399 + position(Digits), "u">>
        [] key \in Range(NumpadOperators) -> <<operators + position(NumpadOperators), "u">>
MapKey(key) == KeyCode(key, 57408)
IsModifierKey(key) == key \in Range(ModifierKeys) \cup {"CapsLock", "NumLock"}

GenerateChar(s, ch, physicalKey, mods, event) ==
  IF /\ EnabledEvent(s, event) /\ "DisambiguateEscapeCodes" \in FlagsOf(s)
     /\ mods \ {"Shift"} # {} \/ "ReportAllKeysAsEscapeCodes" \in FlagsOf(s)
  THEN <<EncodeModifiers(s, EncodeCharacter(s, ch, physicalKey, mods), mods, event)>>
  ELSE StandardGenerateChar(ch, mods, event)
GenerateKey(s, key, mods, event) ==
  LET all == "ReportAllKeysAsEscapeCodes" \in FlagsOf(s)
      extended == "DisambiguateEscapeCodes" \in FlagsOf(s)
      legacy == ~extended \/ (mods = {} /\ ~all /\ key \in {"Enter", "Tab", "Backspace"})
  IN  CASE ~EnabledEvent(s, event) -> Rejected
        [] EnabledEvent(s, event) /\ legacy -> StandardGenerateKey(s, key, mods, event)
        [] EnabledEvent(s, event) /\ ~legacy /\ IsModifierKey(key) /\ ~all -> Rejected
        [] OTHER -> <<EncodeModifiers(s, Sequence("CSI", MapKey(key)[1], MapKey(key)[2]), mods, event)>>

(***************************************************************************)
(* The state: the modes, the stack of flags (its first element is the      *)
(* base) and pending bytes.  What programs entered and left is kept        *)
(* besides (wanted), everything that was generated and written, and        *)
(* whether the two threads ever flushed at the same time.                  *)
(***************************************************************************)
Threads == {"gui", "terminal"}
NoFlush == [at |-> "idle", bytes |-> <<>>, taken |-> 0]
KeyboardInit ==
  keys = [stage |-> "setup", cursorKeys |-> "Normal", numpadKeys |-> "Normal", stack |-> <<{}>>, bracketed |-> FALSE, focus |-> FALSE,
          allowInput |-> TRUE, pending |-> <<>>, consumed |-> 0, flush |-> [t \in Threads |-> NoFlush], events |-> 0,
          wanted |-> <<{}>>, full |-> FALSE, overlapped |-> FALSE, generated |-> <<>>, written |-> <<>>, last |-> <<>>]

\* A run is about the encoding of one event after changes of the modes, or about the buffer.
ChooseStage(stage) == keys.stage = "setup" /\ keys' = [keys EXCEPT !.stage = stage]
\* No event is added after an overlap: what was generated before shows its effect.
ActiveThread(t, stage) == keys.stage = stage /\ keys.events < MaxKeyEvents
                          /\ keys.flush[t].at = "idle" /\ ~keys.overlapped
Active(stage) == ActiveThread("gui", stage)
Encodes == Active("modes") /\ keys.events < MaxKeyEvents - 1
LastEvent(s) == [s EXCEPT !.events = MaxKeyEvents]
Event(s) == [s EXCEPT !.events = @ + 1]
AppendPending(s, sequences) == [s EXCEPT !.pending = @ \o sequences, !.generated = @ \o sequences]

(***************************************************************************)
(* Flushing: a thread looks at the bytes not yet consumed, writes them,    *)
(* the PTY takes some, and as many are consumed.  The terminal thread does *)
(* so right after a reply.  When both flush, more may be consumed than     *)
(* there was, and to look again would be undefined: no flush begins after  *)
(* such an overlap.                                                        *)
(***************************************************************************)
Peek(s) == SubSeq(s.pending, s.consumed + 1, Len(s.pending))
Flushing(s, t) == s.flush[t].at \in {"write", "consume"}
Calls(t) == keys.flush[t].at = IF t = "gui" THEN "idle" ELSE "call"
FlushInput(t) ==
  /\ Calls(t) /\ ~keys.overlapped
  /\ \/ /\ Peek(keys) # <<>>
        /\ keys' = [keys EXCEPT !.flush[t] = [at |-> "write", bytes |-> Peek(keys), taken |-> 0],
                                !.overlapped = @ \/ \E o \in Threads \ {t} : Flushing(keys, o)]
     \/ /\ Peek(keys) = <<>> /\ keys.flush[t].at = "call"
        /\ keys' = [keys EXCEPT !.flush[t] = NoFlush]
PtyWrite(t, n) ==
  /\ keys.flush[t].at = "write" /\ n <= Len(keys.flush[t].bytes)
  /\ keys' = [keys EXCEPT !.flush[t] = [at |-> "consume", bytes |-> <<>>, taken |-> n],
                          !.written = @ \o SubSeq(keys.flush[t].bytes, 1, n)]
ConsumeAll(s, n) == [s EXCEPT !.consumed = 0, !.pending = <<>>]
Consume(s, n) ==
  IF s.consumed + n = Len(s.pending) THEN [s EXCEPT !.consumed = 0, !.pending = <<>>] ELSE [s EXCEPT !.consumed = @ + n]
FlushDone(t) ==
  LET n == keys.flush[t].taken
  IN  /\ keys.flush[t].at = "consume"
      /\ keys' = [(IF n > 0 THEN Consume(keys, n) ELSE keys) EXCEPT !.flush[t] = NoFlush]

(***************************************************************************)
(* Events of the user.                                                     *)
(***************************************************************************)
\* The vi input handler takes every release, in insert mode too.
SendKeyEvent(key, mods, event) ==
  /\ Encodes /\ keys.allowInput
  /\ LET seq == IF event = "Release" THEN Rejected ELSE GenerateKey(keys, key, mods, event)
     IN  keys' = [LastEvent(AppendPending(keys, seq)) EXCEPT !.last = <<key, mods, event, seq>>]
SendCharEvent(ch, physicalKey, mods, event) ==
  /\ Encodes /\ keys.allowInput
  /\ keys' = [LastEvent(AppendPending(keys, IF event = "Release" THEN Rejected
                                            ELSE GenerateChar(keys, ch, physicalKey, mods, event))) EXCEPT !.last = <<>>]
SendPaste(text) ==
  /\ Active("buffer") /\ text # <<>>
  /\ keys' = [Event(AppendPending(keys, IF keys.bracketed THEN <<Bracket(200)>> \o text \o <<Bracket(201)>> ELSE text))
                EXCEPT !.last = <<>>]
SendFocusEvent(final) ==
  /\ Active("buffer")
  /\ keys' = [Event(IF keys.focus THEN AppendPending(keys, <<Sequence("CSI", 0, final)>>) ELSE keys) EXCEPT !.last = <<>>]

(***************************************************************************)
(* Control functions of the application.  A reply can be generated while   *)
(* the GUI thread is between a write and its consumption.  Some replies    *)
(* are flushed at once: the one about a new palette, and every one when    *)
(* CONTOUR_SYNC_PTY_OUTPUT is set.                                         *)
(***************************************************************************)
Reply(sync) ==
  /\ ActiveThread("terminal", "buffer")
  /\ keys' = [Event(AppendPending(keys, <<Sequence("CSI", keys.events, "reply")>>))
                EXCEPT !.flush["terminal"].at = IF sync THEN "call" ELSE "idle"]
SetBufferModes == ActiveThread("terminal", "buffer") /\ keys' = [Event(keys) EXCEPT !.bracketed = ~@, !.focus = ~@]
SetKeyModes ==
  /\ Active("modes")
  /\ \/ keys' = [Event(keys) EXCEPT !.cursorKeys = IF @ = "Normal" THEN "Application" ELSE "Normal", !.last = <<>>]
     \/ keys' = [Event(keys) EXCEPT !.numpadKeys = IF @ = "Normal" THEN "Application" ELSE "Normal", !.last = <<>>]
     \/ keys' = [Event(keys) EXCEPT !.allowInput = ~@, !.last = <<>>]
EnterFlags(flags) ==
  /\ Active("modes")
  /\ LET fits == Len(keys.stack) < MaxStackDepth
     IN  keys' = [Event(keys) EXCEPT !.stack = IF fits THEN Append(@, flags) ELSE @, !.wanted = Append(@, flags),
                                     !.full = @ \/ ~fits, !.last = <<>>]
Leave(stack, n) == SubSeq(stack, 1, Len(stack) - (IF n < Len(stack) - 1 THEN n ELSE Len(stack) - 1))
LeaveFlags(n) ==
  /\ Active("modes")
  /\ keys' = [Event(keys) EXCEPT !.stack = Leave(@, n), !.last = <<>>,
                !.wanted = SubSeq(@, 1, IF n < Len(@) THEN Len(@) - n ELSE 1)]
\* Refused while only the base is there.
EnhanceFlags(flags, mode) ==
  /\ Active("modes") /\ Len(keys.stack) > 1
  /\ LET changed(old) == CASE mode = 1 -> flags [] mode = 2 -> old \cup flags [] mode = 3 -> old \ flags
     IN  keys' = [Event(keys) EXCEPT !.stack[Len(keys.stack)] = changed(@), !.last = <<>>,
                    !.wanted[Len(keys.wanted)] = changed(@)]
\* RIS; the base class, which keeps the modes of cursor and numpad keys, is not reset.
ResetKeyboard ==
  /\ Active("modes")
  /\ keys' = [Event(keys) EXCEPT !.stack = <<{}>>, !.wanted = <<{}>>, !.full = FALSE, !.bracketed = FALSE,
                !.focus = FALSE, !.last = <<"reset">>]

Flags5 == {{"DisambiguateEscapeCodes"}, {"DisambiguateEscapeCodes", "ReportAllKeysAsEscapeCodes"},
           {"DisambiguateEscapeCodes", "ReportEventTypes", "ReportAlternateKeys"}, {"ReportEventTypes"}}
SomeKeys == {"F1", "F5", "F13", "Enter", "Tab", "UpArrow", "Home", "PageUp", "Numpad_0", "Numpad_9", "Numpad_Enter",
             "LeftShift", "Menu", "MediaPlay", "Escape", "Backspace"}
KeyboardNext ==
  \/ \E stage \in {"modes", "buffer"} : ChooseStage(stage)
  \/ \E key \in SomeKeys, mods \in ModifierSets, event \in DOMAIN EventTypes : SendKeyEvent(key, mods, event)
  \/ \E ch \in {8, 9, 50, 65, 97, 228}, physicalKey \in {0, 97}, mods \in ModifierSets, event \in {"Press", "Release"} :
        SendCharEvent(ch, physicalKey, mods, event)
  \/ \E text \in {<<>>, <<Byte(112), Byte(113)>>} : SendPaste(text)
  \/ \E final \in {"I", "O"} : SendFocusEvent(final)
  \/ \E t \in Threads : FlushInput(t) \/ FlushDone(t) \/ \E n \in 0 .. 4 : PtyWrite(t, n)
  \/ \E sync \in BOOLEAN : Reply(sync)
  \/ SetKeyModes \/ SetBufferModes \/ ResetKeyboard
  \/ \E flags \in Flags5 : EnterFlags(flags) \/ \E mode \in 1 .. 3 : EnhanceFlags(flags, mode)
  \/ \E n \in 1 .. 2 : LeaveFlags(n)

(***************************************************************************)
(* What the PTY was given is, in order and without gaps or repetitions,    *)
(* the beginning of what was generated; the rest is still to be written.   *)
(* Writes may be partial or fail, and replies may be added while a write   *)
(* is under way.  It holds as long as the two threads never flush at the   *)
(* same time (InputGenerator::consume, Terminal::flushInput).              *)
(***************************************************************************)
Taken(t) == IF keys.flush[t].at = "consume" THEN keys.flush[t].taken ELSE 0
InOrderNow ==
  keys.generated =
    keys.written \o SubSeq(keys.pending, keys.consumed + Taken("gui") + Taken("terminal") + 1, Len(keys.pending))
BytesInOrder == ~keys.overlapped => InOrderNow

(***************************************************************************)
(* Programs that enter and leave the extended protocol find the flags of   *)
(* the program around them again, as long as the stack was never full      *)
(* (ExtendedKeyboardInputGenerator::enter, leave).                         *)
(***************************************************************************)
FlagsRestored == ~keys.full => keys.stack = keys.wanted

(***************************************************************************)
(* With DisambiguateEscapeCodes no two keys pressed with the same          *)
(* modifiers send the same bytes, whatever the other flags and the modes   *)
(* of cursor and numpad keys are (mapKey).                                 *)
(***************************************************************************)
KeysDisambiguated ==
  Len(keys.last) = 4 /\ "DisambiguateEscapeCodes" \in FlagsOf(keys) /\ keys.last[4] # Rejected =>
    \A key \in Keys \ {keys.last[1]} : GenerateKey(keys, key, keys.last[2], keys.last[3]) # keys.last[4]

(***************************************************************************)
(* What does not hold of this code.  A full stack drops what is entered    *)
(* but not the leaving of it.                                              *)
(***************************************************************************)
FlagsRestoredWhenFull == Len(keys.wanted) <= MaxStackDepth => Last(keys.stack) = Last(keys.wanted)

\* Two threads that flush at the same time send the same bytes twice and drop others: flushInput() takes no lock.
BytesInOrderAlways == InOrderNow

\* A reset returns the keys to their normal modes (the comment of InputGenerator::reset).
ResetRestoresKeyModes == keys.last = <<"reset">> => keys.cursorKeys = "Normal" /\ keys.numpadKeys = "Normal"

\* With ReportEventTypes the application learns of a release.
ReleasesReported ==
  Len(keys.last) = 4 /\ keys.last[3] = "Release"
  /\ {"DisambiguateEscapeCodes", "ReportEventTypes"} \subseteq FlagsOf(keys) /\ keys.last[1] = "UpArrow" => keys.last[4] # Rejected

\* The parameter for the modifiers is one more than their bits, with or without an event type.
ModifierParameter ==
  \A i \in 1 .. Len(keys.pending) : keys.pending[i].event # 0 => keys.pending[i].mods > 0

\* A character that sends an escape code sends its code point.
CharacterHasCode == \A i \in 1 .. Len(keys.pending) : keys.pending[i].code # -1
=============================================================================
