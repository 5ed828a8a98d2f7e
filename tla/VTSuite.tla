-------- MODULE VTSuite -----------------------------------------------------
(***************************************************************************)
(* Components of the VT backend, between the application and the user, each *)
(* run on its own: `part' chooses one and the others keep their initial    *)
(* state.                                                                  *)
(***************************************************************************)
EXTENDS VTFunctions, VTParser, PageEdit, TerminalModes, ColorPalettes, GraphicsRendition,
  StatusReports, KeyboardInput, MouseInput, ViInput, ViMotions, StatusLine

VARIABLE part      \* the component that runs

components == <<functions, parser, edit, modes, pals, sgr, reports, keys, mouse, vi, mv, jump,
  bar>>
suiteVars == <<part, components>>

Init ==
  /\ part \in {"Functions", "Parser", "Edit", "Modes", "Palette", "Graphics", "Reports", "Keyboard",
             "Mouse", "Vi", "Motions", "Jump", "Bar"}
  /\ FunctionsInit
  /\ ParserInit
  /\ EditInit
  /\ ModesInit
  /\ PaletteInit
  /\ GraphicsInit
  /\ ReportsInit
  /\ KeyboardInit
  /\ MouseInit
  /\ ViInit
  /\ MotionsInit
  /\ JumpInit
  /\ BarInit

Only(name, next) == part = name /\ next /\ UNCHANGED part

Next ==
  \/ Only("Functions", FunctionsNext) /\ UNCHANGED <<parser, edit, modes, pals, sgr, reports, keys,
        mouse, vi, mv, jump, bar>>
  \/ Only("Parser", ParserNext) /\ UNCHANGED <<functions, edit, modes, pals, sgr, reports, keys,
        mouse, vi, mv, jump, bar>>
  \/ Only("Edit", EditNext) /\ UNCHANGED <<functions, parser, modes, pals, sgr, reports, keys,
        mouse, vi, mv, jump, bar>>
  \/ Only("Modes", ModesNext) /\ UNCHANGED <<functions, parser, edit, pals, sgr, reports, keys,
        mouse, vi, mv, jump, bar>>
  \/ Only("Palette", PaletteNext) /\ UNCHANGED <<functions, parser, edit, modes, sgr, reports, keys,
        mouse, vi, mv, jump, bar>>
  \/ Only("Graphics", GraphicsNext) /\ UNCHANGED <<functions, parser, edit, modes, pals, reports,
        keys, mouse, vi, mv, jump, bar>>
  \/ Only("Reports", ReportsNext) /\ UNCHANGED <<functions, parser, edit, modes, pals, sgr, keys,
        mouse, vi, mv, jump, bar>>
  \/ Only("Keyboard", KeyboardNext) /\ UNCHANGED <<functions, parser, edit, modes, pals, sgr,
        reports, mouse, vi, mv, jump, bar>>
  \/ Only("Mouse", MouseNext) /\ UNCHANGED <<functions, parser, edit, modes, pals, sgr, reports,
        keys, vi, mv, jump, bar>>
  \/ Only("Vi", ViNext) /\ UNCHANGED <<functions, parser, edit, modes, pals, sgr, reports, keys,
        mouse, mv, jump, bar>>
  \/ Only("Motions", MotionsNext) /\ UNCHANGED <<functions, parser, edit, modes, pals, sgr, reports,
        keys, mouse, vi, jump, bar>>
  \/ Only("Jump", JumpNext) /\ UNCHANGED <<functions, parser, edit, modes, pals, sgr, reports, keys,
        mouse, vi, mv, bar>>
  \/ Only("Bar", BarNext) /\ UNCHANGED <<functions, parser, edit, modes, pals, sgr, reports, keys,
        mouse, vi, mv, jump>>

Spec == Init /\ [][Next]_suiteVars

-----------------------------------------------------------------------------
(* What the components promise.  Each part is stated in its own module.    *)

\* A control sequence does what its bytes say, whatever came before it: the
\* parser hands over the parameters of this sequence only, a device control
\* string is finished before anything else begins, and the function selected
\* for it is the one meant in the modes that are set (Parser, SequenceBuilder,
\* SupportedSequences).
SequencesAsReceived ==
  /\ SequenceDecoded
  /\ HookEndsWithString
  /\ SelectedIsMeant
  /\ SaveCursorOrMargins

\* The answers about style, tab stops, sizes and numbered modes are true: cursor
\* style, protection, both selections of the status line, rendition and the value
\* of a dynamic colour are restored by their own answer, a screenshot keeps its
\* colours, two answers about the size agree, the ANSI modes and the DEC modes
\* whose enumerator is their number are reported as they are, frozen modes are as
\* configured, and the status line has its styles and places (requestStatusString,
\* requestTabStops, requestDECMode, Screen::screenshot, updateIndicatorStatusLine).
\* Margins, the number of lines, the other modes, the colour registers and the
\* spelling of a colour are not among them: those answers are wrong
\* (AnswerRestoresMargins, AnswerRestoresLines, EveryModeReported,
\* GraphicsAnswerTrue, AnswerAccepted).
StyleAndModesToldTruly ==
  /\ AnswerSetsQueriedColor
  /\ ReportRestoresRendition
  /\ AnswerRestoresSetting
  /\ TabAnswerTrue
  /\ AnswersAgree
  /\ RegistersWithinLimit
  /\ NumberedModesReported
  /\ OneUnderline
  /\ ScreenshotKeepsColors
  /\ FrozenModesHold
  /\ RightAtEdge
  /\ StyleShown

\* The application can tell from the bytes it reads what the user did: no
\* byte is lost or doubled by partial writes, nested programs get their
\* keyboard flags back, different keys and mouse events differ, and a drag
\* is reported only between press and release (InputGenerator,
\* Terminal::flushInput, sendMouse...Event).
InputReadBack ==
  /\ BytesInOrder
  /\ FlagsRestored
  /\ KeysDisambiguated
  /\ LocationDecodes
  /\ EventDecodes
  /\ DragUnreleased

\* The vi modes do what was typed: a command gets its own count and no part
\* of an abandoned one, a selection exists exactly in the visual modes, each
\* motion stays in the grid and goes its way, text objects are the pair
\* around the cursor, and recorded jumps follow the text as it scrolls
\* (ViInputHandler, ViCommands, JumpHistory).
ViDoesAsTyped ==
  /\ CommandAsTyped
  /\ PendingCompletes
  /\ SelectionWithVisual
  /\ MotionInGrid
  /\ MotionDirection
  /\ FindsItsPair
  /\ ObjectIsPair
  /\ PlacesFollowScrolling

\* What is kept from one sequence, key or frame to the next is what was last
\* asked for: modes in step with the input generator, frozen ones included,
\* colours set pair by pair and popped from their slot, the last jump undone
\* by the next, and a status line whose styles end with their item
\* (Terminal::setMode, popColorPalette, JumpHistory::jumpToLast,
\* updateIndicatorStatusLine).
StateAsAsked ==
  [][/\ InputFollowsModes
     /\ ListDoesItsPairs
     /\ PopRestoresSlot
     /\ LastJumpReturns
     /\ StableLine]_suiteVars
=============================================================================
