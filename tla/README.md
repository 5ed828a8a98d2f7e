# A TLA+ model of contour and its terminal backend

The modules in this directory specify the terminal emulator in this repository
(contour and its libraries vtbackend, vtparser, vtpty, vtrasterizer, crispy).  TLC
checks them on small instances, TLAPS proves some of their properties for every
value of the constants.  `PROJECT.json` lists the runs, the mutants (one seeded bug
for every property, which the run must find), the source lines each definition
stands for, the hazards of the code and the theorems.

    tlc -workers 2 -config GridScroll.cfg Grid          # one run
    tlapm GridProofs.tla                                # one set of proofs

Paths below are relative to the repository's `src/` directory.

## 1. Inventory

### Threads and how the parts talk to each other

* The **terminal thread** (`Terminal.Loop`, `TerminalSession::mainLoop()`) reads
  from the PTY (or the SSH session), parses under the terminal's mutex and calls
  back: `screenUpdated()`, `renderBufferUpdated()`, `bufferChanged()`,
  `onBufferScrolled()`, `scrollbackBufferCleared()`, `onClosed()`, and the requests
  that need a permission.
* The **GUI thread** sends keys and mouse events into the terminal, scrolls the
  viewport, opens and closes tabs, attaches displays, answers prompts, reloads the
  configuration.
* The **render thread** (Qt's scene graph) asks the terminal for a fresh render
  buffer and draws the front one through the texture atlas.
* An **exit watcher** thread per session waits for the child process.

They share the terminal's mutex, the mutex `readerLock` of the double buffer, and
a number of atomics.  The GUI thread is told about changes by events that Qt
posts.

### Components

| component | state | hard behaviour | what makes it correct | module |
|---|---|---|---|---|
| render pipeline (`vtbackend/RenderBuffer.*`, `Terminal.cpp`, `Renderer.cpp`, `TerminalDisplay.cpp`) | two buffers, back index and state (atomics), `readerLock`, `_renderBufferUpdateEnabled`, mode 2026 | three threads, lock-free state changes, buffers chosen before locks | one writer per buffer, no deadlock, every change is displayed in the end | `RenderPipeline` |
| grid and scrollback (`Grid.*`, `crispy/ring.h`) | ring of lines, `_zero`, `_linesUsed`, page height, history limit | modular indices, in-place copies, long sequences of legal calls | page and history are what a list of lines would be | `Grid` refining `Scrollback` |
| reflow (`Grid.cpp`, `Line.*`) | wrapped lines | a line boundary moves through page and history | the logical text is unchanged | `Reflow` |
| PTY buffers and lines (`crispy/BufferObject.h`, `Line.*`, `Screen::writeText`) | pool of reference-counted buffers, hot end, lines that refer to them | lines refer to memory that is read into | no line sees bytes of a later read | `LineBuffers` |
| viewport, vi cursor, selection (`Viewport.*`, `Selector.*`, `Terminal.cpp`) | scroll offset, cursor, mode, selection, screen | output arrives while the user looks at, selects or walks through the history | the user keeps the text he looks at | `Viewport` |
| session lifecycle (`TerminalSession.cpp`, `vtpty/UnixPty.cpp`, `Process_unix.cpp`, `read_selector.h`) | descriptors, pending events, execution mode, queue of traced sequences | three threads, two channels, a mode two threads store to | output is executed in order and once | `PtyLoop` |
| session manager (`TerminalSessionManager.*`, `Terminal.qml.in`) | sessions, active and previous one, tabs, window | pointers to sessions that are removed; processes end in any order | active and previous session are listed | `SessionManager` |
| VT parser and function table (`vtparser/`, `SequenceBuilder.h`, `Sequence.h`, `Functions.h`) | parser state, parameters, active functions | aborted sequences, fixed sizes, binary search in a filtered table | the sequence dispatched is the one received | `VTParser`, `VTFunctions` |
| screen (`Screen.cpp`, `Terminal.cpp`) | cursors, margins, tab stops, saved cursors, page size, screens | combinations of margins, origin mode, wrap-around and resizes | the cursor stays on the page, the fast path does what the slow one does | `Screen`, `PageEdit` |
| modes, colours, attributes, reports (`Terminal.*`, `ColorPalette.cpp`, `CellUtil.h`, `VTWriter.cpp`) | mode sets, saved and frozen modes, palettes, SGR | state kept in two places; a report is a command again | what is answered, sent back, restores what was asked for | `TerminalModes`, `ColorPalettes`, `GraphicsRendition`, `StatusReports` |
| indicator status line (`StatusLineBuilder.cpp`, `crispy/interpolated_string.cpp`, `Terminal.cpp`) | definition, screen of one line | styles saved and restored inside each other, lengths in bytes | styles end with their item, the right segment ends at the edge | `StatusLine` |
| input (`InputGenerator.*`, `Terminal.cpp`) | pending bytes, keyboard flags, mouse state | partial writes, two threads that flush without a lock, protocols and transports | bytes leave in order while one thread flushes at a time; the application reads what was done | `KeyboardInput`, `MouseInput` |
| vi input (`ViInputHandler.cpp`, `ViCommands.cpp`, `JumpHistory.cpp`) | pending command, count, search editor, list of jumps | a command in several keys, modes changed in between; offsets that output moves | the command executed is the one typed; motions stay in the grid | `ViInput`, `ViMotions` |
| caches (`crispy/StrongLRUHashtable.h`, `LRUCache.h`, `TextureAtlas.h`) | hash chains and a recency list through one array | an entry in two lists is recycled, constructors that use the table | the table is a cache of the most recently used keys | `LruTable` refining `LruCache`, `TileAtlas` |
| images and hyperlinks (`SixelParser.cpp`, `Image.*`, `Hyperlink.h`) | canvas, palettes, pools | sizes learnt while drawing, numbers that are used again | what is shown is what was drawn or linked | `SixelImages`, `Hyperlinks` |
| frame (`RenderBufferBuilder.cpp`, `TextClusterGrouper.cpp`) | cells and groups of a frame | selection, search, cursor, input method over two kinds of lines | every glyph in its cell, exactly what is selected is coloured | `FrameBuilder` |
| SSH session (`vtpty/SshSession.cpp`) | connection state machine, three threads | prompts, retries, closing while waiting; GUI and reader both step the machine, without a lock | no secret before the host is verified | `SshSession`, `SshConfig` |
| permission prompts, actions (`TerminalSession.cpp`) | remembered answers, pending requests, profile | request replaced while the prompt is open | one answer for one request | `Permissions`, `SessionActions` |
| configuration, command line (`Config.*`, `ConfigDocumentation.h`, `crispy/CLI.cpp`, `ContourApp.cpp`) | settings, profiles, bindings | written by one table and read by another | what is written is read back; a bad entry stays local | `Configuration`, `InputMapping`, `CommandLine` |
| screen capture (`CaptureScreen.cpp`, `Screen::captureBuffer`) | request, replies, timeout | replies and keys on one channel | the captured text is the screen's; the program ends | `ScreenCapture` |
| text shaping, pixels, OpenGL, logging, Windows PTY | | | data and platform calls | not modelled |

The hazards that are hard to reach with a test are listed, at their lines, under
`hazards` in `PROJECT.json`.

## 2. Plan

Done: everything the table above names a module for, and proofs for the core modules
(`RenderPipeline`, `Grid`, `Viewport`, `PtyLoop`, `SessionManager`, `Screen`) and for
five components of the suites: the SSH session, what the user chose in a session
(`SessionActions`, `Permissions`), editing the page (`PageEdit`), and the two caches
(`LruTable`, `Hyperlinks`).  The modules that have proofs are written without
`RECURSIVE`, with named assumptions.  What is left, in order:

1. More components of the suites: the free tiles of `TileAtlas` and the ledger of
   buffers of `LineBuffers`, whose folds have to become functions of a position first.
2. A composition of `LineBuffers` with `Grid` (views of lines while the ring
   rotates); now each has the other's behaviour in an abstract form.
3. A second window in `SessionManager`.

## 3. The modules

`map` in `PROJECT.json` names, for the main definitions, the lines they stand for;
helpers that only serve a mapped definition are not listed on their own.

### RenderPipeline

Threads `T` (terminal), `G` (GUI) and `R` (render) have a program counter each; a
step is one atomic access or lock operation of the code.

| model | code |
|---|---|
| `backIndex`, `bufferState`, `readerLock` | `RenderDoubleBuffer::currentBackBufferIndex`, `state`, `readerLock` |
| `termLock` | `Terminal`'s own mutex |
| `updateEnabled`, `syncMode` | `_renderBufferUpdateEnabled`, DEC mode 2026 |
| `content`, `frame`, `displayed` | number of changes made to the screen; the version a buffer was filled from; the version drawn last |
| `redraw` | a posted `window()->update()` |
| `TrySwap`, `FinishSwap` | `swapBuffers()` (a `try_lock`, the flip, the state, the unlock) |
| `EnsureFresh`, `LockForFill`, `Fill`, `OfferSwap` | `ensureFreshRenderBuffer()` and `fillRenderBuffer()`, fall-throughs included |
| `CheckState`, `PostRedraw` | `screenUpdated()`, `renderBufferUpdated()` |
| `Parse` ... `EndParse`, `BeginSynchronizedOutput`, `EndSynchronizedOutput`, `HardReset` | `processInputOnce()`, `setMode()`/`synchronizedOutput()`, `hardReset()` |
| `SmoothScroll`, `Relock` | `linefeed()` under DECSCLM: unlock in the middle of a parse, `screenUpdated()` outside of mode 2026, sleep, lock again |
| `BreakLoop` | `breakLoopAndRefreshRenderBuffer()` |
| `UpdateTimer`, `BeginPaint`, `RenderRefresh`, `ChooseFront`, `LockFront`, `Draw` | `onAfterRendering()`, `paint()`, `Renderer::render()`, `frontBuffer()`, `RenderBufferRef` |

The terminal thread holds its mutex while it parses, except between `SmoothScroll`
and `Relock`: there the other two threads may fill and the thread may itself swap, and
`LocksHeld` says at which labels which thread has which mutex.

The refresh interval is not modelled: where the code compares the time of the last
swap with it, either branch may be taken.

*Fairness.* Weak fairness for each thread's steps inside the render code (the
operating system schedules threads, Qt delivers a posted update and an expired
timer), and strong fairness of `EndParse`: a fragment is finite, so its parsing
ends, although `BeginSynchronizedOutput` and `EndSynchronizedOutput` can alternate
within it.  Nothing is assumed about the application's output or the user.

### Scrollback and Grid

`Scrollback` is the promise: a page and, above it, a history of lines as
sequences.  `Grid` is the code: a vector of lines, a first index, the number of
lines used.  `RingIndex` is `basic_ring::operator[]`; `ScrollUp`, `ScrollUpRegion`,
`ScrollDownPage`, `ScrollDownVertical`, `ScrollDownInside`, `ClearHistory`, `Reset`,
`GrowLines`, `ShrinkLines`, `SetMaxHistoryLineCount` are the functions of those
names (the scrolls split by the branches of the code).  A line is two cells, one
inside and one outside of a left/right margin, and a cell is the number of the
write that made it; that is all that scrolling can tell apart.  The refinement
mapping reads `History` and `Page` through the ring.

`Ops` selects the operations of a run; operations for which a finding (below) says
that the code does not do what is promised are left out of the refinement runs
and are exercised by `grid_resize`.

### Viewport

The view is a record: scroll offset, vi cursor line, vi mode, selection.  The
operators `ScrollTo`, `MakeVisible`, `ClearSelection`, `FollowText`, `ApplyScroll`
are the member functions of `Viewport`, `Terminal` and `Selection`; the actions are
output (`BufferScroll`), `SetScreen`, `SetActiveStatusDisplay`,
`ScrollbackBufferCleared`, `HardReset`, `ResizeScreen`, and what the user does with
keyboard and mouse.  The grid appears as its geometry: page height, history, spare
lines of the ring (`capacity`).  `base` numbers the lines of text, so that "the same
text" can be said: line `i` of the grid is text line `base + i`.

The status line is shown (the default configuration), no line is wrapped and the
application does not ask for mouse events.

### PtyLoop

| model | code |
|---|---|
| `sent`, `unread`, `held`, `child` | the application's two channels, its tty and `STDOUT_FASTPIPE` (external) |
| `watched`, `events`, `wake` | descriptors the `epoll_read_selector` waits for, its `_pending`, its `_eventFd` |
| `mode`, `traced` | `_executionMode`, `TraceHandler::_pendingSequences` |
| `WaitPending`, `WaitReadable`, `WaitInterrupted` | `wait_one()`: pending descriptors, `epoll_wait()`, woken up |
| `ReadSome`, `ReadPipeEnd`, `ReadFails`, `LoopCloses` | `UnixPty::readSome()` and what `processInputOnce()` does with its results |
| `CheckMode`, `BreakAtEmptyQueue`, `FlushAll`, `SingleStep`, `WaitForCommand` | the `switch` of `processInputOnce()`; loading the mode is a step of its own |
| `ParseItem`, `EndFragment` | `parseFragment()` with `sequenceHandler()`, which looks at the mode for every sequence |
| `WatchExit`, `OnClosed` | the exit watcher and the event it posts to the GUI thread |
| `SetExecutionMode` | the trace actions of the user |

A sequence or a run of text is one item, so that order and loss can be told.

*Fairness.* Weak fairness of the terminal thread, the exit watcher and the delivery
of the event it posts.  Nothing is assumed about the application or the user: the
child may never end, and a job it leaves behind may hold the tty for ever.

### SessionManager

The manager is a record: list, active and previous session, the tab information that
the active session shows, and the state of the window.  `ActivateSession`,
`AddSession`, `RemoveSession` (split into `LeaveSession`, `EraseSession` and
`Neighbour`), `UpdateStatusLine`, `SwapTabs` are its functions on that record;
`CloseDisplay` is `closeDisplay()` with the `onTerminated` handler of `Terminal.qml`,
which cannot call `closeTab()` (it is not `Q_INVOKABLE`) and so only ever closes the
window.  The actions are the user's commands (`CreateNewTab` ... `MoveTabToRight`),
`KeyPress` on a session that waits for one, `ProcessExit`, `WatchExit`, and
`OnClosed`, reached from the exit watcher's event (`HandleExit`) and from the first
frame (`FirstFrame`).  Whether an exit is early is a choice.  Commands are bound to
keys, as in the default configuration; closing a tab does not stop its process.

*Fairness.* Weak fairness of the exit watchers and of the delivery of their events,
for each session.

### Screen

The cursors (current and saved ones), page, margins, tab stops and modes of the
main displays and the status lines, with the control functions that use them:
cursor movement, wrap-around, `DECOM`, `DECLRMM`, `DECSTBM`, `DECSLRM`, `DECSC`,
`DECRC`, alternate screens, tabs, index and reverse index, `RIS`, `DECSTR`, resize.
Parameters start at an explicit 0.  CHA 0 and HPA 0 move the cursor to column -1; what
writing a cell there does is undefined (it is before the start of the line), so text is
written from the page only, and as bounds BS does not move further left from there and
no tab stop is set there.  A line feed may have come through the stdout fast pipe,
where it acts like CR LF.
The fast path for text (`tryEmplaceContinuousChars` and its callers) is modelled next to
the slow one; `FastPathAgrees` compares them.

### The suites

Components that do not share state with each other are checked together:
`VTSuite`, `RenderSuite` and `ServiceSuite` extend the modules of a group and run
one of them at a time (`part` chooses it, the others keep their initial state).  A
suite has no behaviour of its own; its state count is the sum of its parts'.

| module | code | what its state is |
|---|---|---|
| **VTSuite** | | |
| `VTParser` | `Parser-impl.h`, `SequenceBuilder.h`, `Sequence.h` | parser state, parameters, what was dispatched; one action per byte class |
| `VTFunctions` | `Functions.h`, `Terminal.h` (`SupportedSequences`) | active functions for a conformance level; `select()` as the binary search it is |
| `PageEdit` | `Screen.cpp` | a small page of cells with margins; one operation on it |
| `TerminalModes` | `primitives.h`, `Terminal.cpp`, `InputGenerator.cpp` | mode bits, saved and frozen modes, the modes of the input generator |
| `ColorPalettes` | `Terminal.cpp`, `Screen.cpp`, `ColorPalette.*` | palette, stack of palettes, OSC commands and their answers |
| `GraphicsRendition` | `Screen.cpp`, `CellUtil.h`, `VTWriter.cpp` | the cursor's attributes, the DECRQSS report, a screenshot's stream |
| `StatusReports` | `Screen.cpp`, `Terminal.cpp` | what can be asked for and what was answered |
| `StatusLine` | `StatusLineBuilder.cpp`, `interpolated_string.cpp`, `Terminal.cpp` | definition, what the items show, the line's cells with attributes |
| `KeyboardInput`, `MouseInput` | `InputGenerator.*`, `Terminal.cpp` | flags stack, pending bytes, the two threads that flush them (peek, write, consume are steps of their own), PTY; buttons, protocol, transport |
| `ViInput`, `ViMotions` | `ViInputHandler.*`, `ViCommands.*`, `JumpHistory.*` | pending keys, count, mode, editor, the selection and the clicks that make it; a text and a motion in it; the list of jumps |
| **RenderSuite** | | |
| `LruTable` | `StrongLRUHashtable.h`, `StrongLRUCache.h` | the array of entries with its three kinds of lists |
| `Hyperlinks` | `Hyperlink.h`, `LRUCache.h`, `Screen::hyperlink` | cache of links, next number, cells; a number read from a node that was just erased is any number |
| `TileAtlas` | `TextureAtlas.h`, `TextRenderer.cpp`, `ImageRenderer.cpp`, `Renderer.cpp`, `OpenGLRenderer.cpp` | cache of tiles, scheduled commands, the texture |
| `FrameBuilder` | `RenderBufferBuilder.cpp`, `TextClusterGrouper.cpp` | a page, overlays, and the frame built from them |
| `LineBuffers` | `BufferObject.h`, `Line.*`, `Terminal.cpp`, `Screen.cpp` | pool, buffers with hot ends, lines as views or cells |
| `Reflow` | `Grid.cpp`, `Line.cpp` | lines in use, cursor, columns |
| `SixelImages` | `SixelParser.*`, `Screen.cpp` | parser, canvas, palettes |
| **ServiceSuite** | | |
| `Configuration`, `InputMapping` | `Config.*`, `ConfigDocumentation.h`, `Actions.h`, `InputBinding.h` | the file as written and as read, one change between them; a profile's colours, or its colour scheme by name: a predefined one or a file of the scheme directory |
| `CommandLine` | `CLI.cpp`, `App.cpp`, `ContourApp.cpp`, `ContourGuiApp.cpp` | arguments, parsed flags, what runs |
| `Permissions`, `SessionActions` | `TerminalSession.cpp`, `Terminal.qml.in` | requests, prompts, remembered answers; bindings, profile, status display with what vi modes, DECSSDT and input protection do to it |
| `SshSession`, `SshConfig` | `SshSession.cpp` | GUI, reader and exit watcher on the connection's states, the first two both in `processState()`; a file of hosts |
| `ScreenCapture` | `CaptureScreen.cpp`, `Screen.cpp`, `TerminalSession.cpp` | program, terminal and the channel between them |

*Fairness.* One property of the suites is a liveness property, `CaptureFinishes`: the
program of `contour capture` takes its steps (`WF_cap(Program)`), its timeout
included, for it waits with `select()` and a time limit; nothing is assumed about the
terminal that is to answer.

## 4. What the runs check

| run | instance | shows |
|---|---|---|
| `render_safety` | two changes, all three threads, mode 2026, RIS, both ways the GUI announces changes | `SingleFiller`: no two threads fill at once. `NoHoldAndWait`: nobody waits for a mutex holding the other. `LocksHeld`: the mutexes are held exactly where the control flow says, through the smooth scroll that gives the terminal's up in the middle of a parse |
| `render_liveness` | two changes by the application, mode 2026, the update timer | `EventuallyDisplayed`: what the screen last contained is displayed |
| `grid_scroll` | page of 3, history of 2, scrolls by up to 3, all margins | `RefinesScrollback`: the ring implements the abstract page and history |
| `grid_resize` | page of 1 to 3, limits 0, 1 and unlimited, every operation | `VerifyState`, `ShrinkKeepsLines` |
| `viewport_follows` | page of 1 to 3, history of 3, scrolls of one or two lines, three changes of the buffer with everything the user can do between them | `OffsetStays`, and `TextPinned`: viewport, vi cursor and selection stay on their text (`ViewportPinned`, `CursorPinned`, `SelectionPinned`) in every scroll that reports as many lines as it moved (`ScrollReported`) |
| `pty_trace` | two items per channel, two trace actions (stop, step, break) | `InOrder`, `ReadsOnlyWhenFlushed`, `StepsTaken`, `DeviceCloses` |
| `tabs_order` | three sessions, all commands, exits in any order, early or not | `PointersValid`, `ShownAlive`, `TabsInfoFresh`, `WindowCloses` |
| `screen_modes` | pages of 2 to 3 lines and 2 to 4 columns, two changes of margins, modes, size or screen, parameters 0 to 3 | `VerifyStateKept` (`CursorStaysOnPage`, `TabsStayOnPage`, `MarginsFit`), `ModesStayInStep`; `ApplicationKnowsPage`: the application was told the size the page has; `FastPathAgrees`: bulk text ends where single characters would |
| `suite_vt` | see the constants of `VTSuite.cfg` | six promises, see below |
| `suite_render` | see `RenderSuite.cfg` | eight |
| `suite_services` | see `ServiceSuite.cfg` | five |

`render_torn` ends in a violation and is a finding in `PROJECT.json`:
`frontBuffer()` picks the buffer, then locks; a swap in between makes it the back
buffer, which is filled while it is drawn (`FrontBufferReadOnly`).

Each suite module states what its components promise together, as a conjunction of the
parts their modules state one by one.  The promises that are also proved are stated in the
module of their component: `SshKeepsOrder` in `SshSession`, `SessionKeepsChoices` in
`SessionActions`, `EditsStayInside` in `PageEdit`, `CachesFindEntries` in `Hyperlinks`.  An invariant's parts are invariants; the
two promises about steps (`StateAsAsked`, `SessionKeepsChoices`) have step formulas as
parts and primed invariants.

| suite | promise | parts |
|---|---|---|
| `VTSuite` | `SequencesAsReceived` | `SequenceDecoded`, `HookEndsWithString`, `SelectedIsMeant`, `SaveCursorOrMargins` |
| `VTSuite` | `EditsStayInside` | `EditStaysInMargins`, `CopiedAsWas`, `SelectiveKeepsProtected` |
| `VTSuite` | `StyleAndModesToldTruly` | `AnswerSetsQueriedColor`, `ReportRestoresRendition`, `AnswerRestoresSetting`, `TabAnswerTrue`, `AnswersAgree`, `RegistersWithinLimit`, `NumberedModesReported`, `OneUnderline`, `ScreenshotKeepsColors`, `FrozenModesHold`, `RightAtEdge`, `StyleShown` |
| `VTSuite` | `InputReadBack` | `BytesInOrder`, `FlagsRestored`, `KeysDisambiguated`, `LocationDecodes`, `EventDecodes`, `DragUnreleased` |
| `VTSuite` | `ViDoesAsTyped` | `CommandAsTyped`, `PendingCompletes`, `SelectionWithVisual`, `MotionInGrid`, `MotionDirection`, `FindsItsPair`, `ObjectIsPair`, `PlacesFollowScrolling` |
| `VTSuite` | `StateAsAsked` | `InputFollowsModes`, `ListDoesItsPairs`, `PopRestoresSlot`, `LastJumpReturns`, `StableLine` |
| `RenderSuite` | `CachesFindEntries` | `ListsAgree`, `ValueOfItsHash`, `MappingReachesItems`, `LinkOfCell`, `SameLinkTogether` |
| `RenderSuite` | `FrameShowsPage` | `GlyphsInTheirCells`, `CursorPainted`, `SelectionPainted`, `MatchesHighlighted` |
| `RenderSuite` | `TilesShowGlyphs` | `FrameShowsGlyphs`, `CachedTilesUploaded`, `WideGlyphWhole`, `LayoutFits`, `SlotsRoundedUp` |
| `RenderSuite` | `LinesKeepText` | `TextKept`, `ShownAsWrittenWithFrames`, `LinesCoverPage`, `RoundTrip` |
| `RenderSuite` | `PicturesAsDrawn` | `PictureAsDrawn`, `ImageComplete`, `PrivateColors` |
| `ServiceSuite` | `FilesReadBack` | `SavedIsLoaded`, `ExampleIsRead`, `ProfileInherits`, `BadValueIsLocal`, `DefaultsSurvive`, `BadEntryIsLocal`, `SavedModesAgree`, `HostsIndependent` |
| `ServiceSuite` | `SshKeepsOrder` | `SecretsAfterVerification`, `TriesBounded`, `InputSincePrompt`, `RemoteSizeCurrent`, `NoLostClose` |
| `ServiceSuite` | `ProgramsDoAsTold` | `SpellingsAgree`, `NamedCommandRuns`, `ProgramStarts`, `CapturedText` |
| `ServiceSuite` | `SessionKeepsChoices` | `AnswerKept`, `OncePerRequest'`, `DisabledMapsDoNothing`, `OneTabPerPress'`, `StatusKept`, `LookAgrees'`, `ProfileApplied'` |

The other properties of the suites are checked as they stand: `TableIsCache` and
`ListIsCache` (both caches refine `LruCache`), `ReflowKeepsText`, `CaptureFinishes`.

The parts, by module:

| module | parts that hold |
|---|---|
| `VTParser` | `SequenceDecoded`: what is dispatched is the sequence a grammar reads from the bytes. `HookEndsWithString`: a device control string is unhooked exactly once, however it ends |
| `VTFunctions` | `SelectedIsMeant`: the binary search finds what a linear one would. `SaveCursorOrMargins`: `CSI s` is one of the two, as DECLRMM says |
| `PageEdit` | `EditStaysInMargins`, `CopiedAsWas` (an area copied onto itself), `SelectiveKeepsProtected` |
| `TerminalModes` | `NumberedModesReported`, `FrozenModesHold` (through RIS and restores), `InputFollowsModes`: the input generator follows the mode bits |
| `ColorPalettes` | `AnswerSetsQueriedColor`, `ListDoesItsPairs`, `PopRestoresSlot` |
| `GraphicsRendition` | `ReportRestoresRendition`, `OneUnderline`, `ScreenshotKeepsColors` |
| `StatusReports` | `AnswerRestoresSetting`, `TabAnswerTrue`, `AnswersAgree`, `RegistersWithinLimit` |
| `StatusLine` | `StableLine`: a frame without changes leaves the line alone, so no style outlives its item. `RightAtEdge`, `StyleShown` |
| `KeyboardInput` | `BytesInOrder` over partial writes of both threads, as long as the two do not flush at the same time, `FlagsRestored`, `KeysDisambiguated`: no two keys share their bytes where the protocol promises so |
| `MouseInput` | `LocationDecodes`, `EventDecodes` (an application reads what was done), `DragUnreleased` |
| `ViInput` | `CommandAsTyped`, `PendingCompletes`, `SelectionWithVisual` |
| `ViMotions` | `MotionInGrid`, `MotionDirection`, `FindsItsPair`, `ObjectIsPair`; of the jump list `PlacesFollowScrolling`, `LastJumpReturns` |
| `LruTable` | `ListsAgree`: hash chains, recency list and free list describe the same entries. `ValueOfItsHash`, and `TableIsCache`, a refinement of `LruCache` |
| `Hyperlinks` | `MappingReachesItems`, `LinkOfCell`, `SameLinkTogether`, and `ListIsCache`, a refinement of `LruCache` |
| `TileAtlas` | `FrameShowsGlyphs`: no tile is recycled under a frame that shows it. `CachedTilesUploaded`, `WideGlyphWhole`, `LayoutFits`, `SlotsRoundedUp` |
| `FrameBuilder` | `GlyphsInTheirCells`, `CursorPainted`, `SelectionPainted`, `MatchesHighlighted` |
| `LineBuffers` | `TextKept`: bytes a line refers to are not overwritten. `ShownAsWrittenWithFrames` |
| `Reflow` | `ReflowKeepsText`, `RoundTrip` (narrower and back), `LinesCoverPage` |
| `SixelImages` | `PictureAsDrawn`, `ImageComplete`, `PrivateColors` |
| `Configuration` | `SavedIsLoaded`, `BadValueIsLocal`, `ProfileInherits`, `ExampleIsRead` |
| `InputMapping` | `DefaultsSurvive`, `BadEntryIsLocal`, `SavedModesAgree` |
| `Permissions` | `OncePerRequest`, `AnswerKept` |
| `SessionActions` | `OneTabPerPress`, `LookAgrees`, `ProfileApplied`, `DisabledMapsDoNothing`, `StatusKept` |
| `SshSession` | `SecretsAfterVerification`, `TriesBounded`, `InputSincePrompt`, `RemoteSizeCurrent`, `NoLostClose` |
| `SshConfig` | `HostsIndependent` |
| `CommandLine` | `SpellingsAgree`, `NamedCommandRuns`, `ProgramStarts` |
| `ScreenCapture` | `CapturedText`, `CaptureFinishes` |

Each part's comment in its module says what it is about and where it bites.  For
each property of the runs a module has, next to the code it would be a mistake in, a
mutated form of a definition (`MoveCursorToUnclamped`, `RemoveFromSlot`, ...): the
definition as a plausible bug would have it, listed under `mutants` in `PROJECT.json`.

### Properties that do not hold, and further instances

These are stated in the modules too: what a comment, a document, a test or a user
would say and, unless it says *holds*, the code does not do.  The counterexample is
what it does instead.  They are the reason for the bounds and the left-out operations
of the runs above.  To see one, put the property in place of those of the module's
configuration and change the constants named here; a step formula, such as
`ViewportPinned` or `StableLine`, is checked as `[][ViewportPinned]_vars`.  Parts of the
runs' promises appear where they hold under the bounds of the run and no longer
under these.

Core modules (constants that are not named may keep the values of any run of the module):

| module | property | constants | result |
|---|---|---|---|
| RenderPipeline | `QuiescentFresh`, `EventuallyDisplayed` | `MaxContent = 4`, `OutputActive = FALSE`, `GuiCalls = {"refresh"}`, `UseSync = FALSE`, `UseReset = FALSE`, `TimerArmed = FALSE` | hold for changes of the GUI alone, without a timer |
| RenderPipeline | `QuiescentFresh` | `GuiCalls = {}`, `UseSync = FALSE`, `UseReset = FALSE`, `TimerArmed = FALSE` | violated: `screenUpdated()` that finds a buffer waiting to be swapped swaps it and posts nothing, so without a timer the last output stays undisplayed |
| RenderPipeline | `SynchronizedOutputAtomic` | `GuiCalls = {}`, `UseReset = FALSE`, `TimerArmed = FALSE` | violated: a render thread that passed the test of `_renderBufferUpdateEnabled` fills after the mode was set |
| Grid | `RefinesScrollback` | `InitPageLines = 2`, `MaxPageLines = 2`, `InitLimit = Infinite`, `MaxLimit = 0`, `MaxWrites = 2`, `MaxScroll = 2`, `MaxSize = 6`, `Ops = {"region", "reset"}` | holds for an unlimited history (scrolls and resets) |
| Grid | `ScrollDownMovesMargin` | `InitPageLines = 4`, `MaxPageLines = 4`, `InitLimit = 0`, `MaxLimit = 0`, `MaxWrites = 2`, `MaxScroll = 1`, `MaxSize = 4`, `Ops = {"innerDown"}` | violated: scrolling down inside left/right margins copies n + 1 lines whatever the height of the margin |
| Grid | `ScrollDownKeepsHistory` | `InitPageLines = 2`, `MaxPageLines = 2`, `InitLimit = 1`, `MaxLimit = 1`, `MaxWrites = 2`, `MaxScroll = 1`, `MaxSize = 3`, `Ops = {"down"}` | violated: the ring is rotated back and history comes onto the page |
| Grid | `ScrollDownRevealsBlank` | `InitPageLines = 3`, `MaxPageLines = 3`, `InitLimit = 0`, `MaxLimit = 0`, `MaxWrites = 3`, `MaxScroll = 2`, `MaxSize = 3`, `Ops = {"down"}` | violated once the page wraps around the end of the ring |
| Grid | `HistoryWithinLimit` | `InitPageLines = 3`, `MaxPageLines = 3`, `InitLimit = 1`, `MaxLimit = 1`, `MaxWrites = 1`, `MaxScroll = 1`, `MaxSize = 4`, `Ops = {"shrink"}` | violated: shrinking may push more lines into the history than its limit |
| Grid | `ClearedIsGone` | `InitPageLines = 2`, `MaxPageLines = 3`, `InitLimit = 1`, `MaxLimit = 1`, `MaxWrites = 2`, `MaxScroll = 1`, `MaxSize = 4`, `Ops = {"clear", "grow"}` | violated: growing takes unused lines of the ring, which after ED 3 still hold the cleared text |
| Grid | `UnlimitedKeepsAll` | `InitPageLines = 2`, `MaxPageLines = 2`, `InitLimit = Infinite`, `MaxLimit = 1`, `MaxWrites = 3`, `MaxScroll = 1`, `MaxSize = 6`, `Ops = {"clear"}` | violated: after ED 3 the used lines may wrap around the end of the ring, and the next allocation appends in the middle of them |
| Grid | `LimitKeepsNewest` | `InitPageLines = 2`, `MaxPageLines = 2`, `InitLimit = 2`, `MaxLimit = 2`, `MaxWrites = 3`, `MaxScroll = 1`, `MaxSize = 5`, `Ops = {"limit"}` | violated: a smaller limit cuts the newest lines |
| Viewport | `OffsetInHistory` | `MaxPage = 4`, `MaxChanges = 2`, `Ops = {"resize"}` | violated: growing takes lines out of the history below a scrolled viewport |
| Viewport | `SelectionPreserved` | `MaxPage = 2`, `MaxChanges = 4`, `Ops = {"vi", "visual"}` | violated in visual mode |
| Viewport | `CursorInGrid` | `HistoryLimit = 1`, `MaxPage = 2`, `Ops = {"vi"}` | violated: the vi cursor is decremented below the history |
| Viewport | `ViewportFixed` | `MaxPage = 2`, `MaxChanges = 4`, `Ops = {"status"}` | violated: a scroll of the status line moves the viewport |
| Viewport | `ResizeKeepsCursor` | `MaxChanges = 1`, `Ops = {"vi", "resize"}` | violated: the size with the status line is compared with the one without |
| PtyLoop | `InOrder` | `GuiModes = {"Normal", "Waiting", "SingleStep", "BreakAtEmptyQueue"}` | violated when the user may also leave the trace mode: the rest of the fragment being parsed is executed before the sequences held back, which is why `pty_trace` leaves `TraceLeave` out |
| PtyLoop | `LeaveRespected` | `MaxSent = 1`, `MaxRequests = 3`, `GuiModes = {"Normal", "Waiting", "SingleStep", "BreakAtEmptyQueue"}` | violated: `processInputOnce()` stores `Waiting` after it loaded the mode, over a `TraceLeave` in between |
| PtyLoop | `SelectorNotEmpty` | `MaxSent = 1`, `MaxRequests = 0`, `GuiModes = {}` | violated: the assertion of `UnixPty::read()` fails once pipe and tty are closed |
| PtyLoop | `ReadsOpenDescriptor` | `MaxSent = 1`, `MaxRequests = 0`, `GuiModes = {}` | violated: a descriptor reported earlier is read after the exit watcher closed it |
| PtyLoop | `LoopEnds` | `MaxSent = 1`, `MaxRequests = 0`, `GuiModes = {}` | violated: with the tty closed and the pipe held open (or gone) the main loop sleeps for ever |
| PtyLoop | `OutputRead` | `MaxSent = 1`, `MaxRequests = 0`, `GuiModes = {}` | violated: the exit watcher closes the device with output unread |
| SessionManager | `NoCrash` | `MaxSessions = 2`, `CloseLast = TRUE` | violated when the user may close the last tab with `CloseTab`: the active session is not listed any more and the next `SwitchToTabLeft` ends the program, which is why `tabs_order` leaves that out |
| SessionManager | `EarlyExitWaitsForKey` | `MaxSessions = 2` | violated: `metainfo.xml:721` says that after an early exit the window waits "for any key press in order to close", but `onClosed()` of a session whose tab was removed before closes it |
| RenderPipeline | `EventuallyDisplayed` | `GuiCalls = {}`, `UseReset = TRUE` | violated: RIS during a synchronized update clears the mode but not `_renderBufferUpdateEnabled`; nothing is displayed any more |
| Grid | `RefinesScrollback` | `InitPageLines = 3`, `MaxPageLines = 3`, `InitLimit = 0`, `MaxLimit = 0`, `MaxWrites = 2`, `MaxScroll = 1`, `MaxSize = 3`, `Ops = {"region", "inner", "down", "clear", "reset"}` | holds without history (the alternate screen), scrolls down included |
| Grid | `GrowKeepsPage` | `InitPageLines = 2`, `MaxPageLines = 3`, `InitLimit = 0`, `MaxLimit = 0`, `MaxWrites = 2`, `MaxScroll = 1`, `MaxSize = 3`, `Ops = {"grow"}` | violated: growing a rotated ring puts the new lines in the middle of page and history |
| Viewport | `ViewportPinned` | `HistoryLimit = 3`, `MaxPage = 2`, `MaxScroll = 2`, `MaxChanges = 4`, `Ops = {}` | violated: the scroll that fills the history reports fewer lines than it scrolled (only possible with scrolls of two or more lines; `ScrollReported` in `TextPinned` excepts exactly this scroll) |
| Screen | `CursorOnPage` | `LineCounts = {3}`, `ColumnCounts = {3}`, `MaxChanges = 1` | violated: a line feed on the last line, below the bottom margin, moves the cursor off the page; an explicit parameter 0 of CHA or HPA moves it to column -1, and a resize leaves the cursor of a status line off its page |
| Screen | `CursorStaysOnPage` without `ColumnZero` | those of `ScreenModes.cfg` | violated: CHA 0; `setCurrentColumn()` limits the column to the right only |
| Screen | `CursorStaysOnPage` without the third case of `LeavesPage` | `LineCounts = {4}`, `ColumnCounts = {4}`, `MaxParam = 4` | violated: with DECLRMM and a left margin (DECSLRM, right margin in the last column) a pending wrap survives a BS; text written at once from left of the margin then leaves the page, where the assertions of `tryEmplaceChars()` and `advanceCursorAfterWrite()` (`Screen.cpp:381`, `451`) fail.  Without the second case: text below the bottom margin that starts beside the margins may wrap more than once |

Suites:

| property | constants | what happens |
|---|---|---|
| `ExtraParametersIgnored` |  | a 17th parameter is counted and dispatched, although it has no slot |
| `DcsIntermediateKept` |  | after parameters the intermediate character of a DCS is not collected |
| `IgnoredIsSilent` |  | the rest of a malformed device control string is printed |
| `DisplayEraseKeepsProtected` |  | a selective erase of the display resets the cursor's line once it meets a line without protected characters |
| `InsertStaysInMargins` |  | ICH limits its count by the column relative to the margin under origin mode |
| `OriginAreaErased` |  | an area's top is added to the left margin |
| `RestoreTakesEffect` |  | XTRESTORE sets the bits without the effects of `setMode()` |
| `MouseModeActive` |  | resetting one mouse mode ends the reports of another |
| `ConfiguredModeFrozen`, `FrozenInEffectAfterReset` |  | the configured number is cast to the enumeration; RIS resets the effects of a frozen mode |
| `EveryModeReported` |  | DECRQM reports a mode as unknown that can be set |
| `AnswerAccepted` |  | colours are answered with four digits per channel and read with two |
| `IndexRefused` |  | OSC 104 reads its index modulo 256 |
| `NestedPaletteRestored`, `PopsInsideStack` | `NestedPaletteRestored`: `MaxPaletteSteps = 5` | a push without slot overwrites the top; a pop may read behind the stack |
| `MalformedColorHasNoFlags`, `RenditionKeepsProtection`, `UnderlineColorReported` |  | parts of an unreadable colour set attributes; SGR 0 clears the protection; an indexed underline colour is not reported |
| `ScreenshotKeepsColors` | `ShotColors = {"Default", "Black"}` | the components of an RGB background go through `sgrAdd()`, for which 0 is a reset |
| `AnswerRestoresMargins`, `AnswerRestoresLines` |  | the lower and right margin are answered one less; DECSNLS sets the columns |
| `ClearKeepsOtherStops`, `ClearedStopsGone` |  | the first TBC shifts the default stops; after TBC 3 they are back |
| `CanvasWithinLimit`, `GraphicsAnswerTrue`, `EveryRequestAnswered` |  | `std::min()` of two sizes compares widths; registers are answered as asked for; an unknown DECRQSS is not answered |
| `StableLine` | `LeftTexts = {"active"}` | an active tab with a colour saves the rendition inside its item, whose own copy is lost: there is one slot, not a stack |
| `RightAtEdge`, `RightAfterRest` | `RightAtEdge`: `RightTexts = {"prompt"}` | the length is in bytes (the search prompt ends with a block of three); where the other segments end is not looked at |
| `ItemsKnown`, `StyleShown` | `ItemsKnown`: `LeftTexts = {"trace"}`; `StyleShown`: `LeftTexts = {"double"}` | `{TraceMode}` of the default configuration is not known; double and dotted underlines are written as `4:4` and `4:1` |
| `FlagsRestoredWhenFull` |  | a full stack drops what is pushed but not the pop |
| `BytesInOrderAlways` |  | `flushInput()` is called by the GUI thread (keys, paste) and by the terminal thread (replies, with a TODO about a mutex at `Terminal.cpp:1496`), and takes no lock over peek, write and consume ("XXX Should be the only location that does write to the PTY's stdin to avoid race conditions", `Terminal.cpp:1029`): when the two flush at the same time, bytes are sent twice and others are dropped |
| `ResetRestoresKeyModes`, `ReleasesReported`, `ModifierParameter`, `CharacterHasCode` |  | the derived generator's reset hides the base's; vi input takes all releases; modifiers without the added one; wrong code point |
| `DragHeld`, `DragTold`, `PixelsLikeSGR`, `ReportedAtPointer`, `OtherProtocolKept` |  | buttons whose press was not reported; SGR-Pixels takes the old button values; moves are in grid, presses in screen coordinates |
| `NormalHasNoSelection` |  | a double or triple click in vi normal mode leaves a selection, which the release does not clear; the next operator with a motion meets the assertion of `extractTextAndHighlightRange()` that there is none (`ViCommands.cpp:341`) |
| `KeysStayInVi`, `InsertNotEditing`, `StatusRestored`, `PatternKept`, `AnyCharacterFollows` | `KeysStayInVi`: `MaxViEvents = 5`; `PatternKept`: `MaxViEvents = 5`; `AnyCharacterFollows`: `MaxViEvents = 5` | the escape key is sent on; a search stays open in insert mode; status displays are pushed once per mode; pasted text misses the editor; a digit after `f` is a count |
| `MotionEnds`, `UnmatchedStays`, `CountCounts`, `ForwardByParagraph`, `ObjectFromBracket` |  | F and T on the topmost line do not end; `%` without a pair goes to the end of the text; a count with `e` is not counted; forward from the last line goes back; the bracket at the cursor is counted twice |
| `MotionInGrid` | `ScrollOff = 3`; `WideAtEnd = TRUE` | a scroll-off beyond the page (`ScrollOff = 3`) and a wide character in the last column |
| `PlacesFollowText`, `JumpsInside` |  | places are off by the lines below the cursor; a jump forward reads behind the list |
| `ValueOfItsHash` | `MaxNested = 2` | a constructor that stores more entries than the table has recycles its own (`MaxNested = 2`) |
| `LinkOfEveryCell`, `NumberIsFree`, `OneLinkEach` |  | numbers are 16 bit and are given again while cells, or items of the cache, still have them; `hyperlinkIdByUserId()` reads its result from a list node that the touch has erased, so that a cell gets any number and, when it is 0, the link is made a second time; id and address are joined without a separator (`LinkRequests = {"third", "fourth"}`) |
| `EveryFrameShowsGlyphs`, `SlotsRoundedUp` | `SlotsRoundedUp`: `SlotCounts = {65537}` | a page that grew needs more tiles in one frame than there are; 65537 is not rounded up |
| `SelectionPainted`, `GlyphsInTheirCells`, `HighlightPainted`, `PreeditShown` | `SelectionPainted`: `FrameRanges = {"none", "above"}`; `GlyphsInTheirCells`: `FrameBases = {1}` | plain lines: looked up without the scroll offset, not moved below a status line, highlighted by their first column; a text of the input method at the end of a line |
| `MatchesHighlighted` | `FrameKinds = {"again"}`, `FramePatterns = {"two"}`; `FramePatterns = {"across"}`; `FrameKinds = {"capitals"}`, `FramePatterns = {"mixed"}` | "ab" in "aab", a match over the end of a line, capitals |
| `TextKept`, `ReplayFits` | `TextKept`: `BufferSize = 6`, `MaxReads = 2`, `Racing = TRUE`; `ReplayFits`: `BufferSize = 6`, `MaxItems = 4`, `MaxReads = 2`, `ReadItems = {"a"}` | a pool used by two threads; text held back by the trace mode was cut for another cursor position |
| `ShownAsWritten` | `ReadItems = {"a", "bold"}` for the rendition | a continued trivial line: cursor and rendition changes in between |
| `CursorBehindText`, `ReflowKeepsGaps`, `MarksKept`, `NoBlankContinuation`, `LinesAsWideAsPage` |  | the cursor does not follow its text; blanks at the end of a piece are trimmed; marks are inherited by every piece; blank continuations; lines of the old width |
| `DotsInMemory` |  | `write()` compares with the largest size, but `setRaster()` has made the memory smaller: a dot to the right or below is written outside of it.  What is there is unknown; `PictureAsDrawn` says that no dot of the picture itself is lost by it |
| `OneRowKept`, `SaturationUsed` | `OneRowKept`: `Chunks = {"use", "top", "newline"}`; `SaturationUsed`: `Chunks = {"use", "hsl"}` | a picture of one row has no height; the lightness is taken for the saturation |
| `EveryMemberSurvives`, `DocumentedKeyHasMember`, `OnlyBadEntryDefaults`, `ProfileOverrides` |  | names written in one case and read in another; two keys into one member; a bad value at the top level ends the loading; entries of a profile that do not replace the inherited ones |
| `BadColorIsLocal` |  | the colours of a profile are one entry: a colour or an alpha that cannot be converted ends the reading of all that come after it |
| `SavedActionsAgree`, `LaterEntriesKept`, `WrittenFileLoads` |  | several actions of a key; an unusable entry ends the list; a written file is not read to its end |
| `AnswersShownRequest`, `AnswersOwnPrompt`, `PastedAsAsked`, `PastedOnce`, `CaptureFollowsConfig` |  | an answer meets a later request, or another session; the clipboard is read again; a capture always asks |
| `ProtectionShown` |  | input protection and the vi modes save the status display in one place: the first of them to end takes the indicator of the other away |
| `DisabledKeysAreSent`, `KeyMapsRestoreStatus`, `PaletteFollowsProfile`, `ReleasesArePaired`, `OneReloadPerChange` |  | bound keys while bindings are off; a status display that is not restored; a palette that stays; releases of consumed presses; a slot connected once more per reload |
| `ReaderEnds`, `ReaderSeesOperational`, `ClosedStaysClosed` |  | the reader waits for a condition that nobody signals any more; a resize stores over a close |
| `SizeToldAlways`, `CloseAlwaysNoticed` |  | `read()` steps the machine on the terminal thread, next to a resize of the GUI thread and without a lock (libssh2 sessions are not thread-safe either): the old size may be sent last, and a state that a resize stores over `Closed` keeps the exit watcher asleep |
| `EveryAddressTried`, `EnterSubmits`, `RefusedSizeKeepsSession`, `SshConfigSurvives` |  | every other address is skipped; enter with other input is a character; a refused size leaves the session resizing; ForwardAgent is written as true and read as yes |
| `UnknownProfileFails`, `FolderKeepsShell`, `FontProfileUsed`, `QtArgumentsValid`, `RefusedWritesNothing` |  | a failure that reads as true; a folder replaces the shell's arguments; the profile of font-locator is ignored; pointers into strings of a growing vector; a file emptied before the arguments are looked at |
| `CaptureFinishes`, `NothingLeftBehind`, `CapturedAtOnce`, `WordsWhole`, `GapsKept`, `LogicalLinesWhole`, `LogicalLinesCounted`, `ZeroMeansPage` | `CaptureFinishes`: `CanHangUp = TRUE`; `CapturedAtOnce`: `MaxScrolls = 1` | the end of the file is read for ever; a late reply stays on the terminal; lines scroll during the capture; chunks cut words; empty cells are left out; logical lines are cut and miscounted; a count of 0 |

An SSH agent that cannot be initialised (`SshSession.cpp:1279`) leaves the session in its
state, and `processState()` tries it again without end; one that is there but cannot be
connected to or listed is met as an agent without keys on the next try.  The model takes
these steps, and no property says that authentication ends.

### Bounds

* `MaxContent = 2`: a change that is shown and one that overtakes it; the threads
  are at most one change apart, since a buffer is refilled from the current screen.
* Page 3 with history 2 (ring of 5, and scrolls of up to 3): scrolls fit, partly
  fit and do not fit into the unused lines, and the page wraps around the end of
  the vector at every position.  Two writes distinguish any two lines.
* Viewport: page 2 with history 3 and scrolls of up to 2 lines reaches unused, partly and fully used history
  with an offset of 0, the middle and the top; three changes are one to make
  history, one to move the text and one to drop it.
* `MaxSize` bounds the memory of an unlimited history, `MaxPage(Lines)`, `MaxLimit`,
  `MaxScroll`, `MaxWrites`, `MaxChanges` what their names say.

* PtyLoop: two items per channel are a fragment of two, two fragments, or one behind
  a queued one; two trace actions are a stop and a step, or one that races with the
  other's effect.
* SessionManager: with three sessions a tab has a left and a right neighbour, and one
  may have been closed while two are listed.
* Screen: a page of 2 columns and one of 4 with tab stops every 2; two changes are a
  margin and a mode, or a mode and a resize, before the function under test.
* Suites: each part has the smallest sizes at which its structure is full, empty and
  used again: a table of 2 entries for 3 keys, a buffer of 4 bytes for 3 reads, a cache
  of 2 links for 4, an atlas of 3 tiles for 5 glyphs, a history of 2 lines over a page
  of 2 whose width changes three times, 4 key, mouse or vi events (push, change, pop,
  use), two addresses and two resizes of an SSH session, 18 byte classes in sequences of up to 5 bytes.  `VTFunctions` has the whole
  table.  `MaxBarSteps = 2`: a change of what is shown after another definition, with
  frames between.

No symmetry is used: threads and cells are not interchangeable.  Deadlock checking
is switched off in the runs of `RenderPipeline`, where everything may have been
displayed and nothing is left to do, of `PtyLoop` and `SessionManager`, where everything may have ended, and of the
suites, whose parts stop at their bounds.

## 5. What is proved

The theorems hold for every value of the constants that satisfies the named
assumption of the module (`RenderAssumption`, `GridAssumption`,
`ViewportAssumption`, `PtyAssumption`, `TabsAssumption`, `ScreenAssumption`,
`SshAssumption`, `EditAssumption`, `LruAssumption`, `LinkAssumption`,
`RequestAssumption`, `ParserAssumption`): natural bounds, a page of at least one line, an `Infinite` that is
not a number, a table of at least two entries whose constructors store fewer than it has,
more numbers for links than links in the cache (2^16 and 1024).  Hypotheses of single theorems are named with them; each leaves out something
of which the code does not keep the promise, and the table above has the counterexample.

* **RenderProofs**: `RenderLocks`, `RenderSingleFiller`,
  `RenderNoHoldAndWait`.  The inductive invariant is `TypeOK /\ LocksHeld`
  with `RoomToScroll` (the change that a smooth scroll is about to make fits the bound).
  `SingleFiller` alone is not inductive: it does not say that a filling thread
  holds the terminal's mutex, nor that the terminal thread holds it all the way from
  `synchronizedOutput()` to the fill.  `LocksHeld` does, for every label, those between
  the unlock and the lock of a smooth scroll included, where the parser is in the middle
  of a fragment and does not hold it.
  The two caches that drawing looks into are the rest of the module.
  `TableIsLruCache` is the refinement of `LruCache` by the hash table, for any number of
  entries, slots and hashes, and `TableListsAgree` its safety part.  The invariant
  (`LruInv`) says that there is a list `q` such that `Table(s, q, f, c)`: `q` is the ring
  of the recency list in both directions, `f` the chain of the unused entries, `c[k]` the
  chain of slot `k`; the first two share all entries, and the chains those of `q` by their
  slots.  The lemmas follow unlinking, linking, recycling and allocating through the three
  lists (`RingUnlink`, `ChainUnlink`, `HashRetire`, ...), and `ChainWalk` says that walking
  gives the list.  An entry whose constructor runs stays in the table because it is at most
  one place further back in `q` than there were entries stored since; `MaxNested` is less
  than the table has entries.  `LinksAreLruCache` is the same refinement by the list and the
  map of the hyperlinks, also after the numbers started again; moving an item takes a new
  node, which exists since there is one more than items (`SomeUnused`, by counting).
  `CachesKeepEntries` is `CachesFindEntries`, without hypotheses: numbers start again as
  often as they like, a number may be read from an erased node, and requests may collide.
  What it says of a cell is limited to those whose number is still their own (`own`: read
  as it was given, and not given again since) and of one id and address to before some
  link was made a second time (`split`); `LinkOfEveryCell` and `OneLinkEach` are
  the same without these limits, and are violated.  `LinkSafe` says that the item of the
  cursor's or a cell's own number is what was asked for there, and that one id and address
  have one item.
* **GridProofs**: `GridVerifyState` and `GridCounters` from
  `GridInv == Counters /\ VerifyState`.  `VerifyState` needs the cursor to be on the
  page (or `shrinkLines()` would cut off more lines than the page has) and a first
  index inside a non-empty vector.  `GridShrinkKeepsLines` is the action property:
  rotating the first index by the lines pushed up and moving the cursor by the same
  number leaves every line at or above the cursor at its storage index; it rests on
  `ModShift` (rotating by `a` and then by `b` is rotating by `a + b`).
  `GridRefinesScrollback` is the refinement, step by step, of the abstract page and
  history, for limited and unlimited histories and margins of any size.  `RingInv` says
  that the vector holds lines, that a limited ring has the size of page and limit, and
  that an unlimited one starts its page right behind the history; the argument is that
  two offsets less than the size of the ring apart are different lines, so a line that
  is reset for reuse is seen neither on the page nor in the history.  Hypotheses: the
  operations are scrolls up, scrolls inside margins, ED 3 and resets (`Plain`), and ED 3
  only with a limit: `ScrollDownKeepsHistory`, `ScrollDownMovesMargin` and
  `UnlimitedKeepsAll` are violated by the others.
* **ViewportProofs**: `ViewportTypes` (the lines in use fit into the ring, resizes
  included), `ViewportOffsetStays` (only a higher page can take the viewport out
  of the history), and from both `ViewportOffset`: without resizes the assertion of
  `Grid::render()` always holds.  The argument goes through one lemma per operation
  on the view, saying by how much it may change the offset.  `ViewportTextPinned`: each
  of viewport, vi cursor and selection is moved by the number the scroll reports, and
  stays on its text when this is the number of lines that were moved (`ScrollReported`);
  what is pushed out of a full history is where they stop.
* **PtyLoopProofs**: `PtyReadsOnlyWhenFlushed` and `PtyTypes`, for all four execution
  modes.  `ReadsOnlyWhenFlushed` needs `FragmentParsed`: the thread has parsed all of
  a fragment before it looks at the mode again, or the parser could queue a sequence
  while the thread is on its way to the PTY.  `PtyInOrder`: output is executed in order
  and once.  The inductive invariant is a ledger (`FlowInv`): for each channel there are
  `a <= b <= c` such that the items up to `a` are executed, those up to `b` held back,
  those up to `c` in the fragment, the rest unread; every sequence lists its items in
  order.  Hypothesis: the user does not leave the trace mode (`"Normal" \notin GuiModes`),
  for then the rest of a fragment overtakes what is held back.
* **SessionManagerProofs**: `TabsPointersValid` and `TabsTypes`, under the condition
  `~CloseLast` (the last tab is not closed with `CloseTab`; the violation of `NoCrash` with
  `CloseLast = TRUE` shows that the condition is needed).  `PointersValid` becomes inductive with: no tab is
  listed twice (else a neighbour could be the active tab itself); an empty list has
  no previous tab; listed sessions were created (a new one is not listed yet); and
  `EmptyWaits`, an open window without tabs waits for a key press, so that no command
  meets an unlisted active session.  One lemma per function of the manager, on top of
  two about inserting into and removing from a sequence.  `TabsShownAlive` adds that
  listed sessions have not ended (`ListedAlive`), `TabsStatusFresh` that the tab
  information is that of the list (`Fresh`), which every function that changes list or
  active session restores before it returns.
* **ScreenProofs**, on top of **ListLemmas**: `SizesHangTogether` is the inductive
  invariant (`ScreenInv`, `TermOK`): window, pseudo terminal, the screen that is shown,
  status line and margins agree about the size of the page, tab stops are sorted.
  From it follow `ScreenTypes`, `ScreenApplicationKnowsPage`, and with `StepOK`, what one
  sequence may do, `ScreenVerifyStateKept` and `ScreenModesInStep`.
  `ScreenFastPathAgrees` compares text written at once with the same text written
  character by character, for any length; it is an induction over the number of
  characters.  The library's induction theorems cannot be instantiated by the provers;
  `SetInduction` states induction for a set of numbers instead of a predicate, and
  `IterationExists` gives the sequence of terminals that repeated steps produce.
  Parameters are any numbers, an explicit 0 included: CHA 0 and HPA 0 lead to column -1,
  so `ScreenTypes` has integers for columns, and `CursorStaysOnPage` excepts that one
  step (`ColumnZero`).
* **ComponentProofs**: `SshOrderKept`, for any number of addresses, resizes and characters
  typed, all answers of the other side and all interleavings of the GUI thread, the
  reader and the exit watcher.  `SshInv` says for each state of the session whether the
  host is verified (`Verified`), what the shared counter of tries counts and how many
  prompts and passwords that allows (`Asked`), that the input is empty before a prompt
  (`Typed`), which size the other side knows (`Told`), and that the threads start only
  when `connect()` is over (`Noticed`): `connect()` closes the socket without telling the
  watcher.  The reader steps the machine too; `Told` and `Noticed` are therefore about
  sessions where the reader had no part in the last resize (`shared`) and where no state
  was stored over `Closed` (`reopened`), as are the parts they prove.  `Asked` is why `TriesBounded` holds: the key's prompts are counted from 1, and
  the counter starts anew at the password.
  `SessionChoicesKept` is the action property of prompts and actions: `PermInv` says that
  what is pending was asked for later than everything carried out, and that what is
  remembered is the answer the user gave; `SessInv` that colours, profile, key bindings and
  status display hold together, whoever of vi modes and input protection pushes or pops it.  `EditingStaysInside` is for pages and margins of any size.
  One lemma per operation says which cells it leaves alone.  The hard one is the copy of an
  area onto itself: cells are copied one after the other in the same page, in an order that
  depends on the direction.  `StepwiseExists` gives the page after each cell, and the
  invariant along it (by `SetInduction`) is that the cells still to be read have not been
  written yet.  `HookEnds` and `ParametersBounded` are about the VT parser, for every
  stream of bytes and every set of active functions: `TableIsGood` reads the table once
  (no row hooks, every row leads to a state), `HandleKeeps` says what each action leaves,
  and `ByteKeeps` follows exit, transition and entry.  The bound is one parameter more
  than there are slots, as the iterator may step onto the end of the array once; that the
  extra one is dispatched as well is the violation of `ExtraParametersIgnored`.

### Model-checked only

* Liveness (`EventuallyDisplayed`, `StepsTaken`, `DeviceCloses`, `WindowCloses`,
  `CaptureFinishes`): fairness and `ENABLED` are out of the prover's reach.
* The suites but for `SshKeepsOrder`, `SessionKeepsChoices`, `EditsStayInside`,
  `CachesFindEntries`, `TableIsCache`, `ListIsCache`, and of `SequencesAsReceived` the part
  `HookEndsWithString`.  Parsers and serializers there are
  recursive or folds over sequences, and what a fold gives for every sequence needs an
  induction that the provers cannot instantiate; the others are left for later (section 2).

## 6. What is not modelled

* Text shaping, the pixels of glyphs, boxes and decorations, shaders and GPU
  resources: data transformations and I/O.  Which tile a glyph is drawn from, and when,
  is in `TileAtlas`.
* Windows (ConPTY, processes), logging, base64, stack traces: platform calls and
  helpers.
* UTF-8 decoding and grapheme clusters are data; a character is one item.  Bulk text
  never leaves the parser's ground state and is not told apart from its bytes.
* Real time: where the code compares times, either branch may be taken.
* A second window.  In `Viewport`, the alternate screen is not resized (it has neither
  history nor a scrolled viewport), and the positions to which searches and vi motions
  lead are any line of the grid (`ViMotions` says which).
* What the components of a suite do to each other: they are checked one by one.  Where
  one uses another's data, its module has the part it uses.
