--------------------------- MODULE RenderPipeline ---------------------------
(***************************************************************************)
(* How a change of the terminal's screen becomes a picture.                *)
(*                                                                         *)
(* Three threads share a RenderDoubleBuffer (vtbackend/RenderBuffer.h):    *)
(*   T  "Terminal.Loop", which parses what the application wrote;          *)
(*   G  the GUI thread, which changes selection, viewport, preedit text;   *)
(*   R  Qt's scene graph thread, which refreshes and draws the picture.    *)
(* Two mutexes are involved: the terminal's own lock and the double        *)
(* buffer's readerLock.  The index of the back buffer and the state of the *)
(* double buffer are atomics that every thread writes without a lock.      *)
(*                                                                         *)
(* Data is abstracted to version numbers: "content" counts the changes     *)
(* made to the screen, a buffer holds the version it was filled from, and  *)
(* "displayed" is the version of the last picture drawn.  Every atomic     *)
(* load, store and lock operation of the code is a step of its own.        *)
(***************************************************************************)
EXTENDS Naturals

CONSTANTS
    MaxContent,     \* bound: changes made to the screen in a behaviour
    OutputActive,   \* the application writes output (T parses)
    GuiCalls,       \* how G announces its changes: "refresh" stands for
                    \* breakLoopAndRefreshRenderBuffer(), "notify" for
                    \* screenUpdated() and renderBufferUpdated()
    UseSync,        \* the application uses DEC mode 2026
    UseReset,       \* the application resets the terminal (RIS)
    UseSmoothScroll, \* DEC mode SmoothScroll is set and the profile gives it
                    \* a delay (smoothLineScrolling)
    TimerArmed      \* nextRender() has a value: the cursor blinks, blinking
                    \* text is on screen, or the indicator line is shown

ASSUME RenderAssumption ==
    /\ MaxContent \in Nat
    /\ GuiCalls \subseteq {"refresh", "notify"}
    /\ OutputActive \in BOOLEAN
    /\ UseSync \in BOOLEAN
    /\ UseReset \in BOOLEAN
    /\ UseSmoothScroll \in BOOLEAN
    /\ TimerArmed \in BOOLEAN

Threads == {"T", "G", "R"}
Buffers == {0, 1}
NoThread == "none"

BufferState == {"WaitingForRefresh", "RefreshBuffersAndTrySwap", "TrySwapBuffers"}

\* Where a thread is in the code.
Labels == {"idle", "parsing", "relock", "refresh", "ensure", "fillLock", "filling", "filled",
           "trySwap", "swapping", "notify", "post", "front", "frontLock", "drawing"}

VARIABLES
    content,        \* version of the screen
    syncMode,       \* DEC mode 2026 in Terminal::_modes
    updateEnabled,  \* Terminal::_renderBufferUpdateEnabled
    batchBase,      \* version of the screen when mode 2026 was last set
    scrolling,      \* T is in the unlocked part of Screen::linefeed()
    backIndex,      \* RenderDoubleBuffer::currentBackBufferIndex
    bufferState,    \* RenderDoubleBuffer::state
    frame,          \* version held by each of the two buffers
    displayed,      \* version of the picture on the display
    redraw,         \* a paint is scheduled (window()->update() was posted)
    termLock,       \* holder of the terminal's mutex
    readerLock,     \* holder of RenderDoubleBuffer::readerLock
    pc,             \* control state of the threads
    buf             \* buffer each thread is filling or drawing

screenVars == <<content, syncMode, updateEnabled, batchBase, scrolling>>
bufferVars == <<backIndex, bufferState, frame>>
lockVars   == <<termLock, readerLock>>
vars == <<content, syncMode, updateEnabled, batchBase, scrolling, backIndex, bufferState,
          frame, displayed, redraw, termLock, readerLock, pc, buf>>

Goto(t, label) == pc' = [pc EXCEPT ![t] = label]

Init ==
    /\ content = 0
    /\ syncMode = FALSE
    /\ updateEnabled = TRUE
    /\ batchBase = 0
    /\ scrolling = FALSE
    /\ backIndex = 0
    /\ bufferState = "WaitingForRefresh"
    /\ frame = [b \in Buffers |-> 0]
    /\ displayed = 0
    /\ redraw = FALSE
    /\ termLock = NoThread
    /\ readerLock = NoThread
    /\ pc = [t \in Threads |-> "idle"]
    /\ buf = [t \in Threads |-> 0]

-----------------------------------------------------------------------------
(* Parts of the double buffer's protocol that several threads execute.     *)

\* What a thread does when screenUpdated() or renderBufferUpdated() returns: T
\* goes on to the sleep of Screen::linefeed() if it was called there.
AfterNotify(t) == IF t = "T" /\ scrolling THEN "relock" ELSE "idle"

\* What a thread does once swapBuffers() has returned: T goes on inside
\* synchronizedOutput() if it is called there (T then holds the terminal's
\* lock), T and G return from screenUpdated(), R goes on to draw.
AfterSwap(t) ==
    IF t = "R" THEN "front"
    ELSE IF t = "T" /\ termLock = "T" THEN "post"
    ELSE AfterNotify(t)

\* swapBuffers(): give up if the front buffer is in use, else flip the index.
TrySwap(t) ==
    /\ pc[t] = "trySwap"
    /\ \/ /\ readerLock = NoThread
          /\ readerLock' = t
          /\ backIndex' = 1 - backIndex
          /\ Goto(t, "swapping")
       \/ /\ readerLock # NoThread
          /\ Goto(t, AfterSwap(t))
          /\ UNCHANGED <<readerLock, backIndex>>
    /\ UNCHANGED <<screenVars, bufferState, frame, displayed, redraw, termLock, buf>>

\* swapBuffers(): the tail, up to the release of readerLock.
FinishSwap(t) ==
    /\ pc[t] = "swapping"
    /\ bufferState' = "WaitingForRefresh"
    /\ readerLock' = NoThread
    /\ Goto(t, AfterSwap(t))
    /\ UNCHANGED <<screenVars, backIndex, frame, displayed, redraw, termLock, buf>>

\* refreshRenderBuffer(): request a refresh, then ensureFreshRenderBuffer().
RequestRefresh(t) ==
    /\ bufferState' = "RefreshBuffersAndTrySwap"
    /\ Goto(t, "ensure")

\* ensureFreshRenderBuffer() up to the fill.  The time since the last swap is
\* not modelled, so avoidRefresh may go either way.  The buffer to fill is
\* chosen here, before fillRenderBuffer() waits for the terminal's lock.
EnsureFresh(t) ==
    /\ pc[t] = "ensure"
    /\ \/ /\ ~updateEnabled \/ bufferState = "WaitingForRefresh"
          /\ Goto(t, IF t = "R" THEN "front" ELSE "post")
          /\ UNCHANGED <<bufferState, buf>>
       \/ /\ updateEnabled
          /\ bufferState # "TrySwapBuffers"
          /\ bufferState' = "RefreshBuffersAndTrySwap"
          /\ buf' = [buf EXCEPT ![t] = backIndex]
          /\ Goto(t, "fillLock")
       \/ /\ updateEnabled
          /\ bufferState = "TrySwapBuffers"
          /\ Goto(t, "trySwap")
          /\ UNCHANGED <<bufferState, buf>>
    /\ UNCHANGED <<screenVars, backIndex, frame, displayed, redraw, lockVars>>

\* Mutant: the render thread fills without the terminal's lock.
LockForFillUnlocked(t) ==
    /\ pc[t] = "fillLock"
    /\ Goto(t, "filling")
    /\ UNCHANGED <<screenVars, bufferVars, displayed, redraw, lockVars, buf>>

\* fillRenderBuffer() takes the terminal's lock; T already holds it when it
\* comes here from synchronizedOutput().
LockForFill(t) ==
    /\ pc[t] = "fillLock"
    /\ termLock = (IF t = "T" THEN "T" ELSE NoThread)
    /\ termLock' = t
    /\ Goto(t, "filling")
    /\ UNCHANGED <<screenVars, bufferVars, displayed, redraw, readerLock, buf>>

\* Mutant: the lock guard outlives the fill.
FillKeepsLock(t) ==
    /\ pc[t] = "filling"
    /\ frame' = [frame EXCEPT ![buf[t]] = content]
    /\ Goto(t, "filled")
    /\ UNCHANGED <<screenVars, backIndex, bufferState, displayed, redraw, lockVars, buf>>

\* fillRenderBufferInternal(): the buffer now holds the screen of this moment.
Fill(t) ==
    /\ pc[t] = "filling"
    /\ frame' = [frame EXCEPT ![buf[t]] = content]
    /\ termLock' = (IF t = "T" THEN "T" ELSE NoThread)
    /\ Goto(t, "filled")
    /\ UNCHANGED <<screenVars, backIndex, bufferState, displayed, redraw, readerLock, buf>>

\* Mutant: a break where the code falls through to the swap.
OfferSwapNoFallthrough(t) ==
    /\ pc[t] = "filled"
    /\ bufferState' = "TrySwapBuffers"
    /\ Goto(t, AfterSwap(t))
    /\ UNCHANGED <<screenVars, backIndex, frame, displayed, redraw, lockVars, buf>>

\* ensureFreshRenderBuffer() after the fill: offer the buffer for swapping and
\* fall through to the swap without reading the state again.
OfferSwap(t) ==
    /\ pc[t] = "filled"
    /\ bufferState' = "TrySwapBuffers"
    /\ Goto(t, "trySwap")
    /\ UNCHANGED <<screenVars, backIndex, frame, displayed, redraw, lockVars, buf>>

\* screenUpdated() and renderBufferUpdated(): load the state ...
CheckState(t) ==
    /\ pc[t] = "notify"
    /\ \/ ~updateEnabled /\ Goto(t, AfterNotify(t))
       \/ updateEnabled /\ bufferState = "TrySwapBuffers" /\ Goto(t, "trySwap")
       \/ updateEnabled /\ bufferState # "TrySwapBuffers" /\ Goto(t, "post")
    /\ UNCHANGED <<screenVars, bufferVars, displayed, redraw, lockVars, buf>>

\* ... and notify the display, which posts a paint.  In synchronizedOutput()
\* T goes on parsing afterwards.
PostRedraw(t) ==
    /\ pc[t] = "post"
    /\ redraw' = TRUE
    /\ Goto(t, IF t = "T" /\ termLock = "T" THEN "parsing" ELSE AfterNotify(t))
    /\ UNCHANGED <<screenVars, bufferVars, displayed, lockVars, buf>>

SwapSteps(t) == TrySwap(t) \/ FinishSwap(t)
FillSteps(t) == EnsureFresh(t) \/ LockForFill(t) \/ Fill(t) \/ OfferSwap(t)
NotifySteps(t) == CheckState(t) \/ PostRedraw(t)

-----------------------------------------------------------------------------
(* The terminal thread.                                                    *)

\* A further change fits the bound; one is kept for the line feed in progress.
MayChange == content + (IF scrolling THEN 1 ELSE 0) < MaxContent

\* processInputOnce(): a fragment is parsed with the terminal's lock held, but
\* for the line feeds of a smooth scroll.
Parse ==
    /\ OutputActive
    /\ pc["T"] = "idle"
    /\ MayChange
    /\ termLock = NoThread
    /\ termLock' = "T"
    /\ content' = content + 1
    /\ Goto("T", "parsing")
    /\ UNCHANGED <<syncMode, updateEnabled, batchBase, scrolling, bufferVars, displayed, redraw, readerLock, buf>>

\* More of the same fragment.
ParseMore ==
    /\ pc["T"] = "parsing"
    /\ MayChange
    /\ content' = content + 1
    /\ UNCHANGED <<syncMode, updateEnabled, batchBase, scrolling, bufferVars, displayed, redraw, lockVars, pc, buf>>

\* SM ? 2026 in the fragment: setMode() calls synchronizedOutput(true) if the
\* mode was reset.
BeginSynchronizedOutput ==
    /\ UseSync
    /\ pc["T"] = "parsing"
    /\ ~syncMode
    /\ syncMode' = TRUE
    /\ updateEnabled' = FALSE
    /\ batchBase' = content
    /\ UNCHANGED <<content, scrolling, bufferVars, displayed, redraw, lockVars, pc, buf>>

\* RM ? 2026 in the fragment: setMode() calls synchronizedOutput(false) if the
\* mode was set.  That returns early when the last swap is recent or a buffer
\* is waiting to be swapped.
EndSynchronizedOutput ==
    /\ pc["T"] = "parsing"
    /\ syncMode
    /\ syncMode' = FALSE
    /\ updateEnabled' = TRUE
    /\ \/ UNCHANGED <<bufferState, pc>>
       \/ bufferState # "TrySwapBuffers" /\ RequestRefresh("T")
    /\ UNCHANGED <<content, batchBase, scrolling, backIndex, frame, displayed, redraw, lockVars, buf>>

\* RIS in the fragment: hardReset() clears the screen and replaces the modes
\* by new ones, without setMode().
HardReset ==
    /\ UseReset
    /\ pc["T"] = "parsing"
    /\ MayChange
    /\ content' = content + 1
    /\ syncMode' = FALSE
    /\ UNCHANGED <<updateEnabled, batchBase, scrolling, bufferVars, displayed, redraw, lockVars, pc, buf>>

\* Mutant: the lock is not given up for the screen update and the sleep.
SmoothScrollLocked ==
    /\ UseSmoothScroll
    /\ pc["T"] = "parsing"
    /\ MayChange
    /\ scrolling' = TRUE
    /\ Goto("T", IF syncMode THEN "relock" ELSE "notify")
    /\ UNCHANGED <<content, syncMode, updateEnabled, batchBase, bufferVars, displayed, redraw, lockVars, buf>>

\* LF in the fragment with a smooth scroll: linefeed() gives up the terminal's
\* lock in the middle of the parse and calls screenUpdated() ...
SmoothScroll ==
    /\ UseSmoothScroll
    /\ pc["T"] = "parsing"
    /\ MayChange
    /\ termLock' = NoThread
    /\ scrolling' = TRUE
    /\ Goto("T", IF syncMode THEN "relock" ELSE "notify")
    /\ UNCHANGED <<content, syncMode, updateEnabled, batchBase, bufferVars, displayed, redraw, readerLock, buf>>

\* ... sleeps, takes the lock again and moves the cursor or the page.
Relock ==
    /\ pc["T"] = "relock"
    /\ termLock = NoThread
    /\ termLock' = "T"
    /\ scrolling' = FALSE
    /\ content' = content + 1
    /\ Goto("T", "parsing")
    /\ UNCHANGED <<syncMode, updateEnabled, batchBase, bufferVars, displayed, redraw, readerLock, buf>>

\* The fragment ends: unlock, then screenUpdated() unless mode 2026 is set.
EndParse ==
    /\ pc["T"] = "parsing"
    /\ termLock' = NoThread
    /\ Goto("T", IF syncMode THEN "idle" ELSE "notify")
    /\ UNCHANGED <<screenVars, bufferVars, displayed, redraw, readerLock, buf>>

TSteps ==
    \/ EndSynchronizedOutput
    \/ EndParse
    \/ Relock
    \/ SwapSteps("T")
    \/ FillSteps("T")
    \/ NotifySteps("T")

TNext ==
    \/ Parse
    \/ ParseMore
    \/ BeginSynchronizedOutput
    \/ HardReset
    \/ SmoothScroll
    \/ TSteps

-----------------------------------------------------------------------------
(* The GUI thread.                                                         *)

\* A change of viewport, selection or preedit text, made under the terminal's
\* lock, and announced by breakLoopAndRefreshRenderBuffer() or by
\* screenUpdated() or renderBufferUpdated().
GuiChange ==
    /\ pc["G"] = "idle"
    /\ MayChange
    /\ termLock = NoThread
    /\ content' = content + 1
    /\ \E label \in GuiCalls : Goto("G", label)
    /\ UNCHANGED <<syncMode, updateEnabled, batchBase, scrolling, bufferVars, displayed, redraw, lockVars, buf>>

\* breakLoopAndRefreshRenderBuffer(): the state is overwritten, whatever the
\* other threads are doing, and the display is notified.
BreakLoop ==
    /\ pc["G"] = "refresh"
    /\ bufferState' = "RefreshBuffersAndTrySwap"
    /\ Goto("G", "post")
    /\ UNCHANGED <<screenVars, backIndex, frame, displayed, redraw, lockVars, buf>>

GSteps == BreakLoop \/ SwapSteps("G") \/ NotifySteps("G")

GNext == GuiChange \/ GSteps

-----------------------------------------------------------------------------
(* The render thread.                                                      *)

\* The update timer that onAfterRendering() starts from nextRender().
UpdateTimer ==
    /\ TimerArmed
    /\ pc["R"] = "idle"
    /\ ~redraw
    /\ redraw' = TRUE
    /\ UNCHANGED <<screenVars, bufferVars, displayed, lockVars, pc, buf>>

\* onAfterRendering() -> paint(): the scheduled paint starts.
BeginPaint ==
    /\ pc["R"] = "idle"
    /\ redraw
    /\ redraw' = FALSE
    /\ Goto("R", "refresh")
    /\ UNCHANGED <<screenVars, bufferVars, displayed, lockVars, buf>>

\* Renderer::render() -> refreshRenderBuffer().
RenderRefresh ==
    /\ pc["R"] = "refresh"
    /\ RequestRefresh("R")
    /\ UNCHANGED <<screenVars, backIndex, frame, displayed, redraw, lockVars, buf>>

\* frontBuffer(): the buffer is chosen before readerLock is taken.
ChooseFront ==
    /\ pc["R"] = "front"
    /\ buf' = [buf EXCEPT !["R"] = 1 - backIndex]
    /\ Goto("R", "frontLock")
    /\ UNCHANGED <<screenVars, bufferVars, displayed, redraw, lockVars>>

\* RenderBufferRef's constructor.
LockFront ==
    /\ pc["R"] = "frontLock"
    /\ readerLock = NoThread
    /\ readerLock' = "R"
    /\ Goto("R", "drawing")
    /\ UNCHANGED <<screenVars, bufferVars, displayed, redraw, termLock, buf>>

\* renderCells(), renderLines(), and RenderBufferRef's destructor.
Draw ==
    /\ pc["R"] = "drawing"
    /\ displayed' = frame[buf["R"]]
    /\ readerLock' = NoThread
    /\ Goto("R", "idle")
    /\ UNCHANGED <<screenVars, bufferVars, redraw, termLock, buf>>

RSteps ==
    \/ UpdateTimer \/ BeginPaint \/ RenderRefresh
    \/ FillSteps("R") \/ SwapSteps("R")
    \/ ChooseFront \/ LockFront \/ Draw

-----------------------------------------------------------------------------
Next == TNext \/ GNext \/ RSteps

\* The operating system schedules every thread, Qt delivers a posted update
\* and an expired timer, and a fragment is finite, so that its parsing ends.
\* Nothing makes the application write or the user act.
Fairness ==
    /\ WF_vars(TSteps) /\ SF_vars(EndParse)
    /\ WF_vars(GSteps)
    /\ WF_vars(RSteps)

Spec == Init /\ [][Next]_vars /\ Fairness

-----------------------------------------------------------------------------
\* Types: no buffer holds, and nothing shows, a version that was never on the
\* screen, and the index of the back buffer that swapBuffers() flips stays 0 or 1.
TypeOK ==
    /\ content \in 0..MaxContent
    /\ syncMode \in BOOLEAN
    /\ updateEnabled \in BOOLEAN
    /\ batchBase \in 0..content
    /\ scrolling \in BOOLEAN
    /\ backIndex \in Buffers
    /\ bufferState \in BufferState
    /\ frame \in [Buffers -> 0..content]
    /\ displayed \in 0..content
    /\ redraw \in BOOLEAN
    /\ termLock \in Threads \cup {NoThread}
    /\ readerLock \in Threads \cup {NoThread}
    /\ pc \in [Threads -> Labels]
    /\ buf \in [Threads -> Buffers]

\* RenderDoubleBuffer has one back buffer and fillRenderBuffer() no lock of its
\* own: two threads never write a buffer at the same time, although the render
\* thread and synchronizedOutput() both fill.
SingleFiller ==
    \A s, t \in Threads : pc[s] = "filling" /\ pc[t] = "filling" => s = t

\* A thread that waits for one of the two mutexes holds neither: the terminal
\* thread can never be stopped by a slow renderer, nor the two deadlock.
NoHoldAndWait ==
    \A t \in Threads :
        \/ pc[t] \in {"idle", "relock", "frontLock"}
        \/ pc[t] = "fillLock" /\ t # "T"
        => t \notin {termLock, readerLock}

\* Who holds a mutex, by where the threads are: the inductive part of the two
\* properties above.  A mutex is held exactly from its acquisition to its
\* release, across every early return and fall-through of the code, and the
\* terminal's is given up for the whole unlocked part of linefeed(): T calls
\* screenUpdated() from there without it, and never returns to the parser so.
LocksHeld ==
    /\ \A t \in Threads :
          /\ pc[t] = "filling" => termLock = t
          /\ (pc[t] = "swapping" \/ pc[t] = "drawing") <=> readerLock = t
    /\ termLock # "G"
    /\ termLock = "R" => pc["R"] = "filling"
    /\ pc["T"] \in {"parsing", "ensure", "fillLock", "filling", "filled"} => termLock = "T"
    /\ termLock = "T" => pc["T"] \notin {"idle", "notify", "relock", "frontLock"}
    /\ scrolling => termLock # "T" /\ pc["T"] \in {"notify", "trySwap", "swapping", "post", "relock"}
    /\ pc["T"] = "relock" => scrolling

\* What the display draws is never written while it is being drawn
\* (RenderBuffer.h calls RenderBufferRef a handle to a read-only buffer).
FrontBufferReadOnly ==
    ~ \E t \in Threads \ {"R"} :
        pc["R"] = "drawing" /\ pc[t] = "filling" /\ buf[t] = buf["R"]

\* While mode 2026 is set no picture is made of what the application wrote
\* after setting it.
SynchronizedOutputAtomic ==
    syncMode => \A b \in Buffers : frame[b] <= batchBase

\* With nothing left to do and no paint scheduled, the display shows the screen.
QuiescentFresh ==
    (/\ \A t \in Threads : pc[t] = "idle"
     /\ ~redraw
     /\ ~syncMode) => displayed = content

\* Every change is shown in the end, unless the application leaves mode 2026 set.
EventuallyDisplayed ==
    \A v \in 1..MaxContent :
        content >= v ~> (displayed >= v \/ syncMode)

=============================================================================
