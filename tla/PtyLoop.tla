------------------------------- MODULE PtyLoop -------------------------------
(***************************************************************************)
(* A running session: the terminal thread that reads from the PTY and has  *)
(* the sequences executed, or holds them back while the user traces them;  *)
(* the exit watcher; and the GUI thread, which closes the device and       *)
(* changes the execution mode.                                             *)
(*                                                                         *)
(* The application writes to two channels, its tty and the fast pipe       *)
(* STDOUT_FASTPIPE.  A VT sequence or a run of text is one item, numbered  *)
(* in the order in which it was written to its channel.  A session's       *)
(* device is a UnixPty with an epoll_read_selector.                        *)
(***************************************************************************)
EXTENDS Naturals, Sequences, FiniteSets

CONSTANTS
    MaxSent,        \* bound: items written to a channel
    MaxRequests,    \* bound: trace actions of the user
    GuiModes        \* the execution modes the user asks for

ExecutionMode == {"Normal", "Waiting", "SingleStep", "BreakAtEmptyQueue"}
Channels == {"tty", "pipe"}

ASSUME PtyAssumption ==
    /\ MaxSent \in Nat
    /\ MaxRequests \in Nat
    /\ GuiModes \subseteq ExecutionMode

VARIABLES
    sent,       \* items written to each channel
    unread,     \* those of them that were not read yet
    held,       \* some process has the writing end of the channel open
    child,      \* the process that was started: "running" or "exited"
    watched,    \* the descriptors the selector waits for; these are open
    events,     \* epoll_read_selector::_pending
    wake,       \* the selector's _eventFd was written
    mode,       \* Terminal::_executionMode
    asked,      \* the mode the user asked for last
    requests,   \* trace actions so far
    traced,     \* TraceHandler::_pendingSequences
    executed,   \* what was executed on the screen
    fragment,   \* what is left to parse of the fragment that was read
    loop,       \* where the terminal thread is
    fd,         \* the descriptor it is about to read
    watcher     \* the exit watcher: "waiting", "posted" an event, "done"

vars == <<sent, unread, held, child, watched, events, wake, mode, asked, requests,
          traced, executed, fragment, loop, fd, watcher>>
appVars == <<sent, held, child>>
selectorVars == <<watched, events, wake>>
modeVars == <<mode, asked, requests>>
parseVars == <<traced, executed, fragment>>

LoopLabels == {"check", "break", "normal", "step", "wait", "blocked", "select",
               "read", "parse", "close", "done"}

Item(ch, n) == <<ch, n>>
Items == Channels \X (Nat \ {0})

Init ==
    /\ sent = [ch \in Channels |-> 0]
    /\ unread = [ch \in Channels |-> <<>>]
    /\ held = [ch \in Channels |-> TRUE]
    /\ child = "running"
    /\ watched = Channels
    /\ events = <<>>
    /\ wake = FALSE
    /\ mode = "Normal"
    /\ asked = "Normal"
    /\ requests = 0
    /\ traced = <<>>
    /\ executed = <<>>
    /\ fragment = <<>>
    /\ loop = "check"
    /\ fd = "tty"
    /\ watcher = "waiting"

-----------------------------------------------------------------------------
(* The application: the child and whatever it started.  External.          *)

WriteOutput(ch) ==
    /\ held[ch]
    /\ ch \in watched
    /\ sent[ch] < MaxSent
    /\ sent' = [sent EXCEPT ![ch] = @ + 1]
    /\ unread' = [unread EXCEPT ![ch] = Append(@, Item(ch, sent[ch] + 1))]
    /\ UNCHANGED <<held, child, selectorVars, modeVars, parseVars, loop, fd, watcher>>

\* The last process that has the channel open closes it or ends.
Release(ch) ==
    /\ held[ch]
    /\ held' = [held EXCEPT ![ch] = FALSE]
    /\ UNCHANGED <<sent, child, unread, selectorVars, modeVars, parseVars, loop, fd, watcher>>

\* The child ends; a job it left behind may keep the channels open.
Exit ==
    /\ child = "running"
    /\ child' = "exited"
    /\ UNCHANGED <<sent, held, unread, selectorVars, modeVars, parseVars, loop, fd, watcher>>

-----------------------------------------------------------------------------
(* UnixPty and the selector.                                               *)

\* UnixPty::close(), called by two threads and serialized by its mutex: once
\* the master is closed the call does nothing.
Close ==
    /\ watched' = watched \ {"tty"}
    /\ wake' = (wake \/ "tty" \in watched)

\* What epoll_wait() reports: there is something to read, or nobody is left
\* who could write.
Readable == {ch \in watched : unread[ch] # <<>> \/ ~held[ch]}

\* The orders in which it may report a set of descriptors.
Orders(S) == {s \in [1..Cardinality(S) -> S] : \A i, j \in DOMAIN s : s[i] = s[j] => i = j}

\* wait_one(): what is left of an earlier call goes first.
WaitPending ==
    /\ loop = "select"
    /\ events # <<>>
    /\ fd' = Head(events)
    /\ events' = Tail(events)
    /\ loop' = "read"
    /\ UNCHANGED <<appVars, unread, watched, wake, modeVars, parseVars, watcher>>

WaitReadable ==
    /\ loop = "select"
    /\ events = <<>>
    /\ Readable # {}
    /\ wake' = FALSE
    /\ \E order \in Orders(Readable) :
          /\ fd' = Head(order)
          /\ events' = Tail(order)
    /\ loop' = "read"
    /\ UNCHANGED <<appVars, unread, watched, modeVars, parseVars, watcher>>

\* Woken up with nothing to read: EINTR, and processInputOnce() returns true.
WaitInterrupted ==
    /\ loop = "select"
    /\ events = <<>>
    /\ Readable = {}
    /\ wake
    /\ wake' = FALSE
    /\ loop' = "check"
    /\ UNCHANGED <<appVars, unread, watched, events, modeVars, parseVars, fd, watcher>>

\* readSome(): some of what there is, at most what the buffer can take.
ReadSome ==
    /\ loop = "read"
    /\ fd \in watched
    /\ unread[fd] # <<>>
    /\ \E n \in 1..Len(unread[fd]) :
          /\ fragment' = SubSeq(unread[fd], 1, n)
          /\ unread' = [unread EXCEPT ![fd] = SubSeq(@, n + 1, Len(@))]
    /\ loop' = "parse"
    /\ UNCHANGED <<appVars, selectorVars, modeVars, traced, executed, fd, watcher>>

\* readSome() at the end of the fast pipe: the pipe is given up.
ReadPipeEnd ==
    /\ loop = "read"
    /\ fd = "pipe"
    /\ unread["pipe"] = <<>>
    /\ watched' = watched \ {"pipe"}
    /\ loop' = "check"
    /\ UNCHANGED <<appVars, unread, events, wake, modeVars, parseVars, fd, watcher>>

\* readSome() fails: the tty is hung up (EIO, or no bytes on some systems), or
\* the descriptor was closed after it had been reported (EBADF).
ReadFails ==
    /\ loop = "read"
    /\ fd = "tty"
    /\ fd \notin watched \/ unread[fd] = <<>>
    /\ loop' = "close"
    /\ UNCHANGED <<appVars, unread, selectorVars, modeVars, parseVars, fd, watcher>>

\* processInputOnce() closes the device and the main loop ends.
LoopCloses ==
    /\ loop = "close"
    /\ Close
    /\ loop' = "done"
    /\ UNCHANGED <<appVars, unread, events, modeVars, parseVars, fd, watcher>>

-----------------------------------------------------------------------------
(* The terminal thread: processInputOnce().                                *)

\* The mode is loaded once; what follows goes by the value loaded.
CheckMode ==
    /\ loop = "check"
    /\ loop' = CASE mode = "BreakAtEmptyQueue" -> "break"
                 [] mode = "Normal" -> "normal"
                 [] mode = "Waiting" -> "wait"
                 [] mode = "SingleStep" -> "step"
    /\ UNCHANGED <<appVars, unread, selectorVars, modeVars, parseVars, fd, watcher>>

\* BreakAtEmptyQueue: from now on the mode is Waiting, then as in Normal.
BreakAtEmptyQueue ==
    /\ loop = "break"
    /\ mode' = "Waiting"
    /\ loop' = "normal"
    /\ UNCHANGED <<appVars, unread, selectorVars, asked, requests, parseVars, fd, watcher>>

\* Mutant: what was held back is dropped.
FlushAllDrops ==
    /\ loop = "normal"
    /\ traced' = <<>>
    /\ loop' = IF traced = <<>> THEN "select" ELSE "check"
    /\ UNCHANGED <<appVars, unread, selectorVars, modeVars, executed, fragment, fd, watcher>>

\* flushAllPending(), or on to the PTY if nothing is held back.
FlushAll ==
    /\ loop = "normal"
    /\ executed' = executed \o traced
    /\ traced' = <<>>
    /\ loop' = IF traced = <<>> THEN "select" ELSE "check"
    /\ UNCHANGED <<appVars, unread, selectorVars, modeVars, fragment, fd, watcher>>

\* Mutant: more is read although something is held back.
SingleStepReads ==
    /\ loop = "step"
    /\ loop' = "select"
    /\ UNCHANGED <<appVars, unread, selectorVars, modeVars, parseVars, fd, watcher>>

\* SingleStep: one sequence is executed and the mode becomes Waiting.
SingleStep ==
    /\ loop = "step"
    /\ \/ /\ traced = <<>>
          /\ loop' = "select"
          /\ UNCHANGED <<mode, traced, executed>>
       \/ /\ traced # <<>>
          /\ mode' = "Waiting"
          /\ executed' = Append(executed, Head(traced))
          /\ traced' = Tail(traced)
          /\ loop' = "check"
    /\ UNCHANGED <<appVars, unread, selectorVars, asked, requests, fragment, fd, watcher>>

\* Waiting: the thread sleeps on _breakCondition until it is notified.
WaitForCommand ==
    /\ loop = "wait"
    /\ loop' = IF mode = "Waiting" THEN "blocked" ELSE "check"
    /\ UNCHANGED <<appVars, unread, selectorVars, modeVars, parseVars, fd, watcher>>

\* parseFragment(): an item goes to the screen or, whenever the mode is not
\* Normal at that moment, to the TraceHandler.
ParseItem ==
    /\ loop = "parse"
    /\ fragment # <<>>
    /\ IF mode = "Normal"
       THEN executed' = Append(executed, Head(fragment)) /\ UNCHANGED traced
       ELSE traced' = Append(traced, Head(fragment)) /\ UNCHANGED executed
    /\ fragment' = Tail(fragment)
    /\ UNCHANGED <<appVars, unread, selectorVars, modeVars, loop, fd, watcher>>

EndFragment ==
    /\ loop = "parse"
    /\ fragment = <<>>
    /\ loop' = "check"
    /\ UNCHANGED <<appVars, unread, selectorVars, modeVars, parseVars, fd, watcher>>

LoopSteps ==
    \/ CheckMode \/ BreakAtEmptyQueue \/ FlushAll \/ SingleStep \/ WaitForCommand
    \/ WaitPending \/ WaitReadable \/ WaitInterrupted
    \/ ReadSome \/ ReadPipeEnd \/ ReadFails \/ LoopCloses
    \/ ParseItem \/ EndFragment

-----------------------------------------------------------------------------
(* The exit watcher and the GUI thread.                                    *)

\* ExitWatcherThread: waitForClosed() returns when the child has ended.
WatchExit ==
    /\ watcher = "waiting"
    /\ child = "exited"
    /\ watcher' = "posted"
    /\ UNCHANGED <<appVars, unread, selectorVars, modeVars, parseVars, loop, fd>>

\* Mutant: the device is left to the main loop.
OnClosedLeavesDevice ==
    /\ watcher = "posted"
    /\ watcher' = "done"
    /\ UNCHANGED <<appVars, unread, selectorVars, modeVars, parseVars, loop, fd>>

\* onClosed() in the GUI thread: the device is closed if it is not yet.
OnClosed ==
    /\ watcher = "posted"
    /\ watcher' = "done"
    /\ Close
    /\ UNCHANGED <<appVars, unread, events, modeVars, parseVars, loop, fd>>

\* Mutant: the condition variable is not notified.
SetExecutionModeSilent(m) ==
    /\ requests < MaxRequests
    /\ requests' = requests + 1
    /\ mode' = m
    /\ asked' = m
    /\ wake' = TRUE
    /\ UNCHANGED <<appVars, unread, watched, events, parseVars, loop, fd, watcher>>

\* TraceEnter, TraceStep, TraceLeave, TraceBreakAtEmptyQueue: setExecutionMode()
\* stores the mode and wakes the terminal thread wherever it may sleep.
SetExecutionMode(m) ==
    /\ requests < MaxRequests
    /\ requests' = requests + 1
    /\ mode' = m
    /\ asked' = m
    /\ wake' = TRUE
    /\ loop' = IF loop = "blocked" THEN "wait" ELSE loop
    /\ UNCHANGED <<appVars, unread, watched, events, parseVars, fd, watcher>>

-----------------------------------------------------------------------------
Next ==
    \/ \E ch \in Channels : WriteOutput(ch) \/ Release(ch)
    \/ Exit
    \/ LoopSteps
    \/ WatchExit
    \/ OnClosed
    \/ \E m \in GuiModes : SetExecutionMode(m)

\* Threads are scheduled and Qt delivers posted events; neither the application
\* nor the user has to do anything.
Spec ==
    /\ Init /\ [][Next]_vars
    /\ WF_vars(LoopSteps) /\ WF_vars(WatchExit) /\ WF_vars(OnClosed)

-----------------------------------------------------------------------------
\* Types, whoever writes, reads, closes or traces.
TypeOK ==
    /\ sent \in [Channels -> 0..MaxSent]
    /\ unread \in [Channels -> Seq(Items)]
    /\ held \in [Channels -> BOOLEAN]
    /\ child \in {"running", "exited"}
    /\ watched \subseteq Channels
    /\ events \in Seq(Channels)
    /\ wake \in BOOLEAN
    /\ mode \in ExecutionMode
    /\ asked \in ExecutionMode
    /\ requests \in 0..MaxRequests
    /\ traced \in Seq(Items)
    /\ executed \in Seq(Items)
    /\ fragment \in Seq(Items)
    /\ loop \in LoopLabels
    /\ fd \in Channels
    /\ watcher \in {"waiting", "posted", "done"}

\* The items of a channel in q are those after number low up to number high: each of
\* them once, in order, and no other.
Carries(q, ch, low, high) ==
    /\ \A i \in DOMAIN q : q[i][1] = ch => q[i][2] \in low + 1..high
    /\ \A n \in low + 1..high : \E i \in DOMAIN q : q[i] = Item(ch, n)
    /\ \A i, j \in DOMAIN q : i < j /\ q[i][1] = ch /\ q[j][1] = ch => q[i][2] < q[j][2]

\* Output is executed in the order in which it was written, nothing twice and
\* nothing left out, although parts of it pass through the queue of the tracer
\* and the user changes the mode at any moment (processInputOnce()): what was, is
\* or will be executed is what was written.
InOrder ==
    \A ch \in Channels : Carries(executed \o traced \o fragment \o unread[ch], ch, 0, sent[ch])

\* The terminal thread never waits for the PTY while a sequence is held back: a
\* step the user asks for is not delayed until the application writes, and the
\* buffer that the text of a queued CodepointSequence is a view of is not read
\* into.
ReadsOnlyWhenFlushed == loop \in {"select", "read"} => traced = <<>>

\* A step the user asked for while sequences are held back is taken, wherever
\* the terminal thread was sleeping: it does not hold them back for ever.
StepsTaken == (mode = "SingleStep" /\ traced # <<>>) ~> (mode # "SingleStep" \/ traced = <<>>)

\* Once the child has ended its device is closed, whoever else keeps the tty open.
DeviceCloses == child = "exited" ~> "tty" \notin watched

-----------------------------------------------------------------------------
(* What assertions and comments say and the code does not do.              *)

\* UnixPty::read() asserts that the selector has a descriptor to wait for.
SelectorNotEmpty == loop = "select" => watched # {}

\* What wait_one() returned is still open when it is read.
ReadsOpenDescriptor == loop = "read" => fd \in watched

\* Normal is the mode without tracing: once asked for it stays in force.
LeaveRespected == asked = "Normal" => mode = "Normal"

\* The main loop ends with its device, unless the user stopped it.
LoopEnds == "tty" \notin watched ~> (loop = "done" \/ mode = "Waiting")

\* The device is closed when everything that was written to it has been read.
OutputRead == "tty" \notin watched => unread["tty"] = <<>>
=============================================================================
