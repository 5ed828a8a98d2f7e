--------------------------- MODULE SessionManager ---------------------------
(***************************************************************************)
(* The tabs of a window: TerminalSessionManager, with what the sessions    *)
(* and the display do to it when a process ends.                           *)
(*                                                                         *)
(* Everything runs in the GUI thread but the exit watchers, whose events   *)
(* it handles in some order.  The display always shows the active session. *)
(* A session that is removed is neither destroyed nor stopped, so that its *)
(* process may end long after its tab was closed.                          *)
(***************************************************************************)
EXTENDS Naturals, SequencesExt

CONSTANTS
    MaxSessions,    \* bound: sessions ever created
    CloseLast       \* the user also closes the last tab with CloseTab

ASSUME TabsAssumption ==
    /\ MaxSessions \in Nat \ {0}
    /\ CloseLast \in BOOLEAN

VARIABLES
    tabs,       \* the manager, and whether its window is open
    process,    \* of each session; an event is "posted" when it "exited"
    waitingKey, \* sessions with _terminatedAndWaitingForKeyPress
    handled,    \* sessions with _onClosedHandled
    created,    \* number of sessions ever created
    painted     \* the display has drawn its first frame

vars == <<tabs, process, waitingKey, handled, created, painted>>
sessionVars == <<process, waitingKey, handled, created, painted>>

Session == 1..MaxSessions
None == 0       \* the null pointer

Init ==
    /\ tabs = [sessions |-> <<1>>, active |-> 1, previous |-> None,
               info |-> <<1, 1>>, window |-> "open"]
    /\ process = [s \in Session |-> IF s = 1 THEN "running" ELSE "none"]
    /\ waitingKey = {}
    /\ handled = {}
    /\ created = 1
    /\ painted = FALSE

-----------------------------------------------------------------------------
(* The manager's functions, on its state t.                                *)

\* getSessionIndexOf() is nullopt unless the session is listed.
Listed(t, s) == \E i \in DOMAIN t.sessions : t.sessions[i] = s
IndexOf(t, s) == CHOOSE i \in DOMAIN t.sessions : t.sessions[i] = s

\* The tab count and the position that the active session shows.  A session that
\* is not active keeps what it was told last; it is told again when activated.
TabsInfo(t) == <<Len(t.sessions), IF Listed(t, t.active) THEN IndexOf(t, t.active) ELSE 1>>
UpdateStatusLine(t) == [t EXCEPT !.info = TabsInfo(t)]

\* TerminalDisplay::closeDisplay() and onTerminated of Terminal.qml: the window
\* is closed with its last tab.  terminalSessions.closeTab() cannot be called
\* from there, it is not invokable.
CloseDisplay(t) == IF t.sessions = <<>> THEN [t EXCEPT !.window = "closed"] ELSE t

\* activateSession(); attachDisplay() closes the display of an ended session.
ActivateSession(t, s) ==
    IF s \in {None, t.active} THEN t
    ELSE LET u == UpdateStatusLine([t EXCEPT !.previous = t.active, !.active = s])
         IN  IF s \in handled THEN CloseDisplay(u) ELSE u

\* createSessionInBackground(): the new tab is to the right of the active one.
AddSession(t, s) ==
    LET at == IF Listed(t, t.active) THEN IndexOf(t, t.active) ELSE Len(t.sessions)
    IN  [t EXCEPT !.previous = t.active, !.sessions = InsertAt(@, at + 1, s)]

\* What removeSession() makes the previous tab: a neighbour of the active one.
Neighbour(t) ==
    LET i == IF Listed(t, t.active) THEN IndexOf(t, t.active) ELSE 1
    IN  IF i < Len(t.sessions) THEN t.sessions[i + 1]
        ELSE IF i > 1 THEN t.sessions[i - 1] ELSE None

\* removeSession() up to the search in the list.
LeaveSession(t, s) == IF s = t.active THEN ActivateSession(t, t.previous) ELSE t

EraseSession(t, s) ==
    LET u == [t EXCEPT !.sessions = RemoveAt(@, IndexOf(t, s))]
    IN  UpdateStatusLine([u EXCEPT !.previous = Neighbour(u)])

\* Mutant: the previous tab is forgotten only when it is the one removed.
RemoveSessionKeepsPrevious(t, s) ==
    LET u == LeaveSession(t, s)
        r == [u EXCEPT !.sessions = RemoveAt(@, IndexOf(u, s)),
                       !.previous = IF @ = s THEN None ELSE @]
    IN  IF Listed(u, s) THEN UpdateStatusLine(r) ELSE u

RemoveSession(t, s) ==
    LET u == LeaveSession(t, s)
    IN  IF Listed(u, s) THEN EraseSession(u, s) ELSE u

\* std::swap() of two tabs.
SwapTabs(t, i, j) ==
    UpdateStatusLine([t EXCEPT !.sessions = [@ EXCEPT ![i] = t.sessions[j], ![j] = t.sessions[i]]])

-----------------------------------------------------------------------------
(* The user's actions.  They are bound to keys, and a session that waits   *)
(* for a key press takes any key for that.                                 *)

KeysReachTabs == tabs.window = "open" /\ tabs.active \notin waitingKey

\* createSession()
CreateNewTab ==
    /\ KeysReachTabs
    /\ created < MaxSessions
    /\ created' = created + 1
    /\ process' = [process EXCEPT ![created'] = "running"]
    /\ tabs' = ActivateSession(AddSession(tabs, created'), created')
    /\ UNCHANGED <<waitingKey, handled, painted>>

\* closeTab(): the process goes on.
CloseTab ==
    /\ KeysReachTabs
    /\ CloseLast \/ Len(tabs.sessions) > 1
    /\ tabs' = RemoveSession(tabs, tabs.active)
    /\ UNCHANGED sessionVars

\* getCurrentSessionIndex() takes the index of the active tab without asking
\* whether there is one, and must not throw.
SwitchAside(left) ==
    LET i == IndexOf(tabs, tabs.active)
        n == Len(tabs.sessions)
    IN  IF Listed(tabs, tabs.active)
        THEN ActivateSession(tabs, tabs.sessions[IF left THEN (IF i > 1 THEN i - 1 ELSE n)
                                                         ELSE (IF i < n THEN i + 1 ELSE 1)])
        ELSE [tabs EXCEPT !.window = "crashed"]

SwitchToTabLeft ==
    /\ KeysReachTabs
    /\ tabs' = SwitchAside(TRUE)
    /\ UNCHANGED sessionVars

SwitchToTabRight ==
    /\ KeysReachTabs
    /\ tabs' = SwitchAside(FALSE)
    /\ UNCHANGED sessionVars

SwitchToTab(position) ==
    /\ KeysReachTabs
    /\ position \in DOMAIN tabs.sessions
    /\ tabs' = ActivateSession(tabs, tabs.sessions[position])
    /\ UNCHANGED sessionVars

SwitchToPreviousTab ==
    /\ KeysReachTabs
    /\ tabs' = ActivateSession(tabs, tabs.previous)
    /\ UNCHANGED sessionVars

\* Mutant: the position that is shown is not updated.
MoveTabToSilent(position) ==
    /\ KeysReachTabs
    /\ position \in DOMAIN tabs.sessions
    /\ Listed(tabs, tabs.active)
    /\ LET i == IndexOf(tabs, tabs.active)
       IN  tabs' = [SwapTabs(tabs, i, position) EXCEPT !.info = tabs.info]
    /\ UNCHANGED sessionVars

MoveTabTo(position) ==
    /\ KeysReachTabs
    /\ position \in DOMAIN tabs.sessions
    /\ Listed(tabs, tabs.active)
    /\ tabs' = SwapTabs(tabs, IndexOf(tabs, tabs.active), position)
    /\ UNCHANGED sessionVars

\* Those of the neighbours do nothing at the ends.
MoveTabToLeft ==
    /\ KeysReachTabs
    /\ Listed(tabs, tabs.active)
    /\ LET i == IndexOf(tabs, tabs.active)
       IN  i > 1 /\ tabs' = SwapTabs(tabs, i, i - 1)
    /\ UNCHANGED sessionVars

MoveTabToRight ==
    /\ KeysReachTabs
    /\ Listed(tabs, tabs.active)
    /\ LET i == IndexOf(tabs, tabs.active)
       IN  i < Len(tabs.sessions) /\ tabs' = SwapTabs(tabs, i, i + 1)
    /\ UNCHANGED sessionVars

\* sendKeyEvent() of a session that waits for a key press.
KeyPress ==
    /\ tabs.window = "open"
    /\ tabs.active \in waitingKey
    /\ tabs' = CloseDisplay(tabs)
    /\ UNCHANGED sessionVars

-----------------------------------------------------------------------------
(* Processes, exit watchers and onClosed().                                *)

\* External.
ProcessExit(s) ==
    /\ tabs.window = "open"
    /\ process[s] = "running"
    /\ process' = [process EXCEPT ![s] = "exited"]
    /\ UNCHANGED <<tabs, waitingKey, handled, created, painted>>

\* Mutant: the watcher is started with the first frame.
WatchExitLate(s) ==
    /\ tabs.window = "open"
    /\ painted
    /\ process[s] = "exited"
    /\ process' = [process EXCEPT ![s] = "posted"]
    /\ UNCHANGED <<tabs, waitingKey, handled, created, painted>>

WatchExit(s) ==
    /\ tabs.window = "open"
    /\ process[s] = "exited"
    /\ process' = [process EXCEPT ![s] = "posted"]
    /\ UNCHANGED <<tabs, waitingKey, handled, created, painted>>

\* Mutant: a session that ended on its own keeps its tab.
OnClosedKeepsTab(s) ==
    \/ /\ s \notin handled
       /\ tabs' = RemoveSession(tabs, s)
       /\ waitingKey' = waitingKey \cup {s}
       /\ UNCHANGED handled
    \/ /\ tabs' = CloseDisplay(tabs)
       /\ handled' = handled \cup {s}
       /\ UNCHANGED waitingKey

\* TerminalSession::onClosed(): sessionClosed removes the tab.  A process that
\* ended within earlyExitThreshold() leaves a message and waits for a key press;
\* time only grows, so that a session that was handled is not early any more.
OnClosed(s) ==
    \/ /\ s \notin handled
       /\ tabs' = RemoveSession(tabs, s)
       /\ waitingKey' = waitingKey \cup {s}
       /\ UNCHANGED handled
    \/ /\ tabs' = CloseDisplay(RemoveSession(tabs, s))
       /\ handled' = handled \cup {s}
       /\ UNCHANGED waitingKey

HandleExit(s) ==
    /\ tabs.window = "open"
    /\ process[s] = "posted"
    /\ process' = [process EXCEPT ![s] = "done"]
    /\ OnClosed(s)
    /\ UNCHANGED <<created, painted>>

\* The first frame of the display: onClosed() is called here too if the device is
\* closed already, by the main loop or by onClosed() itself.
FirstFrame ==
    /\ tabs.window = "open"
    /\ ~painted
    /\ painted' = TRUE
    /\ \/ /\ process[tabs.active] # "done"
          /\ UNCHANGED <<tabs, waitingKey, handled>>
       \/ OnClosed(tabs.active)
    /\ UNCHANGED <<process, created>>

-----------------------------------------------------------------------------
Next ==
    \/ CreateNewTab \/ CloseTab \/ SwitchToTabLeft \/ SwitchToTabRight \/ SwitchToPreviousTab
    \/ \E position \in Session : SwitchToTab(position) \/ MoveTabTo(position)
    \/ MoveTabToLeft \/ MoveTabToRight \/ KeyPress
    \/ \E s \in Session : ProcessExit(s) \/ WatchExit(s) \/ HandleExit(s)
    \/ FirstFrame

\* Exit watchers run and Qt delivers what they post; neither the user nor the
\* processes have to do anything.
Spec ==
    /\ Init /\ [][Next]_vars
    /\ \A s \in Session : WF_vars(WatchExit(s)) /\ WF_vars(HandleExit(s))

-----------------------------------------------------------------------------
\* Types; a session is listed once.
TypeOK ==
    /\ tabs \in [sessions : Seq(Session), active : Session, previous : Session \cup {None},
                 info : Nat \X Nat, window : {"open", "closed", "crashed"}]
    /\ \A i, j \in DOMAIN tabs.sessions : tabs.sessions[i] = tabs.sessions[j] => i = j
    /\ process \in [Session -> {"none", "running", "exited", "posted", "done"}]
    /\ waitingKey \subseteq Session
    /\ handled \subseteq Session
    /\ created \in Session
    /\ painted \in BOOLEAN

\* However tabs are opened, closed, moved and ended: the raw pointers to the active
\* and to the previous session are to sessions in the list, and with two tabs
\* switchToPreviousTab() has another tab to go to.
PointersValid ==
    tabs.sessions # <<>> =>
        /\ Listed(tabs, tabs.active)
        /\ tabs.previous # None => Listed(tabs, tabs.previous)
        /\ tabs.previous # tabs.active
        /\ Len(tabs.sessions) > 1 => tabs.previous # None

\* The window never shows a session that was closed, unless with the message that
\* it waits for a key press (removeSession() and onClosed()).
ShownAlive ==
    tabs.window = "open" /\ process[tabs.active] = "done" => tabs.active \in waitingKey

\* The status line of the active session shows the number of tabs and its position,
\* although only the active session is told (updateStatusLine()).
TabsInfoFresh == tabs.sessions # <<>> => tabs.info = TabsInfo(tabs)

\* When the processes of all tabs have ended the window is closed, or shows the
\* message that it waits for a key press, in whatever order the ends are handled.
WindowCloses ==
    (\A i \in DOMAIN tabs.sessions : process[tabs.sessions[i]] \in {"exited", "posted"})
        ~> \/ tabs.window = "closed"
           \/ tabs.active \in waitingKey
           \/ \E i \in DOMAIN tabs.sessions : process[tabs.sessions[i]] = "running"

-----------------------------------------------------------------------------
\* The release notes: after an early exit the window waits for any key press in
\* order to close.  That is, once the end of the session shown has been handled.
EarlyExitWaitsForKey ==
    [][tabs.window = "open" /\ painted /\ process[tabs.active] = "done" /\ ~KeyPress
        => tabs'.window = "open"]_vars

\* Switching tabs does not end the program.
NoCrash == tabs.window # "crashed"
=============================================================================
