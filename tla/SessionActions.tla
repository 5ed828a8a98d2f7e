--------------------------- MODULE SessionActions ---------------------------
(***************************************************************************)
(* Key events of a session and the actions bound to them                   *)
(* (TerminalSession.cpp).  A key is named by the actions it is bound to;   *)
(* "plain" is bound to nothing.  A run is about one group of keys.         *)
(***************************************************************************)
EXTENDS Permissions

CONSTANT
  MaxEvents          \* key and button events of one run

VARIABLE sess

SessionGroups ==
  [keymaps |-> {<<"ToggleAllKeyMaps">>, <<"ToggleAllKeyMaps", "ToggleTitleBar">>, <<"ToggleTitleBar">>,
                <<"ToggleInputProtection">>, <<"CreateNewTab", "ToggleFullscreen">>},
   status  |-> {<<"ToggleStatusLine">>, <<"ToggleAllKeyMaps">>, <<"ToggleInputProtection">>},
   look    |-> {<<"IncreaseOpacity">>, <<"DecreaseOpacity">>, <<"IncreaseFontSize">>, <<"DecreaseFontSize">>,
                <<"ResetFontSize">>},
   profile |-> {<<"ChangeProfile">>, <<"ReloadConfig">>, <<"ResetConfig">>},
   trace   |-> {<<"TraceEnter">>, <<"TraceStep">>, <<"TraceBreakAtEmptyQueue">>, <<"TraceLeave">>,
                <<"ViNormalMode">>, <<"CancelSelection">>},
   calls   |-> {<<"ScrollUp", "ScrollDown">>, <<"ScrollPageUp", "ScrollPageDown">>, <<"ScrollOneUp">>,
                <<"ScrollOneDown">>, <<"ScrollToTop">>, <<"ScrollMarkUp", "ScrollToBottom">>,
                <<"FocusNextSearchMatch">>, <<"FollowHyperlink">>, <<"CopySelection">>, <<"PasteSelection">>,
                <<"OpenFileManager">>, <<"MoveTabToLeft">>, <<"CloseTab">>}]
PlainKey == <<"plain">>
AllKeys == UNION {SessionGroups[g] : g \in DOMAIN SessionGroups} \cup {PlainKey}
Profiles == {"main", "work", "gone"}         \* "gone" is in no configuration
ProfileSettings == [main |-> [font |-> 6, history |-> 1, palette |-> "light"],
                    work |-> [font |-> 9, history |-> 2, palette |-> "dark"]]
FontLimits == 5 .. 200                       \* points

SessionInit ==
  sess = [group |-> "none", held |-> {}, sent |-> <<>>, events |-> 0,
          allowKeys |-> TRUE, definition |-> "configured", status |-> "None", saved |-> "none",
          wanted |-> "None",                 \* what was shown when the indicator was pushed, or chosen since
          allowInput |-> TRUE, titleBar |-> TRUE, fullscreen |-> FALSE, tabs |-> 1, presses |-> 0,
          opacity |-> 250, font |-> 6, rendererFont |-> 6,
          profile |-> "main", known |-> {"main", "work"}, history |-> 1, palette |-> "light",
          slots |-> 1, reloads |-> 0, changes |-> 0,
          mode |-> "Normal", vi |-> "Insert", selection |-> FALSE,
          calls |-> <<>>,                    \* what other components were asked to do, in order
          waiting |-> FALSE, closed |-> FALSE]
ChooseGroup(g, waiting) ==
  /\ sess.group = "none"
  /\ sess' = [sess EXCEPT !.group = g, !.waiting = waiting]

(***************************************************************************)
(* The status display of the terminal, and settings taken from a profile.  *)
(***************************************************************************)
SetStatusDisplay(s, type) == [s EXCEPT !.status = type]
PushStatusDisplay(s, type) ==
  SetStatusDisplay([s EXCEPT !.saved = IF @ = "none" THEN s.status ELSE @], type)
PopStatusDisplay(s) == IF s.saved = "none" THEN s ELSE [SetStatusDisplay(s, s.saved) EXCEPT !.saved = "none"]
\* Input protection and the vi modes both show the indicator for a while; only the
\* outermost display is remembered, and the first of them to end restores it.
ShowIndicator(s) ==
  [PushStatusDisplay(s, "Indicator") EXCEPT !.wanted = IF s.saved = "none" THEN s.status ELSE @]
SetAllowInput(s, enabled) ==
  [(IF enabled THEN PopStatusDisplay(s) ELSE ShowIndicator(s)) EXCEPT !.allowInput = enabled]
ModeChanged(s, mode) == [(IF mode = "Insert" THEN PopStatusDisplay(s) ELSE ShowIndicator(s)) EXCEPT !.vi = mode]

SetFontSize(s, size) == IF size \notin FontLimits THEN s ELSE [s EXCEPT !.font = size, !.rendererFont = size]
\* The palette follows only a change of the preferred colours.
ConfigureTerminal(s) ==
  [SetStatusDisplay(s, "None") EXCEPT !.history = ProfileSettings[s.profile].history]
ActivateProfile(s, name) ==
  IF name \notin s.known THEN s
  ELSE ConfigureTerminal([s EXCEPT !.profile = name, !.font = ProfileSettings[name].font])
ReloadConfig(s, known, name) == ActivateProfile([s EXCEPT !.known = known], name)
\* read is the set of profiles in the file, {} when it cannot be read.
ReloadConfigWithProfile(s, read, name) == IF name \notin read THEN s ELSE ReloadConfig(s, read, name)
\* The reset configuration is the built-in one, whatever reading the new file gives.
ResetConfig(s, written) == IF ~written THEN s ELSE ReloadConfig(s, {"main"}, "main")

(***************************************************************************)
(* One action.  in is what the world answers: the profiles in the file.    *)
(***************************************************************************)
ToggleAllKeyMaps(s) ==
  IF s.allowKeys THEN SetStatusDisplay([s EXCEPT !.allowKeys = FALSE, !.definition = "disabled"], "Indicator")
  ELSE [s EXCEPT !.allowKeys = TRUE, !.definition = "configured"]
ToggleStatusLineOnly(s) ==
  LET type == IF s.status # "Indicator" THEN "Indicator" ELSE "None"
  IN  [SetStatusDisplay(s, type) EXCEPT !.wanted = type]
ToggleStatusLine(s) ==
  LET type == IF s.status # "Indicator" THEN "Indicator" ELSE "None"
  IN  [SetStatusDisplay(s, type) EXCEPT !.wanted = type, !.saved = IF @ = "none" THEN @ ELSE type]
OpacityUp(x) == IF x + 15 > 255 THEN 255 ELSE x + 15
OpacityDown(x) == IF x - 15 < 0 THEN 0 ELSE x - 15
Look(s, action) ==
  CASE action = "IncreaseOpacity" -> [s EXCEPT !.opacity = OpacityUp(@)]
    [] action = "DecreaseOpacity" -> [s EXCEPT !.opacity = OpacityDown(@)]
    [] action = "IncreaseFontSize" -> SetFontSize(s, s.font + 1)
    [] action = "DecreaseFontSize" -> SetFontSize(s, s.font - 1)
    [] action = "ResetFontSize" -> IF s.profile \in s.known
                                   THEN SetFontSize(s, ProfileSettings[s.profile].font) ELSE s
ProfileAction(s, action, in, name) ==
  CASE action = "ChangeProfile" -> IF name = s.profile THEN s ELSE ActivateProfile(s, name)
    [] action = "ReloadConfig" -> ReloadConfigWithProfile(s, in, name)
    [] action = "ResetConfig" -> ResetConfig(s, in # {})
TraceOrVi(s, action) ==
  CASE action = "TraceEnter" -> [s EXCEPT !.mode = "Waiting"]
    [] action = "TraceStep" -> [s EXCEPT !.mode = "SingleStep"]
    [] action = "TraceBreakAtEmptyQueue" -> [s EXCEPT !.mode = "BreakAtEmptyQueue"]
    [] action = "TraceLeave" -> [s EXCEPT !.mode = "Normal"]
    [] action = "ViNormalMode" -> CASE s.vi = "Insert" -> ModeChanged(s, "Normal")
                                    [] s.vi = "Normal" -> ModeChanged(s, "Insert")
                                    [] OTHER -> s
    [] action = "CancelSelection" -> [s EXCEPT !.selection = FALSE]
\* Calls of the viewport, of the session manager, and of the terminal and the desktop.
PageLines == 5
HistoryScrollMultiplier == 3
ScrollCalls ==
  [ScrollDown |-> <<"scrollDown", HistoryScrollMultiplier>>, ScrollMarkDown |-> <<"scrollMarkDown", 0>>,
   ScrollMarkUp |-> <<"scrollMarkUp", 0>>, ScrollOneDown |-> <<"scrollDown", 1>>,
   ScrollOneUp |-> <<"scrollUp", 1>>, ScrollPageDown |-> <<"scrollDown", PageLines \div 2>>,
   ScrollPageUp |-> <<"scrollUp", PageLines \div 2>>, ScrollToBottom |-> <<"scrollToBottom", 0>>,
   ScrollToTop |-> <<"scrollToTop", 0>>, ScrollUp |-> <<"scrollUp", HistoryScrollMultiplier>>]
TabCalls ==
  [CreateNewTab |-> "createSession", CloseTab |-> "closeTab", MoveTabTo |-> "moveTabTo",
   MoveTabToLeft |-> "moveTabToLeft", MoveTabToRight |-> "moveTabToRight", SwitchToTab |-> "switchToTab",
   SwitchToPreviousTab |-> "switchToPreviousTab", SwitchToTabLeft |-> "switchToTabLeft",
   SwitchToTabRight |-> "switchToTabRight"]
\* An action that finds nothing to work on does nothing.
SearchCalls(found) ==
  [action \in {"FocusNextSearchMatch", "FocusPreviousSearchMatch"} |->
     IF found THEN <<"moveNormalModeCursorTo", "makeVisibleWithinSafeArea">> ELSE <<>>]
CopySelection(format) == IF format = "Text" THEN <<"extractSelectionText", "copyToClipboard">> ELSE <<>>
PasteSelection(evaluate) == IF evaluate THEN <<"sendRawInput">> ELSE <<"sendPaste">>
\* Where a link is opened.  A local file needs the name of this host.
FollowHyperlink(local, file, executable, editor) ==
  CASE local /\ file /\ executable -> "execute file"
    [] local /\ file /\ ~executable /\ editor -> "execute editor"
    [] OTHER -> "open url"
HyperlinkCalls(link) ==
  [action \in {"FollowHyperlink"} |->
     IF link = {} THEN <<>>
     ELSE <<FollowHyperlink("local" \in link, "file" \in link, "executable" \in link, "editor" \in link)>>]
WithoutCount(calls) == [i \in DOMAIN calls |-> <<calls[i], 0>>]
Delegated(action, found) ==
  CASE action \in DOMAIN ScrollCalls -> <<ScrollCalls[action]>>
    [] action \in DOMAIN TabCalls -> WithoutCount(<<TabCalls[action]>>)
    [] action \in DOMAIN SearchCalls(TRUE) -> WithoutCount(SearchCalls(found # {})[action])
    [] action \in DOMAIN HyperlinkCalls(found) -> WithoutCount(HyperlinkCalls(found)[action])
    [] action = "CopySelection" -> WithoutCount(CopySelection("Text"))
    [] action = "PasteSelection" -> WithoutCount(PasteSelection(FALSE))
    [] action = "OpenFileManager" -> WithoutCount(<<"openUrl">>)
ExecuteAction(s, action, in, name) ==
  CASE action = "ToggleAllKeyMaps" -> ToggleAllKeyMaps(s)
    [] action = "ToggleStatusLine" -> ToggleStatusLine(s)
    [] action = "ToggleTitleBar" -> [s EXCEPT !.titleBar = ~@]
    [] action = "ToggleFullscreen" -> [s EXCEPT !.fullscreen = ~@]
    [] action = "ToggleInputProtection" -> SetAllowInput(s, ~s.allowInput)
    [] action = "CreateNewTab" -> [s EXCEPT !.tabs = @ + 1]
    [] s.group = "calls" -> [s EXCEPT !.calls = @ \o Delegated(action, in)]
    [] <<action>> \in SessionGroups.look -> Look(s, action)
    [] <<action>> \in SessionGroups.profile -> ProfileAction(s, action, in, name)
    [] <<action>> \in SessionGroups.trace -> TraceOrVi(s, action)
\* The actions one after the other, those of skip left out.
ExecuteInOrder(s, actions, skip, in, name) ==
  LET after[n \in 0 .. Len(actions)] ==
        IF n = 0 THEN s
        ELSE IF actions[n] \in skip THEN after[n - 1] ELSE ExecuteAction(after[n - 1], actions[n], in, name)
  IN  after[Len(actions)]
ExecuteAllActions(s, actions, skip, in, name) ==
  CASE s.allowKeys -> ExecuteInOrder(s, actions, skip, in, name)
    [] ~s.allowKeys /\ \E n \in 1 .. Len(actions) : actions[n] = "ToggleAllKeyMaps" -> ToggleAllKeyMaps(s)
    [] OTHER -> s
NonRepeatable == {"CreateNewTab", "CloseTab"}
HandleAction(s, actions, event, in, name) ==
  ExecuteAllActions(s, actions, IF event = "Press" THEN {} ELSE NonRepeatable, in, name)
(***************************************************************************)
(* Key events.  A key goes down, repeats while it is held, and comes up.   *)
(* The terminal passes an event on unless input is protected.              *)
(***************************************************************************)
MatchModeFlags(s) == (IF s.selection THEN {"Select"} ELSE {}) \cup (IF s.vi = "Insert" THEN {"Insert"} ELSE {})
                      \cup (IF s.mode # "Normal" THEN {"Trace"} ELSE {})
\* Escape cancels a selection in insert mode, and single steps are bound while tracing.
Bound(s, key) == /\ key \in SessionGroups[s.group]
                 /\ key = <<"CancelSelection">> => {"Select", "Insert"} \subseteq MatchModeFlags(s)
                 /\ key \in {<<"TraceStep">>, <<"TraceLeave">>} => "Trace" \in MatchModeFlags(s)
ToTerminal(s, key, event) == IF s.allowInput THEN [s EXCEPT !.sent = Append(@, <<key, event>>)] ELSE s
Counted(s, key, event) ==
  [s EXCEPT !.events = @ + 1, !.presses = IF event = "Press" THEN @ + 1 ELSE @,
            !.held = IF event = "Release" THEN @ \ {key} ELSE @ \cup {key}]
KeyOrChar(key, event, in, name, mapped) ==
  /\ sess.group # "none" /\ ~sess.closed /\ sess.events < (IF sess.group = "calls" THEN 2 ELSE MaxEvents)
  /\ key \in SessionGroups[sess.group] \cup {PlainKey}
  /\ (event = "Press") = (key \notin sess.held)
  /\ LET s == Counted(sess, key, event)
     IN  sess' = CASE s.waiting /\ event = "Press" -> [s EXCEPT !.closed = TRUE]
                   [] ~(s.waiting /\ event = "Press") /\ event # "Release" /\ mapped ->
                        HandleAction(s, key, event, in, name)
                   [] OTHER -> ToTerminal(s, key, event)

SendKeyEvent(key, event, in, name) == KeyOrChar(key, event, in, name, Bound(sess, key))
\* Bindings of characters do not apply while a search is typed.
SendCharEvent(key, event, editing) == KeyOrChar(key, event, {}, "main", Bound(sess, key) /\ ~editing)
\* A button the application or a selection takes is not looked up.
SendMousePressEvent(button, handled) ==
  /\ sess.group = "look" /\ sess.events < MaxEvents /\ button \in SessionGroups.look
  /\ sess' = LET s == [sess EXCEPT !.events = @ + 1]
             IN  IF handled THEN s ELSE ExecuteAllActions(s, button, {}, {}, "main")

(***************************************************************************)
(* The vi mode changes, and the application locks the keyboard (KAM) or    *)
(* selects a status display (DECSSDT), in any order; the file changes on   *)
(* disk.                                                                   *)
(***************************************************************************)
ViModeChanged(mode) ==
  sess.group = "status" /\ mode # sess.vi /\ sess' = ModeChanged(sess, mode)
KeyboardActionMode(enable) == sess.group = "status" /\ sess' = SetAllowInput(sess, ~enable)
StatusSelected(type) == sess.group = "status" /\ sess' = SetStatusDisplay(sess, type)
\* Every connected slot posts a reload and connects once more.
OnConfigReload(read) ==
  /\ sess.group = "profile" /\ sess.changes < 2
  /\ sess' = [ReloadConfigWithProfile(sess, read, sess.profile) EXCEPT
                !.changes = @ + 1, !.reloads = @ + sess.slots, !.slots = 2 * @]
SelectText == /\ sess.group = "trace" /\ ~sess.selection /\ sess.events < MaxEvents
              /\ sess' = [sess EXCEPT !.selection = TRUE]

SessionNext ==
  \/ \E g \in DOMAIN SessionGroups, waiting \in BOOLEAN : ChooseGroup(g, waiting)
  \/ \E key \in AllKeys, event \in {"Press", "Repeat", "Release"} :
       IF sess.group = "profile"
       THEN \E in \in {{}, {"main"}, {"main", "work"}}, name \in Profiles : SendKeyEvent(key, event, in, name)
       ELSE \/ SendKeyEvent(key, event, {}, "main")
            \/ sess.group = "calls" /\ \E link \in {{"found"}, {"found", "local", "file"}, {"found", "local", "file", "editor"},
                                                    {"found", "local", "file", "executable", "editor"}} :
                                  SendKeyEvent(key, event, link, "main")
            \/ \E editing \in BOOLEAN : sess.group = "keymaps" /\ SendCharEvent(key, event, editing)
  \/ \E button \in SessionGroups.look, handled \in BOOLEAN : SendMousePressEvent(button, handled)
  \/ \E mode \in {"Insert", "Normal", "Visual"} : ViModeChanged(mode)
  \/ \E enable \in BOOLEAN : KeyboardActionMode(enable)
  \/ \E type \in {"None", "Indicator", "HostWritable"} : StatusSelected(type)
  \/ \E read \in {{}, {"main"}, {"main", "work"}} : OnConfigReload(read)
  \/ SelectText

(***************************************************************************)
(* While key maps are disabled a key event changes nothing but the key     *)
(* maps and what goes to the terminal, also when further actions are bound *)
(* to the key that enables them again (executeAllActions).                 *)
(***************************************************************************)
DisabledMapsDoNothing ==
  sess.group = "keymaps" /\ ~sess.allowKeys =>
    /\ sess'.titleBar = sess.titleBar /\ sess'.tabs = sess.tabs
    /\ sess'.fullscreen = sess.fullscreen /\ sess'.allowInput = sess.allowInput

\* Holding a key opens one tab (handleAction filters repeated events).
OneTabPerPress == sess.tabs <= 1 + sess.presses

(***************************************************************************)
(* The font size of the profile is the one that is drawn, whatever was     *)
(* refused at the limits.                                                  *)
(***************************************************************************)
LookAgrees ==
  sess.group = "look" => sess.font = sess.rendererFont /\ sess.font \in FontLimits

(***************************************************************************)
(* When the first of input protection and a vi mode ends, the user sees    *)
(* what was shown before either began or was toggled to since              *)
(* (ToggleStatusLine changes the saved type too).                          *)
(***************************************************************************)
StatusKept == sess.saved # "none" /\ sess'.saved = "none" => sess'.status = sess.wanted

(***************************************************************************)
(* The terminal's history limit is that of the active profile, and the     *)
(* active profile is one the configuration has, after every change of      *)
(* profile, reload and reset that failed or succeeded.                     *)
(***************************************************************************)
ProfileApplied == sess.profile \in sess.known /\ sess.history = ProfileSettings[sess.profile].history

(***************************************************************************)
(* The session serves prompts and key events in any order.                 *)
(***************************************************************************)
choices == <<perm, sess>>
ChoicesInit == PermissionsInit /\ SessionInit
ChoicesNext == \/ PermissionsNext /\ UNCHANGED sess
               \/ SessionNext /\ UNCHANGED perm
ChoicesSpec == ChoicesInit /\ [][ChoicesNext]_choices

(***************************************************************************)
(* What the user chose stays chosen: an answer to a prompt decides its     *)
(* request once and is remembered, a key acts once and not while key maps  *)
(* are disabled, and status display, font and profile are those last asked *)
(* for after restores and reloads that failed (TerminalSession).           *)
(***************************************************************************)
SessionKeepsChoices ==
  [][/\ AnswerKept /\ OncePerRequest'
     /\ DisabledMapsDoNothing /\ OneTabPerPress' /\ StatusKept /\ LookAgrees' /\ ProfileApplied']_choices

(***************************************************************************)
(* Expectations the code does not meet: the colours follow the profile; a  *)
(* change of the file is read once; enabling key maps again restores the   *)
(* status display; a release is sent only for a press that was sent; a key *)
(* does what it would without a binding while bindings are disabled; input *)
(* protection shows its indicator as long as it lasts (leaving a vi mode   *)
(* takes it away).                                                         *)
(***************************************************************************)
ProtectionShown == sess.group = "status" /\ ~sess.allowInput => sess.saved # "none"
PaletteFollowsProfile == sess.palette = ProfileSettings[sess.profile].palette
OneReloadPerChange == sess.reloads <= sess.changes
KeyMapsRestoreStatus ==
  [][sess.group = "keymaps" /\ ~sess.allowKeys /\ sess'.allowKeys => sess'.status = "None"]_sess
ReleasesArePaired ==
  \A i \in 1 .. Len(sess.sent) : sess.sent[i][2] = "Release" =>
    \E j \in 1 .. i - 1 : sess.sent[j] = <<sess.sent[i][1], "Press">>
DisabledKeysAreSent ==
  [][sess.group = "keymaps" /\ ~sess.allowKeys /\ ~sess.waiting /\ sess.allowInput
       /\ <<"ToggleTitleBar">> \in sess'.held \ sess.held =>
       sess'.sent # sess.sent]_sess
=============================================================================
