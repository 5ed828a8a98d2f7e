---------------------------- MODULE Permissions ----------------------------
(***************************************************************************)
(* What an application may do only with the user's permission: change the  *)
(* font, capture the buffer, show the host writable status line, paste a   *)
(* large clipboard (TerminalSession.cpp).  The application's requests come *)
(* from the terminal thread; closures and prompts run on the GUI thread.   *)
(* A run is about one role.  All sessions of a window open the same dialog *)
(* and it answers the session that is shown by then (Terminal.qml.in).     *)
(***************************************************************************)
EXTENDS Integers, Sequences

CONSTANTS
  MaxRequests,       \* requests, and contents of the clipboard, of one run
  MaxOthers          \* prompts of other sessions

VARIABLE perm

Roles == {"ChangeFont", "CaptureBuffer", "ShowHostWritableStatusLine", "BigPaste"}
PermissionValues == {"Allow", "Deny", "Ask"}
Foreign == 0 - 1              \* a prompt of another session
Nothing == 0

PermissionsInit ==
  perm = [stage |-> "setup", role |-> "BigPaste", config |-> "Ask", shown |-> TRUE,
          posted |-> <<>>, open |-> Nothing, pending |-> Nothing, remembered |-> "none",
          requests |-> 0, others |-> 0, clip |-> [id |-> 1, size |-> "small"],
          effects |-> <<>>,     \* what was done: request or content, and what was shown to the user
          told |-> "none"]      \* the last answer the user gave for all requests

ChooseRole(role, config) ==
  /\ perm.stage = "setup"
  /\ perm' = [perm EXCEPT !.stage = "run", !.role = role, !.config = config]

(***************************************************************************)
(* Carrying out, or dropping, what is pending.  shown is the request the   *)
(* user saw, Nothing when the configuration or an older answer decided.    *)
(***************************************************************************)
Remember(s, allow, remember) ==
  IF remember THEN [s EXCEPT !.remembered = IF allow THEN "yes" ELSE "no"] ELSE s
Effect(s, what, shown) == [s EXCEPT !.effects = Append(@, [what |-> what, shown |-> shown])]
ExecutePendingBufferCapture(s, allow, remember, shown) ==
  LET r == Remember(s, allow, remember) IN
  IF s.pending = Nothing THEN r
  ELSE LET q == [r EXCEPT !.pending = Nothing] IN IF allow THEN Effect(q, s.pending, shown) ELSE q
ExecuteShowHostWritableStatusLine(s, allow, remember, shown) ==
  LET r == Remember(s, allow, remember) IN IF allow THEN Effect(r, s.requests, shown) ELSE r
ApplyPendingFontChange(s, allow, remember, shown) ==
  LET r == Remember(s, allow, remember) IN
  IF s.pending = Nothing THEN r
  ELSE LET q == [r EXCEPT !.pending = Nothing] IN IF allow THEN Effect(q, s.pending, shown) ELSE q
\* An allowed paste stays pending, and takes what the clipboard holds by then.
ApplyPendingPaste(s, allow, remember, shown) ==
  LET r == Remember(s, allow, remember) IN
  CASE s.pending = Nothing -> r
    [] s.pending # Nothing /\ ~allow -> [r EXCEPT !.pending = Nothing]
    [] OTHER -> Effect(r, s.clip.id, shown)
ExecuteRole(s, allow, remember, shown) ==
  CASE s.role = "CaptureBuffer" -> ExecutePendingBufferCapture(s, allow, remember, shown)
    [] s.role = "ChangeFont" -> ApplyPendingFontChange(s, allow, remember, shown)
    [] s.role = "ShowHostWritableStatusLine" -> ExecuteShowHostWritableStatusLine(s, allow, remember, shown)
    [] s.role = "BigPaste" -> ApplyPendingPaste(s, allow, remember, shown)

\* A prompt that is already open stays as it is.
OpenPrompt(s, what) == IF s.open = Nothing THEN [s EXCEPT !.open = what] ELSE s
RequestPermission(s) ==
  CASE s.config = "Allow" -> ExecuteRole(s, TRUE, FALSE, Nothing)
    [] s.config = "Deny" -> ExecuteRole(s, FALSE, FALSE, Nothing)
    [] s.config = "Ask" /\ s.remembered # "none" -> ExecuteRole(s, s.remembered = "yes", FALSE, Nothing)
    [] OTHER -> OpenPrompt(s, s.requests)
(***************************************************************************)
(* Requests.                                                               *)
(***************************************************************************)
Requesting == perm.stage = "run" /\ perm.requests < MaxRequests
Requested(s) == [s EXCEPT !.requests = @ + 1]
\* Neither the configuration nor an earlier answer is looked at.
RequestCaptureBuffer ==
  /\ Requesting /\ perm.role = "CaptureBuffer"
  /\ perm' = [Requested(perm) EXCEPT !.pending = perm.requests + 1, !.posted = Append(@, "prompt")]
SetFontDef ==
  /\ Requesting /\ perm.role = "ChangeFont"
  /\ perm' = [Requested(perm) EXCEPT !.pending = perm.requests + 1, !.posted = Append(@, "permission")]
RequestShowHostWritableStatusLine ==
  /\ Requesting /\ perm.role = "ShowHostWritableStatusLine"
  /\ perm' = [Requested(perm) EXCEPT !.posted = Append(@, "permission")]
\* The user pastes: up to half a megabyte at once, up to one after a prompt, more not at all.
PasteFromClipboard ==
  /\ Requesting /\ perm.role = "BigPaste" /\ perm.shown
  /\ perm' = CASE perm.clip.size = "huge" -> Requested(perm)
               [] perm.clip.size = "big" -> OpenPrompt([Requested(perm) EXCEPT !.pending = 1], perm.clip.id)
               [] OTHER -> Effect(Requested(perm), perm.clip.id, perm.clip.id)
CopyToClipboard(size) ==
  /\ Requesting /\ perm.role = "BigPaste" /\ perm.clip.id < MaxRequests
  /\ perm' = [perm EXCEPT !.clip = [id |-> @.id + 1, size |-> size]]

(***************************************************************************)
(* The GUI thread.                                                         *)
(***************************************************************************)
RunPosted ==
  /\ perm.posted # <<>>
  /\ LET s == [perm EXCEPT !.posted = Tail(@)]
     IN  perm' = IF Head(perm.posted) = "permission" THEN RequestPermission(s) ELSE OpenPrompt(s, s.requests)
\* The answer goes to the session the display shows.
Answer(allow, remember) ==
  /\ perm.open # Nothing
  /\ LET s == [perm EXCEPT !.open = Nothing]
     IN  perm' = IF ~perm.shown THEN s
                 ELSE [ExecuteRole(s, allow, remember, perm.open) EXCEPT
                         !.told = IF remember THEN IF allow THEN "yes" ELSE "no" ELSE @]
ForeignPrompt == /\ perm.stage = "run" /\ perm.others < MaxOthers
                 /\ perm' = OpenPrompt([perm EXCEPT !.others = @ + 1], Foreign)
SetSession == perm.stage = "run" /\ perm' = [perm EXCEPT !.shown = ~@]

PermissionsNext ==
  \/ \E role \in Roles, config \in PermissionValues : ChooseRole(role, config)
  \/ RequestCaptureBuffer \/ SetFontDef \/ RequestShowHostWritableStatusLine \/ PasteFromClipboard
  \/ \E size \in {"small", "big", "huge"} : CopyToClipboard(size)
  \/ RunPosted \/ \E allow, remember \in BOOLEAN : Answer(allow, remember)
  \/ ForeignPrompt \/ SetSession

(***************************************************************************)
(* A request to capture the buffer or to change the font is carried out at *)
(* most once, however requests, posted closures, answers and changes of    *)
(* the shown session interleave (applyPendingFontChange resets before it   *)
(* acts).                                                                  *)
(***************************************************************************)
OncePerRequest ==
  perm.role \in {"ChangeFont", "CaptureBuffer"} =>
    \A i, j \in 1 .. Len(perm.effects) : perm.effects[i].what = perm.effects[j].what => i = j

(***************************************************************************)
(* After an answer "to all" the user is not asked again about the font or  *)
(* the status line, and what happens without a prompt follows that answer  *)
(* (requestPermission with a remembered answer).                           *)
(***************************************************************************)
AnswerKept ==
  perm.role \in {"ChangeFont", "ShowHostWritableStatusLine"} /\ perm.told # "none" =>
    /\ perm.open = Nothing => perm'.open \in {Nothing, Foreign}
    /\ perm'.effects # perm.effects /\ perm'.open = perm.open =>
         perm.config = "Allow" \/ perm.told = "yes"

(***************************************************************************)
(* What the documentation of the permissions says, or a user would expect. *)
(* With capture_buffer: deny no prompt for a capture appears.              *)
(***************************************************************************)
CaptureFollowsConfig == perm.role = "CaptureBuffer" /\ perm.config = "Deny" => perm.open \in {Nothing, Foreign}

\* A large paste that was allowed is sent once.
PastedOnce == perm.role = "BigPaste" => Len(perm.effects) <= perm.requests

\* What is pasted is what the clipboard held when the user was asked.
PastedAsAsked == perm.role = "BigPaste" => \A i \in 1 .. Len(perm.effects) :
                   perm.effects[i].what = perm.effects[i].shown

\* The answer to the prompt of another session decides nothing here.
AnswersOwnPrompt == \A i \in 1 .. Len(perm.effects) : perm.effects[i].shown # Foreign

\* The answer to the prompt for one request does not decide a later one.
AnswersShownRequest == perm.role = "CaptureBuffer" => \A i \in 1 .. Len(perm.effects) :
                         perm.effects[i].shown \in {perm.effects[i].what, Foreign}
=============================================================================
