----------------------------- MODULE SshSession -----------------------------
(***************************************************************************)
(* The SSH session used in place of a local terminal device                *)
(* (SshSession.cpp).  The GUI thread connects, authenticates, writes and   *)
(* resizes; the terminal thread reads; the exit watcher waits for the end. *)
(* libssh2 is used in blocking mode, so no call asks to be tried again.    *)
(***************************************************************************)
EXTENDS Naturals, Sequences

CONSTANTS MaxAddresses,    \* bound: addresses of the host
          MaxTyped,        \* bound: characters of a password
          MaxResizes       \* bound: sizes the window gets

ASSUME SshAssumption == MaxAddresses \in Nat /\ MaxTyped \in Nat /\ MaxResizes \in Nat

VARIABLE ssh

MaxPasswordTries == 3
WrittenBuffers == {"x", "backspace", "enter", "x and enter"}
Ended == {"Failure", "Closed"}
PasswordInput == {"AuthenticatePrivateKeyWaitForInput", "AuthenticatePasswordWaitForInput"}

\* An agent that takes an identity or none, that cannot be reached or asked, or that cannot be made.
Agents == {"accepts", "refuses", "unreachable", "none"}
\* addresses the host name has, those that accept, the agent, a key file, and the known hosts
Hosts == [addresses : 0 .. MaxAddresses, good : SUBSET (1 .. MaxAddresses), agent : {"accepts"}, key : {FALSE}, known : {"match"}]
         \cup [addresses : {1}, good : {{1}}, agent : Agents, key : BOOLEAN, known : {"none", "mismatch", "unwritable"}]

SshInit ==
  ssh = [host |-> [addresses |-> 0, good |-> {}, agent |-> "none", key |-> FALSE, known |-> "none"],
         state |-> "Initial", gui |-> "setup", crashed |-> FALSE, socket |-> "none", channel |-> FALSE,
         walk |-> 0, typed |-> <<>>, inject |-> FALSE, woken |-> FALSE,
         reader |-> "off", watcher |-> "off", notified |-> FALSE,
         agentMade |-> FALSE,       \* _p->sshAgent is set
         size |-> 0, remote |-> 0, told |-> 0,
         shared |-> FALSE,          \* the reader took part in the last resize
         reopened |-> FALSE,        \* a state was stored over Closed
         entered |-> <<>>,          \* what the user typed since the last prompt
         verified |-> FALSE,        \* the host key was accepted
         blind |-> FALSE,           \* something secret was sent before that
         passwords |-> 0, prompts |-> 0,
         submits |-> TRUE]          \* every enter key was taken as one
ChooseHost(h) ==
  /\ ssh.gui = "setup" /\ h.good \subseteq 1 .. h.addresses
  /\ ssh' = [ssh EXCEPT !.host = h, !.gui = "idle"]

(***************************************************************************)
(* Pieces of the state machine.  Every setState() wakes the exit watcher   *)
(* when the session has ended; only injectRead() and the start of the      *)
(* shell wake the reader.                                                  *)
(***************************************************************************)
SetStateQuiet(s, next) == [s EXCEPT !.state = next, !.notified = @ \/ (s.state # next /\ next = "Closed")]
SetState(s, next) == [s EXCEPT !.state = next, !.notified = @ \/ (s.state # next /\ next \in Ended)]
InjectRead(s) == [s EXCEPT !.inject = TRUE, !.woken = TRUE]
Return(s) == [s EXCEPT !.gui = "idle"]
\* A resize stores its states without a look at the one it replaces.
Overwrite(s, next) == [SetState(s, next) EXCEPT !.reopened = @ \/ s.state \in Ended]
CloseSocket(s) == [s EXCEPT !.channel = FALSE, !.socket = IF @ = "open" THEN "closed" ELSE @]
Close(s) == CloseSocket(SetState(s, "Closed"))
IsClosed(s) == s.socket # "open" \/ s.state \in Ended

\* The loop over the addresses advances twice for each that fails.
Connect(s) ==
  LET tried == {i \in 1 .. s.host.addresses : i % 2 = 1} IN
  CASE s.host.addresses = 0 -> Return(s)
    [] tried \cap s.host.good # {} -> InjectRead(SetState([s EXCEPT !.socket = "open"], "Handshake"))
    [] s.host.addresses % 2 = 1 /\ tried \cap s.host.good = {} -> [s EXCEPT !.crashed = TRUE]
    [] OTHER -> Return([s EXCEPT !.socket = "closed"])
Handshake(s, ok) == IF ok THEN SetState(s, "VerifyHostKey") ELSE Return(Close(s))
\* Without a file nothing is verified; an unknown key is added to the file.
VerifyHostKey(s) ==
  IF s.host.known \in {"none", "match"} THEN SetState([s EXCEPT !.verified = TRUE], "AuthenticateAgent")
  ELSE SetState(s, "Failure")
SendSecret(s) == [s EXCEPT !.blind = @ \/ ~s.verified]
AgentAnswers(s) ==
  LET asked == IF s.host.agent = "unreachable" THEN s ELSE SendSecret(s) IN
  CASE s.host.agent = "accepts" -> SetState(InjectRead(asked), "OpenChannel")
    [] s.host.agent # "accepts" /\ s.host.key -> SetState(asked, "AuthenticatePrivateKeyStart")
    [] OTHER -> SetState([asked EXCEPT !.walk = 0], "AuthenticatePasswordStart")
\* An agent that cannot be made leaves all as it is, one that cannot be asked has no identities the next time.
AuthenticateWithAgent(s) ==
  CASE ~s.agentMade /\ s.host.agent = "none" -> s
    [] ~s.agentMade /\ s.host.agent = "unreachable" -> [s EXCEPT !.agentMade = TRUE]
    [] ~s.agentMade /\ s.host.agent \in {"accepts", "refuses"} -> AgentAnswers([s EXCEPT !.agentMade = TRUE, !.walk = 0])
    [] OTHER -> AgentAnswers(s)
AuthenticateWithPrivateKey(s, ok) ==
  LET t == [InjectRead(SendSecret(s)) EXCEPT !.typed = <<>>] IN
  CASE ok -> SetState(t, "OpenChannel")
    [] ~ok /\ s.walk <= MaxPasswordTries -> SetState([t EXCEPT !.walk = @ + 1], "AuthenticatePrivateKeyRequest")
    [] OTHER -> SetState([t EXCEPT !.walk = 0], "AuthenticatePasswordStart")
AuthenticateWithPassword(s, ok) ==
  LET t == [InjectRead(SendSecret(s)) EXCEPT !.typed = <<>>, !.passwords = @ + 1] IN
  CASE ok -> SetState(t, "OpenChannel")
    [] ~ok /\ s.walk + 1 < MaxPasswordTries -> SetState([t EXCEPT !.walk = @ + 1], "AuthenticatePasswordStart")
    [] OTHER -> SetState([t EXCEPT !.walk = @ + 1], "Failure")
Prompt(s, next) == Return(InjectRead(SetState([s EXCEPT !.entered = <<>>, !.prompts = @ + 1], next)))
RequestPty(s, ok) == IF ok THEN SetState([s EXCEPT !.remote = s.size, !.walk = 0], "SetEnv")
                     ELSE Return(SetState(s, "Failure"))
StartShell(s, ok) == IF ok THEN Return([SetState(s, "Operational") EXCEPT !.woken = TRUE])
                     ELSE Return(SetState(s, "Failure"))
\* A size the other side refuses leaves the state as it is.
RequestSize(s, ok) ==
  IF ok /\ s.channel
  THEN [s EXCEPT !.remote = s.size, !.gui = "resized", !.shared = @ /\ s.reader \in {"sends", "sent"}]
  ELSE Return(s)

ProcessOne(s, ok) ==
  CASE s.state = "Started" -> SetState(s, "Connect")
    [] s.state = "Connect" -> Connect(s)
    [] s.state = "Handshake" -> Handshake(s, ok)
    [] s.state = "VerifyHostKey" -> VerifyHostKey(s)
    [] s.state = "AuthenticateAgent" -> AuthenticateWithAgent(s)
    [] s.state = "AuthenticatePrivateKeyStart" ->
         AuthenticateWithPrivateKey([s EXCEPT !.walk = 0, !.typed = <<>>], ok)
    [] s.state = "AuthenticatePrivateKeyRequest" -> Prompt(s, "AuthenticatePrivateKeyWaitForInput")
    [] s.state = "AuthenticatePrivateKey" -> AuthenticateWithPrivateKey(s, ok)
    [] s.state = "AuthenticatePasswordStart" -> Prompt(s, "AuthenticatePasswordWaitForInput")
    [] s.state = "AuthenticatePassword" -> AuthenticateWithPassword(s, ok)
    [] s.state = "OpenChannel" -> IF ok THEN SetState([s EXCEPT !.channel = TRUE], "RequestAuthAgent")
                                  ELSE Return(SetState(s, "Failure"))
    [] s.state = "RequestAuthAgent" -> SetState(s, "RequestPty")
    [] s.state = "RequestPty" -> RequestPty(s, ok)
    [] s.state = "SetEnv" -> SetState(s, "StartShell")
    [] s.state = "StartShell" -> StartShell(s, ok)
    [] s.state = "ResizeScreen" -> RequestSize(s, ok)
    [] OTHER -> Return(s)

(***************************************************************************)
(* The GUI thread.                                                         *)
(***************************************************************************)
GuiIdle == ssh.gui = "idle" /\ ~ssh.crashed
Start == /\ GuiIdle /\ ssh.state = "Initial"
         /\ ssh' = [SetState(InjectRead(ssh), "Started") EXCEPT !.gui = "process"]
ProcessState(ok) == ssh.gui = "process" /\ ~ssh.crashed /\ ssh' = ProcessOne(ssh, ok)
\* The rest of resizeScreen().
Resized == ssh.gui = "resized" /\ ssh' = Return(Overwrite(ssh, "Operational"))
\* The reader and the exit watcher start when start() has returned.
StartThreads == /\ GuiIdle /\ ssh.state # "Initial" /\ ssh.reader = "off"
                /\ ssh' = [ssh EXCEPT !.reader = "ready", !.watcher = "checks"]

DropLast(q) == IF q = <<>> THEN q ELSE SubSeq(q, 1, Len(q) - 1)
\* Only a write of the one character is taken as backspace or enter.
HandlePreAuthenticationPasswordInput(s, buf, next) ==
  CASE buf = "backspace" -> [s EXCEPT !.typed = DropLast(@), !.entered = DropLast(@)]
    [] buf = "enter" -> [SetState(s, next) EXCEPT !.gui = "process"]
    [] OTHER -> [s EXCEPT !.typed = Append(@, buf), !.entered = Append(@, buf),
                          !.submits = @ /\ buf # "x and enter"]
Write(buf) ==
  /\ GuiIdle /\ ~IsClosed(ssh) /\ ssh.state \in PasswordInput
  /\ buf \in {"x", "x and enter"} => Len(ssh.typed) < MaxTyped
  /\ ssh' = HandlePreAuthenticationPasswordInput(ssh, buf,
              IF ssh.state = "AuthenticatePasswordWaitForInput" THEN "AuthenticatePassword"
              ELSE "AuthenticatePrivateKey")
ResizeScreen ==
  /\ GuiIdle /\ ssh.size < MaxResizes
  /\ ssh' = [ssh EXCEPT !.size = @ + 1, !.gui = IF ssh.state = "Operational" THEN "resizes" ELSE @]
Resize == ssh.gui = "resizes" /\ ssh' = [Overwrite(ssh, "ResizeScreen") EXCEPT !.gui = "process"]
\* The window closes after the watcher has told that the session ended: close(), then join the reader.
DestroySession == GuiIdle /\ ssh.watcher = "done" /\ ssh' = [Close(ssh) EXCEPT !.gui = "joins"]
Joined == ssh.gui = "joins" /\ ssh.reader = "ended" /\ ssh' = [ssh EXCEPT !.gui = "gone"]

(***************************************************************************)
(* The terminal thread reads what was injected, or the channel once the    *)
(* session is operational.  It calls processState() before it reads, and   *)
(* so sends a size itself when the GUI thread has begun a resize since:    *)
(* the two hold no lock in common.                                         *)
(***************************************************************************)
Reading(from) == ssh.reader = from /\ ~ssh.crashed
Read ==
  /\ Reading("ready")
  /\ ssh' = CASE ssh.inject -> [ssh EXCEPT !.inject = FALSE]
              [] ~ssh.inject /\ ssh.state = "Operational" -> [ssh EXCEPT !.reader = "processes"]
              [] OTHER -> [ssh EXCEPT !.reader = "waiting", !.woken = FALSE]
Woken == Reading("waiting") /\ ssh.woken /\ ssh' = [ssh EXCEPT !.reader = "ready"]
ReadState ==
  /\ Reading("processes")
  /\ ssh' = IF ssh.state = "ResizeScreen" THEN [ssh EXCEPT !.reader = "sends", !.told = ssh.size, !.shared = TRUE]
            ELSE [ssh EXCEPT !.reader = "checks"]
ReaderSends(ok) ==
  /\ Reading("sends")
  /\ ssh' = IF ok /\ ssh.channel THEN [ssh EXCEPT !.remote = ssh.told, !.reader = "sent"]
            ELSE [ssh EXCEPT !.reader = "checks"]
ReaderSent == Reading("sent") /\ ssh' = [Overwrite(ssh, "Operational") EXCEPT !.reader = "checks"]
\* A resize seen after that is not waited for.
ReadChecks ==
  /\ Reading("checks")
  /\ ssh' = [ssh EXCEPT !.reader = IF ssh.state # "Operational" /\ ~IsClosed(ssh) THEN "ready" ELSE "blocked"]
\* Data; or an error or the end of the stream, on which the terminal closes the device.
ReadChannel(ok) ==
  /\ Reading("blocked")
  /\ ssh' = IF ok /\ ssh.channel THEN [ssh EXCEPT !.reader = "ready"]
            ELSE [SetState(ssh, "Closed") EXCEPT !.reader = "closing"]
ReaderCloses == Reading("closing") /\ ssh' = [CloseSocket(ssh) EXCEPT !.reader = "ended"]

WaitForClosed ==
  /\ ssh.watcher = "checks" \/ (ssh.watcher = "waits" /\ ssh.notified)
  /\ ssh' = [ssh EXCEPT !.watcher = IF IsClosed(ssh) THEN "done" ELSE "waits", !.notified = FALSE]

SshNext ==
  \/ \E h \in Hosts : ChooseHost(h)
  \/ Start \/ StartThreads \/ ResizeScreen \/ Resize \/ Resized \/ DestroySession \/ Joined
  \/ \E ok \in BOOLEAN : ProcessState(ok) \/ ReaderSends(ok) \/ ReadChannel(ok)
  \/ \E buf \in WrittenBuffers : Write(buf)
  \/ Read \/ Woken \/ ReadState \/ ReaderSent \/ ReadChecks \/ ReaderCloses \/ WaitForClosed

SshSpec == SshInit /\ [][SshNext]_ssh

(***************************************************************************)
(* No identity, key or password is offered to a host before its key was    *)
(* verified (processState goes through VerifyHostKey).                     *)
(***************************************************************************)
SecretsAfterVerification == ~ssh.blind

(***************************************************************************)
(* At most MaxPasswordTries passwords are sent, and at most one more       *)
(* prompts for the key's, however the ways to authenticate follow on each  *)
(* other (_walkIndex is shared by them).                                   *)
(***************************************************************************)
TriesBounded == ssh.passwords <= MaxPasswordTries /\ ssh.prompts <= 2 * MaxPasswordTries + 1

(***************************************************************************)
(* While a password is typed the input is what was typed since its prompt: *)
(* nothing is left from an earlier try (_injectedWrite).                   *)
(***************************************************************************)
InputSincePrompt == ssh.state \in PasswordInput => ssh.typed = ssh.entered

(***************************************************************************)
(* An operational session has told the other side the size the terminal    *)
(* has, also when it was resized while authenticating, unless the reader   *)
(* took part in the last resize (see SizeToldAlways).                      *)
(***************************************************************************)
RemoteSizeCurrent == ssh.gui = "idle" /\ ssh.state = "Operational" /\ ~ssh.shared => ssh.remote = ssh.size

(***************************************************************************)
(* The exit watcher never sleeps through the end of the session            *)
(* (waitForClosed, setState), unless a resize stored its state over Closed *)
(* (see CloseAlwaysNoticed).                                               *)
(***************************************************************************)
NoLostClose == ssh.watcher = "waits" /\ IsClosed(ssh) /\ ~ssh.reopened => ssh.notified

(***************************************************************************)
(* An ssh session sends no secret before the host is verified, asks a      *)
(* bounded number of times, each answer only what was typed since its      *)
(* prompt; it has told its size if the reader had no part in the resize,   *)
(* and the watcher notices its end if no resize stored a state over it     *)
(* (processState, authenticate..., setState, waitForClosed).               *)
(***************************************************************************)
SshKeepsOrder ==
  /\ SecretsAfterVerification
  /\ TriesBounded
  /\ InputSincePrompt
  /\ RemoteSizeCurrent
  /\ NoLostClose

(***************************************************************************)
(* Expectations the code does not meet.  The reader ends with the session  *)
(* (the session's destructor joins it); it notices that a resize is over;  *)
(* each address is tried; a refused size keeps the session usable; enter   *)
(* submits also when it comes with other input; a closed session stays so. *)
(* The reader sends an old size after the GUI thread sent the new one, or  *)
(* makes the session operational before the new one is sent; a state that  *)
(* a resize stores over Closed keeps the watcher asleep.                   *)
(***************************************************************************)
ReaderEnds == ssh.gui = "joins" => ~(ssh.reader = "waiting" /\ ~ssh.woken)
ReaderSeesOperational == ssh.state = "Operational" /\ ssh.gui = "idle" => ~(ssh.reader = "waiting" /\ ~ssh.woken)
EveryAddressTried == ~ssh.crashed /\ (ssh.socket = "closed" /\ ssh.state = "Connect" => ssh.host.good = {})
RefusedSizeKeepsSession == ssh.state = "ResizeScreen" => ssh.gui # "idle"
EnterSubmits == ssh.submits
SizeToldAlways == ssh.gui = "idle" /\ ssh.reader # "sends" /\ ssh.state = "Operational" => ssh.remote = ssh.size
CloseAlwaysNoticed == ssh.watcher = "waits" /\ IsClosed(ssh) => ssh.notified
ClosedStaysClosed == [][ssh.state = "Closed" => ssh'.state = "Closed"]_ssh
=============================================================================
