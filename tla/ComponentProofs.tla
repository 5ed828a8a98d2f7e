-------------------------- MODULE ComponentProofs --------------------------
(***************************************************************************)
(* Proofs about components that the suites run on their own.               *)
(*                                                                         *)
(* The ssh session: what its state machine promises depends on where it    *)
(* is.  SshInv says for each state what has been verified, how often the   *)
(* user was asked, what the counter of tries stands for, what the input    *)
(* buffer holds, which size the other side knows and which threads run.    *)
(*                                                                         *)
(* What the user chose in a session: PermInv says that what is pending was *)
(* asked for later than everything carried out, and that the remembered    *)
(* answer is the one the user gave; SessInv that the settings hold         *)
(* together, whatever key, button, prompt or reload comes next.            *)
(*                                                                         *)
(* Editing the page: one lemma per operation says which cells it leaves.   *)
(* Copying an area onto itself is the hard one: the cells are copied in    *)
(* place, so the order must not read a cell that was written before.       *)
(*                                                                         *)
(* The VT parser: ParserInv bounds the sequence under construction and     *)
(* ties the hook to its state; the table is read row by row once           *)
(* (TableIsGood), and HandleKeeps says what each action does to the rest.  *)
(***************************************************************************)
EXTENDS SshSession, SessionActions, PageEdit, VTParser, ListLemmas, TLAPS

-----------------------------------------------------------------------------
(* The ssh session.                                                        *)

SshStates ==
    {"Initial", "Started", "Connect", "Handshake", "VerifyHostKey", "AuthenticateAgent",
     "AuthenticatePrivateKeyStart", "AuthenticatePrivateKeyRequest",
     "AuthenticatePrivateKeyWaitForInput", "AuthenticatePrivateKey",
     "AuthenticatePasswordStart", "AuthenticatePasswordWaitForInput", "AuthenticatePassword",
     "OpenChannel", "RequestAuthAgent", "RequestPty", "SetEnv", "StartShell", "Operational",
     "ResizeScreen", "Failure", "Closed"}

HostType == [addresses : Nat, good : SUBSET Nat, agent : Agents, key : BOOLEAN,
             known : {"none", "match", "mismatch", "unwritable"}]

Readers == {"off", "ready", "waiting", "processes", "sends", "sent", "checks", "blocked", "closing", "ended"}
Sending == {"sends", "sent"}

SshType ==
    [host : HostType,
     state : SshStates, gui : {"setup", "idle", "process", "resizes", "resized", "joins", "gone"},
     crashed : BOOLEAN, socket : {"none", "open", "closed"}, channel : BOOLEAN,
     walk : Nat, typed : Seq(WrittenBuffers), inject : BOOLEAN, woken : BOOLEAN,
     reader : Readers,
     watcher : {"off", "checks", "waits", "done"}, notified : BOOLEAN,
     agentMade : BOOLEAN, size : Nat, remote : Nat, told : Nat, shared : BOOLEAN, reopened : BOOLEAN,
     entered : Seq(WrittenBuffers), verified : BOOLEAN,
     blind : BOOLEAN, passwords : Nat, prompts : Nat, submits : BOOLEAN]

\* The states before the host key was accepted, and before the user is asked.
Unverified == {"Initial", "Started", "Connect", "Handshake", "VerifyHostKey"}
NoPromptYet == Unverified \cup {"AuthenticateAgent", "AuthenticatePrivateKeyStart"}
AskedForKey == {"AuthenticatePrivateKeyWaitForInput", "AuthenticatePrivateKey"}
AskedForPassword == {"AuthenticatePasswordWaitForInput", "AuthenticatePassword"}

\* Beyond the verification the host key was accepted; nothing was sent before.
Verified(s) ==
    /\ ~s.blind
    /\ s.state \notin Unverified \cup Ended => s.verified
    /\ s.gui \in {"resizes", "resized"} \/ s.reader \in Sending => s.verified

\* How often the user was asked: the counter of tries counts the prompts for the
\* key's password, and later the passwords that were sent.
Asked(s) ==
    /\ s.passwords <= MaxPasswordTries /\ s.prompts <= 2 * MaxPasswordTries + 1
    /\ s.state \in NoPromptYet => s.prompts = 0 /\ s.passwords = 0
    /\ s.state = "AuthenticatePrivateKeyRequest" =>
           s.walk \in 1..MaxPasswordTries + 1 /\ s.prompts = s.walk - 1 /\ s.passwords = 0
    /\ s.state \in AskedForKey =>
           s.walk \in 1..MaxPasswordTries + 1 /\ s.prompts = s.walk /\ s.passwords = 0
    /\ s.state = "AuthenticatePasswordStart" =>
           s.walk < MaxPasswordTries /\ s.passwords = s.walk /\ s.prompts <= MaxPasswordTries + 1 + s.walk
    /\ s.state \in AskedForPassword =>
           s.walk < MaxPasswordTries /\ s.passwords = s.walk /\ s.prompts <= MaxPasswordTries + 2 + s.walk

\* The input buffer is empty before a prompt and holds what was typed since.
Typed(s) ==
    /\ s.state \in PasswordInput => s.typed = s.entered
    /\ s.state \in NoPromptYet \cup {"AuthenticatePrivateKeyRequest", "AuthenticatePasswordStart"}
         => s.typed = <<>>

\* The other side knows the size from the request of the terminal on, until the reader sends one too.
Told(s) ==
    /\ s.gui = "resized" /\ ~s.shared => s.remote = s.size
    /\ s.state \in {"SetEnv", "StartShell"} => s.gui = "process" /\ (~s.shared => s.remote = s.size)
    /\ s.state = "Operational" /\ s.gui # "resizes" /\ ~s.shared => s.remote = s.size
    /\ s.reader \in Sending => s.shared

\* The threads run when start() has returned, and the watcher is told of the end
\* before the reader closes the socket, unless a resize has hidden the end by then.
Noticed(s) ==
    /\ s.watcher = "waits" /\ IsClosed(s) /\ ~s.reopened => s.notified
    /\ s.reader = "closing" /\ ~s.reopened => s.state \in Ended
    /\ s.gui = "process" /\ s.state \in {"Started", "Connect"} => s.watcher = "off"
    /\ s.gui = "setup" => s.state = "Initial"
    /\ s.state = "Initial" => s.reader = "off" /\ s.watcher = "off"

SshOK(s) == s \in SshType /\ Verified(s) /\ Asked(s) /\ Typed(s) /\ Told(s) /\ Noticed(s)

SshInv == SshOK(ssh)

-----------------------------------------------------------------------------
\* The connection, the threads and what was verified are the same.
Same(s, t) ==
    /\ t.socket = s.socket /\ t.reader = s.reader /\ t.watcher = s.watcher
    /\ t.size = s.size /\ t.verified = s.verified /\ t.blind = s.blind
    /\ t.shared = s.shared /\ t.reopened = s.reopened

\* What the reader does and what resizes have done is the same.
Threads(s, t) == t.reader = s.reader /\ t.shared = s.shared /\ t.reopened = s.reopened

\* The prompts, the input and the size that was told are the same.
Book(s, t) ==
    /\ t.walk = s.walk /\ t.typed = s.typed /\ t.entered = s.entered
    /\ t.remote = s.remote /\ t.passwords = s.passwords /\ t.prompts = s.prompts

\* setState(): only the end of the session is told to the watcher.
LEMMA SetStateOK ==
    ASSUME NEW s \in SshType, NEW next \in SshStates, NEW t, t = SetState(s, next)
    PROVE  /\ t \in SshType /\ Same(s, t) /\ Book(s, t) /\ t.state = next /\ t.gui = s.gui
           /\ s.notified => t.notified
           /\ next \in Ended /\ s.state # next => t.notified
<1> DEFINE n == s.notified \/ (s.state # next /\ next \in Ended)
<1>1. n \in BOOLEAN /\ s.notified \in BOOLEAN /\ (s.notified => n) /\ (next \in Ended /\ s.state # next => n)
  BY DEF SshType
<1>2. t = [s EXCEPT !.state = next, !.notified = n]
  BY DEF SetState
<1> HIDE DEF n
<1> QED BY ZenonT(60), <1>1, <1>2 DEF SshType, Same, Book

\* injectRead() wakes the reader only.
LEMMA InjectReadOK ==
    ASSUME NEW s \in SshType, NEW t, t = InjectRead(s)
    PROVE  /\ t \in SshType /\ Same(s, t) /\ Book(s, t)
           /\ t.state = s.state /\ t.gui = s.gui /\ t.notified = s.notified
BY DEF InjectRead, SshType, Same, Book

\* The GUI thread returns from processState().
LEMMA ReturnOK ==
    ASSUME NEW s \in SshType, NEW t, t = Return(s)
    PROVE  /\ t \in SshType /\ Same(s, t) /\ Book(s, t)
           /\ t.state = s.state /\ t.gui = "idle" /\ t.notified = s.notified
BY DEF Return, SshType, Same, Book

\* A secret is sent to a host that was verified.
LEMMA SendSecretOK ==
    ASSUME NEW s \in SshType, s.verified, ~s.blind, NEW t, t = SendSecret(s)
    PROVE  /\ t \in SshType /\ Same(s, t) /\ Book(s, t)
           /\ t.state = s.state /\ t.gui = s.gui /\ t.notified = s.notified
<1>1. s.blind = FALSE /\ s.verified = TRUE
  BY DEF SshType
<1>2. (s.blind \/ ~s.verified) = FALSE
  BY <1>1
<1>3. t = [s EXCEPT !.blind = FALSE]
  BY <1>2 DEF SendSecret
<1> QED BY ZenonT(60), <1>1, <1>3 DEF SshType, Same, Book

\* The end of the session is stored, whatever its state.
LEMMA EndOK ==
    ASSUME NEW s, SshOK(s), s.gui # "setup", NEW t, t = SetState(s, "Closed")
    PROVE  /\ SshOK(t) /\ t.gui = s.gui /\ t.reader = s.reader /\ t.state = "Closed"
           /\ t.watcher = "waits" /\ ~t.reopened => t.notified
<1>1. s \in SshType /\ "Closed" \in SshStates /\ "Closed" \in Ended
  BY DEF SshOK, SshStates, Ended
<1>2. /\ t \in SshType /\ Same(s, t) /\ Book(s, t) /\ t.state = "Closed" /\ t.gui = s.gui
      /\ s.notified => t.notified
      /\ s.state # "Closed" => t.notified
  BY <1>1, SetStateOK
<1>3. Verified(t)
  BY <1>2 DEF SshOK, Verified, Same, Ended
<1>4. Asked(t)
  BY <1>2 DEF SshOK, Asked, Same, Book, NoPromptYet, Unverified, AskedForKey, AskedForPassword
<1>5. Typed(t)
  BY <1>2 DEF SshOK, Typed, NoPromptYet, Unverified, PasswordInput
<1>6. Told(t)
  BY <1>2 DEF SshOK, Told, Same, Book
<1>7. s.watcher = "waits" /\ ~s.reopened => t.notified
  <2>1. CASE s.state = "Closed"
    BY <1>2, <2>1 DEF SshOK, Noticed, IsClosed, Ended
  <2>2. CASE s.state # "Closed"
    BY <1>2, <2>2
  <2> QED BY <2>1, <2>2
<1>8. Noticed(t)
  BY <1>1, <1>2, <1>7 DEF SshOK, Noticed, Same
<1> QED BY <1>2, <1>3, <1>4, <1>5, <1>6, <1>7, <1>8 DEF SshOK, Same

\* The channel and the socket are closed; the watcher was told before.
LEMMA CloseSocketOK ==
    ASSUME NEW s, SshOK(s), s.watcher = "waits" /\ ~s.reopened => s.notified, NEW t, t = CloseSocket(s)
    PROVE  SshOK(t) /\ t.gui = s.gui /\ t.reader = s.reader /\ t.state = s.state
<1> DEFINE k == IF s.socket = "open" THEN "closed" ELSE s.socket
<1>1. s \in SshType /\ t = [s EXCEPT !.channel = FALSE, !.socket = k]
  BY DEF SshOK, CloseSocket
<1>2. k \in {"none", "closed"}
  BY <1>1 DEF SshType
<1> HIDE DEF k
<1>3. /\ t \in SshType /\ t.reader = s.reader /\ t.watcher = s.watcher /\ t.size = s.size
      /\ t.verified = s.verified /\ t.blind = s.blind /\ t.state = s.state /\ t.gui = s.gui
      /\ t.notified = s.notified /\ t.shared = s.shared /\ t.reopened = s.reopened /\ Book(s, t)
  BY ZenonT(60), <1>1, <1>2 DEF SshType, Book
<1>4. Verified(t) /\ Asked(t) /\ Typed(t) /\ Told(t)
  BY <1>3 DEF SshOK, Verified, Asked, Typed, Told, Book
<1>5. Noticed(t)
  BY <1>3 DEF SshOK, Noticed
<1> QED BY <1>3, <1>4, <1>5 DEF SshOK

\* close() ends the session, whatever its state.
LEMMA CloseOK ==
    ASSUME NEW s, SshOK(s), s.gui # "setup", NEW t, t = Close(s)
    PROVE  SshOK(t) /\ t.gui = s.gui /\ t.reader = s.reader /\ t.state = "Closed"
<1> DEFINE u == SetState(s, "Closed")
<1>1. /\ SshOK(u) /\ u.gui = s.gui /\ u.reader = s.reader /\ u.state = "Closed"
      /\ u.watcher = "waits" /\ ~u.reopened => u.notified
  BY EndOK
<1>2. t = CloseSocket(u)
  BY DEF Close
<1> HIDE DEF u
<1> QED BY <1>1, <1>2, CloseSocketOK

-----------------------------------------------------------------------------
(* processState().                                                         *)

\* The steps of processState() that leave the books alone.
Onward(old, new, gui) ==
    \/ old = "Started" /\ new = "Connect" /\ gui = "process"
    \/ old = "Handshake" /\ new = "VerifyHostKey"
    \/ old = "AuthenticateAgent" /\ new = old
    \/ old = "OpenChannel" /\ new = "RequestAuthAgent"
    \/ old = "RequestAuthAgent" /\ new = "RequestPty"
    \/ old = "SetEnv" /\ new = "StartShell" /\ gui = "process"
    \/ old = "StartShell" /\ new = "Operational"
    \/ new \in Ended
    \/ new = old /\ old \notin {"SetEnv", "StartShell"} /\ gui = "idle"

LEMMA OnwardOK ==
    ASSUME NEW s, SshOK(s), s.gui = "process", NEW t \in SshType, Same(s, t), Book(s, t),
           t.gui \in {"process", "idle"}, s.notified => t.notified,
           t.state \in Ended /\ s.state # t.state => t.notified, Onward(s.state, t.state, t.gui)
    PROVE  SshOK(t)
<1>1. Verified(t)
  BY DEF SshOK, Verified, Same, Onward, Ended, Unverified
<1>2. Asked(t)
  BY DEF SshOK, Asked, Book, Onward, Ended, Unverified, NoPromptYet, AskedForKey, AskedForPassword
<1>3. Typed(t)
  BY DEF SshOK, Typed, Book, Onward, Ended, Unverified, NoPromptYet, PasswordInput
<1>4. Told(t)
  BY DEF SshOK, Told, Same, Book, Onward, Ended
<1>5. Noticed(t)
  BY DEF SshOK, Noticed, Same, Onward, Ended, IsClosed
<1> QED BY <1>1, <1>2, <1>3, <1>4, <1>5 DEF SshOK

\* setState() alone, and with a return to the event loop.
LEMMA SetStateOnward ==
    ASSUME NEW s, SshOK(s), s.gui = "process", NEW next \in SshStates, NEW t,
           \/ t = SetState(s, next) /\ Onward(s.state, next, "process")
           \/ t = Return(SetState(s, next)) /\ Onward(s.state, next, "idle")
    PROVE  SshOK(t)
<1> DEFINE u == SetState(s, next)
<1>1. s \in SshType
  BY DEF SshOK
<1>2. /\ u \in SshType /\ Same(s, u) /\ Book(s, u) /\ u.state = next /\ u.gui = s.gui
      /\ s.notified => u.notified
      /\ next \in Ended /\ s.state # next => u.notified
  BY <1>1, SetStateOK
<1> HIDE DEF u
<1>3. CASE t = u /\ Onward(s.state, next, "process")
  BY <1>2, <1>3, OnwardOK
<1>4. CASE t = Return(u) /\ Onward(s.state, next, "idle")
  <2>1. /\ t \in SshType /\ Same(u, t) /\ Book(u, t) /\ t.state = next /\ t.gui = "idle"
        /\ t.notified = u.notified
    BY <1>2, <1>4, ReturnOK
  <2>2. Same(s, t) /\ Book(s, t)
    BY <1>2, <2>1 DEF Same, Book
  <2>3. t.gui \in {"process", "idle"} /\ (s.notified => t.notified)
        /\ (t.state \in Ended /\ s.state # t.state => t.notified) /\ Onward(s.state, t.state, t.gui)
    BY <1>2, <1>4, <2>1
  <2> QED BY <2>1, <2>2, <2>3, OnwardOK
<1> QED BY <1>3, <1>4 DEF u

\* The event loop goes on while the state stays as it is.
LEMMA ReturnOnward ==
    ASSUME NEW s, SshOK(s), s.gui = "process", s.state \notin {"SetEnv", "StartShell"}, NEW t, t = Return(s)
    PROVE  SshOK(t)
<1>1. s \in SshType
  BY DEF SshOK
<1>2. /\ t \in SshType /\ Same(s, t) /\ Book(s, t)
      /\ t.state = s.state /\ t.gui = "idle" /\ t.notified = s.notified
  BY <1>1, ReturnOK
<1> QED BY <1>2, OnwardOK DEF Onward

\* connect(): before the threads run.
LEMMA ConnectOK ==
    ASSUME NEW s, SshOK(s), s.gui = "process", s.state = "Connect", NEW t, t = Connect(s)
    PROVE  SshOK(t)
<1> DEFINE tried == {i \in 1 .. s.host.addresses : i % 2 = 1}
           a == [s EXCEPT !.socket = "open"]
           b == SetState(a, "Handshake")
           c == [s EXCEPT !.socket = "closed"]
<1>1. s \in SshType /\ s.watcher = "off"
  BY DEF SshOK, Noticed
<1> HIDE DEF tried
<1>2. CASE t = Return(s)
  BY <1>2, ReturnOnward
<1>3. CASE t = InjectRead(b)
  <2>1. /\ a \in SshType /\ Book(s, a) /\ a.state = s.state /\ a.gui = s.gui /\ a.notified = s.notified
        /\ a.watcher = s.watcher /\ a.size = s.size /\ Threads(s, a)
        /\ a.verified = s.verified /\ a.blind = s.blind
    BY <1>1 DEF SshType, Book, Threads
  <2> HIDE DEF a
  <2>2. "Handshake" \in SshStates
    BY DEF SshStates
  <2>3. b \in SshType /\ Same(a, b) /\ Book(a, b) /\ b.state = "Handshake" /\ b.gui = a.gui
    BY <2>1, <2>2, SetStateOK
  <2> HIDE DEF b
  <2>4. t \in SshType /\ Same(b, t) /\ Book(b, t) /\ t.state = "Handshake" /\ t.gui = b.gui
    BY <1>3, <2>3, InjectReadOK
  <2>5. /\ Book(s, t) /\ t.watcher = "off" /\ t.size = s.size /\ t.verified = s.verified
        /\ t.blind = s.blind /\ t.gui = "process" /\ Threads(s, t)
    BY <1>1, <2>1, <2>3, <2>4 DEF Same, Book, Threads
  <2>6. Verified(t)
    BY <2>4, <2>5 DEF SshOK, Verified, Unverified, Threads
  <2>7. Asked(t)
    BY <2>4, <2>5 DEF SshOK, Asked, Book, Unverified, NoPromptYet, AskedForKey, AskedForPassword
  <2>8. Typed(t)
    BY <2>4, <2>5 DEF SshOK, Typed, Book, Unverified, NoPromptYet, PasswordInput
  <2>9. Told(t) /\ Noticed(t)
    BY <2>4, <2>5 DEF SshOK, Told, Noticed, Threads, Ended
  <2> QED BY <2>4, <2>6, <2>7, <2>8, <2>9 DEF SshOK
<1>4. CASE t = [s EXCEPT !.crashed = TRUE]
  <2>1. /\ t \in SshType /\ Same(s, t) /\ Book(s, t) /\ t.state = s.state /\ t.gui = s.gui
        /\ t.notified = s.notified
    BY ZenonT(60), <1>1, <1>4 DEF SshType, Same, Book
  <2> QED BY <2>1 DEF SshOK, Same, Book, Verified, Asked, Typed, Told, Noticed, IsClosed
<1>5. CASE t = Return(c)
  <2>1. /\ c \in SshType /\ Book(s, c) /\ c.state = s.state /\ c.gui = s.gui
        /\ c.watcher = s.watcher /\ c.size = s.size /\ c.verified = s.verified /\ c.blind = s.blind
        /\ Threads(s, c)
    BY <1>1 DEF SshType, Book, Threads
  <2> HIDE DEF c
  <2>2. t \in SshType /\ Same(c, t) /\ Book(c, t) /\ t.state = c.state /\ t.gui = "idle"
    BY <1>5, <2>1, ReturnOK
  <2>3. /\ Book(s, t) /\ t.watcher = "off" /\ t.size = s.size /\ t.verified = s.verified
        /\ t.blind = s.blind /\ Threads(s, t)
    BY <1>1, <2>1, <2>2 DEF Same, Book, Threads
  <2>4. Verified(t)
    BY <2>1, <2>2, <2>3 DEF SshOK, Verified, Unverified, Threads
  <2>5. Asked(t)
    BY <2>1, <2>2, <2>3 DEF SshOK, Asked, Book, Unverified, NoPromptYet, AskedForKey, AskedForPassword
  <2>6. Typed(t)
    BY <2>1, <2>2, <2>3 DEF SshOK, Typed, Book, Unverified, NoPromptYet, PasswordInput
  <2>7. Told(t) /\ Noticed(t)
    BY <2>1, <2>2, <2>3 DEF SshOK, Told, Noticed, Threads, Ended
  <2> QED BY <2>2, <2>4, <2>5, <2>6, <2>7 DEF SshOK
<1>6. \/ t = Return(s) \/ t = InjectRead(b) \/ t = [s EXCEPT !.crashed = TRUE] \/ t = Return(c)
  BY DEF Connect, tried
<1> QED BY <1>2, <1>3, <1>4, <1>5, <1>6

\* The counter of tries is set.
LEMMA WalkOK ==
    ASSUME NEW s \in SshType, NEW k \in Nat, NEW t, t = [s EXCEPT !.walk = k]
    PROVE  /\ t \in SshType /\ Same(s, t) /\ t.gui = s.gui /\ t.notified = s.notified /\ t.walk = k
           /\ t.state = s.state /\ t.typed = s.typed /\ t.entered = s.entered
           /\ t.passwords = s.passwords /\ t.prompts = s.prompts /\ t.remote = s.remote
BY DEF SshType, Same

\* A step of the authentication: the state, the counters and the input change.
LEMMA AuthOK ==
    ASSUME NEW s, SshOK(s), s.gui = "process", s.state \notin Ended, NEW t \in SshType,
           t.socket = s.socket, t.watcher = s.watcher, Threads(s, t), t.verified, ~t.blind,
           t.gui \in {"process", "idle"}, s.notified => t.notified, t.state \in Ended => t.notified,
           t.state \notin Unverified \cup {"SetEnv", "StartShell", "Operational"},
           Asked(t), Typed(t)
    PROVE  SshOK(t)
<1>1. Verified(t)
  BY DEF Verified
<1>2. Told(t)
  BY DEF SshOK, Told, Threads
<1>3. Noticed(t)
  BY DEF SshOK, Noticed, IsClosed, Ended, Unverified, Threads
<1> QED BY <1>1, <1>2, <1>3 DEF SshOK

\* The host key is compared with the known hosts.
LEMMA VerifyHostKeyOK ==
    ASSUME NEW s, SshOK(s), s.gui = "process", s.state = "VerifyHostKey", NEW t, t = VerifyHostKey(s)
    PROVE  SshOK(t)
<1> DEFINE a == [s EXCEPT !.verified = TRUE]
<1>1. s \in SshType /\ ~s.blind /\ {"AuthenticateAgent", "Failure"} \subseteq SshStates /\ s.state \notin Ended
  BY DEF SshOK, Verified, SshStates, Ended
<1>2. CASE t = SetState(a, "AuthenticateAgent")
  <2>1. /\ a \in SshType /\ Book(s, a) /\ a.socket = s.socket /\ a.watcher = s.watcher /\ Threads(s, a) /\ a.gui = s.gui
        /\ a.notified = s.notified /\ a.verified /\ a.blind = s.blind
    BY <1>1 DEF SshType, Book, Threads
  <2> HIDE DEF a
  <2>2. /\ t \in SshType /\ Same(a, t) /\ Book(a, t) /\ t.state = "AuthenticateAgent" /\ t.gui = a.gui
        /\ a.notified => t.notified
    BY <1>1, <1>2, <2>1, SetStateOK
  <2>3. /\ Book(s, t) /\ t.socket = s.socket /\ t.watcher = s.watcher /\ Threads(s, t) /\ t.verified /\ ~t.blind
        /\ t.gui = "process" /\ (s.notified => t.notified)
    BY <1>1, <2>1, <2>2 DEF Same, Book, Threads
  <2>4. Asked(t)
    BY <2>2, <2>3 DEF SshOK, Asked, Book, Unverified, NoPromptYet, AskedForKey, AskedForPassword
  <2>5. Typed(t)
    BY <2>2, <2>3 DEF SshOK, Typed, Book, Unverified, NoPromptYet, PasswordInput
  <2>6. t.state \notin Unverified \cup {"SetEnv", "StartShell", "Operational"} /\ t.state \notin Ended
    BY <2>2 DEF Unverified, Ended
  <2> QED BY <1>1, <2>2, <2>3, <2>4, <2>5, <2>6, AuthOK
<1>3. CASE t = SetState(s, "Failure")
  BY <1>1, <1>3, SetStateOnward DEF Onward, Ended
<1> QED BY <1>2, <1>3 DEF VerifyHostKey

\* The agent offers its identities, or a key file or a password is next.
LEMMA AgentAnswersOK ==
    ASSUME NEW s, SshOK(s), s.gui = "process", s.state = "AuthenticateAgent",
           NEW w \in SshType, Same(s, w), w.gui = s.gui, w.notified = s.notified, w.typed = s.typed,
           w.prompts = s.prompts, w.passwords = s.passwords, NEW t, t = AgentAnswers(w)
    PROVE  SshOK(t)
<1> DEFINE a == IF w.host.agent = "unreachable" THEN w ELSE SendSecret(w)
           b == InjectRead(a)
           c == [a EXCEPT !.walk = 0]
           Next3 == {"AuthenticatePrivateKeyStart", "AuthenticatePasswordStart", "OpenChannel"}
<1>1. /\ w.verified /\ ~w.blind /\ Next3 \subseteq SshStates /\ s.state \notin Ended
      /\ s.prompts = 0 /\ s.passwords = 0 /\ s.typed = <<>>
  BY DEF SshOK, Verified, Same, Asked, Typed, NoPromptYet, SshStates, Unverified, Ended
<1>2. /\ a \in SshType /\ Same(w, a) /\ Book(w, a) /\ a.gui = w.gui /\ a.notified = w.notified
  <2>1. CASE a = w
    BY <2>1 DEF Same, Book
  <2>2. CASE a = SendSecret(w)
    BY <1>1, <2>2, SendSecretOK
  <2> QED BY <2>1, <2>2
<1>3. \/ t = SetState(b, "OpenChannel")
      \/ t = SetState(a, "AuthenticatePrivateKeyStart")
      \/ t = SetState(c, "AuthenticatePasswordStart")
  BY DEF AgentAnswers
<1> HIDE DEF a
<1>4. ASSUME NEW n \in Next3, NEW u \in SshType, Same(a, u), u.gui = a.gui, u.notified = a.notified,
             u.typed = a.typed, u.prompts = a.prompts, u.passwords = a.passwords,
             n = "AuthenticatePasswordStart" => u.walk = 0, t = SetState(u, n)
      PROVE  SshOK(t)
  <2>0. n \in SshStates
    BY <1>1
  <2>1. /\ t \in SshType /\ Same(u, t) /\ Book(u, t) /\ t.state = n /\ t.gui = u.gui
        /\ u.notified => t.notified
    BY SMTT(30), <1>4, <2>0, SetStateOK
  <2>2. /\ t.socket = s.socket /\ t.watcher = s.watcher /\ Threads(s, t) /\ t.verified /\ ~t.blind
        /\ t.gui = "process" /\ (s.notified => t.notified)
        /\ (n = "AuthenticatePasswordStart" => t.walk = 0)
        /\ t.prompts = 0 /\ t.passwords = 0 /\ t.typed = <<>>
    BY <1>1, <1>2, <1>4, <2>1 DEF Same, Book, Threads
  <2>3. Asked(t)
    BY <2>1, <2>2 DEF Asked, Unverified, NoPromptYet, AskedForKey, AskedForPassword, MaxPasswordTries
  <2>4. Typed(t)
    BY <2>1, <2>2 DEF Typed, Unverified, NoPromptYet, PasswordInput
  <2>5. t.state \notin Unverified \cup {"SetEnv", "StartShell", "Operational"} /\ t.state \notin Ended
    BY <2>1 DEF Unverified, Ended
  <2> QED BY <1>1, <2>1, <2>2, <2>3, <2>4, <2>5, AuthOK
<1>5. CASE t = SetState(b, "OpenChannel")
  <2>1. b \in SshType /\ Same(a, b) /\ Book(a, b) /\ b.gui = a.gui /\ b.notified = a.notified
    BY <1>2, InjectReadOK
  <2> HIDE DEF b
  <2> QED BY <1>4, <1>5, <2>1 DEF Book
<1>6. CASE t = SetState(a, "AuthenticatePrivateKeyStart")
  <2>1. Same(a, a)
    BY DEF Same
  <2> QED BY <1>2, <1>4, <1>6, <2>1
<1>7. CASE t = SetState(c, "AuthenticatePasswordStart")
  <2>1. /\ c \in SshType /\ Same(a, c) /\ c.gui = a.gui /\ c.notified = a.notified /\ c.walk = 0
        /\ c.typed = a.typed /\ c.prompts = a.prompts /\ c.passwords = a.passwords
    BY <1>2, WalkOK
  <2> HIDE DEF c
  <2> QED BY <1>4, <1>7, <2>1
<1> QED BY <1>3, <1>5, <1>6, <1>7

\* An agent that is not there, that cannot be asked, or that answers.
LEMMA AgentOK ==
    ASSUME NEW s, SshOK(s), s.gui = "process", s.state = "AuthenticateAgent",
           NEW t, t = AuthenticateWithAgent(s)
    PROVE  SshOK(t)
<1> DEFINE a == [s EXCEPT !.agentMade = TRUE]
           w == [s EXCEPT !.agentMade = TRUE, !.walk = 0]
<1>1. s \in SshType
  BY DEF SshOK
<1>2. \/ t = s
      \/ t = a
      \/ t = AgentAnswers(w)
      \/ t = AgentAnswers(s)
  BY DEF AuthenticateWithAgent
<1>3. CASE t = a
  <2>1. /\ t \in SshType /\ Same(s, t) /\ Book(s, t) /\ t.gui = s.gui /\ t.notified = s.notified
        /\ t.state = s.state
    BY ZenonT(60), <1>1, <1>3 DEF SshType, Same, Book
  <2>2. Onward(s.state, t.state, t.gui) /\ t.state \notin Ended
    BY <2>1 DEF Onward, Ended
  <2> QED BY <2>1, <2>2, OnwardOK
<1>4. CASE t = AgentAnswers(w)
  <2>1. /\ w \in SshType /\ Same(s, w) /\ w.gui = s.gui /\ w.notified = s.notified /\ w.typed = s.typed
        /\ w.prompts = s.prompts /\ w.passwords = s.passwords
    BY <1>1 DEF SshType, Same
  <2> HIDE DEF w
  <2> QED BY <1>4, <2>1, AgentAnswersOK
<1>5. CASE t = AgentAnswers(s)
  <2>1. Same(s, s)
    BY DEF Same
  <2> QED BY <1>1, <1>5, <2>1, AgentAnswersOK
<1> QED BY <1>2, <1>3, <1>4, <1>5

\* The session that a secret was sent with: awake, the input buffer empty.
LEMMA SentOK ==
    ASSUME NEW s \in SshType, s.verified, ~s.blind, NEW t,
           t = [InjectRead(SendSecret(s)) EXCEPT !.typed = <<>>]
    PROVE  /\ t \in SshType /\ Same(s, t) /\ t.gui = s.gui /\ t.notified = s.notified /\ t.state = s.state
           /\ t.typed = <<>> /\ t.walk = s.walk /\ t.passwords = s.passwords /\ t.prompts = s.prompts
<1> DEFINE a == SendSecret(s)
           b == InjectRead(a)
<1>1. /\ a \in SshType /\ Same(s, a) /\ Book(s, a)
      /\ a.state = s.state /\ a.gui = s.gui /\ a.notified = s.notified
  BY SendSecretOK
<1> HIDE DEF a
<1>2. /\ b \in SshType /\ Same(a, b) /\ Book(a, b)
      /\ b.state = a.state /\ b.gui = a.gui /\ b.notified = a.notified
  BY <1>1, InjectReadOK
<1> HIDE DEF b
<1> DEFINE e == <<>>
<1>3. t = [b EXCEPT !.typed = e] /\ e \in Seq(WrittenBuffers)
  BY DEF a, b
<1>e. e = <<>>
  OBVIOUS
<1> HIDE DEF e
<1>4. /\ t \in SshType /\ Same(b, t) /\ t.gui = b.gui /\ t.notified = b.notified /\ t.state = b.state
      /\ t.typed = e /\ t.walk = b.walk /\ t.passwords = b.passwords /\ t.prompts = b.prompts
  BY ZenonT(60), <1>2, <1>3 DEF SshType, Same
<1> QED BY <1>1, <1>2, <1>4, <1>e DEF Same, Book, Threads

\* The key file is tried, without a password and with each that was asked for.
LEMMA PrivateKeyOK ==
    ASSUME NEW s, SshOK(s), s.gui = "process", s.state \notin Unverified \cup Ended,
           NEW w \in SshType, Same(s, w), w.gui = s.gui, w.notified = s.notified,
           w.walk \in 0 .. MaxPasswordTries + 1, w.prompts = w.walk, w.passwords = 0,
           NEW ok \in BOOLEAN, NEW t, t = AuthenticateWithPrivateKey(w, ok)
    PROVE  SshOK(t)
<1> DEFINE a == [InjectRead(SendSecret(w)) EXCEPT !.typed = <<>>]
           k == w.walk + 1
           b == [a EXCEPT !.walk = k]
           c == [a EXCEPT !.walk = 0]
<1>1. /\ w.verified /\ ~w.blind
      /\ {"AuthenticatePrivateKeyRequest", "AuthenticatePasswordStart", "OpenChannel"} \subseteq SshStates
  BY DEF SshOK, Verified, Same, SshStates
<1>2. /\ a \in SshType /\ Same(w, a) /\ a.gui = w.gui /\ a.notified = w.notified /\ a.state = w.state
      /\ a.typed = <<>> /\ a.walk = w.walk /\ a.passwords = w.passwords /\ a.prompts = w.prompts
  BY <1>1, SentOK
<1>3. \/ t = SetState(a, "OpenChannel")
      \/ w.walk <= MaxPasswordTries /\ t = SetState([a EXCEPT !.walk = @ + 1], "AuthenticatePrivateKeyRequest")
      \/ t = SetState(c, "AuthenticatePasswordStart")
  BY DEF AuthenticateWithPrivateKey
<1> HIDE DEF a
<1>4. [a EXCEPT !.walk = @ + 1] = b
  BY <1>2
<1>5. CASE t = SetState(a, "OpenChannel")
  <2>1. /\ t \in SshType /\ Same(a, t) /\ Book(a, t) /\ t.state = "OpenChannel" /\ t.gui = a.gui
        /\ a.notified => t.notified
    BY SMTT(30), <1>1, <1>2, <1>5, SetStateOK
  <2>2. /\ t.socket = s.socket /\ t.watcher = s.watcher /\ Threads(s, t) /\ t.verified /\ ~t.blind
        /\ t.gui = "process" /\ (s.notified => t.notified)
        /\ t.passwords = 0 /\ t.prompts \in 0 .. 4
    BY <1>1, <1>2, <2>1 DEF Same, Book, Threads, MaxPasswordTries
  <2>3. Asked(t)
    BY <2>1, <2>2 DEF Asked, Unverified, NoPromptYet, AskedForKey, AskedForPassword, MaxPasswordTries
  <2>4. Typed(t)
    BY <2>1, <2>2 DEF Typed, Unverified, NoPromptYet, PasswordInput
  <2>5. t.state \notin Unverified \cup {"SetEnv", "StartShell", "Operational"} /\ t.state \notin Ended
    BY <2>1 DEF Unverified, Ended
  <2> QED BY <2>1, <2>2, <2>3, <2>4, <2>5, AuthOK
<1>6. CASE w.walk <= MaxPasswordTries /\ t = SetState(b, "AuthenticatePrivateKeyRequest")
  <2>0. k \in 1 .. 4 /\ k \in Nat /\ w.walk = k - 1
    BY <1>6 DEF MaxPasswordTries
  <2> HIDE DEF k
  <2>1. /\ b \in SshType /\ Same(a, b) /\ b.gui = a.gui /\ b.notified = a.notified /\ b.walk = k
        /\ b.typed = a.typed /\ b.passwords = a.passwords /\ b.prompts = a.prompts
    BY <1>2, <2>0, WalkOK
  <2> HIDE DEF b
  <2>2. /\ t \in SshType /\ Same(b, t) /\ Book(b, t) /\ t.state = "AuthenticatePrivateKeyRequest" /\ t.gui = b.gui
        /\ b.notified => t.notified
    BY SMTT(30), <1>1, <1>6, <2>1, SetStateOK
  <2>3. /\ t.socket = s.socket /\ t.watcher = s.watcher /\ Threads(s, t) /\ t.verified /\ ~t.blind
        /\ t.gui = "process" /\ (s.notified => t.notified) /\ t.typed = <<>>
        /\ t.passwords = 0 /\ t.prompts = k - 1 /\ t.walk = k
    BY <1>1, <1>2, <2>0, <2>1, <2>2 DEF Same, Book, Threads
  <2>4. Asked(t)
    BY <2>0, <2>2, <2>3 DEF Asked, Unverified, NoPromptYet, AskedForKey, AskedForPassword, MaxPasswordTries
  <2>5. Typed(t)
    BY <2>2, <2>3 DEF Typed, Unverified, NoPromptYet, PasswordInput
  <2>6. t.state \notin Unverified \cup {"SetEnv", "StartShell", "Operational"} /\ t.state \notin Ended
    BY <2>2 DEF Unverified, Ended
  <2> QED BY <2>2, <2>3, <2>4, <2>5, <2>6, AuthOK
<1>7. CASE t = SetState(c, "AuthenticatePasswordStart")
  <2>1. /\ c \in SshType /\ Same(a, c) /\ c.gui = a.gui /\ c.notified = a.notified /\ c.walk = 0
        /\ c.typed = <<>> /\ c.passwords = a.passwords /\ c.prompts = a.prompts
    BY <1>2 DEF SshType, Same
  <2> HIDE DEF c
  <2>2. /\ t \in SshType /\ Same(c, t) /\ Book(c, t) /\ t.state = "AuthenticatePasswordStart" /\ t.gui = c.gui
        /\ c.notified => t.notified
    BY SMTT(30), <1>1, <1>7, <2>1, SetStateOK
  <2>3. /\ t.socket = s.socket /\ t.watcher = s.watcher /\ Threads(s, t) /\ t.verified /\ ~t.blind
        /\ t.gui = "process" /\ (s.notified => t.notified) /\ t.typed = <<>>
        /\ t.passwords = 0 /\ t.prompts \in 0 .. 4 /\ t.walk = 0
    BY <1>1, <1>2, <2>1, <2>2 DEF Same, Book, Threads, MaxPasswordTries
  <2>4. Asked(t)
    BY <2>2, <2>3 DEF Asked, Unverified, NoPromptYet, AskedForKey, AskedForPassword, MaxPasswordTries
  <2>5. Typed(t)
    BY <2>2, <2>3 DEF Typed, Unverified, NoPromptYet, PasswordInput
  <2>6. t.state \notin Unverified \cup {"SetEnv", "StartShell", "Operational"} /\ t.state \notin Ended
    BY <2>2 DEF Unverified, Ended
  <2> QED BY <2>2, <2>3, <2>4, <2>5, <2>6, AuthOK
<1> QED BY <1>3, <1>4, <1>5, <1>6, <1>7

\* One more password was sent.
LEMMA PasswordSentOK ==
    ASSUME NEW s \in SshType, s.verified, ~s.blind, NEW t,
           t = [InjectRead(SendSecret(s)) EXCEPT !.typed = <<>>, !.passwords = @ + 1]
    PROVE  /\ t \in SshType /\ Same(s, t) /\ t.gui = s.gui /\ t.notified = s.notified /\ t.state = s.state
           /\ t.typed = <<>> /\ t.walk = s.walk /\ t.passwords = s.passwords + 1 /\ t.prompts = s.prompts
<1> DEFINE a == [InjectRead(SendSecret(s)) EXCEPT !.typed = <<>>]
           k == a.passwords + 1
<1>1. /\ a \in SshType /\ Same(s, a) /\ a.gui = s.gui /\ a.notified = s.notified /\ a.state = s.state
      /\ a.typed = <<>> /\ a.walk = s.walk /\ a.passwords = s.passwords /\ a.prompts = s.prompts
  BY SentOK
<1>2. t = [a EXCEPT !.passwords = k]
  BY SMTT(30)
<1> HIDE DEF a
<1>3. k \in Nat /\ k = s.passwords + 1
  BY <1>1 DEF SshType
<1> HIDE DEF k
<1>4. /\ t \in SshType /\ Same(a, t) /\ t.gui = a.gui /\ t.notified = a.notified /\ t.state = a.state
      /\ t.typed = a.typed /\ t.walk = a.walk /\ t.passwords = k /\ t.prompts = a.prompts
  BY ZenonT(60), <1>1, <1>2, <1>3 DEF SshType, Same
<1> QED BY <1>1, <1>3, <1>4 DEF Same

\* A password is sent; the next prompt, the channel or the end follows.
LEMMA PasswordOK ==
    ASSUME NEW s, SshOK(s), s.gui = "process", s.state = "AuthenticatePassword",
           NEW ok \in BOOLEAN, NEW t, t = AuthenticateWithPassword(s, ok)
    PROVE  SshOK(t)
<1> DEFINE a == [InjectRead(SendSecret(s)) EXCEPT !.typed = <<>>, !.passwords = @ + 1]
           k == s.walk + 1
           b == [a EXCEPT !.walk = k]
<1>1. /\ s \in SshType /\ s.verified /\ ~s.blind /\ s.state \notin Ended
      /\ {"AuthenticatePasswordStart", "Failure", "OpenChannel"} \subseteq SshStates
  BY DEF SshOK, Verified, SshStates, Unverified, Ended
<1>2. /\ a \in SshType /\ Same(s, a) /\ a.gui = s.gui /\ a.notified = s.notified /\ a.state = s.state
      /\ a.typed = <<>> /\ a.walk = s.walk /\ a.passwords = s.passwords + 1 /\ a.prompts = s.prompts
  BY ZenonT(60), <1>1, PasswordSentOK
<1>3. \/ t = SetState(a, "OpenChannel")
      \/ k < MaxPasswordTries /\ t = SetState([a EXCEPT !.walk = @ + 1], "AuthenticatePasswordStart")
      \/ t = SetState([a EXCEPT !.walk = @ + 1], "Failure")
  BY DEF AuthenticateWithPassword
<1> HIDE DEF a
<1>4. [a EXCEPT !.walk = @ + 1] = b
  BY <1>2
<1>5. k \in 1 .. 3 /\ k \in Nat /\ s.walk = k - 1 /\ s.passwords = k - 1 /\ s.prompts \in Nat /\ s.prompts <= 4 + k
  BY DEF SshOK, SshType, Asked, AskedForPassword, MaxPasswordTries
<1> DEFINE Sent(q) == /\ q.socket = s.socket /\ q.watcher = s.watcher /\ Threads(s, q) /\ q.verified /\ ~q.blind
                      /\ q.gui = "process" /\ (s.notified => q.notified) /\ q.typed = <<>>
                      /\ q.passwords = k /\ q.prompts = s.prompts
<1>6. CASE t = SetState(a, "OpenChannel")
  <2>1. /\ t \in SshType /\ Same(a, t) /\ Book(a, t) /\ t.state = "OpenChannel" /\ t.gui = a.gui
        /\ a.notified => t.notified
    BY SMTT(30), <1>1, <1>2, <1>6, SetStateOK
  <2> HIDE DEF k
  <2>2. Sent(t)
    BY <1>1, <1>2, <1>5, <2>1 DEF Same, Book, Threads
  <2>3. Asked(t)
    BY <1>5, <2>1, <2>2 DEF Asked, Unverified, NoPromptYet, AskedForKey, AskedForPassword, MaxPasswordTries
  <2>4. Typed(t)
    BY <2>1, <2>2 DEF Typed, Unverified, NoPromptYet, PasswordInput
  <2>5. t.state \notin Unverified \cup {"SetEnv", "StartShell", "Operational"} /\ t.state \notin Ended
    BY <2>1 DEF Unverified, Ended
  <2> QED BY <1>1, <2>1, <2>2, <2>3, <2>4, <2>5, AuthOK
<1>7. ASSUME NEW next \in {"AuthenticatePasswordStart", "Failure"},
             next = "AuthenticatePasswordStart" => k < MaxPasswordTries,
             t = SetState(b, next)
      PROVE  SshOK(t)
  <2> HIDE DEF k
  <2>1. /\ b \in SshType /\ Same(a, b) /\ b.gui = a.gui /\ b.notified = a.notified /\ b.walk = k
        /\ b.state = a.state /\ b.typed = a.typed /\ b.passwords = a.passwords /\ b.prompts = a.prompts
    BY <1>2, <1>5, WalkOK
  <2> HIDE DEF b
  <2>2. /\ t \in SshType /\ Same(b, t) /\ Book(b, t) /\ t.state = next /\ t.gui = b.gui
        /\ (b.notified => t.notified) /\ (next \in Ended /\ b.state # next => t.notified)
    BY <1>1, <1>7, <2>1, SetStateOK
  <2>3. Sent(t) /\ t.walk = k
    BY <1>1, <1>2, <1>5, <2>1, <2>2 DEF Same, Book, Threads
  <2>4. Asked(t)
    BY <1>5, <1>7, <2>2, <2>3 DEF Asked, Unverified, NoPromptYet, AskedForKey, AskedForPassword, MaxPasswordTries
  <2>5. Typed(t)
    BY <1>7, <2>2, <2>3 DEF Typed, Unverified, NoPromptYet, PasswordInput
  <2>6. t.state \notin Unverified \cup {"SetEnv", "StartShell", "Operational"} /\ (t.state \in Ended => t.notified)
    BY <1>2, <1>7, <2>1, <2>2 DEF Unverified, Ended
  <2> QED BY <1>1, <2>2, <2>3, <2>4, <2>5, <2>6, AuthOK
<1> QED BY <1>3, <1>4, <1>6, <1>7

\* The user is asked: the input starts empty.
LEMMA PromptOK ==
    ASSUME NEW s, SshOK(s), s.gui = "process", NEW next, NEW t, t = Prompt(s, next),
           \/ s.state = "AuthenticatePrivateKeyRequest" /\ next = "AuthenticatePrivateKeyWaitForInput"
           \/ s.state = "AuthenticatePasswordStart" /\ next = "AuthenticatePasswordWaitForInput"
    PROVE  SshOK(t)
<1> DEFINE e == <<>>
           k == s.prompts + 1
           a == [s EXCEPT !.entered = e, !.prompts = k]
           b == SetState(a, next)
           c == InjectRead(b)
<1>1. s \in SshType /\ s.verified /\ ~s.blind /\ s.state \notin Ended /\ next \in SshStates /\ s.typed = <<>> /\ s.prompts \in Nat
  BY DEF SshOK, SshType, Verified, Typed, SshStates, Unverified, Ended
<1>2. t = Return(c)
  BY DEF Prompt
<1>3. e = <<>> /\ e \in Seq(WrittenBuffers) /\ k \in Nat /\ k = s.prompts + 1
  BY <1>1
<1> HIDE DEF e, k
<1>4. /\ a \in SshType /\ Same(s, a) /\ a.gui = s.gui /\ a.notified = s.notified /\ a.state = s.state
      /\ a.typed = s.typed /\ a.entered = e /\ a.walk = s.walk /\ a.passwords = s.passwords /\ a.prompts = k
  BY ZenonT(60), <1>1, <1>3 DEF SshType, Same
<1> HIDE DEF a
<1>5. /\ b \in SshType /\ Same(a, b) /\ Book(a, b) /\ b.state = next /\ b.gui = a.gui
      /\ a.notified => b.notified
  BY <1>1, <1>4, SetStateOK
<1> HIDE DEF b
<1>6. /\ c \in SshType /\ Same(b, c) /\ Book(b, c)
      /\ c.state = b.state /\ c.gui = b.gui /\ c.notified = b.notified
  BY <1>5, InjectReadOK
<1> HIDE DEF c
<1>7. /\ t \in SshType /\ Same(c, t) /\ Book(c, t)
      /\ t.state = c.state /\ t.gui = "idle" /\ t.notified = c.notified
  BY <1>2, <1>6, ReturnOK
<1>8. /\ t.socket = s.socket /\ t.watcher = s.watcher /\ Threads(s, t) /\ t.verified /\ ~t.blind
      /\ (s.notified => t.notified) /\ t.typed = <<>> /\ t.entered = <<>>
      /\ t.walk = s.walk /\ t.passwords = s.passwords /\ t.prompts = k /\ t.state = next
  BY <1>1, <1>3, <1>4, <1>5, <1>6, <1>7 DEF Same, Book, Threads
<1>9. Asked(t)
  <2>1. s.walk \in Nat /\ s.passwords \in Nat
    BY <1>1 DEF SshType
  <2>2. CASE s.state = "AuthenticatePrivateKeyRequest" /\ next = "AuthenticatePrivateKeyWaitForInput"
    <3>1. s.walk \in 1 .. 4 /\ s.prompts = s.walk - 1 /\ s.passwords = 0
      BY <2>2 DEF SshOK, Asked, MaxPasswordTries
    <3> QED BY <1>3, <1>8, <2>2, <3>1
        DEF Asked, Unverified, NoPromptYet, AskedForKey, AskedForPassword, MaxPasswordTries
  <2>3. CASE s.state = "AuthenticatePasswordStart" /\ next = "AuthenticatePasswordWaitForInput"
    <3>1. s.walk < 3 /\ s.passwords = s.walk /\ s.prompts <= 4 + s.walk
      BY <2>3 DEF SshOK, Asked, MaxPasswordTries
    <3> QED BY <1>1, <1>3, <1>8, <2>1, <2>3, <3>1
        DEF Asked, Unverified, NoPromptYet, AskedForKey, AskedForPassword, MaxPasswordTries
  <2> QED BY <2>2, <2>3
<1>10. Typed(t)
  BY <1>8 DEF Typed
<1>11. t.state \notin Unverified \cup {"SetEnv", "StartShell", "Operational"} /\ t.state \notin Ended
  BY <1>8 DEF Unverified, Ended
<1> QED BY <1>1, <1>7, <1>8, <1>9, <1>10, <1>11, AuthOK

\* The channel is opened.
LEMMA OpenChannelOK ==
    ASSUME NEW s, SshOK(s), s.gui = "process", s.state = "OpenChannel",
           NEW t, t = SetState([s EXCEPT !.channel = TRUE], "RequestAuthAgent")
    PROVE  SshOK(t)
<1> DEFINE a == [s EXCEPT !.channel = TRUE]
<1>1. s \in SshType /\ "RequestAuthAgent" \in SshStates
  BY DEF SshOK, SshStates
<1>2. a \in SshType /\ Same(s, a) /\ Book(s, a) /\ a.gui = s.gui /\ a.notified = s.notified
  BY <1>1 DEF SshType, Same, Book
<1>a. t = SetState(a, "RequestAuthAgent")
  OBVIOUS
<1> HIDE DEF a
<1>3. /\ t \in SshType /\ Same(a, t) /\ Book(a, t) /\ t.state = "RequestAuthAgent" /\ t.gui = a.gui
      /\ a.notified => t.notified
  BY <1>1, <1>2, <1>a, SetStateOK
<1>4. Same(s, t) /\ Book(s, t)
  BY <1>2, <1>3 DEF Same, Book, Threads
<1>5. t.gui \in {"process", "idle"} /\ (s.notified => t.notified) /\ t.state \notin Ended
      /\ Onward(s.state, t.state, t.gui)
  BY <1>2, <1>3 DEF Onward, Ended
<1> QED BY <1>3, <1>4, <1>5, OnwardOK

\* The terminal is requested with the size of this moment.
LEMMA RequestPtyOK ==
    ASSUME NEW s, SshOK(s), s.gui = "process", s.state = "RequestPty", NEW ok \in BOOLEAN,
           NEW t, t = RequestPty(s, ok)
    PROVE  SshOK(t)
<1> DEFINE a == [s EXCEPT !.remote = s.size, !.walk = 0]
<1>1. s \in SshType /\ {"SetEnv", "Failure"} \subseteq SshStates /\ s.verified /\ ~s.blind
  BY DEF SshOK, SshStates, Verified, Unverified, Ended
<1>2. CASE t = SetState(a, "SetEnv")
  <2>1. /\ a \in SshType /\ Same(s, a) /\ a.gui = s.gui /\ a.notified = s.notified /\ a.state = s.state
        /\ a.passwords = s.passwords /\ a.prompts = s.prompts /\ a.remote = s.size
    BY <1>1 DEF SshType, Same
  <2> HIDE DEF a
  <2>2. /\ t \in SshType /\ Same(a, t) /\ Book(a, t) /\ t.state = "SetEnv" /\ t.gui = a.gui
        /\ a.notified => t.notified
    BY <1>1, <1>2, <2>1, SetStateOK
  <2>3. /\ t.socket = s.socket /\ t.watcher = s.watcher /\ Threads(s, t) /\ t.verified /\ ~t.blind /\ t.gui = "process"
        /\ (s.notified => t.notified) /\ t.passwords = s.passwords /\ t.prompts = s.prompts
        /\ t.remote = t.size
    BY <1>1, <2>1, <2>2 DEF Same, Book, Threads
  <2>4. Verified(t) /\ Told(t)
    BY <2>2, <2>3 DEF SshOK, Verified, Told, Threads
  <2>5. Asked(t)
    BY <2>2, <2>3 DEF SshOK, Asked, Unverified, NoPromptYet, AskedForKey, AskedForPassword
  <2>6. Typed(t)
    BY <2>2, <2>3 DEF Typed, Unverified, NoPromptYet, PasswordInput
  <2>7. Noticed(t)
    BY <2>2, <2>3 DEF SshOK, Noticed, IsClosed, Ended, Threads
  <2> QED BY <2>2, <2>4, <2>5, <2>6, <2>7 DEF SshOK
<1>3. CASE t = Return(SetState(s, "Failure"))
  BY <1>1, <1>3, SetStateOnward DEF Onward, Ended
<1> QED BY <1>2, <1>3 DEF RequestPty

\* The shell starts; the reader is woken.
LEMMA StartShellOK ==
    ASSUME NEW s, SshOK(s), s.gui = "process", s.state = "StartShell", NEW ok \in BOOLEAN,
           NEW t, t = StartShell(s, ok)
    PROVE  SshOK(t)
<1> DEFINE a == SetState(s, "Operational")
           b == [a EXCEPT !.woken = TRUE]
<1>1. s \in SshType /\ {"Operational", "Failure"} \subseteq SshStates
  BY DEF SshOK, SshStates
<1>2. CASE t = Return(b)
  <2>1. /\ a \in SshType /\ Same(s, a) /\ Book(s, a) /\ a.state = "Operational" /\ a.gui = s.gui
        /\ s.notified => a.notified
    BY <1>1, SetStateOK
  <2> HIDE DEF a
  <2>2. /\ b \in SshType /\ Same(a, b) /\ Book(a, b) /\ b.gui = a.gui /\ b.notified = a.notified
        /\ b.state = a.state
    BY <2>1 DEF SshType, Same, Book
  <2> HIDE DEF b
  <2>3. /\ t \in SshType /\ Same(b, t) /\ Book(b, t)
        /\ t.state = b.state /\ t.gui = "idle" /\ t.notified = b.notified
    BY <1>2, <2>2, ReturnOK
  <2>4. Same(s, t) /\ Book(s, t)
    BY <2>1, <2>2, <2>3 DEF Same, Book, Threads
  <2>5. t.gui \in {"process", "idle"} /\ (s.notified => t.notified) /\ t.state \notin Ended
        /\ Onward(s.state, t.state, t.gui)
    BY <2>1, <2>2, <2>3 DEF Onward, Ended
  <2> QED BY <2>3, <2>4, <2>5, OnwardOK
<1>3. CASE t = Return(SetState(s, "Failure"))
  BY <1>1, <1>3, SetStateOnward DEF Onward, Ended
<1> QED BY <1>2, <1>3 DEF StartShell

\* The other side takes the new size or refuses it.
LEMMA RequestSizeOK ==
    ASSUME NEW s, SshOK(s), s.gui = "process", s.state = "ResizeScreen", NEW ok \in BOOLEAN,
           NEW t, t = RequestSize(s, ok)
    PROVE  SshOK(t)
<1> DEFINE h == s.shared /\ s.reader \in {"sends", "sent"}
<1>1. s \in SshType
  BY DEF SshOK
<1>2. CASE t = [s EXCEPT !.remote = s.size, !.gui = "resized", !.shared = h]
  <2>0. h \in BOOLEAN /\ (s.reader \in Sending => h)
    BY <1>1 DEF SshOK, Told, Sending
  <2> HIDE DEF h
  <2>1. /\ t \in SshType /\ t.gui = "resized" /\ t.notified = s.notified /\ t.state = s.state
        /\ t.passwords = s.passwords /\ t.prompts = s.prompts /\ t.remote = s.size /\ t.shared = h
        /\ t.socket = s.socket /\ t.reader = s.reader /\ t.watcher = s.watcher /\ t.size = s.size
        /\ t.verified = s.verified /\ t.blind = s.blind /\ t.reopened = s.reopened
    BY ZenonT(60), <1>1, <1>2, <2>0 DEF SshType
  <2>2. Verified(t)
    BY <2>1 DEF SshOK, Verified, Unverified, Ended
  <2>3. Asked(t)
    BY <2>1 DEF SshOK, Asked, Unverified, NoPromptYet, AskedForKey, AskedForPassword
  <2>4. Typed(t)
    BY <2>1 DEF Typed, Unverified, NoPromptYet, PasswordInput
  <2>5. Told(t) /\ Noticed(t)
    BY <2>0, <2>1 DEF SshOK, Told, Noticed, IsClosed
  <2> QED BY <2>1, <2>2, <2>3, <2>4, <2>5 DEF SshOK
<1>3. CASE t = Return(s)
  BY <1>3, ReturnOnward
<1> QED BY <1>2, <1>3 DEF RequestSize

\* Every step of processState().
LEMMA ProcessOneOK ==
    ASSUME NEW s, SshOK(s), s.gui = "process", NEW ok \in BOOLEAN, NEW t, t = ProcessOne(s, ok)
    PROVE  SshOK(t)
<1>0. s \in SshType /\ s.state \in SshStates
  BY DEF SshOK, SshType
<1>1. CASE s.state = "Started"
  <2>1. t = SetState(s, "Connect") /\ "Connect" \in SshStates /\ Onward(s.state, "Connect", "process")
    BY <1>1 DEF ProcessOne, SshStates, Onward
  <2> QED BY <2>1, SetStateOnward
<1>2. CASE s.state = "Connect"
  <2>1. t = Connect(s)
    BY <1>2 DEF ProcessOne
  <2> QED BY <1>2, <2>1, ConnectOK
<1>3. CASE s.state = "Handshake"
  <2> DEFINE c == Close(s)
  <2>1. "VerifyHostKey" \in SshStates /\ Onward(s.state, "VerifyHostKey", "process")
    BY <1>3 DEF SshStates, Onward
  <2>2. SshOK(c) /\ c.gui = "process" /\ c.state = "Closed"
    BY CloseOK
  <2>3. t = SetState(s, "VerifyHostKey") \/ t = Return(c)
    BY <1>3 DEF ProcessOne, Handshake
  <2> HIDE DEF c
  <2>4. c.state \notin {"SetEnv", "StartShell"}
    BY <2>2
  <2> QED BY <2>1, <2>2, <2>3, <2>4, SetStateOnward, ReturnOnward
<1>4. CASE s.state = "VerifyHostKey"
  <2>1. t = VerifyHostKey(s)
    BY <1>4 DEF ProcessOne
  <2> QED BY <1>4, <2>1, VerifyHostKeyOK
<1>5. CASE s.state = "AuthenticateAgent"
  <2>1. t = AuthenticateWithAgent(s)
    BY <1>5 DEF ProcessOne
  <2> QED BY <1>5, <2>1, AgentOK
<1>6. CASE s.state = "AuthenticatePrivateKeyStart"
  <2> DEFINE e == <<>>
             w == [s EXCEPT !.walk = 0, !.typed = e]
  <2>1. t = AuthenticateWithPrivateKey(w, ok)
    BY <1>6 DEF ProcessOne
  <2>2. e \in Seq(WrittenBuffers)
    OBVIOUS
  <2> HIDE DEF e
  <2>3. /\ w \in SshType /\ Same(s, w) /\ w.gui = s.gui /\ w.notified = s.notified
        /\ w.walk = 0 /\ w.prompts = s.prompts /\ w.passwords = s.passwords
    BY <1>0, <2>2 DEF SshType, Same
  <2> HIDE DEF w
  <2>4. s.prompts = 0 /\ s.passwords = 0 /\ s.state \notin Unverified \cup Ended
    BY <1>6 DEF SshOK, Asked, NoPromptYet, Unverified, Ended
  <2>5. w.walk \in 0 .. MaxPasswordTries + 1 /\ w.prompts = w.walk /\ w.passwords = 0
    BY <2>3, <2>4 DEF MaxPasswordTries
  <2> QED BY <2>1, <2>3, <2>4, <2>5, PrivateKeyOK
<1>7. CASE s.state = "AuthenticatePrivateKey"
  <2>1. t = AuthenticateWithPrivateKey(s, ok)
    BY <1>7 DEF ProcessOne
  <2>2. s.walk \in 0 .. MaxPasswordTries + 1 /\ s.prompts = s.walk /\ s.passwords = 0
    BY <1>7 DEF SshOK, Asked, AskedForKey, MaxPasswordTries
  <2>3. Same(s, s) /\ s.state \notin Unverified \cup Ended
    BY <1>7 DEF Same, Unverified, Ended
  <2> QED BY <1>0, <2>1, <2>2, <2>3, PrivateKeyOK
<1>8. CASE s.state = "AuthenticatePrivateKeyRequest"
  <2>1. t = Prompt(s, "AuthenticatePrivateKeyWaitForInput")
    BY <1>8 DEF ProcessOne
  <2> QED BY <1>8, <2>1, PromptOK
<1>9. CASE s.state = "AuthenticatePasswordStart"
  <2>1. t = Prompt(s, "AuthenticatePasswordWaitForInput")
    BY <1>9 DEF ProcessOne
  <2> QED BY <1>9, <2>1, PromptOK
<1>10. CASE s.state = "AuthenticatePassword"
  <2>1. t = AuthenticateWithPassword(s, ok)
    BY <1>10 DEF ProcessOne
  <2> QED BY <1>10, <2>1, PasswordOK
<1>11. CASE s.state = "OpenChannel"
  <2>1. \/ t = SetState([s EXCEPT !.channel = TRUE], "RequestAuthAgent")
        \/ t = Return(SetState(s, "Failure"))
    BY <1>11 DEF ProcessOne
  <2>2. "Failure" \in SshStates /\ Onward(s.state, "Failure", "idle")
    BY DEF SshStates, Onward, Ended
  <2> QED BY <1>11, <2>1, <2>2, OpenChannelOK, SetStateOnward
<1>12. CASE s.state = "RequestAuthAgent"
  <2>1. t = SetState(s, "RequestPty") /\ "RequestPty" \in SshStates /\ Onward(s.state, "RequestPty", "process")
    BY <1>12 DEF ProcessOne, SshStates, Onward
  <2> QED BY <2>1, SetStateOnward
<1>13. CASE s.state = "RequestPty"
  <2>1. t = RequestPty(s, ok)
    BY <1>13 DEF ProcessOne
  <2> QED BY <1>13, <2>1, RequestPtyOK
<1>14. CASE s.state = "SetEnv"
  <2>1. t = SetState(s, "StartShell") /\ "StartShell" \in SshStates /\ Onward(s.state, "StartShell", "process")
    BY <1>14 DEF ProcessOne, SshStates, Onward
  <2> QED BY <2>1, SetStateOnward
<1>15. CASE s.state = "StartShell"
  <2>1. t = StartShell(s, ok)
    BY <1>15 DEF ProcessOne
  <2> QED BY <1>15, <2>1, StartShellOK
<1>16. CASE s.state = "ResizeScreen"
  <2>1. t = RequestSize(s, ok)
    BY <1>16 DEF ProcessOne
  <2> QED BY <1>16, <2>1, RequestSizeOK
<1>17. CASE s.state \in {"Initial", "Operational", "Failure", "Closed"} \cup PasswordInput
  <2>1. t = Return(s) /\ s.state \notin {"SetEnv", "StartShell"}
    BY <1>17 DEF ProcessOne, PasswordInput
  <2> QED BY <2>1, ReturnOnward
<1> QED BY <1>0, <1>1, <1>2, <1>3, <1>4, <1>5, <1>6, <1>7, <1>8, <1>9, <1>10, <1>11, <1>12,
           <1>13, <1>14, <1>15, <1>16, <1>17 DEF SshStates, PasswordInput

-----------------------------------------------------------------------------
(* The other actions.                                                      *)

\* A step that leaves the state machine where it is and its books alone.
LEMMA KeepOK ==
    ASSUME NEW s, SshOK(s), NEW t \in SshType, Book(s, t), t.state = s.state,
           t.verified = s.verified, t.blind = s.blind, t.gui \in {"resizes", "resized"} => s.verified,
           t.reader \in Sending => s.verified, Told(t), Noticed(t)
    PROVE  SshOK(t)
<1>1. Verified(t)
  BY DEF SshOK, Verified
<1>2. Asked(t)
  BY DEF SshOK, Asked, Book
<1>3. Typed(t)
  BY DEF SshOK, Typed, Book
<1> QED BY <1>1, <1>2, <1>3 DEF SshOK

LEMMA SshStarts == ASSUME SshInit PROVE SshInv
<1> DEFINE e == <<>>
           h == [addresses |-> 0, good |-> {}, agent |-> "none", key |-> FALSE, known |-> "none"]
<1>1. e \in Seq(WrittenBuffers)
  OBVIOUS
<1>2. h \in HostType
  BY DEF HostType, Agents
<1>3. ssh = [host |-> h,
         state |-> "Initial", gui |-> "setup", crashed |-> FALSE, socket |-> "none", channel |-> FALSE,
         walk |-> 0, typed |-> e, inject |-> FALSE, woken |-> FALSE,
         reader |-> "off", watcher |-> "off", notified |-> FALSE,
         agentMade |-> FALSE, size |-> 0, remote |-> 0, told |-> 0, shared |-> FALSE, reopened |-> FALSE,
         entered |-> e, verified |-> FALSE, blind |-> FALSE,
         passwords |-> 0, prompts |-> 0, submits |-> TRUE]
  BY DEF SshInit
<1>4. e = <<>>
  OBVIOUS
<1> HIDE DEF e, h
<1>5. ssh \in SshType
  BY <1>1, <1>2, <1>3 DEF SshType, SshStates, Readers
<1>6. /\ ssh.state = "Initial" /\ ssh.gui = "setup" /\ ssh.walk = 0 /\ ssh.typed = e /\ ssh.entered = e
      /\ ssh.reader = "off" /\ ssh.watcher = "off" /\ ssh.blind = FALSE /\ ssh.passwords = 0 /\ ssh.prompts = 0
  BY <1>3
<1>7. Verified(ssh)
  BY <1>6 DEF Verified, Unverified, Sending
<1>8. Asked(ssh)
  BY <1>6 DEF Asked, MaxPasswordTries, Unverified, NoPromptYet, AskedForKey, AskedForPassword
<1>9. Typed(ssh)
  BY <1>4, <1>6 DEF Typed
<1>10. Told(ssh) /\ Noticed(ssh)
  BY <1>6 DEF Told, Noticed, Sending
<1> QED BY <1>5, <1>7, <1>8, <1>9, <1>10 DEF SshInv, SshOK

\* The hosts of the model have the type of a host.
LEMMA HostsTyped == ASSUME NEW h \in Hosts PROVE h \in HostType
<1> DEFINE A == 0 .. MaxAddresses
           G == SUBSET (1 .. MaxAddresses)
<1>1. A \subseteq Nat /\ G \subseteq SUBSET Nat
  BY SshAssumption
<1>2. {{1}} \subseteq SUBSET Nat /\ {"accepts"} \subseteq Agents /\ {FALSE} \subseteq BOOLEAN
  BY DEF Agents
<1>3. \/ h \in [addresses : A, good : G, agent : {"accepts"}, key : {FALSE}, known : {"match"}]
      \/ h \in [addresses : {1}, good : {{1}}, agent : Agents, key : BOOLEAN,
                known : {"none", "mismatch", "unwritable"}]
  BY DEF Hosts
<1> HIDE DEF A, G
<1> QED BY <1>1, <1>2, <1>3 DEF HostType

\* The host is given.
LEMMA ChooseHostKeeps == ASSUME SshInv, NEW h \in Hosts, ChooseHost(h) PROVE SshInv'
<1> DEFINE s == ssh
           t == ssh'
<1>1. s \in SshType /\ s.gui = "setup" /\ s.state = "Initial" /\ s.reader = "off" /\ s.watcher = "off"
      /\ t = [s EXCEPT !.host = h, !.gui = "idle"]
  BY DEF SshInv, SshOK, ChooseHost, Noticed
<1>2. h \in HostType
  BY HostsTyped
<1>3. SshOK(s)
  BY DEF SshInv
<1> HIDE DEF s, t
<1>4. /\ t \in SshType /\ Book(s, t) /\ t.state = s.state /\ t.verified = s.verified /\ t.blind = s.blind
      /\ t.gui = "idle" /\ t.reader = "off" /\ t.watcher = "off"
  BY <1>1, <1>2 DEF SshType, Book
<1>5. Told(t) /\ Noticed(t)
  BY <1>1, <1>4 DEF Told, Noticed, Sending
<1>6. SshOK(t)
  BY <1>3, <1>4, <1>5, KeepOK DEF Sending
<1> QED BY <1>6 DEF SshInv, t

\* start(): the GUI thread begins with the connection.
LEMMA StartKeeps == ASSUME SshInv, Start PROVE SshInv'
<1> DEFINE s == ssh
           t == ssh'
           a == InjectRead(s)
           b == SetState(a, "Started")
<1>1. /\ SshOK(s) /\ s \in SshType /\ s.gui = "idle" /\ s.state = "Initial" /\ s.reader = "off" /\ s.watcher = "off"
      /\ t = [b EXCEPT !.gui = "process"] /\ "Started" \in SshStates
  BY DEF SshInv, SshOK, Start, GuiIdle, Noticed, SshStates
<1> HIDE DEF s, t
<1>2. /\ a \in SshType /\ Same(s, a) /\ Book(s, a)
      /\ a.state = s.state /\ a.gui = s.gui /\ a.notified = s.notified
  BY <1>1, InjectReadOK
<1> HIDE DEF a
<1>3. b \in SshType /\ Same(a, b) /\ Book(a, b) /\ b.state = "Started" /\ b.gui = a.gui
  BY <1>1, <1>2, SetStateOK
<1> HIDE DEF b
<1>4. t \in SshType /\ Same(b, t) /\ Book(b, t) /\ t.state = b.state /\ t.gui = "process"
  BY <1>1, <1>3 DEF SshType, Same, Book
<1>5. /\ t.state = "Started" /\ Book(s, t) /\ t.blind = s.blind /\ t.reader = "off" /\ t.watcher = "off"
  BY <1>1, <1>2, <1>3, <1>4 DEF Same, Book, Threads
<1>6. Verified(t)
  BY <1>1, <1>4, <1>5 DEF SshOK, Verified, Unverified, Sending
<1>7. Asked(t)
  BY <1>1, <1>5 DEF SshOK, Asked, Book, Unverified, NoPromptYet, AskedForKey, AskedForPassword
<1>8. Typed(t)
  BY <1>1, <1>5 DEF SshOK, Typed, Book, Unverified, NoPromptYet, PasswordInput
<1>9. Told(t) /\ Noticed(t)
  BY <1>4, <1>5 DEF Told, Noticed, Sending
<1>10. SshOK(t)
  BY <1>4, <1>6, <1>7, <1>8, <1>9 DEF SshOK
<1> QED BY <1>10 DEF SshInv, t

\* The reader and the watcher start.
LEMMA StartThreadsKeeps == ASSUME SshInv, StartThreads PROVE SshInv'
<1> DEFINE s == ssh
           t == ssh'
<1>1. /\ SshOK(s) /\ s \in SshType /\ s.gui = "idle" /\ s.state # "Initial"
      /\ t = [s EXCEPT !.reader = "ready", !.watcher = "checks"]
  BY DEF SshInv, SshOK, StartThreads, GuiIdle
<1> HIDE DEF s, t
<1>2. /\ t \in SshType /\ Book(s, t) /\ t.state = s.state /\ t.verified = s.verified /\ t.blind = s.blind
      /\ t.gui = s.gui /\ t.size = s.size /\ t.watcher = "checks"
      /\ t.reader = "ready" /\ t.shared = s.shared
  BY ZenonT(60), <1>1 DEF SshType, Book, Readers
<1>3. Told(t)
  BY <1>1, <1>2 DEF SshOK, Told, Book, Sending
<1>4. Noticed(t)
  BY <1>1, <1>2 DEF Noticed
<1>5. SshOK(t)
  BY <1>1, <1>2, <1>3, <1>4, KeepOK DEF Sending
<1> QED BY <1>5 DEF SshInv, t

\* A resize stores its state over any other.
LEMMA OverwriteOK ==
    ASSUME NEW s, SshOK(s), s.verified, s.gui # "setup", NEW next \in {"Operational", "ResizeScreen"},
           NEW t, t = Overwrite(s, next)
    PROVE  /\ t \in SshType /\ Verified(t) /\ Asked(t) /\ Typed(t) /\ Noticed(t) /\ Book(s, t)
           /\ t.state = next /\ t.gui = s.gui /\ t.reader = s.reader /\ t.watcher = s.watcher
           /\ t.notified = s.notified /\ t.size = s.size /\ t.shared = s.shared
           /\ t.verified = s.verified /\ t.blind = s.blind /\ t.socket = s.socket
           /\ ~t.reopened => ~s.reopened /\ s.state \notin Ended
<1> DEFINE h == s.reopened \/ s.state \in Ended
           a == SetState(s, next)
<1>1. s \in SshType /\ next \in SshStates /\ next \notin Ended /\ h \in BOOLEAN /\ s.notified \in BOOLEAN
  BY DEF SshOK, SshType, SshStates, Ended
<1>a. (s.notified \/ (s.state # next /\ next \in Ended)) = s.notified
  BY <1>1
<1>b. a = [s EXCEPT !.state = next, !.notified = s.notified]
  BY Zenon, <1>a DEF SetState
<1>2. t = [a EXCEPT !.reopened = h] /\ a = [s EXCEPT !.state = next, !.notified = s.notified]
  <2>1. a.reopened = s.reopened
    BY <1>1, <1>b DEF SshType
  <2>2. t = [a EXCEPT !.reopened = a.reopened \/ s.state \in Ended]
    BY Zenon DEF Overwrite
  <2> QED BY Zenon, <1>b, <2>1, <2>2
<1>3. h = FALSE => ~s.reopened /\ s.state \notin Ended
  BY <1>1 DEF SshType
<1> HIDE DEF h, a
<1>4. a \in SshType /\ Same(s, a) /\ Book(s, a) /\ a.state = next /\ a.gui = s.gui /\ a.notified = s.notified
  BY ZenonT(60), <1>1, <1>2 DEF SshType, Same, Book
<1>5. /\ t \in SshType /\ Book(a, t) /\ t.state = a.state /\ t.gui = a.gui /\ t.reader = a.reader
      /\ t.watcher = a.watcher /\ t.notified = a.notified /\ t.size = a.size /\ t.shared = a.shared
      /\ t.verified = a.verified /\ t.blind = a.blind /\ t.socket = a.socket /\ t.reopened = h
  <2>1. t = [a EXCEPT !.reopened = h] /\ a \in SshType /\ h \in BOOLEAN
    BY <1>1, <1>2, <1>4
  <2>2. t \in SshType /\ t.reopened = h
    BY ZenonT(60), <2>1 DEF SshType
  <2>3. Book(a, t)
    BY ZenonT(60), <2>1 DEF SshType, Book
  <2>4. /\ t.state = a.state /\ t.gui = a.gui /\ t.reader = a.reader
        /\ t.watcher = a.watcher /\ t.notified = a.notified /\ t.size = a.size /\ t.shared = a.shared
        /\ t.verified = a.verified /\ t.blind = a.blind /\ t.socket = a.socket
    BY ZenonT(60), <2>1 DEF SshType
  <2> QED BY <2>2, <2>3, <2>4
<1>6. /\ Book(s, t) /\ t.state = next /\ t.gui = s.gui /\ t.reader = s.reader /\ t.watcher = s.watcher
      /\ t.notified = s.notified /\ t.size = s.size /\ t.shared = s.shared
      /\ t.verified = s.verified /\ t.blind = s.blind /\ t.socket = s.socket
      /\ (~t.reopened => ~s.reopened /\ s.state \notin Ended)
  BY <1>1, <1>3, <1>4, <1>5 DEF Same, Book
<1>7. Verified(t)
  BY <1>6 DEF SshOK, Verified
<1>8. Asked(t)
  BY <1>6 DEF SshOK, Asked, Book, Unverified, NoPromptYet, AskedForKey, AskedForPassword
<1>9. Typed(t)
  BY <1>6 DEF Typed, Unverified, NoPromptYet, PasswordInput
<1>10. Noticed(t)
  BY <1>6 DEF SshOK, Noticed, IsClosed, Ended
<1> QED BY <1>5, <1>6, <1>7, <1>8, <1>9, <1>10

\* The end of resizeScreen() stores Operational, whatever the state is by then.
LEMMA ResizedKeeps == ASSUME SshInv, Resized PROVE SshInv'
<1> DEFINE s == ssh
           t == ssh'
           a == Overwrite(s, "Operational")
<1>1. SshOK(s) /\ s.gui = "resized" /\ t = Return(a) /\ s.verified
  BY DEF SshInv, SshOK, Resized, Verified
<1> HIDE DEF s, t
<1>2. /\ a \in SshType /\ Verified(a) /\ Asked(a) /\ Typed(a) /\ Noticed(a) /\ Book(s, a)
      /\ a.state = "Operational" /\ a.gui = s.gui /\ a.reader = s.reader
      /\ a.size = s.size /\ a.shared = s.shared
  BY <1>1, OverwriteOK
<1> HIDE DEF a
<1>3. /\ t \in SshType /\ Same(a, t) /\ Book(a, t)
      /\ t.state = a.state /\ t.gui = "idle" /\ t.notified = a.notified
  BY <1>1, <1>2, ReturnOK
<1>4. Verified(t) /\ Asked(t) /\ Typed(t)
  BY <1>2, <1>3 DEF Verified, Asked, Typed, Same, Book
<1>5. Told(t)
  BY <1>1, <1>2, <1>3 DEF SshOK, Told, Same, Book
<1>6. Noticed(t)
  BY <1>2, <1>3 DEF Noticed, Same, IsClosed
<1>7. SshOK(t)
  BY <1>3, <1>4, <1>5, <1>6 DEF SshOK
<1> QED BY <1>7 DEF SshInv, t

\* The window gets another size; an operational session goes on to tell it.
LEMMA ResizeScreenKeeps == ASSUME SshInv, ResizeScreen PROVE SshInv'
<1> DEFINE s == ssh
           t == ssh'
           k == s.size + 1
           g == IF s.state = "Operational" THEN "resizes" ELSE s.gui
<1>1. SshOK(s) /\ s \in SshType /\ s.gui = "idle" /\ t = [s EXCEPT !.size = k, !.gui = g]
  BY DEF SshInv, SshOK, ResizeScreen, GuiIdle
<1> HIDE DEF s, t
<1>2. k \in Nat /\ g \in {"idle", "resizes"} /\ (s.state = "Operational" <=> g = "resizes")
  BY <1>1 DEF SshType
<1> HIDE DEF k, g
<1>3. /\ t \in SshType /\ Book(s, t) /\ t.state = s.state /\ t.gui = g /\ t.verified = s.verified
      /\ t.blind = s.blind /\ t.notified = s.notified /\ t.socket = s.socket /\ t.watcher = s.watcher
      /\ t.reader = s.reader /\ t.shared = s.shared /\ t.reopened = s.reopened
  BY ZenonT(60), <1>1, <1>2 DEF SshType, Book
<1>4. Told(t)
  BY <1>1, <1>2, <1>3 DEF SshOK, Told
<1>5. Noticed(t)
  BY <1>1, <1>2, <1>3 DEF SshOK, Noticed, IsClosed
<1>6. (t.gui \in {"resizes", "resized"} => s.verified) /\ (t.reader \in Sending => s.verified)
  BY <1>1, <1>2, <1>3 DEF SshOK, Verified, Unverified, Ended
<1>7. SshOK(t)
  BY <1>1, <1>3, <1>4, <1>5, <1>6, KeepOK
<1> QED BY <1>7 DEF SshInv, t

\* A resize begins, whatever the state is by then.
LEMMA ResizeKeeps == ASSUME SshInv, Resize PROVE SshInv'
<1> DEFINE s == ssh
           t == ssh'
           a == Overwrite(s, "ResizeScreen")
<1>1. SshOK(s) /\ s.gui = "resizes" /\ t = [a EXCEPT !.gui = "process"] /\ s.verified
  BY DEF SshInv, SshOK, Resize, Verified
<1> HIDE DEF s, t
<1>2. /\ a \in SshType /\ Verified(a) /\ Asked(a) /\ Typed(a) /\ Noticed(a)
      /\ a.state = "ResizeScreen" /\ a.reader = s.reader /\ a.shared = s.shared
  BY <1>1, OverwriteOK
<1> HIDE DEF a
<1>3. /\ t \in SshType /\ Same(a, t) /\ Book(a, t) /\ t.state = a.state /\ t.gui = "process"
      /\ t.notified = a.notified
  BY <1>1, <1>2 DEF SshType, Same, Book
<1>4. Verified(t) /\ Asked(t) /\ Typed(t)
  BY <1>2, <1>3 DEF Verified, Asked, Typed, Same, Book
<1>5. Told(t)
  BY <1>1, <1>2, <1>3 DEF SshOK, Told, Same
<1>6. Noticed(t)
  BY <1>2, <1>3 DEF Noticed, Same, IsClosed
<1>7. SshOK(t)
  BY <1>3, <1>4, <1>5, <1>6 DEF SshOK
<1> QED BY <1>7 DEF SshInv, t

\* The window closes: close(), then the reader is joined.
LEMMA DestroySessionKeeps == ASSUME SshInv, DestroySession \/ Joined PROVE SshInv'
<1> DEFINE s == ssh
           t == ssh'
           c == Close(s)
<1>1. CASE DestroySession
  <2>1. SshOK(s) /\ s \in SshType /\ s.gui = "idle" /\ t = [c EXCEPT !.gui = "joins"]
    BY <1>1 DEF SshInv, SshOK, DestroySession, GuiIdle
  <2> HIDE DEF s, t
  <2>2. SshOK(c) /\ c.gui = "idle" /\ c.reader = s.reader /\ c.state = "Closed"
    BY <2>1, CloseOK
  <2>3. c \in SshType
    BY <2>2 DEF SshOK
  <2> HIDE DEF c
  <2>4. /\ t \in SshType /\ Same(c, t) /\ Book(c, t) /\ t.state = c.state /\ t.gui = "joins"
        /\ t.notified = c.notified
    BY <2>1, <2>3 DEF SshType, Same, Book
  <2>5. Told(t) /\ Noticed(t)
    BY <2>2, <2>4 DEF SshOK, Told, Noticed, Same, IsClosed
  <2>6. /\ t.verified = c.verified /\ t.blind = c.blind /\ t.gui \notin {"resizes", "resized"}
        /\ t.reader \in Sending => c.verified
    BY <2>2, <2>4 DEF Same, SshOK, Verified
  <2>7. SshOK(t)
    BY <2>2, <2>4, <2>5, <2>6, KeepOK
  <2> QED BY <2>7 DEF SshInv, t
<1>2. CASE Joined
  <2>1. SshOK(s) /\ s \in SshType /\ s.gui = "joins" /\ t = [s EXCEPT !.gui = "gone"]
    BY <1>2 DEF SshInv, SshOK, Joined
  <2> HIDE DEF s, t
  <2>4. /\ t \in SshType /\ Same(s, t) /\ Book(s, t) /\ t.state = s.state /\ t.gui = "gone"
        /\ t.notified = s.notified
    BY <2>1 DEF SshType, Same, Book
  <2>5. Told(t) /\ Noticed(t)
    BY <2>1, <2>4 DEF SshOK, Told, Noticed, Same, Book, IsClosed
  <2>6. /\ t.verified = s.verified /\ t.blind = s.blind /\ t.gui \notin {"resizes", "resized"}
        /\ t.reader \in Sending => s.verified
    BY <2>1, <2>4 DEF Same, SshOK, Verified
  <2>7. SshOK(t)
    BY <2>1, <2>4, <2>5, <2>6, KeepOK
  <2> QED BY <2>7 DEF SshInv, t
<1> QED BY <1>1, <1>2

\* Input before the session is authenticated.
LEMMA WriteKeeps == ASSUME SshInv, NEW buf \in WrittenBuffers, Write(buf) PROVE SshInv'
<1> DEFINE s == ssh
           t == ssh'
           next == IF ssh.state = "AuthenticatePasswordWaitForInput" THEN "AuthenticatePassword"
                   ELSE "AuthenticatePrivateKey"
           b == SetState(s, next)
           sub == s.submits /\ buf # "x and enter"
<1>0. SshOK(s) /\ s \in SshType /\ s.gui = "idle" /\ ~IsClosed(s) /\ s.state \in PasswordInput
  BY ZenonT(60) DEF SshInv, SshOK, Write, GuiIdle
<1>1. /\ SshOK(s) /\ s \in SshType /\ s.gui = "idle" /\ ~IsClosed(s) /\ s.state \in PasswordInput
      /\ t = HandlePreAuthenticationPasswordInput(s, buf, next)
  BY Zenon, <1>0 DEF Write
<1>2. /\ next \in SshStates
      /\ s.state = "AuthenticatePasswordWaitForInput" => next = "AuthenticatePassword"
      /\ s.state = "AuthenticatePrivateKeyWaitForInput" => next = "AuthenticatePrivateKey"
      /\ sub \in BOOLEAN
  BY DEF SshStates
<1> HIDE DEF next, sub
<1>3. \/ t = [s EXCEPT !.typed = DropLast(@), !.entered = DropLast(@)]
      \/ t = [b EXCEPT !.gui = "process"]
      \/ t = [s EXCEPT !.typed = Append(@, buf), !.entered = Append(@, buf), !.submits = sub]
  BY <1>1 DEF HandlePreAuthenticationPasswordInput, sub
<1> SUFFICES SshOK(t)
  BY DEF SshInv
<1> HIDE DEF s, t
<1>4. s.typed \in Seq(WrittenBuffers) /\ s.entered \in Seq(WrittenBuffers) /\ s.typed = s.entered
  BY <1>1 DEF SshType, SshOK, Typed
<1>5. ASSUME NEW q \in Seq(WrittenBuffers), NEW c \in BOOLEAN,
             t = [s EXCEPT !.typed = q, !.entered = q, !.submits = c]
      PROVE  SshOK(t)
  <2>1. /\ t \in SshType /\ Same(s, t) /\ t.state = s.state /\ t.gui = s.gui /\ t.notified = s.notified
        /\ t.typed = q /\ t.entered = q /\ t.walk = s.walk /\ t.remote = s.remote
        /\ t.passwords = s.passwords /\ t.prompts = s.prompts
    BY ZenonT(60), <1>1, <1>5 DEF SshType, Same
  <2>2. Verified(t)
    BY <1>1, <2>1 DEF SshOK, Verified, Same
  <2>3. Asked(t)
    BY <1>1, <2>1 DEF SshOK, Asked
  <2>4. Typed(t)
    BY <1>1, <2>1 DEF Typed, PasswordInput, NoPromptYet, Unverified
  <2>5. Told(t) /\ Noticed(t)
    BY <1>1, <2>1 DEF SshOK, Told, Noticed, Same, IsClosed
  <2> QED BY <2>1, <2>2, <2>3, <2>4, <2>5 DEF SshOK
<1>6. CASE t = [s EXCEPT !.typed = DropLast(@), !.entered = DropLast(@)]
  <2> DEFINE q == DropLast(s.typed)
             c == s.submits
  <2>1. q \in Seq(WrittenBuffers)
    <3>1. CASE s.typed = <<>>
      BY <1>4, <3>1 DEF DropLast
    <3>2. CASE s.typed # <<>>
      <4>1. Len(s.typed) - 1 \in 0 .. Len(s.typed)
        BY <1>4, <3>2, EmptySeq
      <4>2. SubSeq(s.typed, 1, Len(s.typed) - 1) \in Seq(WrittenBuffers)
        BY <1>4, <4>1, SubSeqProperties
      <4> QED BY <3>2, <4>2 DEF DropLast
    <3> QED BY <3>1, <3>2
  <2>2. c \in BOOLEAN
    BY <1>1 DEF SshType
  <2>3. DropLast(s.entered) = q
    BY <1>4
  <2>4. t = [s EXCEPT !.typed = q, !.entered = q]
    BY <1>6, <2>3
  <2>5. s = [s EXCEPT !.submits = c]
    BY <1>1 DEF SshType
  <2> HIDE DEF q
  <2>6. t = [s EXCEPT !.typed = q, !.entered = q, !.submits = c]
    BY <1>1, <2>4 DEF SshType
  <2> HIDE DEF c
  <2> QED BY ZenonT(30), <1>5, <2>1, <2>2, <2>6
<1>7. CASE t = [s EXCEPT !.typed = Append(@, buf), !.entered = Append(@, buf), !.submits = sub]
  <2> DEFINE q == Append(s.typed, buf)
  <2>1. q \in Seq(WrittenBuffers) /\ Append(s.entered, buf) = q
    BY <1>4, AppendProperties
  <2>2. t = [s EXCEPT !.typed = q, !.entered = q, !.submits = sub]
    BY <1>7, <2>1
  <2> HIDE DEF q
  <2> QED BY ZenonT(30), <1>2, <1>5, <2>1, <2>2
<1>8. CASE t = [b EXCEPT !.gui = "process"]
  <2>1. /\ b \in SshType /\ Same(s, b) /\ Book(s, b) /\ b.state = next /\ b.gui = s.gui
        /\ s.notified => b.notified
    BY <1>1, <1>2, SetStateOK
  <2> HIDE DEF b
  <2>2. /\ t \in SshType /\ Same(b, t) /\ Book(b, t) /\ t.state = b.state /\ t.gui = "process"
        /\ t.notified = b.notified
    BY <1>8, <2>1 DEF SshType, Same, Book
  <2>3. Same(s, t) /\ Book(s, t) /\ t.state = next
    BY <2>1, <2>2 DEF Same, Book, Threads
  <2>4. \/ s.state = "AuthenticatePasswordWaitForInput" /\ t.state = "AuthenticatePassword"
        \/ s.state = "AuthenticatePrivateKeyWaitForInput" /\ t.state = "AuthenticatePrivateKey"
    BY <1>1, <1>2, <2>3 DEF PasswordInput
  <2>5. Verified(t)
    BY <1>1, <2>2, <2>3, <2>4 DEF SshOK, Verified, Same, Unverified, Ended
  <2>6. Asked(t)
    BY <1>1, <2>3, <2>4 DEF SshOK, Asked, Book, Unverified, NoPromptYet, AskedForKey, AskedForPassword
  <2>7. Typed(t)
    BY <2>4 DEF Typed, Unverified, NoPromptYet, PasswordInput
  <2>8. Told(t)
    BY <1>1, <2>2, <2>3, <2>4 DEF SshOK, Told, Same
  <2>9. Noticed(t)
    BY <1>1, <2>2, <2>3, <2>4 DEF SshOK, Noticed, IsClosed, Same, Ended, PasswordInput
  <2> QED BY <2>2, <2>5, <2>6, <2>7, <2>8, <2>9 DEF SshOK
<1> QED BY <1>3, <1>6, <1>7, <1>8

\* The reader goes on without a change to the state machine.
LEMMA ReaderMoves ==
    ASSUME NEW s, SshOK(s), s.state # "Initial", s.gui # "setup", NEW r \in Readers \ (Sending \cup {"closing"}),
           NEW i \in BOOLEAN, NEW w \in BOOLEAN, NEW t, t = [s EXCEPT !.reader = r, !.inject = i, !.woken = w]
    PROVE  SshOK(t)
<1>1. s \in SshType /\ r \in Readers
  BY DEF SshOK
<1>2. /\ t \in SshType /\ Book(s, t) /\ t.state = s.state /\ t.gui = s.gui /\ t.notified = s.notified
      /\ t.socket = s.socket /\ t.watcher = s.watcher /\ t.size = s.size /\ t.reader = r
      /\ t.verified = s.verified /\ t.blind = s.blind /\ t.shared = s.shared /\ t.reopened = s.reopened
  BY ZenonT(60), <1>1 DEF SshType, Book
<1>3. Told(t)
  BY <1>2 DEF SshOK, Told, Book
<1>4. Noticed(t)
  BY <1>2 DEF SshOK, Noticed, IsClosed
<1>5. (t.gui \in {"resizes", "resized"} => s.verified) /\ (t.reader \in Sending => s.verified)
  BY <1>2 DEF SshOK, Verified
<1> QED BY <1>2, <1>3, <1>4, <1>5, KeepOK

\* The reader waits, wakes up, and looks at the state before it reads.
LEMMA ReaderKeeps ==
    ASSUME SshInv, NEW ok \in BOOLEAN,
           \/ Read \/ Woken \/ ReadChecks
           \/ ReadState /\ ssh.state # "ResizeScreen"
           \/ ReaderSends(ok) /\ ~(ok /\ ssh.channel)
           \/ ReadChannel(ok) /\ ok /\ ssh.channel
    PROVE  SshInv'
<1> DEFINE s == ssh
           t == ssh'
<1>1. SshOK(s) /\ s \in SshType /\ s.reader \notin {"off"} /\ s.state # "Initial" /\ s.gui # "setup"
  BY DEF SshInv, SshOK, Noticed, Read, Woken, ReadChecks, ReadState, ReaderSends, ReadChannel, Reading
<1> SUFFICES SshOK(t)
  BY DEF SshInv
<1>2. \/ \E r \in {"ready", "processes", "checks", "blocked"} : t = [s EXCEPT !.reader = r]
      \/ s.reader = "ready" /\ t = [s EXCEPT !.inject = FALSE]
      \/ t = [s EXCEPT !.reader = "waiting", !.woken = FALSE]
  <2>1. CASE Read
    BY <2>1 DEF Read, Reading
  <2>2. CASE Woken \/ ReadChecks \/ (ReadState /\ ssh.state # "ResizeScreen")
    BY <2>2 DEF Woken, ReadChecks, ReadState
  <2>3. CASE (ReaderSends(ok) /\ ~(ok /\ ssh.channel)) \/ (ReadChannel(ok) /\ ok /\ ssh.channel)
    BY <2>3 DEF ReaderSends, ReadChannel
  <2> QED BY <2>1, <2>2, <2>3
<1> HIDE DEF s, t
<1> DEFINE R == Readers \ (Sending \cup {"closing"})
<1>3. {"ready", "processes", "waiting", "checks", "blocked"} \subseteq R /\ s.inject \in BOOLEAN /\ s.woken \in BOOLEAN
  BY <1>1 DEF SshType, Readers, Sending
<1>4. ASSUME NEW r \in R, NEW i \in BOOLEAN, NEW w \in BOOLEAN, t = [s EXCEPT !.reader = r, !.inject = i, !.woken = w]
      PROVE  SshOK(t)
  BY ZenonT(60), <1>1, <1>4, ReaderMoves
<1> HIDE DEF R
<1>5. ASSUME NEW r \in {"ready", "processes", "checks", "blocked"}, t = [s EXCEPT !.reader = r] PROVE SshOK(t)
  <2>1. t = [s EXCEPT !.reader = r, !.inject = s.inject, !.woken = s.woken] /\ r \in R
    BY <1>1, <1>3, <1>5 DEF SshType
  <2> QED BY ZenonT(30), <1>3, <1>4, <2>1
<1>6. ASSUME s.reader = "ready", t = [s EXCEPT !.inject = FALSE] PROVE SshOK(t)
  <2>1. t = [s EXCEPT !.reader = "ready", !.inject = FALSE, !.woken = s.woken] /\ "ready" \in R
    BY ZenonT(60), <1>1, <1>3, <1>6 DEF SshType
  <2>2. FALSE \in BOOLEAN
    OBVIOUS
  <2> QED BY ZenonT(30), <1>3, <1>4, <2>1, <2>2
<1>7. ASSUME t = [s EXCEPT !.reader = "waiting", !.woken = FALSE] PROVE SshOK(t)
  <2>1. t = [s EXCEPT !.reader = "waiting", !.inject = s.inject, !.woken = FALSE] /\ "waiting" \in R
    BY <1>1, <1>3, <1>7 DEF SshType
  <2>2. FALSE \in BOOLEAN
    OBVIOUS
  <2> QED BY ZenonT(30), <1>3, <1>4, <2>1, <2>2
<1> QED BY <1>2, <1>5, <1>6, <1>7

\* The reader takes part in a resize: the size is taken, sent, and the session operational again.
LEMMA ReaderSendsKeeps ==
    ASSUME SshInv, NEW ok \in BOOLEAN,
           (ReadState /\ ssh.state = "ResizeScreen") \/ (ReaderSends(ok) /\ ok /\ ssh.channel)
    PROVE  SshInv'
<1> DEFINE s == ssh
           t == ssh'
<1>1. SshOK(s) /\ s \in SshType /\ s.state # "Initial" /\ s.gui # "setup"
  BY DEF SshInv, SshOK, Noticed, ReadState, ReaderSends, Reading
<1>2. s.verified /\ (ReaderSends(ok) => s.shared = TRUE)
  BY <1>1 DEF SshOK, SshType, Verified, Told, Unverified, Ended, ReaderSends, Reading, Sending
<1> SUFFICES SshOK(t)
  BY DEF SshInv
<1>3. /\ s.told \in Nat /\ s.size \in Nat /\ {"sends", "sent"} = Sending /\ Sending \subseteq Readers
      /\ \A r \in Sending : r # "closing" /\ r # "off"
  BY <1>1 DEF SshType, Sending, Readers
<1>4. \/ t = [s EXCEPT !.reader = "sends", !.told = s.size, !.shared = TRUE]
      \/ t = [s EXCEPT !.remote = s.told, !.reader = "sent"] /\ s.shared = TRUE
  BY <1>2 DEF ReadState, ReaderSends
<1> HIDE DEF s, t
<1> DEFINE ReaderMoved(r) ==
             /\ t \in SshType /\ t.state = s.state /\ t.gui = s.gui /\ t.notified = s.notified
             /\ t.socket = s.socket /\ t.watcher = s.watcher /\ t.size = s.size /\ t.reader = r
             /\ t.verified = s.verified /\ t.blind = s.blind /\ t.shared = TRUE /\ t.reopened = s.reopened
             /\ t.walk = s.walk /\ t.typed = s.typed /\ t.entered = s.entered
             /\ t.passwords = s.passwords /\ t.prompts = s.prompts
<1>5. \E r \in Sending : ReaderMoved(r)
  <2>1. CASE t = [s EXCEPT !.reader = "sends", !.told = s.size, !.shared = TRUE]
    <3>1. "sends" \in Readers /\ "sends" \in Sending
      BY <1>3
    <3>2. ReaderMoved("sends")
      BY ZenonT(60), <1>1, <1>3, <2>1, <3>1 DEF SshType
    <3> QED BY <3>1, <3>2
  <2>2. CASE t = [s EXCEPT !.remote = s.told, !.reader = "sent"] /\ s.shared = TRUE
    <3>1. "sent" \in Readers /\ "sent" \in Sending
      BY <1>3
    <3>2. ReaderMoved("sent")
      BY ZenonT(60), <1>1, <1>3, <2>2, <3>1 DEF SshType
    <3> QED BY <3>1, <3>2
  <2> QED BY <1>4, <2>1, <2>2
<1>6. PICK r \in Sending : ReaderMoved(r)
  BY <1>5
<1>7. Verified(t)
  BY <1>1, <1>2, <1>6 DEF SshOK, Verified
<1>8. Asked(t) /\ Typed(t)
  BY <1>1, <1>6 DEF SshOK, Asked, Typed
<1>9. Told(t)
  BY <1>1, <1>6 DEF SshOK, Told
<1>10. Noticed(t)
  BY <1>1, <1>3, <1>6 DEF SshOK, Noticed, IsClosed
<1> QED BY <1>6, <1>7, <1>8, <1>9, <1>10 DEF SshOK

\* The reader has sent a size: Operational is stored, whatever the state is by then.
LEMMA ReaderSentKeeps == ASSUME SshInv, ReaderSent PROVE SshInv'
<1> DEFINE s == ssh
           t == ssh'
           a == Overwrite(s, "Operational")
<1>0. SshOK(s) /\ s.verified /\ s.gui # "setup"
  BY DEF SshInv, SshOK, ReaderSent, Reading, Verified, Noticed, Sending
<1>a. s.shared
  BY DEF SshInv, SshOK, ReaderSent, Reading, Told, Sending
<1>1. s.reader = "sent" /\ t = [a EXCEPT !.reader = "checks"]
  BY DEF ReaderSent, Reading
<1> HIDE DEF s, t
<1>2. /\ a \in SshType /\ Verified(a) /\ Asked(a) /\ Typed(a) /\ Noticed(a)
      /\ a.state = "Operational" /\ a.reader = s.reader /\ a.shared = s.shared
  BY <1>0, OverwriteOK
<1> HIDE DEF a
<1>3. /\ t \in SshType /\ Book(a, t) /\ t.state = a.state /\ t.gui = a.gui /\ t.notified = a.notified
      /\ t.socket = a.socket /\ t.watcher = a.watcher /\ t.size = a.size /\ t.reader = "checks"
      /\ t.verified = a.verified /\ t.blind = a.blind /\ t.shared = a.shared /\ t.reopened = a.reopened
  BY ZenonT(60), <1>1, <1>2 DEF SshType, Book, Readers
<1>4. Verified(t) /\ Asked(t) /\ Typed(t)
  BY <1>2, <1>3 DEF Verified, Asked, Typed, Book, Sending
<1>5. Told(t)
  BY <1>a, <1>2, <1>3 DEF Told, Sending
<1>6. Noticed(t)
  BY <1>2, <1>3 DEF Noticed, IsClosed
<1>7. SshOK(t)
  BY <1>3, <1>4, <1>5, <1>6 DEF SshOK
<1> QED BY <1>7 DEF SshInv, t

\* The terminal closes the device: the end is stored first, the socket closed after it.
LEMMA ReaderClosesKeeps ==
    ASSUME SshInv, NEW ok \in BOOLEAN, (ReadChannel(ok) /\ ~(ok /\ ssh.channel)) \/ ReaderCloses
    PROVE  SshInv'
<1> DEFINE s == ssh
           t == ssh'
<1>1. SshOK(s) /\ s \in SshType /\ s.state # "Initial" /\ s.gui # "setup"
  BY DEF SshInv, SshOK, Noticed, ReadChannel, ReaderCloses, Reading
<1> SUFFICES SshOK(t)
  BY DEF SshInv
<1>2. ASSUME NEW c, SshOK(c), c.state # "Initial", c.gui # "setup", NEW r \in {"closing", "ended"},
             r = "closing" => c.state = "Closed", t = [c EXCEPT !.reader = r]
      PROVE  SshOK(t)
  <2>0. c \in SshType /\ r \in Readers /\ r \notin Sending
    BY <1>2 DEF SshOK, Readers, Sending
  <2>1. /\ t \in SshType /\ Book(c, t) /\ t.state = c.state /\ t.gui = c.gui /\ t.notified = c.notified
        /\ t.socket = c.socket /\ t.watcher = c.watcher /\ t.size = c.size /\ t.reader = r
        /\ t.verified = c.verified /\ t.blind = c.blind /\ t.shared = c.shared /\ t.reopened = c.reopened
    BY ZenonT(60), <1>2, <2>0 DEF SshType, Book
  <2>2. Told(t)
    BY <1>2, <2>0, <2>1 DEF SshOK, Told, Book
  <2>3. Noticed(t)
    BY <1>2, <2>1 DEF SshOK, Noticed, IsClosed, Ended
  <2>4. (t.gui \in {"resizes", "resized"} => c.verified) /\ (t.reader \in Sending => c.verified)
    BY <1>2, <2>0, <2>1 DEF SshOK, Verified
  <2> QED BY <1>2, <2>1, <2>2, <2>3, <2>4, KeepOK
<1>3. CASE ReadChannel(ok) /\ ~(ok /\ ssh.channel)
  <2> DEFINE c == SetState(s, "Closed")
  <2>1. t = [c EXCEPT !.reader = "closing"]
    BY <1>3 DEF ReadChannel
  <2>2. SshOK(c) /\ c.gui = s.gui /\ c.state = "Closed"
    BY <1>1, EndOK
  <2> HIDE DEF c
  <2> QED BY <1>1, <1>2, <2>1, <2>2
<1>4. CASE ReaderCloses
  <2> DEFINE c == CloseSocket(s)
  <2>1. t = [c EXCEPT !.reader = "ended"] /\ s.reader = "closing"
    BY <1>4 DEF ReaderCloses, Reading
  <2>2. s.watcher = "waits" /\ ~s.reopened => s.notified
    BY <1>1, <2>1 DEF SshOK, Noticed, IsClosed
  <2>3. SshOK(c) /\ c.gui = s.gui /\ c.state = s.state
    BY <1>1, <2>2, CloseSocketOK
  <2> HIDE DEF c
  <2> QED BY <1>1, <1>2, <2>1, <2>3
<1> QED BY <1>3, <1>4

\* The watcher looks for the end of the session.
LEMMA WaitForClosedKeeps == ASSUME SshInv, WaitForClosed PROVE SshInv'
<1> DEFINE s == ssh
           t == ssh'
           w == IF IsClosed(s) THEN "done" ELSE "waits"
<1>1. /\ SshOK(s) /\ s \in SshType /\ s.watcher # "off" /\ s.state # "Initial" /\ s.gui # "setup"
      /\ t = [s EXCEPT !.watcher = w, !.notified = FALSE]
  BY DEF SshInv, SshOK, Noticed, WaitForClosed
<1> SUFFICES SshOK(t)
  BY DEF SshInv
<1> HIDE DEF s, t
<1>2. w \in {"done", "waits"} /\ (w = "waits" => ~IsClosed(s))
  OBVIOUS
<1> HIDE DEF w
<1>3. /\ t \in SshType /\ Book(s, t) /\ t.state = s.state /\ t.gui = s.gui /\ t.watcher = w
      /\ t.socket = s.socket /\ t.size = s.size /\ t.verified = s.verified /\ t.blind = s.blind
      /\ Threads(s, t)
  BY ZenonT(60), <1>1, <1>2 DEF SshType, Book, Threads
<1>4. Told(t)
  BY <1>1, <1>3 DEF SshOK, Told, Book, Threads
<1>5. Noticed(t)
  BY <1>1, <1>2, <1>3 DEF SshOK, Noticed, IsClosed, Threads
<1>6. (t.gui \in {"resizes", "resized"} => s.verified) /\ (t.reader \in Sending => s.verified)
  BY <1>1, <1>3 DEF SshOK, Verified, Threads
<1> QED BY <1>1, <1>3, <1>4, <1>5, <1>6, KeepOK

\* Every step of the session keeps the invariant.
LEMMA SshStep == SshInv /\ [SshNext]_ssh => SshInv'
<1> SUFFICES ASSUME SshInv, [SshNext]_ssh PROVE SshInv'
  OBVIOUS
<1>1. CASE \E h \in Hosts : ChooseHost(h)
  BY <1>1, ChooseHostKeeps
<1>2. CASE Start
  BY <1>2, StartKeeps
<1>3. CASE StartThreads
  BY <1>3, StartThreadsKeeps
<1>4. CASE Resized
  BY <1>4, ResizedKeeps
<1>5. CASE ResizeScreen
  BY <1>5, ResizeScreenKeeps
<1>6. CASE DestroySession \/ Joined
  BY <1>6, DestroySessionKeeps
<1>7. CASE \E ok \in BOOLEAN : ProcessState(ok)
  <2>1. PICK ok \in BOOLEAN : ProcessState(ok)
    BY <1>7
  <2>2. SshOK(ssh) /\ ssh.gui = "process" /\ ssh' = ProcessOne(ssh, ok)
    BY <2>1 DEF SshInv, ProcessState
  <2>3. SshOK(ssh')
    BY <2>2, ProcessOneOK
  <2> QED BY <2>3 DEF SshInv
<1>8. CASE \E buf \in WrittenBuffers : Write(buf)
  BY <1>8, WriteKeeps
<1>9. CASE Read \/ Woken \/ ReadChecks
  BY <1>9, ReaderKeeps
<1>12. CASE ReadState
  BY <1>12, ReaderKeeps, ReaderSendsKeeps
<1>13. CASE \E ok \in BOOLEAN : ReaderSends(ok)
  BY <1>13, ReaderKeeps, ReaderSendsKeeps
<1>14. CASE ReaderSent
  BY <1>14, ReaderSentKeeps
<1>15. CASE (\E ok \in BOOLEAN : ReadChannel(ok)) \/ ReaderCloses
  BY <1>15, ReaderKeeps, ReaderClosesKeeps
<1>16. CASE Resize
  BY <1>16, ResizeKeeps
<1>10. CASE WaitForClosed
  BY <1>10, WaitForClosedKeeps
<1>11. CASE UNCHANGED ssh
  BY <1>11 DEF SshInv
<1> QED BY <1>1, <1>2, <1>3, <1>4, <1>5, <1>6, <1>7, <1>8, <1>9, <1>10, <1>11,
           <1>12, <1>13, <1>14, <1>15, <1>16 DEF SshNext

(***************************************************************************)
(* For any number of addresses, resizes and characters typed, in any       *)
(* interleaving of the GUI thread, the reader and the exit watcher, and    *)
(* whatever the other side answers: no secret is sent before the host key  *)
(* was accepted, the user is asked a bounded number of times, an answer    *)
(* holds only what was typed since its prompt, an operational session has  *)
(* told its size unless the reader took part in the resize, and the        *)
(* watcher never sleeps through the end unless a resize stored a state     *)
(* over it (SshSession::processState, read, setState, waitForClosed).      *)
(***************************************************************************)
THEOREM SshOrderKept == SshSpec => []SshKeepsOrder
<1>1. SshInit => SshInv
  BY SshStarts
<1>2. SshInv /\ [SshNext]_ssh => SshInv'
  BY SshStep
<1>3. SshInv => SshKeepsOrder
  <2> SUFFICES ASSUME SshInv PROVE SshKeepsOrder
    OBVIOUS
  <2>1. SecretsAfterVerification /\ TriesBounded /\ InputSincePrompt
    BY DEF SshInv, SshOK, Verified, Asked, Typed, SecretsAfterVerification, TriesBounded, InputSincePrompt
  <2>2. RemoteSizeCurrent /\ NoLostClose
    BY DEF SshInv, SshOK, Told, Noticed, RemoteSizeCurrent, NoLostClose
  <2> QED BY <2>1, <2>2 DEF SshKeepsOrder
<1> QED BY <1>1, <1>2, <1>3, PTL DEF SshSpec

-----------------------------------------------------------------------------
(* Permissions.                                                            *)

PermType ==
    [stage : {"setup", "run"}, role : Roles, config : PermissionValues, shown : BOOLEAN,
     posted : Seq({"permission", "prompt"}), open : Int, pending : Nat,
     remembered : {"none", "yes", "no"}, requests : Nat, others : Nat,
     clip : [id : Nat, size : {"small", "big", "huge"}],
     effects : Seq([what : Nat, shown : Int]), told : {"none", "yes", "no"}]

\* What is pending was asked for last, and later than everything carried out.
PendingIsNew(s) ==
    /\ s.pending <= s.requests
    /\ \A i \in 1..Len(s.effects) :
           s.effects[i].what <= s.requests /\ (s.pending # Nothing => s.effects[i].what < s.pending)
    /\ \A i, j \in 1..Len(s.effects) : s.effects[i].what = s.effects[j].what => i = j

\* Only a capture asks without looking at the configuration.
PostedAsAsked(s) ==
    s.role # "CaptureBuffer" => \A i \in 1..Len(s.posted) : s.posted[i] = "permission"

PermOK(s) ==
    /\ s \in PermType
    /\ s.role \in {"ChangeFont", "CaptureBuffer"} => PendingIsNew(s)
    /\ PostedAsAsked(s)
    /\ s.remembered = s.told
    /\ s.stage = "setup" => s.posted = <<>> /\ s.effects = <<>> /\ s.pending = Nothing /\ s.told = "none" /\ s.open = Nothing

PermInv == PermOK(perm)

\* What ExecuteRole() does not touch.
PermFrame(s, t) ==
    /\ t \in PermType
    /\ t.role = s.role /\ t.config = s.config /\ t.posted = s.posted /\ t.open = s.open
    /\ t.requests = s.requests /\ t.told = s.told /\ t.stage = s.stage

LEMMA EffectsGrow ==
    ASSUME NEW s \in PermType, NEW what \in Nat, NEW shown \in Int
    PROVE  /\ Effect(s, what, shown) \in PermType
           /\ PermFrame(s, Effect(s, what, shown))
           /\ Effect(s, what, shown).pending = s.pending
           /\ Effect(s, what, shown).remembered = s.remembered
           /\ Effect(s, what, shown).effects = Append(s.effects, [what |-> what, shown |-> shown])
<1> DEFINE e == [what |-> what, shown |-> shown]
<1>1. s.effects \in Seq([what : Nat, shown : Int]) /\ e \in [what : Nat, shown : Int]
  BY DEF PermType
<1>2. Append(s.effects, e) \in Seq([what : Nat, shown : Int])
  BY <1>1, AppendProperties
<1> HIDE DEF e
<1>3. Effect(s, what, shown) = [s EXCEPT !.effects = Append(s.effects, e)]
  BY DEF Effect, e
<1>4. [s EXCEPT !.effects = Append(s.effects, e)] \in PermType
  BY <1>2 DEF PermType
<1>5. /\ PermFrame(s, [s EXCEPT !.effects = Append(s.effects, e)])
      /\ [s EXCEPT !.effects = Append(s.effects, e)].pending = s.pending
      /\ [s EXCEPT !.effects = Append(s.effects, e)].remembered = s.remembered
      /\ [s EXCEPT !.effects = Append(s.effects, e)].effects = Append(s.effects, e)
  BY <1>4 DEF PermType, PermFrame
<1> QED BY <1>3, <1>4, <1>5 DEF e

\* Carrying out what is pending keeps it later than everything before.
LEMMA EffectKeepsNew ==
    ASSUME NEW s \in PermType, PendingIsNew(s), s.pending # Nothing, NEW shown \in Int,
           NEW t \in PermType, t.requests = s.requests, t.pending = Nothing,
           t.effects = Append(s.effects, [what |-> s.pending, shown |-> shown])
    PROVE  PendingIsNew(t)
<1> DEFINE e == [what |-> s.pending, shown |-> shown]
           n == Len(s.effects)
<1>1. s.effects \in Seq([what : Nat, shown : Int]) /\ s.pending \in Nat /\ s.requests \in Nat
  BY DEF PermType
<1>2. e \in [what : Nat, shown : Int] /\ e.what = s.pending
  BY <1>1
<1>3. /\ n \in Nat /\ Len(t.effects) = n + 1
      /\ \A i \in 1..n : t.effects[i] = s.effects[i]
      /\ t.effects[n + 1] = e
  <2> HIDE DEF e
  <2>1. t.effects = Append(s.effects, e)
    BY DEF e
  <2>2. n \in Nat
    BY <1>1, LenProperties
  <2>3. /\ Len(Append(s.effects, e)) = Len(s.effects) + 1
        /\ \A i \in 1..Len(s.effects) : Append(s.effects, e)[i] = s.effects[i]
        /\ Append(s.effects, e)[Len(s.effects) + 1] = e
    BY <1>1, <1>2, AppendProperties
  <2> QED BY <2>1, <2>2, <2>3
<1>4. \A i \in 1..n : s.effects[i].what \in Nat /\ s.effects[i].what < s.pending
  <2>1. ASSUME NEW i \in 1..n PROVE s.effects[i] \in [what : Nat, shown : Int]
    BY <1>1, ElementOfSeq
  <2> QED BY <2>1 DEF PendingIsNew
<1> HIDE DEF e, n
<1>5. t.pending <= t.requests
  BY <1>1 DEF Nothing
<1>6. \A i \in 1..n + 1 : t.effects[i].what <= s.requests
  <2>1. \A i \in 1..n : t.effects[i].what <= s.requests
    BY <1>1, <1>3, <1>4 DEF PendingIsNew
  <2>2. t.effects[n + 1].what <= s.requests
    BY <1>1, <1>2, <1>3 DEF PendingIsNew
  <2>3. \A i \in 1..n + 1 : i \in 1..n \/ i = n + 1
    BY <1>3
  <2> QED BY <2>1, <2>2, <2>3
<1>7. ASSUME NEW i \in 1..n + 1, NEW j \in 1..n + 1, t.effects[i].what = t.effects[j].what PROVE i = j
  <2>1. CASE i \in 1..n /\ j \in 1..n
    BY <1>3, <1>7, <2>1 DEF PendingIsNew, n
  <2>2. CASE i = n + 1 /\ j \in 1..n
    <3>1. t.effects[i] = e /\ t.effects[j] = s.effects[j]
      BY <1>3, <2>2
    <3>2. s.effects[j].what < s.pending /\ s.effects[j].what \in Nat
      BY <1>4, <2>2
    <3>3. s.effects[j].what = s.pending
      BY <1>2, <1>7, <3>1
    <3> QED BY <3>2, <3>3
  <2>3. CASE i \in 1..n /\ j = n + 1
    <3>1. t.effects[j] = e /\ t.effects[i] = s.effects[i]
      BY <1>3, <2>3
    <3>2. s.effects[i].what < s.pending /\ s.effects[i].what \in Nat
      BY <1>4, <2>3
    <3>3. s.effects[i].what = s.pending
      BY <1>2, <1>7, <3>1
    <3> QED BY <3>2, <3>3
  <2> QED BY <1>3, <2>1, <2>2, <2>3
<1> QED BY <1>3, <1>5, <1>6, <1>7 DEF PendingIsNew, Nothing

LEMMA RememberFrame ==
    ASSUME NEW s \in PermType, NEW allow \in BOOLEAN, NEW remember \in BOOLEAN
    PROVE  LET r == Remember(s, allow, remember)
           IN  /\ r \in PermType /\ PermFrame(s, r)
               /\ r.pending = s.pending /\ r.effects = s.effects /\ r.clip = s.clip
               /\ r.remembered = IF remember THEN IF allow THEN "yes" ELSE "no" ELSE s.remembered
BY DEF Remember, PermType, PermFrame

\* What carrying out, or dropping, what is pending does.
LEMMA ExecuteRoleOK ==
    ASSUME NEW s \in PermType, NEW allow \in BOOLEAN, NEW remember \in BOOLEAN, NEW shown \in Int,
           s.role \in {"ChangeFont", "CaptureBuffer"} => PendingIsNew(s)
    PROVE  LET t == ExecuteRole(s, allow, remember, shown)
           IN  /\ PermFrame(s, t)
               /\ t.remembered = IF remember THEN IF allow THEN "yes" ELSE "no" ELSE s.remembered
               /\ s.role \in {"ChangeFont", "CaptureBuffer"} => PendingIsNew(t)
               /\ ~allow => t.effects = s.effects
<1> DEFINE r == Remember(s, allow, remember)
           q == [r EXCEPT !.pending = Nothing]
           t == ExecuteRole(s, allow, remember, shown)
           OK(u) == /\ PermFrame(s, u)
                    /\ u.remembered = IF remember THEN IF allow THEN "yes" ELSE "no" ELSE s.remembered
                    /\ s.role \in {"ChangeFont", "CaptureBuffer"} => PendingIsNew(u)
                    /\ ~allow => u.effects = s.effects
<1>1. /\ r \in PermType /\ PermFrame(s, r)
      /\ r.pending = s.pending /\ r.effects = s.effects /\ r.clip = s.clip
      /\ r.remembered = IF remember THEN IF allow THEN "yes" ELSE "no" ELSE s.remembered
  BY RememberFrame
<1>2. OK(r)
  BY <1>1 DEF PermFrame, PendingIsNew
<1>3. /\ q \in PermType /\ PermFrame(r, q) /\ q.pending = Nothing /\ q.effects = r.effects
      /\ q.remembered = r.remembered
  BY <1>1 DEF PermType, PermFrame, Nothing
<1>4. OK(q)
  <2>1. PermFrame(s, q)
    BY <1>1, <1>3 DEF PermFrame
  <2>2. ASSUME PendingIsNew(s) PROVE PendingIsNew(q)
    BY <1>1, <1>3, <2>2 DEF PendingIsNew, PermType, PermFrame, Nothing
  <2> QED BY <1>1, <1>3, <2>1, <2>2
<1> HIDE DEF r, q
<1>5. ASSUME NEW u \in PermType, PermFrame(s, u), u.remembered = r.remembered, NEW what \in Nat, allow
      PROVE  /\ PermFrame(s, Effect(u, what, shown)) /\ Effect(u, what, shown).remembered = r.remembered
             /\ Effect(u, what, shown).effects = Append(u.effects, [what |-> what, shown |-> shown])
             /\ Effect(u, what, shown).pending = u.pending
  BY <1>5, EffectsGrow DEF PermFrame
<1>6. s.pending \in Nat /\ s.requests \in Nat /\ s.clip.id \in Nat /\ s.role \in Roles
  BY DEF PermType
<1>7. ASSUME s.pending # Nothing, allow PROVE OK(Effect(q, s.pending, shown))
  <2>1. /\ PermFrame(s, Effect(q, s.pending, shown)) /\ Effect(q, s.pending, shown).remembered = r.remembered
        /\ Effect(q, s.pending, shown).effects = Append(s.effects, [what |-> s.pending, shown |-> shown])
        /\ Effect(q, s.pending, shown).pending = Nothing
    BY <1>1, <1>3, <1>4, <1>5, <1>6, <1>7
  <2>2. ASSUME PendingIsNew(s) PROVE PendingIsNew(Effect(q, s.pending, shown))
    BY <1>7, <2>1, <2>2, EffectKeepsNew DEF PermFrame
  <2> QED BY <1>1, <1>7, <2>1, <2>2
<1>8. CASE s.role = "CaptureBuffer"
  <2>1. t = IF s.pending = Nothing THEN r ELSE IF allow THEN Effect(q, s.pending, shown) ELSE q
    BY <1>8 DEF ExecuteRole, ExecutePendingBufferCapture, r, q
  <2> QED BY <1>2, <1>4, <1>7, <2>1
<1>9. CASE s.role = "ChangeFont"
  <2>1. t = IF s.pending = Nothing THEN r ELSE IF allow THEN Effect(q, s.pending, shown) ELSE q
    BY <1>9 DEF ExecuteRole, ApplyPendingFontChange, r, q
  <2> QED BY <1>2, <1>4, <1>7, <2>1
<1>10. CASE s.role = "ShowHostWritableStatusLine"
  <2>1. t = IF allow THEN Effect(r, s.requests, shown) ELSE r
    BY <1>10 DEF ExecuteRole, ExecuteShowHostWritableStatusLine, r
  <2>2. ASSUME allow PROVE OK(Effect(r, s.requests, shown))
    BY <1>1, <1>5, <1>6, <1>10, <2>2
  <2> QED BY <1>2, <2>1, <2>2
<1>11. CASE s.role = "BigPaste"
  <2>1. t = IF s.pending = Nothing THEN r ELSE IF allow THEN Effect(r, s.clip.id, shown) ELSE q
    BY <1>11 DEF ExecuteRole, ApplyPendingPaste, r, q
  <2>2. ASSUME allow PROVE OK(Effect(r, s.clip.id, shown))
    BY <1>1, <1>5, <1>6, <1>11, <2>2
  <2> QED BY <1>2, <1>4, <2>1, <2>2
<1> QED BY <1>6, <1>8, <1>9, <1>10, <1>11 DEF Roles

LEMMA OpenPromptFrame ==
    ASSUME NEW s \in PermType, NEW what \in Int
    PROVE  LET t == OpenPrompt(s, what)
           IN  /\ t \in PermType
               /\ t.role = s.role /\ t.config = s.config /\ t.posted = s.posted /\ t.stage = s.stage
               /\ t.requests = s.requests /\ t.told = s.told /\ t.pending = s.pending
               /\ t.remembered = s.remembered /\ t.effects = s.effects
               /\ t.open = IF s.open = Nothing THEN what ELSE s.open
BY DEF OpenPrompt, PermType

\* A prompt that was opened leaves everything else in order.
LEMMA OpenPromptOK ==
    ASSUME NEW s, PermOK(s), s.stage = "run", NEW what \in Int
    PROVE  PermOK(OpenPrompt(s, what))
<1>1. s \in PermType
  BY DEF PermOK
<1> DEFINE t == OpenPrompt(s, what)
<1>2. /\ t \in PermType
      /\ t.role = s.role /\ t.posted = s.posted /\ t.stage = s.stage
      /\ t.requests = s.requests /\ t.told = s.told /\ t.pending = s.pending
      /\ t.remembered = s.remembered /\ t.effects = s.effects
  BY <1>1, OpenPromptFrame
<1> HIDE DEF t
<1>3. PermOK(t)
  BY <1>2 DEF PermOK, PendingIsNew, PostedAsAsked
<1> QED BY <1>3 DEF t

LEMMA RequestPermissionOK ==
    ASSUME NEW s, PermOK(s), s.stage = "run"
    PROVE  LET t == RequestPermission(s)
           IN  /\ PermOK(t) /\ t.stage = "run" /\ t.role = s.role
               /\ s.told # "none" => t.open = s.open
               /\ s.told # "none" /\ t.effects # s.effects => s.config = "Allow" \/ s.told = "yes"
<1> DEFINE t == RequestPermission(s)
<1>1. /\ s \in PermType /\ s.remembered = s.told
      /\ s.role \in {"ChangeFont", "CaptureBuffer"} => PendingIsNew(s)
  BY DEF PermOK
<1>2. s.requests \in Int /\ s.config \in PermissionValues
  BY <1>1 DEF PermType
<1>3. ASSUME NEW allow \in BOOLEAN, t = ExecuteRole(s, allow, FALSE, Nothing)
      PROVE  PermOK(t) /\ PermFrame(s, t) /\ (~allow => t.effects = s.effects)
  <2> HIDE DEF t
  <2>0. Nothing \in Int /\ FALSE \in BOOLEAN
    BY DEF Nothing
  <2>1. /\ PermFrame(s, t) /\ t.remembered = s.remembered
        /\ s.role \in {"ChangeFont", "CaptureBuffer"} => PendingIsNew(t)
        /\ ~allow => t.effects = s.effects
    BY <1>1, <1>3, <2>0, ExecuteRoleOK
  <2>2. PermOK(t)
    BY <1>1, <2>1 DEF PermOK, PermFrame, PostedAsAsked
  <2> QED BY <2>1, <2>2
<1>4. CASE s.config = "Allow"
  <2>1. t = ExecuteRole(s, TRUE, FALSE, Nothing)
    BY <1>4 DEF RequestPermission
  <2> HIDE DEF t
  <2> QED BY <1>3, <1>4, <2>1 DEF t, PermFrame
<1>5. CASE s.config = "Deny"
  <2>1. t = ExecuteRole(s, FALSE, FALSE, Nothing)
    BY <1>5 DEF RequestPermission
  <2> QED BY <1>3, <1>5, <2>1 DEF PermFrame
<1>6. CASE s.config = "Ask" /\ s.remembered # "none"
  <2>1. t = ExecuteRole(s, s.remembered = "yes", FALSE, Nothing)
    BY <1>6 DEF RequestPermission
  <2> QED BY <1>1, <1>3, <1>6, <2>1 DEF PermFrame
<1>7. CASE s.config = "Ask" /\ s.remembered = "none"
  <2>1. t = OpenPrompt(s, s.requests)
    BY <1>7 DEF RequestPermission
  <2>2. PermOK(t)
    BY <1>2, <2>1, OpenPromptOK
  <2>3. t.stage = s.stage /\ t.role = s.role
    BY <1>1, <1>2, <2>1, OpenPromptFrame
  <2> QED BY <1>1, <1>7, <2>2, <2>3
<1> QED BY <1>2, <1>4, <1>5, <1>6, <1>7 DEF PermissionValues

LEMMA PermStarts == ASSUME PermissionsInit PROVE PermInv
<1>1. perm \in PermType
  BY DEF PermissionsInit, PermType, Roles, PermissionValues, Nothing
<1>2. perm.posted = <<>> /\ perm.effects = <<>>
  BY DEF PermissionsInit
<1>3. Len(perm.posted) = 0 /\ Len(perm.effects) = 0
  BY <1>2
<1>4. perm.remembered = perm.told /\ perm.pending = Nothing /\ perm.told = "none" /\ perm.requests = 0
      /\ perm.open = Nothing
  BY DEF PermissionsInit
<1> QED BY <1>1, <1>2, <1>3, <1>4 DEF PermInv, PermOK, PendingIsNew, PostedAsAsked, Nothing

\* The number of a new request is later than any so far.
LEMMA LaterNumber ==
    ASSUME NEW a \in Nat, NEW b \in Nat, a <= b
    PROVE  a < b + 1 /\ a <= b + 1
  OBVIOUS

\* A new request replaces what is pending and is the latest.
LEMMA NewRequestOK ==
    ASSUME NEW s, PermOK(s), s.stage = "run", NEW t \in PermType, NEW kind \in {"permission", "prompt"},
           kind = "prompt" => s.role = "CaptureBuffer",
           t.role = s.role, t.stage = s.stage, t.told = s.told, t.remembered = s.remembered,
           t.requests = s.requests + 1, t.pending \in {s.pending, s.requests + 1},
           t.effects = s.effects, t.posted = Append(s.posted, kind)
    PROVE  PermOK(t)
<1>1. s \in PermType /\ s.requests \in Nat /\ s.pending \in Nat /\ s.posted \in Seq({"permission", "prompt"})
      /\ s.effects \in Seq([what : Nat, shown : Int])
  BY DEF PermOK, PermType
<1>2. ASSUME PendingIsNew(s) PROVE PendingIsNew(t)
  <2>1. \A i \in 1..Len(s.effects) : s.effects[i] \in [what : Nat, shown : Int]
    BY <1>1, ElementOfSeq
  <2>2. \A i \in 1..Len(s.effects) : s.effects[i].what \in Nat /\ s.effects[i].what <= s.requests
    BY <1>2, <2>1 DEF PendingIsNew
  <2>3. t.pending <= t.requests
    BY <1>1, <1>2 DEF PendingIsNew
  <2>4. ASSUME NEW i \in 1..Len(s.effects)
        PROVE  s.effects[i].what <= t.requests /\ (t.pending # Nothing => s.effects[i].what < t.pending)
    <3>1. s.effects[i].what \in Nat /\ s.effects[i].what <= s.requests
      BY <2>2
    <3>2. s.effects[i].what < s.requests + 1 /\ s.effects[i].what <= s.requests + 1
      <4>1. s.requests \in Nat
        BY <1>1
      <4> QED BY Zenon, <3>1, <4>1, LaterNumber
    <3>3. s.pending # Nothing => s.effects[i].what < s.pending
      BY <1>2 DEF PendingIsNew
    <3>4. s.effects[i].what <= t.requests
      BY Zenon, <3>2
    <3>5. ASSUME t.pending # Nothing PROVE s.effects[i].what < t.pending
      <4>1. CASE t.pending = s.pending
        BY <3>3, <3>5, <4>1
      <4>2. CASE t.pending = s.requests + 1
        BY <3>2, <4>2
      <4> QED BY <4>1, <4>2
    <3> QED BY <3>4, <3>5
  <2> QED BY <1>2, <2>3, <2>4 DEF PendingIsNew
<1>3. /\ Len(t.posted) = Len(s.posted) + 1 /\ Len(s.posted) \in Nat
      /\ \A i \in 1..Len(s.posted) : t.posted[i] = s.posted[i]
      /\ t.posted[Len(s.posted) + 1] = kind
  BY <1>1, AppendProperties, LenProperties
<1>4. PostedAsAsked(t)
  BY <1>3 DEF PermOK, PostedAsAsked
<1> QED BY <1>2, <1>4 DEF PermOK

LEMMA RequestsKeep ==
    ASSUME PermInv, RequestCaptureBuffer \/ SetFontDef \/ RequestShowHostWritableStatusLine
    PROVE  PermInv' /\ perm'.open = perm.open /\ perm'.effects = perm.effects
<1>1. /\ perm \in PermType /\ perm.stage = "run" /\ PermOK(perm) /\ perm.posted \in Seq({"permission", "prompt"})
      /\ perm.requests \in Nat
  BY DEF PermInv, PermOK, PermType, RequestCaptureBuffer, SetFontDef, RequestShowHostWritableStatusLine, Requesting
<1>2. ASSUME NEW kind \in {"permission", "prompt"}, NEW p \in {perm.pending, perm.requests + 1},
             kind = "prompt" => perm.role = "CaptureBuffer",
             perm' = [perm EXCEPT !.requests = perm.requests + 1, !.pending = p, !.posted = Append(perm.posted, kind)]
      PROVE  PermInv' /\ perm'.open = perm.open /\ perm'.effects = perm.effects
  <2>1. Append(perm.posted, kind) \in Seq({"permission", "prompt"}) /\ p \in Nat /\ perm.requests + 1 \in Nat
    BY <1>1, AppendProperties DEF PermType
  <2>2. /\ perm' \in PermType /\ perm'.role = perm.role /\ perm'.stage = perm.stage /\ perm'.told = perm.told
        /\ perm'.remembered = perm.remembered /\ perm'.requests = perm.requests + 1 /\ perm'.pending = p
        /\ perm'.effects = perm.effects /\ perm'.posted = Append(perm.posted, kind) /\ perm'.open = perm.open
    BY <1>1, <1>2, <2>1 DEF PermType
  <2>3. PermOK(perm')
    BY <1>1, <1>2, <2>2, NewRequestOK
  <2> QED BY <2>2, <2>3 DEF PermInv
<1>3. CASE RequestCaptureBuffer
  <2>1. perm' = [perm EXCEPT !.requests = perm.requests + 1, !.pending = perm.requests + 1, !.posted = Append(perm.posted, "prompt")]
    BY <1>1, <1>3 DEF RequestCaptureBuffer, Requested, PermType
  <2>2. perm.role = "CaptureBuffer"
    BY <1>3 DEF RequestCaptureBuffer
  <2> QED BY <1>2, <2>1, <2>2
<1>4. CASE SetFontDef
  <2>1. perm' = [perm EXCEPT !.requests = perm.requests + 1, !.pending = perm.requests + 1, !.posted = Append(perm.posted, "permission")]
    BY <1>1, <1>4 DEF SetFontDef, Requested, PermType
  <2> QED BY <1>2, <2>1
<1>5. CASE RequestShowHostWritableStatusLine
  <2>1. perm' = [perm EXCEPT !.requests = perm.requests + 1, !.pending = perm.pending, !.posted = Append(perm.posted, "permission")]
    BY <1>1, <1>5 DEF RequestShowHostWritableStatusLine, Requested, PermType
  <2> QED BY <1>2, <2>1
<1> QED BY <1>3, <1>4, <1>5

LEMMA PasteKeeps == ASSUME PermInv, PasteFromClipboard PROVE PermInv'
<1>1. /\ perm \in PermType /\ perm.role = "BigPaste" /\ perm.stage = "run" /\ perm.requests \in Nat
      /\ perm.clip.id \in Nat /\ perm.clip.size \in {"small", "big", "huge"}
      /\ PostedAsAsked(perm) /\ perm.remembered = perm.told
  BY DEF PermInv, PermOK, PermType, PasteFromClipboard, Requesting
<1> DEFINE r == Requested(perm)
           q == [r EXCEPT !.pending = 1]
<1>2. /\ r \in PermType /\ r.role = "BigPaste" /\ r.stage = "run" /\ r.posted = perm.posted
      /\ r.remembered = perm.remembered /\ r.told = perm.told
  <2>1. perm.requests + 1 \in Nat
    BY <1>1
  <2>2. r = [perm EXCEPT !.requests = perm.requests + 1]
    BY DEF Requested
  <2> QED BY <1>1, <2>1, <2>2 DEF PermType
<1> HIDE DEF r
<1>3. /\ q \in PermType /\ q.role = "BigPaste" /\ q.stage = "run" /\ q.posted = perm.posted
      /\ q.remembered = perm.remembered /\ q.told = perm.told
  BY <1>2 DEF PermType
<1>4. ASSUME NEW t \in PermType, t.role = "BigPaste", t.stage = "run", t.posted = perm.posted, t.remembered = perm.remembered,
             t.told = perm.told
      PROVE  PermOK(t)
  BY <1>1, <1>4 DEF PermOK, PostedAsAsked
<1>5. perm' = CASE perm.clip.size = "huge" -> r
                [] perm.clip.size = "big" -> OpenPrompt(q, perm.clip.id)
                [] OTHER -> Effect(r, perm.clip.id, perm.clip.id)
  BY DEF PasteFromClipboard, r
<1> HIDE DEF q
<1>6. CASE perm.clip.size = "huge"
  BY <1>2, <1>4, <1>5, <1>6 DEF PermInv
<1>7. CASE perm.clip.size = "big"
  <2>1. PermOK(q)
    BY <1>3, <1>4
  <2>2. perm.clip.id \in Int
    BY <1>1
  <2> QED BY <1>3, <1>5, <1>7, <2>1, <2>2, OpenPromptOK DEF PermInv
<1>8. CASE perm.clip.size = "small"
  <2>1. /\ Effect(r, perm.clip.id, perm.clip.id) \in PermType
        /\ PermFrame(r, Effect(r, perm.clip.id, perm.clip.id))
        /\ Effect(r, perm.clip.id, perm.clip.id).remembered = r.remembered
    <3>1. perm.clip.id \in Int
      BY <1>1
    <3> QED BY <1>1, <1>2, <3>1, EffectsGrow
  <2>2. PermOK(Effect(r, perm.clip.id, perm.clip.id))
    BY <1>2, <1>4, <2>1 DEF PermFrame
  <2> QED BY <1>5, <1>8, <2>2 DEF PermInv
<1> QED BY <1>1, <1>6, <1>7, <1>8

LEMMA CopyKeeps ==
    ASSUME PermInv, NEW size \in {"small", "big", "huge"}, CopyToClipboard(size)
    PROVE  PermInv'
<1>1. perm \in PermType /\ perm.role = "BigPaste" /\ perm.clip.id \in Nat
  BY DEF PermInv, PermOK, PermType, CopyToClipboard
<1>2. perm.clip.id + 1 \in Nat
  BY <1>1
<1> DEFINE c == [id |-> perm.clip.id + 1, size |-> size]
<1>3. c \in [id : Nat, size : {"small", "big", "huge"}]
  BY <1>2
<1>4. perm' = [perm EXCEPT !.clip = c]
  BY DEF CopyToClipboard
<1> HIDE DEF c
<1>5. /\ perm' \in PermType /\ perm'.role = "BigPaste" /\ perm'.posted = perm.posted
      /\ perm'.remembered = perm.remembered /\ perm'.told = perm.told /\ perm'.stage = perm.stage
      /\ perm'.effects = perm.effects /\ perm'.pending = perm.pending
  BY <1>1, <1>3, <1>4 DEF PermType
<1>6. perm'.stage = "run"
  BY <1>5 DEF CopyToClipboard, Requesting
<1> QED BY <1>1, <1>5, <1>6 DEF PermInv, PermOK, PostedAsAsked

LEMMA ChooseRoleKeeps ==
    ASSUME PermInv, NEW role \in Roles, NEW config \in PermissionValues, ChooseRole(role, config)
    PROVE  PermInv'
<1>1. /\ perm \in PermType /\ perm.posted = <<>> /\ perm.effects = <<>> /\ perm.pending = Nothing
      /\ perm.remembered = perm.told /\ perm.requests \in Nat
  BY DEF PermInv, PermOK, PermType, ChooseRole
<1>2. perm' = [perm EXCEPT !.stage = "run", !.role = role, !.config = config]
  BY DEF ChooseRole
<1>3. /\ perm' \in PermType /\ perm'.posted = <<>> /\ perm'.effects = <<>> /\ perm'.pending = Nothing
      /\ perm'.remembered = perm'.told /\ perm'.stage = "run" /\ perm'.requests = perm.requests
  BY <1>1, <1>2 DEF PermType
<1>4. Len(perm'.posted) = 0 /\ Len(perm'.effects) = 0
  BY <1>3
<1>5. PendingIsNew(perm')
  BY <1>1, <1>3, <1>4 DEF PendingIsNew, Nothing
<1>6. PostedAsAsked(perm')
  BY <1>4 DEF PostedAsAsked
<1> QED BY <1>3, <1>5, <1>6 DEF PermInv, PermOK

\* The front of the posted closures.
LEMMA RunPostedKeeps ==
    ASSUME PermInv, RunPosted
    PROVE  PermInv' /\ AnswerKept
<1> DEFINE s == [perm EXCEPT !.posted = Tail(@)]
<1>1. /\ perm \in PermType /\ perm.posted \in Seq({"permission", "prompt"}) /\ perm.posted # <<>>
      /\ perm.stage = "run" /\ PostedAsAsked(perm) /\ perm.remembered = perm.told
      /\ perm.role \in {"ChangeFont", "CaptureBuffer"} => PendingIsNew(perm)
  BY DEF PermInv, PermOK, PermType, RunPosted
<1>2. /\ Tail(perm.posted) \in Seq({"permission", "prompt"}) /\ Len(perm.posted) \in Nat \ {0}
      /\ Len(Tail(perm.posted)) = Len(perm.posted) - 1
      /\ \A i \in 1..Len(perm.posted) - 1 : Tail(perm.posted)[i] = perm.posted[i + 1]
      /\ Head(perm.posted) = perm.posted[1]
  BY <1>1, HeadTailProperties, LenProperties, EmptySeq
<1>3. /\ s \in PermType /\ s.posted = Tail(perm.posted) /\ s.stage = "run" /\ s.role = perm.role
      /\ s.config = perm.config /\ s.open = perm.open /\ s.pending = perm.pending
      /\ s.remembered = perm.remembered /\ s.told = perm.told /\ s.effects = perm.effects
      /\ s.requests = perm.requests
  BY <1>1, <1>2 DEF PermType
<1>4. perm' = IF Head(perm.posted) = "permission" THEN RequestPermission(s) ELSE OpenPrompt(s, s.requests)
  BY DEF RunPosted
<1> HIDE DEF s
<1>5. PostedAsAsked(s)
  BY <1>1, <1>2, <1>3 DEF PostedAsAsked
<1>6. PermOK(s)
  BY <1>1, <1>3, <1>5 DEF PermOK, PendingIsNew
<1>7. CASE Head(perm.posted) = "permission"
  <2>1. /\ PermOK(perm') /\ perm'.stage = "run" /\ perm'.role = s.role
        /\ s.told # "none" => perm'.open = s.open
        /\ s.told # "none" /\ perm'.effects # s.effects => s.config = "Allow" \/ s.told = "yes"
    BY <1>3, <1>4, <1>6, <1>7, RequestPermissionOK
  <2> QED BY <1>3, <2>1 DEF PermInv, AnswerKept
<1>8. CASE Head(perm.posted) # "permission"
  <2>1. perm.role = "CaptureBuffer"
    BY <1>1, <1>2, <1>8 DEF PostedAsAsked
  <2>2. s.requests \in Int
    BY <1>3 DEF PermType
  <2>3. PermOK(perm')
    BY <1>3, <1>4, <1>6, <1>8, <2>2, OpenPromptOK
  <2> QED BY <2>1, <2>3 DEF PermInv, AnswerKept
<1> QED BY <1>7, <1>8

LEMMA AnswerKeeps ==
    ASSUME PermInv, NEW allow \in BOOLEAN, NEW remember \in BOOLEAN, Answer(allow, remember)
    PROVE  PermInv' /\ perm'.open = Nothing
<1> DEFINE s == [perm EXCEPT !.open = Nothing]
           t == ExecuteRole(s, allow, remember, perm.open)
           told == IF remember THEN IF allow THEN "yes" ELSE "no" ELSE perm.told
<1>1. /\ perm \in PermType /\ PermOK(perm) /\ perm.open \in Int /\ perm.remembered = perm.told
  BY DEF PermInv, PermOK, PermType
<1>2. /\ s \in PermType /\ s.open = Nothing /\ s.posted = perm.posted /\ s.stage = perm.stage /\ s.role = perm.role
      /\ s.remembered = perm.remembered /\ s.told = perm.told /\ s.effects = perm.effects
      /\ s.requests = perm.requests /\ s.pending = perm.pending
  <2> HIDE DEF t, told
  <2>1. Nothing \in Int
    BY DEF Nothing
  <2> QED BY <1>1, <2>1 DEF PermType
<1>3. perm' = IF ~perm.shown THEN s ELSE [t EXCEPT !.told = IF remember THEN IF allow THEN "yes" ELSE "no" ELSE @]
  BY DEF Answer
<1> HIDE DEF s
<1>4. PermOK(s)
  BY <1>1, <1>2 DEF PermOK, PendingIsNew, PostedAsAsked
<1>5. CASE ~perm.shown
  BY <1>2, <1>3, <1>4, <1>5 DEF PermInv
<1>6. CASE perm.shown
  <2>1. /\ PermFrame(s, t)
        /\ t.remembered = IF remember THEN IF allow THEN "yes" ELSE "no" ELSE s.remembered
        /\ s.role \in {"ChangeFont", "CaptureBuffer"} => PendingIsNew(t)
    BY <1>1, <1>2, <1>4, ExecuteRoleOK DEF PermOK
  <2> HIDE DEF t
  <2>2. /\ t \in PermType /\ t.told = perm.told
    BY <1>2, <2>1 DEF PermFrame
  <2>3. told \in {"none", "yes", "no"}
    BY <1>1 DEF PermType
  <2>4. perm' = [t EXCEPT !.told = told]
    BY <1>3, <1>6, <2>2 DEF PermType
  <2>5. t.remembered = told
    BY <1>1, <1>2, <2>1
  <2> HIDE DEF told
  <2>6. /\ perm' \in PermType /\ perm'.told = told /\ perm'.remembered = told /\ perm'.open = t.open
        /\ perm'.posted = t.posted /\ perm'.stage = t.stage /\ perm'.role = t.role /\ perm'.effects = t.effects
        /\ perm'.requests = t.requests /\ perm'.pending = t.pending
    BY <2>2, <2>3, <2>4, <2>5 DEF PermType
  <2>7. perm.stage = "run"
    BY <1>1 DEF Answer, PermOK, PermType
  <2> QED BY <1>2, <1>4, <2>1, <2>6, <2>7 DEF PermInv, PermOK, PermFrame, PendingIsNew, PostedAsAsked
<1> QED BY <1>5, <1>6

LEMMA ForeignKeeps == ASSUME PermInv, ForeignPrompt PROVE PermInv' /\ perm'.open \in {perm.open, Foreign} /\ perm'.effects = perm.effects
<1>1. perm \in PermType /\ perm.stage = "run" /\ perm.others \in Nat
  BY DEF PermInv, PermOK, PermType, ForeignPrompt
<1>2. perm.others + 1 \in Nat /\ Foreign \in Int
  BY <1>1 DEF Foreign
<1> DEFINE s == [perm EXCEPT !.others = perm.others + 1]
<1>3. /\ s \in PermType /\ s.open = perm.open /\ s.posted = perm.posted /\ s.stage = perm.stage /\ s.role = perm.role
      /\ s.remembered = perm.remembered /\ s.told = perm.told /\ s.effects = perm.effects
      /\ s.requests = perm.requests /\ s.pending = perm.pending
  BY <1>1, <1>2 DEF PermType
<1>4. perm' = OpenPrompt(s, Foreign)
  BY DEF ForeignPrompt
<1> HIDE DEF s
<1>5. PermOK(s)
  BY <1>3 DEF PermInv, PermOK, PendingIsNew, PostedAsAsked
<1> QED BY ZenonT(60), <1>1, <1>2, <1>3, <1>4, <1>5, OpenPromptOK, OpenPromptFrame DEF PermInv

LEMMA SetSessionKeeps == ASSUME PermInv, SetSession PROVE PermInv' /\ perm'.open = perm.open /\ perm'.effects = perm.effects
<1>1. perm \in PermType /\ perm.stage = "run" /\ perm.shown \in BOOLEAN
  BY DEF PermInv, PermOK, PermType, SetSession
<1>2. perm' = [perm EXCEPT !.shown = ~perm.shown]
  BY DEF SetSession
<1>3. /\ perm' \in PermType /\ perm'.open = perm.open /\ perm'.posted = perm.posted /\ perm'.stage = perm.stage
      /\ perm'.role = perm.role /\ perm'.remembered = perm.remembered /\ perm'.told = perm.told
      /\ perm'.effects = perm.effects /\ perm'.requests = perm.requests /\ perm'.pending = perm.pending
  BY <1>1, <1>2 DEF PermType
<1> QED BY <1>3 DEF PermInv, PermOK, PendingIsNew, PostedAsAsked

\* Every step of a prompt keeps the answers.
LEMMA PermissionsKept ==
    ASSUME PermInv, [PermissionsNext]_perm
    PROVE  PermInv' /\ AnswerKept /\ OncePerRequest'
<1>1. ASSUME PermInv' PROVE OncePerRequest'
  BY <1>1 DEF PermInv, PermOK, PendingIsNew, OncePerRequest
<1>2. ASSUME perm'.open \in {perm.open, Foreign}, perm'.effects = perm.effects PROVE AnswerKept
  BY <1>2 DEF AnswerKept
<1>3. CASE UNCHANGED perm
  BY <1>1, <1>2, <1>3 DEF PermInv
<1>4. ASSUME NEW role \in Roles, NEW config \in PermissionValues, ChooseRole(role, config)
      PROVE  PermInv' /\ AnswerKept
  <2>1. perm.told = "none"
    BY <1>4 DEF PermInv, PermOK, ChooseRole
  <2> QED BY <1>4, <2>1, ChooseRoleKeeps DEF AnswerKept
<1>5. CASE RequestCaptureBuffer \/ SetFontDef \/ RequestShowHostWritableStatusLine
  BY <1>1, <1>2, <1>5, RequestsKeep
<1>6. CASE PasteFromClipboard
  <2>1. perm.role = "BigPaste"
    BY <1>6 DEF PasteFromClipboard
  <2> QED BY <1>1, <1>6, <2>1, PasteKeeps DEF AnswerKept
<1>7. ASSUME NEW size \in {"small", "big", "huge"}, CopyToClipboard(size) PROVE PermInv' /\ AnswerKept
  <2>1. perm.role = "BigPaste"
    BY <1>7 DEF CopyToClipboard
  <2> QED BY <1>7, <2>1, CopyKeeps DEF AnswerKept
<1>8. CASE RunPosted
  BY <1>1, <1>8, RunPostedKeeps
<1>9. ASSUME NEW allow \in BOOLEAN, NEW remember \in BOOLEAN, Answer(allow, remember) PROVE PermInv' /\ AnswerKept
  <2>1. perm.open # Nothing
    BY <1>9 DEF Answer
  <2> QED BY <1>9, <2>1, AnswerKeeps DEF AnswerKept
<1>10. CASE ForeignPrompt
  BY <1>1, <1>2, <1>10, ForeignKeeps
<1>11. CASE SetSession
  BY <1>1, <1>2, <1>11, SetSessionKeeps
<1> QED BY <1>1, <1>3, <1>4, <1>5, <1>6, <1>7, <1>8, <1>9, <1>10, <1>11 DEF PermissionsNext

-----------------------------------------------------------------------------
(* Session actions.                                                        *)

SessFields ==
    {"group", "held", "sent", "events", "allowKeys", "definition", "status", "saved", "wanted", "allowInput",
     "titleBar", "fullscreen", "tabs", "presses", "opacity", "font", "rendererFont", "profile", "known",
     "history", "palette", "slots", "reloads", "changes", "mode", "vi", "selection", "calls", "waiting", "closed"}

\* The settings hold together: what is saved is what is wanted, what is drawn is what is
\* set, and what is active is what the configuration has.
SessOK(s) ==
    /\ DOMAIN s = SessFields
    /\ s.group \in DOMAIN SessionGroups \cup {"none"} /\ s.allowKeys \in BOOLEAN
    /\ s.saved # "none" => s.saved = s.wanted
    /\ s.group \in {"none", "look"} => s.font = s.rendererFont /\ s.font \in FontLimits
    /\ s.profile \in s.known /\ s.known \subseteq {"main", "work"}
    /\ s.history = ProfileSettings[s.profile].history

SessInv == SessOK(sess) /\ sess.tabs \in Nat /\ sess.presses \in Nat /\ OneTabPerPress

\* What an action of a key leaves alone, and what is true also of the actions that restore
\* the status display.
ActionFrame(s, t) ==
    /\ t.group = s.group /\ t.presses = s.presses
    /\ t.saved = "none" => s.saved = "none"
StatusFrame(s, t) ==
    /\ t.group = s.group /\ t.presses = s.presses
    /\ s.saved # "none" /\ t.saved = "none" => t.status = s.wanted

\* The actions the keys of a group are bound to.
ActionsOf ==
    [keymaps |-> {"ToggleAllKeyMaps", "ToggleTitleBar", "ToggleInputProtection", "CreateNewTab", "ToggleFullscreen"},
     status  |-> {"ToggleStatusLine", "ToggleAllKeyMaps", "ToggleInputProtection"},
     look    |-> {"IncreaseOpacity", "DecreaseOpacity", "IncreaseFontSize", "DecreaseFontSize", "ResetFontSize"},
     profile |-> {"ChangeProfile", "ReloadConfig", "ResetConfig"},
     trace   |-> {"TraceEnter", "TraceStep", "TraceBreakAtEmptyQueue", "TraceLeave", "ViNormalMode",
                  "CancelSelection"},
     calls   |-> {"ScrollUp", "ScrollDown", "ScrollPageUp", "ScrollPageDown", "ScrollOneUp", "ScrollOneDown",
                  "ScrollToTop", "ScrollMarkUp", "ScrollToBottom", "FocusNextSearchMatch", "FollowHyperlink",
                  "CopySelection", "PasteSelection", "OpenFileManager", "MoveTabToLeft", "CloseTab"}]

LEMMA KeyActions ==
    ASSUME NEW g \in DOMAIN SessionGroups, NEW key \in SessionGroups[g]
    PROVE  /\ Len(key) \in {1, 2} /\ key[1] \in ActionsOf[g]
           /\ Len(key) = 2 => /\ key[2] \in ActionsOf[g] /\ key[2] # "CreateNewTab" /\ g # "trace"
                              /\ key[1] # "ToggleInputProtection" /\ key[2] # "ToggleInputProtection"
<1>1. g \in {"keymaps", "status", "look", "profile", "trace", "calls"}
  BY DEF SessionGroups
<1>2. CASE g = "keymaps"
  BY <1>2 DEF SessionGroups, ActionsOf
<1>3. CASE g = "status"
  BY <1>3 DEF SessionGroups, ActionsOf
<1>4. CASE g = "look"
  BY <1>4 DEF SessionGroups, ActionsOf
<1>5. CASE g = "profile"
  BY <1>5 DEF SessionGroups, ActionsOf
<1>6. CASE g = "trace"
  BY <1>6 DEF SessionGroups, ActionsOf
<1>7. CASE g = "calls"
  BY <1>7 DEF SessionGroups, ActionsOf
<1> QED BY <1>1, <1>2, <1>3, <1>4, <1>5, <1>6, <1>7

\* One action, unless it is skipped.
OneOf(s, action, skip, in, name) == IF action \in skip THEN s ELSE ExecuteAction(s, action, in, name)

LEMMA InOrderOfOne ==
    ASSUME NEW s, NEW key, Len(key) = 1, NEW skip, NEW in, NEW name
    PROVE  ExecuteInOrder(s, key, skip, in, name) = OneOf(s, key[1], skip, in, name)
<1> DEFINE f == CHOOSE f : f = [n \in 0..1 |-> IF n = 0 THEN s ELSE IF key[n] \in skip THEN f[n - 1]
                                               ELSE ExecuteAction(f[n - 1], key[n], in, name)]
           h == [n \in 0..1 |-> IF n = 0 THEN s ELSE OneOf(s, key[1], skip, in, name)]
<1>1. ExecuteInOrder(s, key, skip, in, name) = f[1]
  BY DEF ExecuteInOrder
<1>2. h = [n \in 0..1 |-> IF n = 0 THEN s ELSE IF key[n] \in skip THEN h[n - 1]
                          ELSE ExecuteAction(h[n - 1], key[n], in, name)]
  BY DEF OneOf
<1> HIDE DEF h
<1>3. f = [n \in 0..1 |-> IF n = 0 THEN s ELSE IF key[n] \in skip THEN f[n - 1]
                          ELSE ExecuteAction(f[n - 1], key[n], in, name)]
  BY <1>2
<1> HIDE DEF f
<1>4. f[0] = s
  BY <1>3
<1>5. f[1] = IF key[1] \in skip THEN f[0] ELSE ExecuteAction(f[0], key[1], in, name)
  BY <1>3
<1> QED BY <1>1, <1>4, <1>5 DEF OneOf

\* A key bound to two actions carries out both, the first one first.
LEMMA InOrderOfTwo ==
    ASSUME NEW s, NEW key, Len(key) = 2, NEW skip, NEW in, NEW name
    PROVE  ExecuteInOrder(s, key, skip, in, name)
             = OneOf(OneOf(s, key[1], skip, in, name), key[2], skip, in, name)
<1> DEFINE f == CHOOSE f : f = [n \in 0..2 |-> IF n = 0 THEN s ELSE IF key[n] \in skip THEN f[n - 1]
                                               ELSE ExecuteAction(f[n - 1], key[n], in, name)]
           one == OneOf(s, key[1], skip, in, name)
           two == OneOf(one, key[2], skip, in, name)
           h == [n \in 0..2 |-> IF n = 0 THEN s ELSE IF n = 1 THEN one ELSE two]
<1>1. ExecuteInOrder(s, key, skip, in, name) = f[2]
  BY DEF ExecuteInOrder
<1>2. h = [n \in 0..2 |-> IF n = 0 THEN s ELSE IF key[n] \in skip THEN h[n - 1]
                          ELSE ExecuteAction(h[n - 1], key[n], in, name)]
  BY DEF OneOf
<1> HIDE DEF h
<1>3. f = [n \in 0..2 |-> IF n = 0 THEN s ELSE IF key[n] \in skip THEN f[n - 1]
                          ELSE ExecuteAction(f[n - 1], key[n], in, name)]
  BY <1>2
<1> HIDE DEF f
<1>4. f[0] = s
  BY <1>3
<1>5. f[1] = IF key[1] \in skip THEN f[0] ELSE ExecuteAction(f[0], key[1], in, name)
  BY <1>3
<1>6. f[2] = IF key[2] \in skip THEN f[1] ELSE ExecuteAction(f[1], key[2], in, name)
  BY <1>3
<1> QED BY <1>1, <1>4, <1>5, <1>6 DEF OneOf

\* A session starts with the settings it was configured with.
LEMMA SessionStarts == ASSUME SessionInit PROVE SessInv
BY DEF SessionInit, SessInv, SessOK, SessFields, SessionGroups, FontLimits, ProfileSettings, OneTabPerPress

\* Toggling the key maps touches nothing else.
LEMMA ToggleAllKeyMapsOK ==
    ASSUME NEW s, SessOK(s)
    PROVE  LET t == ToggleAllKeyMaps(s)
           IN  /\ SessOK(t) /\ ActionFrame(s, t) /\ t.tabs = s.tabs
               /\ t.titleBar = s.titleBar /\ t.fullscreen = s.fullscreen /\ t.allowInput = s.allowInput
BY DEF ToggleAllKeyMaps, SetStatusDisplay, SessOK, ActionFrame, SessFields

\* What shows the indicator for a while, and what ends it, leaves the other settings alone.
StatusKeeps(s, t) ==
    /\ SessOK(t) /\ StatusFrame(s, t) /\ t.tabs = s.tabs
    /\ t.titleBar = s.titleBar /\ t.fullscreen = s.fullscreen
StatusFields == {"status", "saved", "wanted"}
LEMMA ShowIndicatorIs ==
    ASSUME NEW s, SessOK(s)
    PROVE  LET t == ShowIndicator(s)
           IN  /\ DOMAIN t = SessFields /\ \A f \in SessFields \ StatusFields : t[f] = s[f]
               /\ t.wanted = IF s.saved = "none" THEN s.status ELSE s.wanted
               /\ t.saved = IF s.saved = "none" THEN s.status ELSE s.saved
<1> DEFINE x == IF s.saved = "none" THEN s.status ELSE s.saved
           y == IF s.saved = "none" THEN s.status ELSE s.wanted
           p == [s EXCEPT !.saved = x]
           q == [p EXCEPT !.status = "Indicator"]
           t == [q EXCEPT !.wanted = y]
<1>0. DOMAIN s = SessFields
  BY DEF SessOK
<1>1. DOMAIN p = SessFields /\ p.saved = x /\ \A f \in SessFields \ {"saved"} : p[f] = s[f]
  BY <1>0 DEF SessFields
<1>2. p.wanted = s.wanted
  BY <1>1 DEF SessFields
<1>3. ShowIndicator(s) = [q EXCEPT !.wanted = IF s.saved = "none" THEN s.status ELSE q.wanted]
  BY <1>0 DEF ShowIndicator, PushStatusDisplay, SetStatusDisplay, SessFields
<1> HIDE DEF p, x
<1>4. /\ DOMAIN q = SessFields /\ q.saved = x /\ q.wanted = s.wanted
      /\ \A f \in SessFields \ {"saved", "status"} : q[f] = s[f]
  BY <1>1, <1>2 DEF SessFields
<1> HIDE DEF q
<1>5. ShowIndicator(s) = t
  BY <1>3, <1>4
<1> HIDE DEF y
<1>6. /\ DOMAIN t = SessFields /\ t.saved = x /\ t.wanted = y
      /\ \A f \in SessFields \ StatusFields : t[f] = s[f]
  BY <1>4 DEF SessFields, StatusFields
<1> HIDE DEF t
<1> QED BY <1>5, <1>6 DEF x, y
LEMMA PopStatusDisplayIs ==
    ASSUME NEW s, SessOK(s)
    PROVE  LET t == PopStatusDisplay(s)
           IN  /\ DOMAIN t = SessFields /\ \A f \in SessFields \ StatusFields : t[f] = s[f]
               /\ t.wanted = s.wanted /\ t.saved = "none"
               /\ s.saved # "none" => t.status = s.wanted
<1> DEFINE p == [s EXCEPT !.status = s.saved]
           t == [p EXCEPT !.saved = "none"]
<1>0. DOMAIN s = SessFields /\ (s.saved # "none" => s.saved = s.wanted)
  BY DEF SessOK
<1>1. CASE s.saved = "none"
  BY <1>0, <1>1 DEF PopStatusDisplay
<1>2. CASE s.saved # "none"
  <2>1. PopStatusDisplay(s) = t
    BY <1>2 DEF PopStatusDisplay, SetStatusDisplay
  <2>2. DOMAIN p = SessFields /\ p.status = s.saved /\ \A f \in SessFields \ {"status"} : p[f] = s[f]
    BY <1>0 DEF SessFields
  <2> HIDE DEF p
  <2>3. /\ DOMAIN t = SessFields /\ t.saved = "none" /\ t.status = s.saved
        /\ \A f \in SessFields \ {"status", "saved"} : t[f] = s[f]
    BY <2>2 DEF SessFields
  <2> HIDE DEF t
  <2>4. t.wanted = s.wanted
    BY <2>3 DEF SessFields
  <2> QED BY <1>0, <1>2, <2>1, <2>3, <2>4 DEF StatusFields
<1> QED BY <1>1, <1>2
LEMMA IndicatorOK ==
    ASSUME NEW s, SessOK(s), NEW p, p = ShowIndicator(s) \/ p = PopStatusDisplay(s),
           NEW f \in {"allowInput", "vi"}, NEW x
    PROVE  LET t == [p EXCEPT ![f] = x]
           IN  StatusKeeps(s, t) /\ (f = "vi" => t.allowInput = s.allowInput)
<1> DEFINE t == [p EXCEPT ![f] = x]
<1>1. DOMAIN p = SessFields /\ \A k \in SessFields \ StatusFields : p[k] = s[k]
  BY ShowIndicatorIs, PopStatusDisplayIs
<1>2. /\ p.saved # "none" => p.saved = p.wanted
      /\ s.saved # "none" /\ p.saved = "none" => p.status = s.wanted
  <2>1. CASE p = ShowIndicator(s)
    <3>1. /\ p.wanted = IF s.saved = "none" THEN s.status ELSE s.wanted
          /\ p.saved = IF s.saved = "none" THEN s.status ELSE s.saved
      BY <2>1, ShowIndicatorIs
    <3>2. s.saved # "none" => s.saved = s.wanted
      BY DEF SessOK
    <3> QED BY <3>1, <3>2
  <2>2. CASE p = PopStatusDisplay(s)
    BY <2>2, PopStatusDisplayIs
  <2> QED BY <2>1, <2>2
<1>3. DOMAIN t = SessFields /\ \A k \in SessFields \ {"allowInput", "vi"} : t[k] = p[k]
  BY <1>1 DEF SessFields
<1>4. f = "vi" => t.allowInput = p.allowInput
  BY <1>1 DEF SessFields
<1>5. t.saved = p.saved /\ t.wanted = p.wanted /\ t.status = p.status
  BY <1>3 DEF SessFields
<1>6. \A k \in SessFields \ (StatusFields \cup {"allowInput", "vi"}) : t[k] = s[k]
  BY <1>1, <1>3
<1>7. p.allowInput = s.allowInput
  BY <1>1 DEF SessFields, StatusFields
<1> HIDE DEF t
<1>8. /\ t.group = s.group /\ t.allowKeys = s.allowKeys /\ t.font = s.font /\ t.rendererFont = s.rendererFont
      /\ t.profile = s.profile /\ t.known = s.known /\ t.history = s.history /\ t.presses = s.presses
      /\ t.tabs = s.tabs /\ t.titleBar = s.titleBar /\ t.fullscreen = s.fullscreen
  BY <1>6 DEF SessFields, StatusFields
<1>9. SessOK(t)
  BY <1>2, <1>3, <1>5, <1>8 DEF SessOK
<1>10. StatusFrame(s, t)
  BY <1>2, <1>5, <1>8 DEF StatusFrame
<1>11. StatusKeeps(s, t) /\ (f = "vi" => t.allowInput = s.allowInput)
  BY <1>4, <1>7, <1>8, <1>9, <1>10 DEF StatusKeeps
<1> QED BY <1>11 DEF t
\* setAllowInput() and modeChanged().
LEMMA SetAllowInputOK ==
    ASSUME NEW s, SessOK(s), NEW enabled PROVE StatusKeeps(s, SetAllowInput(s, enabled))
<1> DEFINE p == IF enabled THEN PopStatusDisplay(s) ELSE ShowIndicator(s)
           t == [p EXCEPT !["allowInput"] = enabled]
<1>1. p = ShowIndicator(s) \/ p = PopStatusDisplay(s)
  OBVIOUS
<1>2. SetAllowInput(s, enabled) = t
  BY DEF SetAllowInput
<1> HIDE DEF p
<1>3. StatusKeeps(s, t)
  BY <1>1, IndicatorOK
<1> QED BY <1>2, <1>3
LEMMA ModeChangedOK ==
    ASSUME NEW s, SessOK(s), NEW mode
    PROVE  StatusKeeps(s, ModeChanged(s, mode)) /\ ModeChanged(s, mode).allowInput = s.allowInput
<1> DEFINE p == IF mode = "Insert" THEN PopStatusDisplay(s) ELSE ShowIndicator(s)
           t == [p EXCEPT !["vi"] = mode]
<1>1. p = ShowIndicator(s) \/ p = PopStatusDisplay(s)
  OBVIOUS
<1>2. ModeChanged(s, mode) = t
  BY DEF ModeChanged
<1> HIDE DEF p
<1>3. StatusKeeps(s, t) /\ t.allowInput = s.allowInput
  BY <1>1, IndicatorOK
<1> QED BY <1>2, <1>3

\* setFontSize() sets font and renderer alike, or neither.
LEMMA SetFontSizeOK ==
    ASSUME NEW s, SessOK(s), NEW size
    PROVE  LET t == SetFontSize(s, size) IN SessOK(t) /\ ActionFrame(s, t) /\ t.tabs = s.tabs
BY DEF SetFontSize, SessOK, ActionFrame, SessFields

\* activateProfile() leaves the session with a known profile and a legal font.
LEMMA ActivateProfileOK ==
    ASSUME NEW s, SessOK(s), s.group = "profile", NEW name
    PROVE  LET t == ActivateProfile(s, name) IN SessOK(t) /\ ActionFrame(s, t) /\ t.tabs = s.tabs
<1> DEFINE p == [s EXCEPT !.profile = name, !.font = ProfileSettings[name].font]
           q == ConfigureTerminal(p)
<1>1. CASE name \in s.known
  <2>1. /\ DOMAIN p = SessFields /\ p.profile = name /\ p.group = s.group /\ p.allowKeys = s.allowKeys
        /\ p.saved = s.saved /\ p.wanted = s.wanted /\ p.known = s.known /\ p.presses = s.presses /\ p.tabs = s.tabs
    BY DEF SessOK, SessFields
  <2> HIDE DEF p
  <2>2. /\ DOMAIN q = SessFields /\ q.profile = name /\ q.group = s.group /\ q.allowKeys = s.allowKeys
        /\ q.saved = s.saved /\ q.wanted = s.wanted /\ q.known = s.known /\ q.presses = s.presses /\ q.tabs = s.tabs
        /\ q.history = ProfileSettings[name].history
    BY <2>1 DEF ConfigureTerminal, SetStatusDisplay, SessFields
  <2>3. ActivateProfile(s, name) = q
    BY <1>1 DEF ActivateProfile, p
  <2> HIDE DEF q
  <2> QED BY <1>1, <2>2, <2>3 DEF SessOK, ActionFrame
<1>2. CASE name \notin s.known
  BY <1>2 DEF ActivateProfile, ActionFrame
<1> QED BY <1>1, <1>2

\* The profiles in the file hold "main" whenever it can be read.
LEMMA ReloadConfigOK ==
    ASSUME NEW s, SessOK(s), s.group = "profile", NEW known \in SUBSET {"main", "work"}, NEW name \in known
    PROVE  LET t == ReloadConfig(s, known, name) IN SessOK(t) /\ ActionFrame(s, t) /\ t.tabs = s.tabs
<1> DEFINE k == [s EXCEPT !.known = known]
           p == [k EXCEPT !.profile = name, !.font = ProfileSettings[name].font]
           q == ConfigureTerminal(p)
<1>1. /\ DOMAIN k = SessFields /\ k.group = s.group /\ k.allowKeys = s.allowKeys
      /\ k.saved = s.saved /\ k.wanted = s.wanted /\ k.known = known /\ k.presses = s.presses /\ k.tabs = s.tabs
  BY DEF SessOK, SessFields
<1>2. ReloadConfig(s, known, name) = q
  BY <1>1 DEF ReloadConfig, ActivateProfile
<1> HIDE DEF k
<1>3. /\ DOMAIN p = SessFields /\ p.profile = name /\ p.group = s.group /\ p.allowKeys = s.allowKeys
      /\ p.saved = s.saved /\ p.wanted = s.wanted /\ p.known = known /\ p.presses = s.presses /\ p.tabs = s.tabs
  BY <1>1 DEF SessFields
<1> HIDE DEF p
<1>4. /\ DOMAIN q = SessFields /\ q.profile = name /\ q.group = s.group /\ q.allowKeys = s.allowKeys
      /\ q.saved = s.saved /\ q.wanted = s.wanted /\ q.known = known /\ q.presses = s.presses /\ q.tabs = s.tabs
      /\ q.history = ProfileSettings[name].history
  BY <1>3 DEF ConfigureTerminal, SetStatusDisplay, SessFields
<1> HIDE DEF q
<1> QED BY <1>2, <1>4 DEF SessOK, ActionFrame

ActionKeeps(s, t) == SessOK(t) /\ ActionFrame(s, t) /\ t.tabs = s.tabs

\* What the actions on opacity and font size leave as it was.
LEMMA LookOK ==
    ASSUME NEW s, SessOK(s), s.group = "look", NEW action \in ActionsOf.look, NEW in, NEW name
    PROVE  ActionKeeps(s, ExecuteAction(s, action, in, name))
<1>1. action \in {"IncreaseOpacity", "DecreaseOpacity", "IncreaseFontSize", "DecreaseFontSize", "ResetFontSize"}
  BY DEF ActionsOf
<1>2. <<action>> \in SessionGroups.look
  BY <1>1 DEF SessionGroups
<1>3. ExecuteAction(s, action, in, name) = Look(s, action)
  <2>1. <<action>> \notin SessionGroups.profile /\ <<action>> \notin SessionGroups.trace
    BY <1>1 DEF SessionGroups
  <2> QED BY <1>1, <1>2, <2>1 DEF ExecuteAction
<1>4. ASSUME NEW x PROVE ActionKeeps(s, [s EXCEPT !.opacity = x])
  BY DEF ActionKeeps, SessOK, SessFields, ActionFrame
<1>5. ActionKeeps(s, s)
  BY DEF ActionKeeps, ActionFrame
<1>6. ASSUME NEW size PROVE ActionKeeps(s, SetFontSize(s, size))
  BY SetFontSizeOK DEF ActionKeeps
<1>7. CASE action = "IncreaseOpacity"
  BY <1>3, <1>4, <1>7 DEF Look
<1>8. CASE action = "DecreaseOpacity"
  BY <1>3, <1>4, <1>8 DEF Look
<1>9. CASE action = "IncreaseFontSize"
  BY <1>3, <1>6, <1>9 DEF Look
<1>10. CASE action = "DecreaseFontSize"
  BY <1>3, <1>6, <1>10 DEF Look
<1>11. CASE action = "ResetFontSize"
  BY <1>3, <1>5, <1>6, <1>11 DEF Look
<1> QED BY <1>1, <1>7, <1>8, <1>9, <1>10, <1>11

\* reloadConfig() keeps or replaces profile and font together.
LEMMA ReloadWithProfileOK ==
    ASSUME NEW s, SessOK(s), s.group = "profile", NEW read \in SUBSET {"main", "work"}, NEW name
    PROVE  ActionKeeps(s, ReloadConfigWithProfile(s, read, name))
<1>1. CASE name \in read
  BY <1>1, ReloadConfigOK DEF ReloadConfigWithProfile, ActionKeeps
<1>2. CASE name \notin read
  BY <1>2 DEF ReloadConfigWithProfile, ActionKeeps, ActionFrame
<1> QED BY <1>1, <1>2

\* What the actions on profiles leave as it was.
LEMMA ProfileOK ==
    ASSUME NEW s, SessOK(s), s.group = "profile", NEW action \in ActionsOf.profile,
           NEW in \in SUBSET {"main", "work"}, NEW name
    PROVE  ActionKeeps(s, ExecuteAction(s, action, in, name))
<1>1. action \in {"ChangeProfile", "ReloadConfig", "ResetConfig"}
  BY DEF ActionsOf
<1>2. /\ <<action>> \in SessionGroups.profile
      /\ <<action>> \notin SessionGroups.look /\ <<action>> \notin SessionGroups.trace
  BY <1>1 DEF SessionGroups
<1>3. ExecuteAction(s, action, in, name) = ProfileAction(s, action, in, name)
  BY <1>1, <1>2 DEF ExecuteAction
<1>4. ActionKeeps(s, s)
  BY DEF ActionKeeps, ActionFrame
<1>5. CASE action = "ChangeProfile"
  BY <1>3, <1>4, <1>5, ActivateProfileOK DEF ProfileAction, ActionKeeps
<1>6. CASE action = "ReloadConfig"
  BY <1>3, <1>6, ReloadWithProfileOK DEF ProfileAction
<1>7. CASE action = "ResetConfig"
  <2>1. ActionKeeps(s, ReloadConfig(s, {"main"}, "main"))
    BY ReloadConfigOK DEF ActionKeeps
  <2> QED BY <1>3, <1>4, <1>7, <2>1 DEF ProfileAction, ResetConfig
<1> QED BY <1>1, <1>5, <1>6, <1>7

\* What the tracing actions leave as it was.
LEMMA TraceOK ==
    ASSUME NEW s, SessOK(s), s.group = "trace", NEW action \in ActionsOf.trace, NEW in, NEW name
    PROVE  LET t == ExecuteAction(s, action, in, name) IN SessOK(t) /\ StatusFrame(s, t) /\ t.tabs = s.tabs
<1>0. \A t : ActionKeeps(s, t) => SessOK(t) /\ StatusFrame(s, t) /\ t.tabs = s.tabs
  BY DEF ActionKeeps, ActionFrame, StatusFrame
<1>1. action \in {"TraceEnter", "TraceStep", "TraceBreakAtEmptyQueue", "TraceLeave", "ViNormalMode",
                  "CancelSelection"}
  BY DEF ActionsOf
<1>2. <<action>> \in SessionGroups.trace /\ <<action>> \notin SessionGroups.look /\ <<action>> \notin SessionGroups.profile
  BY <1>1 DEF SessionGroups
<1>3. ExecuteAction(s, action, in, name) = TraceOrVi(s, action)
  BY <1>1, <1>2 DEF ExecuteAction
<1>4. ASSUME NEW x PROVE ActionKeeps(s, [s EXCEPT !.mode = x])
  BY DEF ActionKeeps, SessOK, SessFields, ActionFrame
<1>5. ActionKeeps(s, s)
  BY DEF ActionKeeps, ActionFrame
<1>6. ActionKeeps(s, [s EXCEPT !.selection = FALSE])
  BY DEF ActionKeeps, SessOK, SessFields, ActionFrame
<1>7. CASE action \in {"TraceEnter", "TraceStep", "TraceBreakAtEmptyQueue", "TraceLeave"}
  <2>1. ActionKeeps(s, TraceOrVi(s, action))
    BY <1>4, <1>7 DEF TraceOrVi
  <2> QED BY <1>0, <1>3, <2>1
<1>8. CASE action = "ViNormalMode"
  <2>1. \/ \E mode \in {"Normal", "Insert"} : TraceOrVi(s, action) = ModeChanged(s, mode)
        \/ TraceOrVi(s, action) = s
    BY <1>8 DEF TraceOrVi
  <2>2. \A mode : StatusKeeps(s, ModeChanged(s, mode))
    BY ModeChangedOK
  <2> QED BY <1>0, <1>3, <1>5, <2>1, <2>2 DEF StatusKeeps
<1>9. CASE action = "CancelSelection"
  <2>1. ActionKeeps(s, TraceOrVi(s, action))
    BY <1>6, <1>9 DEF TraceOrVi
  <2> QED BY <1>0, <1>3, <2>1
<1> QED BY <1>1, <1>7, <1>8, <1>9

\* What the actions that call elsewhere leave as it was.
LEMMA CallsOK ==
    ASSUME NEW s, SessOK(s), s.group = "calls", NEW action \in ActionsOf.calls, NEW in, NEW name
    PROVE  ActionKeeps(s, ExecuteAction(s, action, in, name))
<1>1. action \notin {"ToggleAllKeyMaps", "ToggleStatusLine", "ToggleTitleBar", "ToggleFullscreen",
                     "ToggleInputProtection", "CreateNewTab"}
  BY DEF ActionsOf
<1>2. <<action>> \notin SessionGroups.trace /\ <<action>> \notin SessionGroups.look /\ <<action>> \notin SessionGroups.profile
  BY DEF SessionGroups, ActionsOf
<1>3. ExecuteAction(s, action, in, name) = [s EXCEPT !.calls = s.calls \o Delegated(action, in)]
  BY <1>1, <1>2 DEF ExecuteAction
<1>4. ASSUME NEW x PROVE ActionKeeps(s, [s EXCEPT !.calls = x])
  BY DEF ActionKeeps, SessOK, SessFields, ActionFrame
<1> QED BY <1>3, <1>4

\* What the toggling actions leave as it was.
LEMMA TogglesOK ==
    ASSUME NEW s, SessOK(s), s.group \in {"keymaps", "status"}, NEW action \in ActionsOf[s.group], NEW in, NEW name
    PROVE  LET t == ExecuteAction(s, action, in, name)
           IN  /\ SessOK(t) /\ StatusFrame(s, t)
               /\ action # "ToggleInputProtection" => ActionFrame(s, t)
               /\ t.tabs = IF action = "CreateNewTab" THEN s.tabs + 1 ELSE s.tabs
<1>0. \A t : ActionFrame(s, t) => StatusFrame(s, t)
  BY DEF ActionFrame, StatusFrame
<1>1. action \in {"ToggleAllKeyMaps", "ToggleStatusLine", "ToggleTitleBar", "ToggleFullscreen",
                  "ToggleInputProtection", "CreateNewTab"}
  BY DEF ActionsOf
<1>2. s.group # "calls" /\ \A g \in {"look", "profile", "trace"} : <<action>> \notin SessionGroups[g]
  BY <1>1 DEF SessionGroups
<1>3. CASE action = "ToggleAllKeyMaps"
  <2>1. ExecuteAction(s, action, in, name) = ToggleAllKeyMaps(s)
    BY <1>2, <1>3 DEF ExecuteAction
  <2> QED BY <1>0, <1>3, <2>1, ToggleAllKeyMapsOK
<1>4. CASE action = "ToggleStatusLine"
  <2>1. ExecuteAction(s, action, in, name) = ToggleStatusLine(s)
    BY <1>2, <1>4 DEF ExecuteAction
  <2> DEFINE type == IF s.status # "Indicator" THEN "Indicator" ELSE "None"
             p == [s EXCEPT !.status = type]
             q == [p EXCEPT !.wanted = type, !.saved = IF s.saved = "none" THEN s.saved ELSE type]
  <2>2. type # "none"
    OBVIOUS
  <2>3. ToggleStatusLine(s) = q
    BY DEF ToggleStatusLine, SetStatusDisplay, SessOK, SessFields
  <2> HIDE DEF type
  <2>4. /\ DOMAIN p = SessFields /\ \A f \in SessFields \ {"status"} : p[f] = s[f]
    BY DEF SessOK, SessFields
  <2> HIDE DEF p
  <2>5. /\ DOMAIN q = SessFields /\ \A f \in SessFields \ {"status", "wanted", "saved"} : q[f] = s[f]
        /\ q.wanted = type /\ q.saved = IF s.saved = "none" THEN s.saved ELSE type
    BY <2>4 DEF SessFields
  <2> HIDE DEF q
  <2> QED BY <1>0, <1>4, <2>1, <2>2, <2>3, <2>5 DEF SessOK, SessFields, ActionFrame
<1>5. CASE action = "ToggleTitleBar"
  <2>1. ExecuteAction(s, action, in, name) = [s EXCEPT !.titleBar = ~s.titleBar]
    BY <1>2, <1>5 DEF ExecuteAction
  <2> QED BY <1>0, <1>5, <2>1 DEF SessOK, SessFields, ActionFrame
<1>6. CASE action = "ToggleFullscreen"
  <2>1. ExecuteAction(s, action, in, name) = [s EXCEPT !.fullscreen = ~s.fullscreen]
    BY <1>2, <1>6 DEF ExecuteAction
  <2> QED BY <1>0, <1>6, <2>1 DEF SessOK, SessFields, ActionFrame
<1>7. CASE action = "ToggleInputProtection"
  <2>1. ExecuteAction(s, action, in, name) = SetAllowInput(s, ~s.allowInput)
    BY <1>2, <1>7 DEF ExecuteAction
  <2>2. StatusKeeps(s, SetAllowInput(s, ~s.allowInput))
    BY SetAllowInputOK
  <2> QED BY <1>7, <2>1, <2>2 DEF StatusKeeps
<1>8. CASE action = "CreateNewTab"
  <2>1. ExecuteAction(s, action, in, name) = [s EXCEPT !.tabs = s.tabs + 1]
    BY <1>2, <1>8 DEF ExecuteAction
  <2> QED BY <1>0, <1>8, <2>1 DEF SessOK, SessFields, ActionFrame
<1> QED BY <1>1, <1>3, <1>4, <1>5, <1>6, <1>7, <1>8

\* Any action of a key of the group.
LEMMA ActionOK ==
    ASSUME NEW s, SessOK(s), s.group # "none", NEW action \in ActionsOf[s.group], NEW skip, NEW in, NEW name,
           s.group = "profile" => in \in SUBSET {"main", "work"}
    PROVE  LET t == OneOf(s, action, skip, in, name)
           IN  /\ SessOK(t) /\ StatusFrame(s, t)
               /\ s.group # "trace" /\ action # "ToggleInputProtection" => ActionFrame(s, t)
               /\ t.tabs = IF action = "CreateNewTab" /\ action \notin skip THEN s.tabs + 1 ELSE s.tabs
<1>1. s.group \in {"keymaps", "status", "look", "profile", "trace", "calls"}
  BY DEF SessOK, SessionGroups
<1>2. CASE action \in skip
  BY <1>2 DEF OneOf, ActionFrame, StatusFrame
<1>3. CASE action \notin skip
  <2> DEFINE t == ExecuteAction(s, action, in, name)
  <2>1. OneOf(s, action, skip, in, name) = t
    BY <1>3 DEF OneOf
  <2>2. CASE s.group \in {"keymaps", "status"}
    BY <1>3, <2>1, <2>2, TogglesOK
  <2>3. CASE s.group \in {"look", "profile", "trace", "calls"}
    <3>1. action # "CreateNewTab"
      BY <2>3 DEF ActionsOf
    <3>2. s.group # "trace" => ActionKeeps(s, t)
      BY <2>3, LookOK, ProfileOK, CallsOK
    <3>3. s.group = "trace" => SessOK(t) /\ StatusFrame(s, t) /\ t.tabs = s.tabs
      BY TraceOK
    <3>4. ActionFrame(s, t) => StatusFrame(s, t)
      BY DEF ActionFrame, StatusFrame
    <3> QED BY <2>1, <3>1, <3>2, <3>3, <3>4 DEF ActionKeeps
  <2> QED BY <1>1, <2>2, <2>3
<1> QED BY <1>2, <1>3

\* The actions of a key, in order, or the one that enables the key maps again.
LEMMA AllActionsOK ==
    ASSUME NEW s, SessOK(s), s.group # "none", NEW key \in SessionGroups[s.group], NEW skip, NEW in, NEW name,
           s.group = "profile" => in \in SUBSET {"main", "work"}
    PROVE  LET t == ExecuteAllActions(s, key, skip, in, name)
           IN  /\ SessOK(t) /\ StatusFrame(s, t)
               /\ t.tabs # s.tabs => t.tabs = s.tabs + 1 /\ "CreateNewTab" \notin skip /\ key[1] = "CreateNewTab"
               /\ ~s.allowKeys => /\ t.tabs = s.tabs /\ t.titleBar = s.titleBar
                                  /\ t.fullscreen = s.fullscreen /\ t.allowInput = s.allowInput
<1> DEFINE t == ExecuteAllActions(s, key, skip, in, name)
           one == OneOf(s, key[1], skip, in, name)
           two == OneOf(one, key[2], skip, in, name)
<1>0. s.group \in DOMAIN SessionGroups /\ s.allowKeys \in BOOLEAN
  BY DEF SessOK
<1>1. /\ Len(key) \in {1, 2} /\ key[1] \in ActionsOf[s.group]
      /\ Len(key) = 2 => /\ key[2] \in ActionsOf[s.group] /\ key[2] # "CreateNewTab" /\ s.group # "trace"
                         /\ key[1] # "ToggleInputProtection" /\ key[2] # "ToggleInputProtection"
  BY <1>0, KeyActions
<1>2. CASE s.allowKeys
  <2>1. t = ExecuteInOrder(s, key, skip, in, name)
    BY <1>2 DEF ExecuteAllActions
  <2>2. /\ SessOK(one) /\ StatusFrame(s, one)
        /\ Len(key) = 2 => ActionFrame(s, one)
        /\ one.tabs = IF key[1] = "CreateNewTab" /\ key[1] \notin skip THEN s.tabs + 1 ELSE s.tabs
    BY <1>1, ActionOK
  <2>3. CASE Len(key) = 1
    <3>1. t = one
      BY <2>1, <2>3, InOrderOfOne
    <3> HIDE DEF t, one
    <3> QED BY <1>2, <2>2, <3>1 DEF t
  <2>4. CASE Len(key) = 2
    <3>1. t = two
      BY <2>1, <2>4, InOrderOfTwo
    <3> HIDE DEF one
    <3>2. one.group = s.group
      BY <2>2, <2>4 DEF ActionFrame
    <3>3. SessOK(two) /\ ActionFrame(one, two) /\ two.tabs = one.tabs
      BY <1>1, <2>2, <2>4, <3>2, ActionOK
    <3> HIDE DEF t, two
    <3>4. StatusFrame(s, two)
      BY <2>2, <2>4, <3>3 DEF ActionFrame, StatusFrame
    <3> QED BY <1>2, <2>2, <3>1, <3>3, <3>4 DEF t
  <2> QED BY <1>1, <2>3, <2>4
<1>3. CASE ~s.allowKeys
  <2>1. t = ToggleAllKeyMaps(s) \/ t = s
    BY <1>0, <1>3 DEF ExecuteAllActions
  <2>2. StatusFrame(s, s) /\ (ActionFrame(s, t) => StatusFrame(s, t))
    BY DEF ActionFrame, StatusFrame
  <2> HIDE DEF t
  <2>3. /\ SessOK(t) /\ StatusFrame(s, t) /\ t.tabs = s.tabs
        /\ t.titleBar = s.titleBar /\ t.fullscreen = s.fullscreen /\ t.allowInput = s.allowInput
    BY <2>1, <2>2, ToggleAllKeyMapsOK
  <2> QED BY <2>3 DEF t
<1> QED BY <1>0, <1>2, <1>3

SessStep == SessInv' /\ DisabledMapsDoNothing /\ StatusKept

\* A step that leaves the settings alone.
LEMMA QuietStep ==
    ASSUME SessInv, NEW s, SessOK(s), ActionFrame(sess, s) \/ s.presses = sess.presses + 1,
           s.tabs = sess.tabs, s.presses \in {sess.presses, sess.presses + 1}, s.saved = sess.saved,
           s.titleBar = sess.titleBar, s.fullscreen = sess.fullscreen, s.allowInput = sess.allowInput,
           sess' = s
    PROVE  SessStep
<1>1. sess.tabs <= 1 + s.presses /\ s.presses \in Nat
  BY DEF SessInv, OneTabPerPress
<1> QED BY <1>1 DEF SessStep, SessInv, OneTabPerPress, DisabledMapsDoNothing, StatusKept

\* sendKeyEvent() and sendCharEvent().
LEMMA KeyOrCharKeeps ==
    ASSUME SessInv, NEW key, NEW event \in {"Press", "Repeat", "Release"}, NEW in, NEW name, NEW mapped \in BOOLEAN,
           sess.group = "profile" => in \in SUBSET {"main", "work"},
           mapped => key \in SessionGroups[sess.group], KeyOrChar(key, event, in, name, mapped)
    PROVE  SessStep
<1> DEFINE s == Counted(sess, key, event)
           t == HandleAction(s, key, event, in, name)
<1>1. SessOK(sess) /\ sess.tabs \in Nat /\ sess.presses \in Nat /\ sess.tabs <= 1 + sess.presses /\ sess.group # "none"
  BY DEF SessInv, OneTabPerPress, KeyOrChar
<1>2. /\ \A f \in SessFields \ {"events", "presses", "held"} : s[f] = sess[f]
      /\ DOMAIN s = SessFields /\ s.presses = IF event = "Press" THEN sess.presses + 1 ELSE sess.presses
  <2> DEFINE x == sess.events + 1
             y == IF event = "Press" THEN sess.presses + 1 ELSE sess.presses
             z == IF event = "Release" THEN sess.held \ {key} ELSE sess.held \cup {key}
  <2>1. s = [sess EXCEPT !.events = x, !.presses = y, !.held = z]
    BY <1>1 DEF Counted, SessOK, SessFields
  <2> HIDE DEF x, y, z
  <2>2. /\ \A f \in SessFields \ {"events", "presses", "held"} : s[f] = sess[f]
        /\ DOMAIN s = SessFields /\ s.presses = y
    BY <1>1, <2>1 DEF SessOK, SessFields
  <2> QED BY <2>2 DEF y
<1>3. sess' = CASE s.waiting /\ event = "Press" -> [s EXCEPT !.closed = TRUE]
                [] ~(s.waiting /\ event = "Press") /\ event # "Release" /\ mapped -> t
                [] OTHER -> ToTerminal(s, key, event)
  BY DEF KeyOrChar
<1> HIDE DEF s
<1>4. /\ SessOK(s) /\ s.tabs = sess.tabs /\ s.group = sess.group /\ s.saved = sess.saved /\ s.wanted = sess.wanted
      /\ s.titleBar = sess.titleBar /\ s.fullscreen = sess.fullscreen /\ s.allowInput = sess.allowInput
      /\ s.allowKeys = sess.allowKeys /\ s.status = sess.status
  BY <1>1, <1>2 DEF SessOK, SessFields
<1>5. s.presses \in Nat /\ s.presses \in {sess.presses, sess.presses + 1} /\ (event = "Press" => s.presses = sess.presses + 1)
  BY <1>1, <1>2
<1>6. ASSUME NEW u, SessOK(u), u.tabs = s.tabs, u.saved = s.saved, u.presses = s.presses, u.group = s.group,
             u.titleBar = s.titleBar, u.fullscreen = s.fullscreen, u.allowInput = s.allowInput, sess' = u
      PROVE  SessStep
  <2>1. ActionFrame(sess, u) \/ u.presses = sess.presses + 1
    BY <1>4, <1>5, <1>6 DEF ActionFrame
  <2> QED BY <1>4, <1>5, <1>6, <2>1, QuietStep
<1>7. CASE sess' = [s EXCEPT !.closed = TRUE]
  <2> DEFINE u == [s EXCEPT !.closed = TRUE]
  <2>1. /\ SessOK(u) /\ u.tabs = s.tabs /\ u.saved = s.saved /\ u.presses = s.presses /\ u.group = s.group
        /\ u.titleBar = s.titleBar /\ u.fullscreen = s.fullscreen /\ u.allowInput = s.allowInput
    BY <1>4 DEF SessOK, SessFields
  <2> HIDE DEF u
  <2> QED BY <1>6, <1>7, <2>1 DEF u
<1>8. CASE sess' = ToTerminal(s, key, event)
  <2> DEFINE u == [s EXCEPT !.sent = Append(s.sent, <<key, event>>)]
  <2>1. ToTerminal(s, key, event) = u \/ ToTerminal(s, key, event) = s
    BY DEF ToTerminal
  <2>2. /\ SessOK(u) /\ u.tabs = s.tabs /\ u.saved = s.saved /\ u.presses = s.presses /\ u.group = s.group
        /\ u.titleBar = s.titleBar /\ u.fullscreen = s.fullscreen /\ u.allowInput = s.allowInput
    BY <1>4 DEF SessOK, SessFields
  <2> HIDE DEF u
  <2> QED BY <1>4, <1>6, <1>8, <2>1, <2>2
<1>9. CASE sess' = t /\ event # "Release" /\ mapped
  <2> DEFINE skip == IF event = "Press" THEN {} ELSE NonRepeatable
  <2>1. t = ExecuteAllActions(s, key, skip, in, name)
    BY DEF HandleAction
  <2>2. key \in SessionGroups[s.group] /\ s.group # "none"
    BY <1>1, <1>4, <1>9
  <2>3. "CreateNewTab" \notin skip => event = "Press"
    BY DEF NonRepeatable
  <2> HIDE DEF t, skip
  <2>4. /\ SessOK(t) /\ StatusFrame(s, t)
        /\ t.tabs # s.tabs => t.tabs = s.tabs + 1 /\ "CreateNewTab" \notin skip
        /\ ~s.allowKeys => /\ t.tabs = s.tabs /\ t.titleBar = s.titleBar
                           /\ t.fullscreen = s.fullscreen /\ t.allowInput = s.allowInput
    BY <1>4, <2>1, <2>2, AllActionsOK
  <2>5. t.presses = s.presses /\ (s.saved # "none" /\ t.saved = "none" => t.status = s.wanted)
    BY <2>4 DEF StatusFrame
  <2>6. t.tabs \in Nat /\ t.tabs <= 1 + t.presses
    BY <1>1, <1>4, <1>5, <2>3, <2>4, <2>5
  <2>7. SessInv'
    BY <1>5, <1>9, <2>4, <2>5, <2>6 DEF SessInv, OneTabPerPress
  <2>8. DisabledMapsDoNothing
    BY <1>4, <1>9, <2>4 DEF DisabledMapsDoNothing
  <2>9. StatusKept
    BY <1>4, <1>9, <2>5 DEF StatusKept
  <2> QED BY <2>7, <2>8, <2>9 DEF SessStep
<1> QED BY <1>3, <1>7, <1>8, <1>9

\* sendMousePressEvent().
LEMMA MouseKeeps ==
    ASSUME SessInv, NEW button, NEW handled \in BOOLEAN, SendMousePressEvent(button, handled)
    PROVE  SessStep
<1> DEFINE s == [sess EXCEPT !.events = sess.events + 1]
           t == ExecuteAllActions(s, button, {}, {}, "main")
<1>1. /\ SessOK(sess) /\ sess.tabs \in Nat /\ sess.presses \in Nat /\ sess.tabs <= 1 + sess.presses
      /\ sess.group = "look" /\ button \in SessionGroups.look
  BY DEF SessInv, OneTabPerPress, SendMousePressEvent
<1>2. sess' = IF handled THEN s ELSE t
  BY DEF SendMousePressEvent
<1>3. /\ SessOK(s) /\ s.tabs = sess.tabs /\ s.group = sess.group /\ s.saved = sess.saved
      /\ s.titleBar = sess.titleBar /\ s.fullscreen = sess.fullscreen /\ s.allowInput = sess.allowInput
      /\ s.presses = sess.presses /\ s.wanted = sess.wanted
  BY <1>1 DEF SessOK, SessFields
<1> HIDE DEF s
<1>4. CASE handled
  BY <1>2, <1>3, <1>4, QuietStep DEF ActionFrame
<1>5. CASE ~handled
  <2>1. button[1] # "CreateNewTab"
    BY <1>1 DEF SessionGroups
  <2>2. SessOK(t) /\ StatusFrame(s, t) /\ t.tabs = s.tabs
    BY <1>1, <1>3, <2>1, AllActionsOK
  <2> HIDE DEF t
  <2>3. t.presses = sess.presses /\ (s.saved # "none" /\ t.saved = "none" => t.status = s.wanted)
    BY <1>3, <2>2 DEF StatusFrame
  <2> QED BY <1>1, <1>2, <1>3, <1>5, <2>2, <2>3
          DEF SessStep, SessInv, OneTabPerPress, DisabledMapsDoNothing, StatusKept
<1> QED BY <1>4, <1>5

\* The group of keys that the session is driven with is chosen once.
LEMMA ChooseGroupKeeps ==
    ASSUME SessInv, NEW g \in DOMAIN SessionGroups, NEW waiting, ChooseGroup(g, waiting)
    PROVE  SessStep
<1>1. SessOK(sess) /\ sess.group = "none"
  BY DEF SessInv, ChooseGroup
<1> DEFINE s == [sess EXCEPT !.group = g, !.waiting = waiting]
<1>2. sess' = s
  BY DEF ChooseGroup
<1>3. /\ DOMAIN s = SessFields /\ s.group = g /\ \A f \in SessFields \ {"group", "waiting"} : s[f] = sess[f]
  BY <1>1 DEF SessOK, SessFields
<1> HIDE DEF s
<1>4. SessOK(s)
  BY <1>1, <1>3 DEF SessOK, SessFields
<1> QED BY <1>1, <1>2, <1>3, <1>4
        DEF SessFields, SessStep, SessInv, OneTabPerPress, DisabledMapsDoNothing, StatusKept

\* The vi mode changes, and the application locks the keyboard.
LEMMA IndicatorKeeps ==
    ASSUME SessInv, sess.group = "status", NEW s, StatusKeeps(sess, s), sess' = s PROVE SessStep
<1>1. /\ SessOK(s) /\ s.tabs = sess.tabs /\ s.presses = sess.presses /\ s.group = sess.group
      /\ sess.saved # "none" /\ s.saved = "none" => s.status = sess.wanted
  BY DEF StatusKeeps, StatusFrame
<1> QED BY <1>1 DEF SessStep, SessInv, OneTabPerPress, DisabledMapsDoNothing, StatusKept
LEMMA ViModeChangedKeeps == ASSUME SessInv, NEW mode, ViModeChanged(mode) PROVE SessStep
<1>1. SessOK(sess)
  BY DEF SessInv
<1> QED BY <1>1, ModeChangedOK, IndicatorKeeps DEF ViModeChanged
LEMMA KeyboardActionKeeps == ASSUME SessInv, NEW enable, KeyboardActionMode(enable) PROVE SessStep
<1>1. SessOK(sess)
  BY DEF SessInv
<1> QED BY <1>1, SetAllowInputOK, IndicatorKeeps DEF KeyboardActionMode

\* The application selects a status display.
LEMMA StatusSelectedKeeps == ASSUME SessInv, NEW type, StatusSelected(type) PROVE SessStep
<1>1. SessOK(sess) /\ sess.group = "status"
  BY DEF SessInv, StatusSelected
<1> DEFINE s == [sess EXCEPT !.status = type]
<1>2. sess' = s
  BY DEF StatusSelected, SetStatusDisplay
<1>3. DOMAIN s = SessFields /\ \A f \in SessFields \ {"status"} : s[f] = sess[f]
  BY <1>1 DEF SessOK, SessFields
<1> HIDE DEF s
<1>4. SessOK(s)
  BY <1>1, <1>3 DEF SessOK, SessFields
<1> QED BY <1>1, <1>2, <1>3, <1>4
        DEF SessFields, SessStep, SessInv, OneTabPerPress, DisabledMapsDoNothing, StatusKept

\* A reload when the file changed.
LEMMA ConfigReloadKeeps ==
    ASSUME SessInv, NEW read \in SUBSET {"main", "work"}, OnConfigReload(read) PROVE SessStep
<1>1. SessOK(sess) /\ sess.group = "profile"
  BY DEF SessInv, OnConfigReload
<1> DEFINE r == ReloadConfigWithProfile(sess, read, sess.profile)
           s == [r EXCEPT !.changes = r.changes + 1, !.reloads = r.reloads + sess.slots, !.slots = 2 * r.slots]
<1>2. SessOK(r) /\ ActionFrame(sess, r) /\ r.tabs = sess.tabs
  BY <1>1, ReloadWithProfileOK DEF ActionKeeps
<1> HIDE DEF r
<1>3. sess' = s
  BY <1>2 DEF OnConfigReload, r, SessOK, SessFields
<1>4. DOMAIN s = SessFields /\ \A f \in SessFields \ {"changes", "reloads", "slots"} : s[f] = r[f]
  BY <1>2 DEF SessOK, SessFields
<1> HIDE DEF s
<1>5. SessOK(s)
  BY <1>2, <1>4 DEF SessOK, SessFields
<1> QED BY <1>1, <1>2, <1>3, <1>4, <1>5
        DEF SessFields, SessStep, SessInv, OneTabPerPress, DisabledMapsDoNothing, StatusKept, ActionFrame

\* The user selects text.
LEMMA SelectTextKeeps == ASSUME SessInv, SelectText PROVE SessStep
<1>1. SessOK(sess) /\ sess.group = "trace"
  BY DEF SessInv, SelectText
<1> DEFINE s == [sess EXCEPT !.selection = TRUE]
<1>2. DOMAIN s = SessFields /\ \A f \in SessFields \ {"selection"} : s[f] = sess[f]
  BY <1>1 DEF SessOK, SessFields
<1>3. sess' = s
  BY DEF SelectText
<1> HIDE DEF s
<1>4. SessOK(s)
  BY <1>1, <1>2 DEF SessOK, SessFields
<1> QED BY <1>1, <1>2, <1>3, <1>4
        DEF SessFields, SessStep, SessInv, OneTabPerPress, DisabledMapsDoNothing, StatusKept

\* Every step of the session keeps its choices.
LEMMA SessionKept == ASSUME SessInv, [SessionNext]_sess PROVE SessStep
<1>1. CASE UNCHANGED sess
  BY <1>1 DEF SessStep, SessInv, OneTabPerPress, DisabledMapsDoNothing, StatusKept
<1>2. ASSUME NEW key, NEW event \in {"Press", "Repeat", "Release"}, NEW in, NEW name,
             sess.group = "profile" => in \in SUBSET {"main", "work"}, SendKeyEvent(key, event, in, name)
      PROVE  SessStep
  <2>1. KeyOrChar(key, event, in, name, Bound(sess, key))
    BY <1>2 DEF SendKeyEvent
  <2>2. Bound(sess, key) \in BOOLEAN /\ (Bound(sess, key) => key \in SessionGroups[sess.group])
    BY DEF Bound
  <2> QED BY <1>2, <2>1, <2>2, KeyOrCharKeeps
<1>3. ASSUME NEW key, NEW event \in {"Press", "Repeat", "Release"}, NEW editing \in BOOLEAN,
             sess.group = "keymaps", SendCharEvent(key, event, editing)
      PROVE  SessStep
  <2>1. KeyOrChar(key, event, {}, "main", Bound(sess, key) /\ ~editing)
    BY <1>3 DEF SendCharEvent
  <2>2. /\ (Bound(sess, key) /\ ~editing) \in BOOLEAN
        /\ (Bound(sess, key) /\ ~editing) => key \in SessionGroups[sess.group]
    BY DEF Bound
  <2> QED BY <1>3, <2>1, <2>2, KeyOrCharKeeps
<1>4. ASSUME NEW key \in AllKeys, NEW event \in {"Press", "Repeat", "Release"},
             IF sess.group = "profile"
             THEN \E in \in {{}, {"main"}, {"main", "work"}}, name \in Profiles : SendKeyEvent(key, event, in, name)
             ELSE \/ SendKeyEvent(key, event, {}, "main")
                  \/ sess.group = "calls" /\ \E link \in {{"found"}, {"found", "local", "file"}, {"found", "local", "file", "editor"},
                                                          {"found", "local", "file", "executable", "editor"}} :
                                        SendKeyEvent(key, event, link, "main")
                  \/ \E editing \in BOOLEAN : sess.group = "keymaps" /\ SendCharEvent(key, event, editing)
      PROVE  SessStep
  <2>1. CASE sess.group = "profile"
    <3>1. PICK in \in {{}, {"main"}, {"main", "work"}}, name \in Profiles : SendKeyEvent(key, event, in, name)
      BY <1>4, <2>1
    <3> QED BY <1>2, <3>1
  <2>2. CASE sess.group # "profile"
    BY <1>2, <1>3, <1>4, <2>2
  <2> QED BY <2>1, <2>2
<1>5. CASE \E button \in SessionGroups.look, handled \in BOOLEAN : SendMousePressEvent(button, handled)
  BY <1>5, MouseKeeps
<1>6. CASE \E g \in DOMAIN SessionGroups, waiting \in BOOLEAN : ChooseGroup(g, waiting)
  BY <1>6, ChooseGroupKeeps
<1>7. CASE \/ \E mode \in {"Insert", "Normal", "Visual"} : ViModeChanged(mode)
           \/ \E enable \in BOOLEAN : KeyboardActionMode(enable)
           \/ \E type \in {"None", "Indicator", "HostWritable"} : StatusSelected(type)
  BY <1>7, ViModeChangedKeeps, KeyboardActionKeeps, StatusSelectedKeeps
<1>8. CASE \E read \in {{}, {"main"}, {"main", "work"}} : OnConfigReload(read)
  <2>1. PICK read \in {{}, {"main"}, {"main", "work"}} : OnConfigReload(read)
    BY <1>8
  <2>2. read \in SUBSET {"main", "work"}
    OBVIOUS
  <2> QED BY <2>1, <2>2, ConfigReloadKeeps
<1> QED BY <1>1, <1>4, <1>5, <1>6, <1>7, <1>8, SelectTextKeeps DEF SessionNext

(***************************************************************************)
(* What the user chose stays chosen.  An answer decides its request once   *)
(* and is remembered, a key acts once and not while key maps are disabled, *)
(* status display, font and profile are those last asked for: for any      *)
(* number of requests, prompts of other sessions and events                *)
(* (TerminalSession::requestPermission, executeAllActions, handleAction).  *)
(***************************************************************************)
THEOREM SessionChoicesKept == ChoicesSpec => SessionKeepsChoices
<1> DEFINE Good == /\ AnswerKept /\ OncePerRequest'
                   /\ DisabledMapsDoNothing /\ OneTabPerPress' /\ StatusKept /\ LookAgrees' /\ ProfileApplied'
<1>1. ChoicesInit => PermInv /\ SessInv
  BY PermStarts, SessionStarts DEF ChoicesInit
<1>2. ASSUME PermInv /\ SessInv, [ChoicesNext]_choices
      PROVE  PermInv' /\ SessInv' /\ Good
  <2>1. [PermissionsNext]_perm /\ [SessionNext]_sess
    BY <1>2 DEF ChoicesNext, choices
  <2>2. PermInv' /\ AnswerKept /\ OncePerRequest'
    BY <1>2, <2>1, PermissionsKept
  <2>3. SessInv' /\ DisabledMapsDoNothing /\ StatusKept
    BY <1>2, <2>1, SessionKept DEF SessStep
  <2>4. OneTabPerPress' /\ LookAgrees' /\ ProfileApplied'
    BY <2>3 DEF SessInv, SessOK, LookAgrees, ProfileApplied
  <2> QED BY <2>2, <2>3, <2>4
<1> HIDE DEF Good
<1>3. PermInv /\ SessInv /\ [ChoicesNext]_choices => (PermInv /\ SessInv)' /\ [Good]_choices
  BY <1>2
<1>4. ChoicesSpec => [][Good]_choices
  BY <1>1, <1>3, PTL DEF ChoicesSpec
<1> QED BY <1>4 DEF SessionKeepsChoices, Good

-----------------------------------------------------------------------------
(* Editing the page.                                                       *)

CellType == [text : Int, protected : BOOLEAN]
PageType == [EditRows -> [EditCols -> CellType]]
MarginType == [top : EditRows, bottom : EditRows, left : EditCols, right : EditCols]
EditFields == {"page", "old", "row", "col", "margin", "origin", "protect", "op", "area"}

\* Nothing has been edited yet.
EditReady ==
    /\ DOMAIN edit = EditFields
    /\ edit.page \in PageType /\ edit.old = edit.page
    /\ edit.row \in EditRows /\ edit.col \in EditCols /\ edit.margin \in MarginType
    /\ edit.origin \in BOOLEAN /\ edit.protect \in BOOLEAN

EditInv == edit.op \in {"none", "ready"} => EditReady

Inserting == {"DCH", "DECDC", "DL", "ICH", "DECIC", "IL"}

\* The page has a first row and a first column, and they are numbered by integers.
LEMMA EditSizes ==
    /\ EditLines \in Nat /\ EditLines > 0 /\ EditColumns \in Nat /\ EditColumns > 0
    /\ EditRows \subseteq Int /\ EditCols \subseteq Int
    /\ 0 \in EditRows /\ EditLines - 1 \in EditRows /\ 0 \in EditCols /\ EditColumns - 1 \in EditCols
BY EditAssumption DEF EditRows, EditCols

\* An operation replaces the page, its name and its area.
LEMMA EditedIs ==
    ASSUME EditReady, NEW op, NEW page, NEW area, Edited(op, page, area)
    PROVE  /\ edit'.page = page /\ edit'.op = op /\ edit'.area = area /\ edit'.old = edit.page
           /\ edit'.margin = edit.margin /\ edit'.origin = edit.origin
BY DEF EditReady, Edited, EditFields

\* What an operation that inserts or deletes changes is in its area.
LEMMA StaysInArea ==
    ASSUME EditReady, NEW op \in Inserting, NEW page, NEW area, Edited(op, page, area),
           \A r \in EditRows, c \in EditCols : page[r][c] # edit.page[r][c] => <<r, c>> \in AreaCells(area)
    PROVE  EditInv' /\ EditsStayInside'
<1>1. /\ edit'.page = page /\ edit'.op = op /\ edit'.area = area /\ edit'.old = edit.page
  BY EditedIs
<1>2. op \notin {"none", "ready", "DECCRA", "DECSEL", "DECSERA"}
  BY DEF Inserting
<1>3. (Changed \subseteq AreaCells(edit.area))'
  <2> SUFFICES ASSUME NEW rc \in Changed' PROVE rc \in AreaCells(edit'.area)
    BY DEF AreaCells
  <2>1. rc \in EditRows \X EditCols /\ page[rc[1]][rc[2]] # edit.page[rc[1]][rc[2]]
    BY <1>1 DEF Changed
  <2>2. rc = <<rc[1], rc[2]>> /\ rc[1] \in EditRows /\ rc[2] \in EditCols
    BY <2>1
  <2> QED BY <1>1, <2>1, <2>2
<1> QED BY <1>1, <1>2, <1>3 DEF EditInv, EditsStayInside, EditStaysInMargins, CopiedAsWas, SelectiveKeepsProtected

\* An operation that the properties say nothing about.
LEMMA Elsewhere ==
    ASSUME EditReady, NEW op, op \notin Inserting \cup {"none", "ready", "DECCRA", "DECSEL", "DECSERA"},
           NEW page, NEW area, Edited(op, page, area)
    PROVE  EditInv' /\ EditsStayInside'
<1>1. edit'.op = op
  BY EditedIs
<1> QED BY <1>1 DEF EditInv, Inserting, EditsStayInside, EditStaysInMargins, CopiedAsWas, SelectiveKeepsProtected

\* A selective erase changes no protected cell.
LEMMA KeepsProtected ==
    ASSUME EditReady, NEW op \in {"DECSEL", "DECSERA"}, NEW page, NEW area, Edited(op, page, area),
           \A r \in EditRows, c \in EditCols : edit.page[r][c].protected => page[r][c] = edit.page[r][c]
    PROVE  EditInv' /\ EditsStayInside'
<1>1. /\ edit'.page = page /\ edit'.op = op /\ edit'.area = area /\ edit'.old = edit.page
  BY EditedIs
<1>2. (\A rc \in Changed : ~edit.old[rc[1]][rc[2]].protected)'
  <2> SUFFICES ASSUME NEW rc \in Changed' PROVE ~edit.page[rc[1]][rc[2]].protected
    BY <1>1
  <2>1. rc \in EditRows \X EditCols /\ page[rc[1]][rc[2]] # edit.page[rc[1]][rc[2]]
    BY <1>1 DEF Changed
  <2>2. rc[1] \in EditRows /\ rc[2] \in EditCols
    BY <2>1
  <2> QED BY <2>1, <2>2
<1> QED BY <1>1, <1>2 DEF EditInv, EditsStayInside, EditStaysInMargins, CopiedAsWas, SelectiveKeepsProtected

\* What WithCells() puts into a cell.
LEMMA WithCellsIs ==
    ASSUME NEW page, NEW cells, NEW cell, NEW r \in EditRows, NEW c \in EditCols
    PROVE  WithCells(page, cells, cell)[r][c] = IF <<r, c>> \in cells THEN cell ELSE page[r][c]
BY DEF WithCells

\* Cursor and margins are integers on the page.
LEMMA MarginNumbers ==
    ASSUME EditReady
    PROVE  /\ edit.margin.top \in EditRows /\ edit.margin.bottom \in EditRows
           /\ edit.margin.left \in EditCols /\ edit.margin.right \in EditCols
           /\ edit.margin.top \in Int /\ edit.margin.bottom \in Int
           /\ edit.margin.left \in Int /\ edit.margin.right \in Int
           /\ edit.row \in EditRows /\ edit.col \in EditCols /\ edit.row \in Int /\ edit.col \in Int
           /\ edit.margin.left >= 0 /\ edit.margin.right <= EditColumns - 1
<1>1. /\ edit.margin.top \in EditRows /\ edit.margin.bottom \in EditRows
      /\ edit.margin.left \in EditCols /\ edit.margin.right \in EditCols
      /\ edit.row \in EditRows /\ edit.col \in EditCols
  BY DEF EditReady, MarginType
<1> QED BY <1>1, EditSizes DEF EditRows, EditCols

-----------------------------------------------------------------------------
(* ICH, DCH, DECIC, DECDC.                                                 *)

\* rotate() leaves what is outside first .. last - 1.
LEMMA RotateStays ==
    ASSUME NEW line, NEW first \in Int, NEW middle, NEW last \in Int, NEW c \in EditCols, c \notin first..last - 1
    PROVE  RotateRow(line, first, middle, last)[c] = line[c]
BY DEF RotateRow

\* Characters are deleted from the cursor to the right margin.
LEMMA DeleteCharsStays ==
    ASSUME EditReady, NEW r \in EditRows, NEW n \in Nat, n # 0, edit.col <= edit.margin.right,
           NEW q \in EditRows, NEW c \in EditCols,
           DeleteChars(edit.page, r, n)[q][c] # edit.page[q][c]
    PROVE  q = r /\ c \in edit.col..edit.margin.right
<1> DEFINE m == Lesser(n, edit.margin.right + 1 - edit.col)
           line == RotateRow(edit.page[r], edit.col, edit.col + m, edit.margin.right + 1)
           base == [edit.page EXCEPT ![r] = line]
           cells == RowCells(r, edit.margin.right + 1 - m, edit.margin.right)
<1>1. /\ edit.margin.right \in Int /\ edit.col \in Int /\ c \in Int
  BY MarginNumbers, EditSizes
<1>2. m \in Int /\ m <= edit.margin.right + 1 - edit.col /\ m >= 1
  BY <1>1 DEF Lesser
<1> HIDE DEF m
<1>3. DeleteChars(edit.page, r, n) = WithCells(base, cells, Erased)
  BY DEF DeleteChars, m
<1>4. <<q, c>> \in cells => q = r /\ c \in edit.col..edit.margin.right
  BY <1>1, <1>2 DEF RowCells
<1>5. ASSUME ~(q = r /\ c \in edit.col..edit.margin.right) PROVE base[q][c] = edit.page[q][c]
  <2>1. c \notin edit.col..(edit.margin.right + 1) - 1 => line[c] = edit.page[r][c]
    BY <1>1, RotateStays
  <2>2. edit.page \in [EditRows -> [EditCols -> CellType]]
    BY DEF EditReady, PageType
  <2>3. (edit.margin.right + 1) - 1 = edit.margin.right
    BY <1>1
  <2> HIDE DEF line
  <2> QED BY <1>5, <2>1, <2>2, <2>3
<1> HIDE DEF base, cells
<1>6. WithCells(base, cells, Erased)[q][c] = IF <<q, c>> \in cells THEN Erased ELSE base[q][c]
  BY WithCellsIs
<1> QED BY <1>3, <1>4, <1>5, <1>6

\* The count of ICH fits when the logical column is the real one.
LEMMA InsertCountFits ==
    ASSUME EditReady, NEW n \in Nat, n # 0, edit.col <= edit.margin.right, ~edit.origin \/ edit.margin.left = 0
    PROVE  InsertDefined(n) /\ InsertCount(n) \in Int /\ InsertCount(n) >= 1
           /\ InsertCount(n) <= edit.margin.right - edit.col + 1
<1>1. edit.margin.right \in Int /\ edit.col \in Int /\ edit.margin.left \in Int
  BY MarginNumbers
<1>2. LogicalColumn = edit.col
  BY <1>1 DEF LogicalColumn
<1> QED BY <1>1, <1>2 DEF InsertDefined, InsertCount, Lesser

\* insertChars() leaves what is outside the cursor .. right margin.
LEMMA InsertCharsStays ==
    ASSUME EditReady, NEW r \in EditRows, NEW n \in Nat, n # 0, edit.col <= edit.margin.right,
           ~edit.origin \/ edit.margin.left = 0,
           NEW c \in EditCols, InsertChars(edit.page, r, n)[r][c] # edit.page[r][c]
    PROVE  c \in edit.col..edit.margin.right
<1> DEFINE m == InsertCount(n)
           line == RotateRow(edit.page[r], edit.col, edit.margin.right - m + 1, edit.margin.right + 1)
           base == [edit.page EXCEPT ![r] = line]
           cells == RowCells(r, edit.col, edit.col + m - 1)
<1>1. /\ edit.margin.right \in Int /\ edit.col \in Int /\ c \in Int
  BY MarginNumbers, EditSizes
<1>2. m \in Int /\ m <= edit.margin.right - edit.col + 1 /\ m >= 1
  BY InsertCountFits
<1>3. InsertChars(edit.page, r, n) = WithCells(base, cells, Erased)
  BY DEF InsertChars
<1> HIDE DEF m
<1>4. <<r, c>> \in cells => c \in edit.col..edit.margin.right
  BY <1>1, <1>2 DEF RowCells
<1>5. ASSUME c \notin edit.col..edit.margin.right PROVE base[r][c] = edit.page[r][c]
  <2>1. c \notin edit.col..(edit.margin.right + 1) - 1 => line[c] = edit.page[r][c]
    BY <1>1, RotateStays
  <2>2. edit.page \in [EditRows -> [EditCols -> CellType]]
    BY DEF EditReady, PageType
  <2>3. (edit.margin.right + 1) - 1 = edit.margin.right
    BY <1>1
  <2> HIDE DEF line
  <2> QED BY <1>5, <2>1, <2>2, <2>3
<1> HIDE DEF base, cells
<1>6. WithCells(base, cells, Erased)[r][c] = IF <<r, c>> \in cells THEN Erased ELSE base[r][c]
  BY WithCellsIs
<1> QED BY <1>3, <1>4, <1>5, <1>6

\* The cells of the margins.
LEMMA InMargins ==
    ASSUME EditReady, IsCursorInsideMargins, NEW q, NEW c,
           q \in edit.margin.top..edit.margin.bottom, c \in edit.col..edit.margin.right
    PROVE  <<q, c>> \in AreaCells(MarginArea)
<1>1. c \in edit.margin.left..edit.margin.right
  BY MarginNumbers DEF IsCursorInsideMargins
<1> QED BY <1>1 DEF AreaCells, MarginArea

\* DCH.
LEMMA DeleteCharactersStays == ASSUME EditReady, DeleteCharacters PROVE EditInv' /\ EditsStayInside'
<1>1. PICK n \in 0..MaxCount : Edited("DCH", IF IsCursorInsideMargins /\ n # 0 THEN DeleteChars(edit.page, edit.row, n)
                                             ELSE edit.page, MarginArea)
  BY DEF DeleteCharacters
<1> DEFINE page == IF IsCursorInsideMargins /\ n # 0 THEN DeleteChars(edit.page, edit.row, n) ELSE edit.page
<1>2. n \in Nat
  BY EditAssumption
<1>3. ASSUME NEW q \in EditRows, NEW c \in EditCols, page[q][c] # edit.page[q][c]
      PROVE  <<q, c>> \in AreaCells(MarginArea)
  <2>1. IsCursorInsideMargins /\ n # 0 /\ DeleteChars(edit.page, edit.row, n)[q][c] # edit.page[q][c]
    BY <1>3
  <2>2. edit.col <= edit.margin.right /\ edit.row \in edit.margin.top..edit.margin.bottom
    BY <2>1, MarginNumbers DEF IsCursorInsideMargins
  <2>3. q = edit.row /\ c \in edit.col..edit.margin.right
    BY <1>2, <2>1, <2>2, DeleteCharsStays, MarginNumbers
  <2> QED BY <2>1, <2>2, <2>3, InMargins
<1> HIDE DEF page
<1>4. Edited("DCH", page, MarginArea)
  BY <1>1 DEF page
<1> QED BY <1>3, <1>4, StaysInArea DEF Inserting

\* DECDC.
LEMMA DeleteColumnsStays == ASSUME EditReady, DeleteColumns PROVE EditInv' /\ EditsStayInside'
<1>1. PICK n \in 1..MaxCount : Edited("DECDC", IF IsCursorInsideMargins THEN MarginRows(DeleteChars, edit.page, n)
                                               ELSE edit.page, MarginArea)
  BY DEF DeleteColumns
<1> DEFINE page == IF IsCursorInsideMargins THEN MarginRows(DeleteChars, edit.page, n) ELSE edit.page
<1>2. n \in Nat /\ n # 0
  BY EditAssumption
<1>3. ASSUME NEW q \in EditRows, NEW c \in EditCols, page[q][c] # edit.page[q][c]
      PROVE  <<q, c>> \in AreaCells(MarginArea)
  <2>1. IsCursorInsideMargins
    BY <1>3
  <2>2. MarginRows(DeleteChars, edit.page, n)[q]
          = IF q \in edit.margin.top..edit.margin.bottom THEN DeleteChars(edit.page, q, n)[q] ELSE edit.page[q]
    BY DEF MarginRows
  <2>3. q \in edit.margin.top..edit.margin.bottom /\ DeleteChars(edit.page, q, n)[q][c] # edit.page[q][c]
    BY <1>3, <2>1, <2>2
  <2>4. edit.col <= edit.margin.right
    BY <2>1, MarginNumbers DEF IsCursorInsideMargins
  <2>5. c \in edit.col..edit.margin.right
    BY <1>2, <2>3, <2>4, DeleteCharsStays
  <2> QED BY <2>1, <2>3, <2>5, InMargins
<1> HIDE DEF page
<1>4. Edited("DECDC", page, MarginArea)
  BY <1>1 DEF page
<1> QED BY <1>3, <1>4, StaysInArea DEF Inserting

\* Both forms of inserting, in a set of lines of the margins.
LEMMA InsertStays ==
    ASSUME EditReady, NEW op \in {"ICH", "DECIC"}, NEW rows, NEW n \in Nat, n # 0,
           IsCursorInsideMargins => rows \subseteq edit.margin.top..edit.margin.bottom,
           NEW page \in InsertedRows(rows, n),
           Edited(op, IF IsCursorInsideMargins THEN page ELSE edit.page, MarginArea)
    PROVE  EditInv' /\ EditsStayInside'
<1> DEFINE new == IF IsCursorInsideMargins THEN page ELSE edit.page
<1>1. CASE edit.origin /\ edit.margin.left > 0
  <2> HIDE DEF new
  <2>1. edit'.op = op /\ edit'.origin = edit.origin /\ edit'.margin = edit.margin
    BY EditedIs
  <2> QED BY <1>1, <2>1 DEF EditInv, EditsStayInside, EditStaysInMargins, CopiedAsWas, SelectiveKeepsProtected
<1>2. CASE ~(edit.origin /\ edit.margin.left > 0)
  <2>1. ~edit.origin \/ edit.margin.left = 0
    BY <1>2, MarginNumbers
  <2>2. ASSUME NEW q \in EditRows, NEW c \in EditCols, new[q][c] # edit.page[q][c]
        PROVE  <<q, c>> \in AreaCells(MarginArea)
    <3>1. IsCursorInsideMargins /\ page[q][c] # edit.page[q][c]
      BY <2>2
    <3>2. edit.col <= edit.margin.right
      BY <3>1, MarginNumbers DEF IsCursorInsideMargins
    <3>3. InsertDefined(n)
      BY <2>1, <3>2, InsertCountFits
    <3>4. page = [r \in EditRows |-> IF r \in rows THEN InsertChars(edit.page, r, n)[r] ELSE edit.page[r]]
      BY <3>3 DEF InsertedRows
    <3>5. q \in rows /\ InsertChars(edit.page, q, n)[q][c] # edit.page[q][c]
      BY <3>1, <3>4
    <3>6. c \in edit.col..edit.margin.right
      BY <2>1, <3>2, <3>5, InsertCharsStays
    <3> QED BY <3>1, <3>5, <3>6, InMargins
  <2> HIDE DEF new
  <2>3. Edited(op, new, MarginArea)
    BY DEF new
  <2> QED BY <2>2, <2>3, StaysInArea DEF Inserting
<1> QED BY <1>1, <1>2

\* ICH.
LEMMA InsertCharactersStays == ASSUME EditReady, InsertCharacters PROVE EditInv' /\ EditsStayInside'
<1>1. PICK n \in 1..MaxCount : \E page \in InsertedRows({edit.row}, n) :
           Edited("ICH", IF IsCursorInsideMargins THEN page ELSE edit.page, MarginArea)
  BY DEF InsertCharacters
<1>2. n \in Nat /\ n # 0
  BY EditAssumption
<1>3. IsCursorInsideMargins => {edit.row} \subseteq edit.margin.top..edit.margin.bottom
  BY DEF IsCursorInsideMargins
<1> QED BY <1>1, <1>2, <1>3, InsertStays

\* DECIC.
LEMMA InsertColumnsStays == ASSUME EditReady, InsertColumns PROVE EditInv' /\ EditsStayInside'
<1>1. PICK n \in 1..MaxCount : \E page \in InsertedRows(edit.margin.top..edit.margin.bottom, n) :
           Edited("DECIC", IF IsCursorInsideMargins THEN page ELSE edit.page, MarginArea)
  BY DEF InsertColumns
<1>2. n \in Nat /\ n # 0
  BY EditAssumption
<1> QED BY <1>1, <1>2, InsertStays

-----------------------------------------------------------------------------
(* IL and DL.                                                              *)

\* The margins from the cursor's line on.
LEMMA CursorArea ==
    ASSUME EditReady
    PROVE  AreaCells(CursorMargin) = (edit.row..edit.margin.bottom) \X (edit.margin.left..edit.margin.right)
BY DEF AreaCells, CursorMargin, EditReady, MarginType

\* DL.
LEMMA DeleteLinesStays == ASSUME EditReady, DeleteLines PROVE EditInv' /\ EditsStayInside'
<1>1. PICK n \in 1..MaxCount : Edited("DL", IF IsCursorInsideMargins THEN ScrollUpFrom(edit.page, edit.row, n)
                                            ELSE edit.page, CursorMargin)
  BY DEF DeleteLines
<1> DEFINE page == IF IsCursorInsideMargins THEN ScrollUpFrom(edit.page, edit.row, n) ELSE edit.page
<1>2. ASSUME NEW q \in EditRows, NEW c \in EditCols, page[q][c] # edit.page[q][c]
      PROVE  <<q, c>> \in AreaCells(CursorMargin)
  <2>1. ScrollUpFrom(edit.page, edit.row, n)[q][c] # edit.page[q][c]
    BY <1>2
  <2>2. q \in edit.row..edit.margin.bottom /\ c \in edit.margin.left..edit.margin.right
    BY <2>1 DEF ScrollUpFrom
  <2> QED BY <2>2, CursorArea
<1> HIDE DEF page
<1>3. Edited("DL", page, CursorMargin)
  BY <1>1 DEF page
<1> QED BY <1>2, <1>3, StaysInArea DEF Inserting

\* IL.
LEMMA InsertLinesStays == ASSUME EditReady, InsertLines PROVE EditInv' /\ EditsStayInside'
<1>1. PICK n \in 1..MaxCount : Edited("IL", IF IsCursorInsideMargins THEN ScrollDownFrom(edit.page, edit.row, n)
                                            ELSE edit.page, CursorMargin)
  BY DEF InsertLines
<1> DEFINE page == IF IsCursorInsideMargins THEN ScrollDownFrom(edit.page, edit.row, n) ELSE edit.page
           m == Lesser(n, edit.margin.bottom - edit.row + 1)
<1>2. CASE ~FullHorizontal
  <2> HIDE DEF page, m
  <2>1. edit'.op = "IL" /\ edit'.margin = edit.margin
    BY <1>1, EditedIs DEF page
  <2> QED BY <1>2, <2>1 DEF EditInv, EditsStayInside, EditStaysInMargins, FullHorizontal, CopiedAsWas,
                            SelectiveKeepsProtected
<1>3. CASE FullHorizontal
  <2>1. /\ edit.margin.bottom \in Int /\ edit.row \in Int /\ n \in Nat /\ n # 0
    BY MarginNumbers, EditAssumption
  <2>2. ASSUME NEW q \in EditRows, NEW c \in EditCols, page[q][c] # edit.page[q][c]
        PROVE  <<q, c>> \in AreaCells(CursorMargin)
    <3>1. IsCursorInsideMargins /\ ScrollDownFrom(edit.page, edit.row, n)[q][c] # edit.page[q][c]
      BY <2>2
    <3>2. edit.row <= edit.margin.bottom
      BY <2>1, <3>1 DEF IsCursorInsideMargins
    <3>3. m \in Int /\ m >= 1 /\ m <= edit.margin.bottom - edit.row + 1
      BY <2>1, <3>2 DEF Lesser
    <3> HIDE DEF m
    <3>4. ScrollDownFrom(edit.page, edit.row, n)[q][c]
            = IF c \notin edit.margin.left..edit.margin.right THEN edit.page[q][c]
              ELSE IF q \in edit.row..edit.row + m - 1 THEN Erased
              ELSE IF q \notin edit.row + m..edit.margin.bottom THEN edit.page[q][c]
              ELSE IF q - m \in EditRows THEN edit.page[q - m][c] ELSE EditCell(History, FALSE)
      BY <1>3 DEF ScrollDownFrom, m
    <3>5. c \in edit.margin.left..edit.margin.right
          /\ (q \in edit.row..edit.row + m - 1 \/ q \in edit.row + m..edit.margin.bottom)
      BY <3>1, <3>4
    <3>6. q \in Int
      BY EditSizes
    <3>7. q \in edit.row..edit.margin.bottom
      BY <2>1, <3>3, <3>5, <3>6
    <3> QED BY <3>5, <3>7, CursorArea
  <2> HIDE DEF page
  <2>3. Edited("IL", page, CursorMargin)
    BY <1>1 DEF page
  <2> QED BY <2>2, <2>3, StaysInArea DEF Inserting
<1> QED BY <1>2, <1>3

-----------------------------------------------------------------------------
(* DECSEL and DECSERA.                                                     *)

\* selectiveErase() changes no protected cell.
LEMMA SelectiveEraseKeeps ==
    ASSUME NEW page, NEW row, NEW from, NEW to, NEW r \in EditRows, NEW c \in EditCols, page[r][c].protected
    PROVE  SelectiveErase(page, row, from, to)[r][c] = page[r][c]
<1> DEFINE cells == {rc \in RowCells(row, from, to - 1) : ~page[rc[1]][rc[2]].protected}
<1>1. <<r, c>> \notin cells
  OBVIOUS
<1> HIDE DEF cells
<1> QED BY <1>1, WithCellsIs DEF SelectiveErase, cells

\* The cursor's line is reset only when none of its cells is protected.
LEMMA SelectiveEraseLineKeeps ==
    ASSUME EditReady, NEW r \in EditRows, NEW c \in EditCols, edit.page[r][c].protected
    PROVE  SelectiveEraseLine(edit.page, edit.row)[r][c] = edit.page[r][c]
<1>1. CASE ContainsProtectedCharacters(edit.page, edit.row, 0, EditColumns)
  BY <1>1, SelectiveEraseKeeps DEF SelectiveEraseLine
<1>2. CASE ~ContainsProtectedCharacters(edit.page, edit.row, 0, EditColumns)
  <2>1. \A x \in EditCols : ~edit.page[edit.row][x].protected
    BY <1>2 DEF ContainsProtectedCharacters, EditCols
  <2>2. r # edit.row
    BY <2>1
  <2>3. <<r, c>> \notin RowCells(edit.row, 0, EditColumns - 1)
    BY <2>2 DEF RowCells
  <2>4. SelectiveEraseLine(edit.page, edit.row) = WithCells(edit.page, RowCells(edit.row, 0, EditColumns - 1), Erased)
    BY <1>2 DEF SelectiveEraseLine
  <2> QED BY <2>3, <2>4, WithCellsIs
<1> QED BY <1>1, <1>2

\* DECSEL.
LEMMA SelectiveInLineKeeps == ASSUME EditReady, SelectiveEraseInLine PROVE EditInv' /\ EditsStayInside'
<1>1. ASSUME NEW page, Edited("DECSEL", page, FullEditMargin),
             \A r \in EditRows, c \in EditCols : edit.page[r][c].protected => page[r][c] = edit.page[r][c]
      PROVE  EditInv' /\ EditsStayInside'
  BY <1>1, KeepsProtected
<1>2. \A r \in EditRows, c \in EditCols :
         edit.page[r][c].protected => SelectiveEraseToEndOfLine(edit.page)[r][c] = edit.page[r][c]
  BY SelectiveEraseKeeps, SelectiveEraseLineKeeps DEF SelectiveEraseToEndOfLine
<1>3. \A r \in EditRows, c \in EditCols :
         edit.page[r][c].protected => SelectiveEraseToBeginOfLine(edit.page)[r][c] = edit.page[r][c]
  BY SelectiveEraseKeeps DEF SelectiveEraseToBeginOfLine
<1> QED BY <1>1, <1>2, <1>3, SelectiveEraseLineKeeps DEF SelectiveEraseInLine

\* DECSERA.
LEMMA SelectiveAreaKeeps == ASSUME EditReady, SelectiveEraseRectangularArea PROVE EditInv' /\ EditsStayInside'
<1>1. PICK a \in EditAreas : Edited("DECSERA", SelectiveEraseArea(edit.page, a), a)
  BY DEF SelectiveEraseRectangularArea
<1>2. ASSUME NEW r \in EditRows, NEW c \in EditCols, edit.page[r][c].protected
      PROVE  SelectiveEraseArea(edit.page, a)[r][c] = edit.page[r][c]
  <2> DEFINE o == ApplyOriginMode(a)
             all == (o.top..Lesser(o.bottom, EditLines)) \X (o.left..Lesser(o.right, EditColumns))
             cells == {rc \in all : rc \in EditRows \X EditCols /\ ~edit.page[rc[1]][rc[2]].protected}
             cell == EditCell(Blank, FALSE)
  <2>1. SelectiveEraseArea(edit.page, a) = WithCells(edit.page, cells, cell)
    BY DEF SelectiveEraseArea
  <2> HIDE DEF all
  <2>2. <<r, c>> \notin cells
    BY <1>2
  <2> HIDE DEF cells, cell
  <2>3. WithCells(edit.page, cells, cell)[r][c] = edit.page[r][c]
    BY <2>2, WithCellsIs
  <2> QED BY <2>1, <2>3
<1> QED BY <1>1, <1>2, KeepsProtected

-----------------------------------------------------------------------------
(* DECCRA.                                                                 *)

\* A larger factor gives a product larger by at least the other one.
LEMMA ProductGrows ==
    ASSUME NEW w \in Nat \ {0}, NEW a \in Int, NEW b \in Int, a < b
    PROVE  w * a + w <= w * b
<1>1. w * (b - a) >= w
  OBVIOUS
<1> QED BY <1>1

\* Quotient and remainder of the number of a cell, counted from 1 in rows of w cells.
LEMMA CellNumber ==
    ASSUME NEW w \in Nat \ {0}, NEW h \in Nat \ {0}, NEW i \in 1..h * w
    PROVE  /\ i - 1 = w * ((i - 1) \div w) + ((i - 1) % w)
           /\ (i - 1) \div w \in 0..h - 1 /\ (i - 1) % w \in 0..w - 1
<1> DEFINE a == i - 1
           y == a \div w
           x == a % w
<1>1. h * w \in Int /\ h * w = w * h
  OBVIOUS
<1>2. a \in Int /\ a >= 0 /\ a < w * h
  BY <1>1
<1> HIDE DEF a
<1>3. a = w * y + x /\ y \in Int /\ x \in 0..w - 1
  BY <1>2
<1> HIDE DEF y, x
<1>4. y < h
  <2>1. ASSUME y >= h PROVE FALSE
    <3>1. w * y >= w * h
      <4>1. CASE y = h
        BY <4>1
      <4>2. CASE h < y
        <5>1. w * h + w <= w * y
          BY <1>3, <4>2, ProductGrows
        <5> QED BY <5>1, <1>3
      <4> QED BY <1>3, <2>1, <4>1, <4>2
    <3>2. w * y \in Int /\ w * h \in Int
      BY <1>3
    <3> QED BY <1>2, <1>3, <3>1, <3>2
  <2> QED BY <1>3, <2>1
<1>5. y >= 0
  <2>1. ASSUME y < 0 PROVE FALSE
    <3>1. w * y + w <= w * 0
      BY <1>3, <2>1, ProductGrows
    <3>2. w * 0 = 0 /\ w * y \in Int
      BY <1>3
    <3> QED BY <1>2, <1>3, <3>1, <3>2
  <2> QED BY <1>3, <2>1
<1> QED BY <1>3, <1>4, <1>5 DEF a, y, x

\* Cells are counted row by row.
LEMMA CountedByRow ==
    ASSUME NEW w \in Nat \ {0}, NEW j \in Int, NEW k \in Int, j < k,
           NEW yj \in Int, NEW xj \in 0..w - 1, j - 1 = w * yj + xj,
           NEW yk \in Int, NEW xk \in 0..w - 1, k - 1 = w * yk + xk
    PROVE  yj < yk \/ (yj = yk /\ xj < xk)
<1>1. w * yj \in Int /\ w * yk \in Int
  OBVIOUS
<1>2. ASSUME yk < yj PROVE FALSE
  <2>1. w * yk + w <= w * yj
    BY <1>2, ProductGrows
  <2> QED BY <1>1, <2>1
<1>3. yj = yk => xj < xk
  BY <1>1
<1> QED BY <1>2, <1>3

\* The number of a cell determines its row and column.
LEMMA CellOfNumber ==
    ASSUME NEW w \in Nat \ {0}, NEW h \in Nat \ {0}, NEW y \in 0..h - 1, NEW x \in 0..w - 1
    PROVE  LET i == w * y + x + 1
           IN  i \in 1..h * w /\ (i - 1) \div w = y /\ (i - 1) % w = x
<1> DEFINE a == w * y + x
           q == a \div w
           r == a % w
<1>1. w * y \in Int /\ w * y >= 0 /\ h * w = w * h /\ w * h \in Int
  OBVIOUS
<1>2. w * y + w <= w * h
  BY ProductGrows
<1>3. a \in Int /\ a >= 0 /\ a < h * w
  BY <1>1, <1>2
<1>4. a = w * q + r /\ q \in Int /\ r \in 0..w - 1
  <2> HIDE DEF a
  <2> QED BY <1>3
<1>5. a = w * y + x
  OBVIOUS
<1> HIDE DEF a, q, r
<1>6. w * q \in Int
  BY <1>4
<1>7. q = y
  <2>1. ASSUME q < y PROVE FALSE
    <3>1. w * q + w <= w * y
      BY <1>4, <2>1, ProductGrows
    <3> QED BY <1>1, <1>4, <1>5, <1>6, <3>1
  <2>2. ASSUME y < q PROVE FALSE
    <3>1. w * y + w <= w * q
      BY <1>4, <2>2, ProductGrows
    <3> QED BY <1>1, <1>4, <1>5, <1>6, <3>1
  <2> QED BY <1>4, <2>1, <2>2
<1>8. r = x
  BY <1>1, <1>4, <1>5, <1>7
<1>9. a + 1 \in 1..h * w /\ (a + 1) - 1 = a
  BY <1>1, <1>3
<1> QED BY <1>7, <1>8, <1>9 DEF a, q, r

Height(src) == src.bottom - src.top + 1
Width(src) == src.right - src.left + 1

\* The order of copying: every cell once, and none is read after it was written.
LEMMA CopyOrderSafe ==
    ASSUME NEW src \in EditAreas, Proper(src), NEW row \in EditRows, NEW col \in EditCols,
           ~(row = src.top /\ col = src.left)
    PROVE  LET n == Height(src) * Width(src)
               o == CopyOrder(src, row, col)
           IN  /\ n \in Nat
               /\ \A i \in 1..n : o[i][1] \in 0..Height(src) - 1 /\ o[i][2] \in 0..Width(src) - 1
               /\ \A j, k \in 1..n : o[j][1] = o[k][1] /\ o[j][2] = o[k][2] => ~(j < k)
               /\ \A j, k \in 1..n : row + o[j][1] = src.top + o[k][1] /\ col + o[j][2] = src.left + o[k][2] => ~(j < k)
               /\ \A y \in 0..Height(src) - 1, x \in 0..Width(src) - 1 : \E i \in 1..n : o[i][1] = y /\ o[i][2] = x
<1> DEFINE h == Height(src)
           w == Width(src)
           n == h * w
           o == CopyOrder(src, row, col)
           Y(i) == (i - 1) \div w
           X(i) == (i - 1) % w
           top == src.top
           left == src.left
<1>1. src.top \in Int /\ src.bottom \in Int /\ src.left \in Int /\ src.right \in Int /\ row \in Int /\ col \in Int
      /\ src.top <= src.bottom /\ src.left <= src.right
  BY EditSizes DEF EditAreas, Proper
<1>2. h \in Nat \ {0} /\ w \in Nat \ {0}
  BY <1>1 DEF Height, Width
<1>3. n \in Nat
  <2> HIDE DEF h, w
  <2> QED BY <1>2
<1>4. ASSUME NEW i \in 1..n
      PROVE  /\ o[i][1] = IF row > top THEN h - 1 - Y(i) ELSE Y(i)
             /\ o[i][2] = IF col > left THEN w - 1 - X(i) ELSE X(i)
  BY DEF CopyOrder, Height, Width
<1> HIDE DEF h, w, o
<1>5. ASSUME NEW i \in 1..n
      PROVE  i \in Int /\ i - 1 = w * Y(i) + X(i) /\ Y(i) \in 0..h - 1 /\ X(i) \in 0..w - 1
  BY <1>2, <1>3, CellNumber
<1>6. ASSUME NEW j \in 1..n, NEW k \in 1..n, j < k PROVE Y(j) < Y(k) \/ (Y(j) = Y(k) /\ X(j) < X(k))
  <2>1. j \in Int /\ j - 1 = w * Y(j) + X(j) /\ Y(j) \in Int /\ X(j) \in 0..w - 1
    BY <1>2, <1>5
  <2>2. k \in Int /\ k - 1 = w * Y(k) + X(k) /\ Y(k) \in Int /\ X(k) \in 0..w - 1
    BY <1>2, <1>5
  <2> HIDE DEF Y, X
  <2> QED BY <1>2, <1>6, <2>1, <2>2, CountedByRow
<1> HIDE DEF n, Y, X
<1>7. ASSUME NEW i \in 1..n PROVE o[i][1] \in 0..h - 1 /\ o[i][2] \in 0..w - 1
  BY <1>2, <1>4, <1>5
<1>8. ASSUME NEW j \in 1..n, NEW k \in 1..n, o[j][1] = o[k][1], o[j][2] = o[k][2], j < k PROVE FALSE
  <2>1. Y(j) \in Int /\ Y(k) \in Int /\ X(j) \in Int /\ X(k) \in Int
    BY <1>2, <1>5
  <2>2. Y(j) = Y(k) /\ X(j) = X(k)
    BY <1>2, <1>4, <1>8, <2>1
  <2> QED BY <1>6, <1>8, <2>1, <2>2
<1>9. ASSUME NEW j \in 1..n, NEW k \in 1..n, row + o[j][1] = top + o[k][1], col + o[j][2] = left + o[k][2], j < k
      PROVE  FALSE
  <2>1. Y(j) \in Int /\ Y(k) \in Int /\ X(j) \in Int /\ X(k) \in Int
    BY <1>2, <1>5
  <2>2. Y(j) < Y(k) \/ (Y(j) = Y(k) /\ X(j) < X(k))
    BY <1>6, <1>9
  <2>3. /\ o[j][1] = IF row > top THEN h - 1 - Y(j) ELSE Y(j)
        /\ o[k][1] = IF row > top THEN h - 1 - Y(k) ELSE Y(k)
        /\ o[j][2] = IF col > left THEN w - 1 - X(j) ELSE X(j)
        /\ o[k][2] = IF col > left THEN w - 1 - X(k) ELSE X(k)
    BY <1>4
  <2>4. row = top
    BY <1>1, <1>2, <1>9, <2>1, <2>2, <2>3
  <2>5. Y(j) = Y(k) /\ X(j) < X(k)
    BY <1>1, <1>9, <2>1, <2>2, <2>3, <2>4
  <2>6. col = left
    BY <1>1, <1>2, <1>9, <2>1, <2>3, <2>5
  <2> QED BY <2>4, <2>6
<1>10. ASSUME NEW y \in 0..h - 1, NEW x \in 0..w - 1 PROVE \E i \in 1..n : o[i][1] = y /\ o[i][2] = x
  <2> DEFINE y0 == IF row > top THEN h - 1 - y ELSE y
             x0 == IF col > left THEN w - 1 - x ELSE x
             i == w * y0 + x0 + 1
  <2>1. y0 \in 0..h - 1 /\ x0 \in 0..w - 1
    BY <1>2
  <2>2. (row > top => h - 1 - y0 = y) /\ (~(row > top) => y0 = y) /\ (col > left => w - 1 - x0 = x) /\ (~(col > left) => x0 = x)
    BY <1>2
  <2> HIDE DEF y0, x0
  <2>3. i \in 1..h * w /\ (i - 1) \div w = y0 /\ (i - 1) % w = x0
    BY <1>2, <2>1, CellOfNumber
  <2>4. i \in 1..n /\ Y(i) = y0 /\ X(i) = x0
    BY <2>3 DEF n, Y, X
  <2> HIDE DEF i
  <2>5. o[i][1] = y /\ o[i][2] = x
    BY <1>4, <2>2, <2>4
  <2> QED BY <2>4, <2>5
<1> QED BY <1>3, <1>7, <1>8, <1>9, <1>10 DEF h, w, n, o

\* Cells that are copied one after the other, none of them after it was overwritten:
\* NeverBefore() says that no cell of the first list comes before the same one in
\* the second.
CellList(n, rows, cols) == rows \in [1..n -> EditRows] /\ cols \in [1..n -> EditCols]
NeverBefore(n, dr, dc, sr, sc) == \A j, k \in 1..n : dr[j] = sr[k] /\ dc[j] = sc[k] => ~(j < k)
CopiesInTurn(n, g, dr, dc, sr, sc) ==
  \A i \in 1..n : g[i] = [g[i - 1] EXCEPT ![dr[i]][dc[i]] = g[i - 1][sr[i]][sc[i]]]
CopiedAll(n, g, page, dr, dc, sr, sc) == \A j \in 1..n : g[n][dr[j]][dc[j]] = page[sr[j]][sc[j]]

\* Copied so, every cell ends up with what its source held at the start.
LEMMA CopiedOneByOne ==
    ASSUME NEW n \in Nat, NEW page \in PageType, NEW g, g[0] = page, NEW dr, NEW dc, NEW sr, NEW sc,
           CellList(n, dr, dc), CellList(n, sr, sc), CopiesInTurn(n, g, dr, dc, sr, sc),
           NeverBefore(n, dr, dc, dr, dc), NeverBefore(n, dr, dc, sr, sc)
    PROVE  CopiedAll(n, g, page, dr, dc, sr, sc)
<1> USE DEF CellList, NeverBefore, CopiesInTurn, CopiedAll
<1> DEFINE P(i) == /\ g[i] \in PageType
                   /\ \A j \in 1..i : g[i][dr[j]][dc[j]] = page[sr[j]][sc[j]]
                   /\ \A k \in i + 1..n : g[i][sr[k]][sc[k]] = page[sr[k]][sc[k]]
           S == {i \in Nat : i <= n => P(i)}
<1>1. 0 \in S
  OBVIOUS
<1>2. ASSUME NEW i \in Nat, i \in S PROVE i + 1 \in S
  <2> SUFFICES ASSUME i + 1 <= n PROVE P(i + 1)
    OBVIOUS
  <2>1. P(i) /\ i + 1 \in 1..n /\ i \in 0..n
    BY <1>2
  <2> DEFINE m == i + 1
             new == g[i][sr[m]][sc[m]]
  <2> HIDE DEF P, new
  <2>2. i + 1 \in 1..n
    BY <2>1
  <2>3. m \in 1..n /\ m - 1 = i /\ m \in Int /\ i < m
    BY <2>2
  <2>4. ASSUME NEW k \in m + 1..n PROVE k \in 1..n /\ m < k
    BY <2>2
  <2> HIDE DEF m
  <2>5. m \in 1..n /\ m - 1 = i /\ m \in Int /\ i < m /\ \A k \in m + 1..n : k \in 1..n /\ m < k
    BY <2>3, <2>4
  <2> USE DEF P, new
  <2>6. g[m] = [g[i] EXCEPT ![dr[m]][dc[m]] = new]
    BY <2>5
  <2>7. g[i] \in PageType /\ dr[m] \in EditRows /\ dc[m] \in EditCols /\ sr[m] \in EditRows /\ sc[m] \in EditCols
    BY <2>1, <2>5
  <2>8. new = page[sr[m]][sc[m]]
    BY <2>1, <2>5 DEF m
  <2>9. new \in CellType
    BY <2>7 DEF PageType
  <2> HIDE DEF new
  <2>10. g[m] \in PageType
    BY <2>6, <2>7, <2>9 DEF PageType
  <2>11. ASSUME NEW r \in EditRows, NEW c \in EditCols
        PROVE  g[m][r][c] = IF r = dr[m] /\ c = dc[m] THEN new ELSE g[i][r][c]
    BY <2>6, <2>7 DEF PageType
  <2>12. ASSUME NEW j \in 1..m PROVE g[m][dr[j]][dc[j]] = page[sr[j]][sc[j]]
    <3>1. j \in 1..n /\ dr[j] \in EditRows /\ dc[j] \in EditCols
      BY <2>5
    <3>2. CASE j = m
      BY <2>7, <2>8, <2>11, <3>2
    <3>3. CASE j # m
      <4>1. j < m /\ j \in 1..i
        BY <2>5, <3>3 DEF m
      <4>2. ~(dr[j] = dr[m] /\ dc[j] = dc[m])
        BY <2>5, <3>1, <4>1
      <4> QED BY <2>1, <2>11, <3>1, <4>1, <4>2
    <3> QED BY <3>2, <3>3
  <2>13. ASSUME NEW k \in m + 1..n PROVE g[m][sr[k]][sc[k]] = page[sr[k]][sc[k]]
    <3>1. k \in 1..n /\ m < k /\ sr[k] \in EditRows /\ sc[k] \in EditCols
      BY <2>5
    <3>2. ~(dr[m] = sr[k] /\ dc[m] = sc[k])
      BY <2>5, <3>1
    <3>3. k \in i + 1..n
      BY <2>5, <3>1
    <3> QED BY <2>1, <2>11, <3>1, <3>2, <3>3
  <2> QED BY <2>10, <2>12, <2>13 DEF m
<1> HIDE DEF S
<1>3. n \in S
  BY <1>1, <1>2, SetInduction
<1> QED BY <1>3 DEF S

\* copyArea() moves every cell as it was, wherever the two areas overlap.
LEMMA CopyAreaCopies ==
    ASSUME NEW page \in PageType, NEW src \in EditAreas, Proper(src), NEW row \in EditRows, NEW col \in EditCols,
           row + src.bottom - src.top \in EditRows, col + src.right - src.left \in EditCols,
           NEW y \in 0..src.bottom - src.top, NEW x \in 0..src.right - src.left
    PROVE  CopyArea(page, src, row, col)[row + y][col + x] = page[src.top + y][src.left + x]
<1>1. CASE row = src.top /\ col = src.left
  BY <1>1 DEF CopyArea
<1>2. CASE ~(row = src.top /\ col = src.left)
  <2> DEFINE n == (src.bottom - src.top + 1) * (src.right - src.left + 1)
             o == CopyOrder(src, row, col)
             dr == [i \in 1..n |-> row + o[i][1]]
             dc == [i \in 1..n |-> col + o[i][2]]
             sr == [i \in 1..n |-> src.top + o[i][1]]
             sc == [i \in 1..n |-> src.left + o[i][2]]
             St(p, i) == [p EXCEPT ![row + o[i][1]][col + o[i][2]] = p[src.top + o[i][1]][src.left + o[i][2]]]
             f == CHOOSE f : f = [i \in 0..n |-> IF i = 0 THEN page ELSE St(f[i - 1], i)]
             F == [i \in 1..n |-> [p \in PageType |-> St(p, i)]]
  <2>1. /\ n \in Nat
        /\ \A i \in 1..n : o[i][1] \in 0..Height(src) - 1 /\ o[i][2] \in 0..Width(src) - 1
        /\ \A j, k \in 1..n : o[j][1] = o[k][1] /\ o[j][2] = o[k][2] => ~(j < k)
        /\ \A j, k \in 1..n : row + o[j][1] = src.top + o[k][1] /\ col + o[j][2] = src.left + o[k][2] => ~(j < k)
        /\ \A v \in 0..Height(src) - 1, u \in 0..Width(src) - 1 : \E i \in 1..n : o[i][1] = v /\ o[i][2] = u
    BY <1>2, CopyOrderSafe DEF Height, Width
  <2>2. CopyArea(page, src, row, col) = f[n]
    BY <1>2 DEF CopyArea
  <2> HIDE DEF n, o
  <2>3. src.top \in Int /\ src.bottom \in Int /\ src.left \in Int /\ src.right \in Int /\ row \in Int /\ col \in Int
        /\ src.top \in EditRows /\ src.bottom \in EditRows /\ src.left \in EditCols /\ src.right \in EditCols
        /\ src.top <= src.bottom /\ src.left <= src.right
    BY EditSizes DEF EditAreas, Proper
  <2>4. Height(src) - 1 = src.bottom - src.top /\ Width(src) - 1 = src.right - src.left
    BY <2>3 DEF Height, Width
  <2>5. ASSUME NEW i \in 1..n
        PROVE  row + o[i][1] \in EditRows /\ col + o[i][2] \in EditCols
               /\ src.top + o[i][1] \in EditRows /\ src.left + o[i][2] \in EditCols
    <3>1. o[i][1] \in 0..src.bottom - src.top /\ o[i][2] \in 0..src.right - src.left
      BY <2>1, <2>4
    <3> QED BY <2>3, <3>1, EditSizes DEF EditRows, EditCols
  <2>6. dr \in [1..n -> EditRows] /\ dc \in [1..n -> EditCols] /\ sr \in [1..n -> EditRows] /\ sc \in [1..n -> EditCols]
    BY <2>5
  <2>7. ASSUME NEW i \in 1..n, NEW p \in PageType PROVE St(p, i) \in PageType
    <3>1. p[src.top + o[i][1]][src.left + o[i][2]] \in CellType
      BY <2>5 DEF PageType
    <3> QED BY <2>5, <3>1 DEF PageType
  <2>8. n \in Nat
    BY <2>1
  <2>9. \A i \in 1..n : St(f[i - 1], i) = [f[i - 1] EXCEPT ![dr[i]][dc[i]] = f[i - 1][sr[i]][sc[i]]]
    <3> HIDE DEF f
    <3> QED OBVIOUS
  <2> HIDE DEF St
  <2>10. F \in [1..n -> [PageType -> PageType]]
    BY <2>7
  <2>11. PICK g : Stepwise(PageType, n, F, page, g)
    <3> HIDE DEF F
    <3>1. StepsOn(PageType, n, F)
      BY <2>10 DEF StepsOn
    <3> QED BY <2>8, <3>1, StepwiseExists, Zenon
  <2>12. ASSUME NEW k \in 1..n PROVE g[k] = St(g[k - 1], k)
    <3>1. k - 1 \in 0..n
      BY <2>8
    <3>2. g[k - 1] \in PageType
      BY <2>11, <3>1 DEF Stepwise
    <3> QED BY <2>11, <3>2 DEF Stepwise
  <2> HIDE DEF F
  <2>13. g = [i \in 0..n |-> IF i = 0 THEN page ELSE St(g[i - 1], i)]
    <3>1. ASSUME NEW i \in 0..n PROVE g[i] = IF i = 0 THEN page ELSE St(g[i - 1], i)
      BY <2>8, <2>11, <2>12 DEF Stepwise
    <3> QED BY <2>11, <3>1 DEF Stepwise
  <2>14. f = [i \in 0..n |-> IF i = 0 THEN page ELSE St(f[i - 1], i)]
    BY <2>13
  <2> HIDE DEF f
  <2>15. f[0] = page /\ \A i \in 1..n : f[i] = St(f[i - 1], i)
    BY <2>8, <2>14
  <2>16. \A i \in 1..n : f[i] = [f[i - 1] EXCEPT ![dr[i]][dc[i]] = f[i - 1][sr[i]][sc[i]]]
    BY <2>9, <2>15
  <2>17. /\ \A j, k \in 1..n : dr[j] = dr[k] /\ dc[j] = dc[k] => ~(j < k)
         /\ \A j, k \in 1..n : dr[j] = sr[k] /\ dc[j] = sc[k] => ~(j < k)
    <3>1. ASSUME NEW j \in 1..n, NEW k \in 1..n, dr[j] = dr[k], dc[j] = dc[k] PROVE ~(j < k)
      <4>1. o[j][1] \in 0..Height(src) - 1 /\ o[k][1] \in 0..Height(src) - 1
            /\ o[j][2] \in 0..Width(src) - 1 /\ o[k][2] \in 0..Width(src) - 1
        BY <2>1, Zenon
      <4>2. o[j][1] \in Int /\ o[k][1] \in Int /\ o[j][2] \in Int /\ o[k][2] \in Int
        BY <4>1
      <4>3. row + o[j][1] = row + o[k][1] /\ col + o[j][2] = col + o[k][2]
        BY <3>1
      <4>4. o[j][1] = o[k][1] /\ o[j][2] = o[k][2]
        <5>1. \A a, b, c \in Int : a + b = a + c => b = c
          OBVIOUS
        <5> QED BY <2>3, <4>2, <4>3, <5>1, Zenon
      <4> QED BY <2>1, <4>4
    <3>2. ASSUME NEW j \in 1..n, NEW k \in 1..n, dr[j] = sr[k], dc[j] = sc[k] PROVE ~(j < k)
      BY <2>1, <3>2
    <3> QED BY <3>1, <3>2
  <2>18. PICK i \in 1..n : o[i][1] = y /\ o[i][2] = x
    BY <2>1, <2>4
  <2>19. row + y = dr[i] /\ col + x = dc[i] /\ src.top + y = sr[i] /\ src.left + x = sc[i]
    BY <2>18
  <2> HIDE DEF dr, dc, sr, sc
  <2>20. f[n][dr[i]][dc[i]] = page[sr[i]][sc[i]]
    <3>1. CellList(n, dr, dc) /\ CellList(n, sr, sc)
      BY <2>6 DEF CellList
    <3>2. CopiesInTurn(n, f, dr, dc, sr, sc)
      BY <2>16 DEF CopiesInTurn
    <3>3. NeverBefore(n, dr, dc, dr, dc) /\ NeverBefore(n, dr, dc, sr, sc)
      BY <2>17 DEF NeverBefore
    <3>4. CopiedAll(n, f, page, dr, dc, sr, sc)
      BY <2>8, <2>15, <3>1, <3>2, <3>3, CopiedOneByOne, Zenon
    <3> QED BY <3>4 DEF CopiedAll
  <2> QED BY <2>2, <2>19, <2>20
<1> QED BY <1>1, <1>2

\* DECCRA.
LEMMA CopyCopiesAsWas == ASSUME EditReady, CopyRectangularArea PROVE EditInv' /\ EditsStayInside'
<1>1. PICK src \in {a \in EditAreas : Proper(a)}, row \in EditRows, col \in EditCols :
           /\ row + src.bottom - src.top \in EditRows /\ col + src.right - src.left \in EditCols
           /\ edit' = [edit EXCEPT !.page = CopyArea(edit.page, src, row, col), !.op = "DECCRA",
                                    !.area = [src |-> src, row |-> row, col |-> col]]
  BY DEF CopyRectangularArea
<1> DEFINE page == CopyArea(edit.page, src, row, col)
           area == [src |-> src, row |-> row, col |-> col]
<1>2. \A y \in 0..src.bottom - src.top, x \in 0..src.right - src.left :
         page[row + y][col + x] = edit.page[src.top + y][src.left + x]
  BY <1>1, CopyAreaCopies DEF EditReady
<1> HIDE DEF page
<1>3. area.src = src /\ area.row = row /\ area.col = col
  OBVIOUS
<1> HIDE DEF area
<1>4. edit' = [edit EXCEPT !.page = page, !.op = "DECCRA", !.area = area]
  BY <1>1 DEF page, area
<1>5. edit'.page = page /\ edit'.op = "DECCRA" /\ edit'.area = area /\ edit'.old = edit.page
  BY <1>4 DEF EditReady, EditFields
<1>6. CopiedAsWas'
  BY <1>2, <1>3, <1>5 DEF CopiedAsWas
<1> QED BY <1>5, <1>6 DEF EditInv, EditsStayInside, EditStaysInMargins, SelectiveKeepsProtected

-----------------------------------------------------------------------------
\* The settings before an edit.
LEMMA PrepareReady == ASSUME EditReady, Prepare PROVE EditInv' /\ EditsStayInside'
<1>1. PICK top, bottom, row \in EditRows, left, right, col \in EditCols, origin \in BOOLEAN, sca \in ProtectedCells :
       /\ top < bottom /\ left < right
       /\ origin => row \in top .. bottom /\ col \in left .. right
       /\ LET page == [r \in EditRows |-> [c \in EditCols |-> EditCell(Place(r, c), Place(r, c) \in sca)]]
          IN  edit' = [edit EXCEPT !.page = page, !.old = page, !.row = row, !.col = col,
                        !.margin = [top |-> top, bottom |-> bottom, left |-> left, right |-> right],
                        !.origin = origin, !.op = "ready"]
  BY Zenon DEF Prepare
<1> DEFINE page == [r \in EditRows |-> [c \in EditCols |-> EditCell(Place(r, c), Place(r, c) \in sca)]]
           margin == [top |-> top, bottom |-> bottom, left |-> left, right |-> right]
<1>2. page \in PageType
  <2>1. ASSUME NEW r \in EditRows, NEW c \in EditCols PROVE Place(r, c) \in Int
    BY EditSizes DEF Place
  <2>2. ASSUME NEW r \in EditRows, NEW c \in EditCols PROVE EditCell(Place(r, c), Place(r, c) \in sca) \in CellType
    BY <2>1 DEF EditCell, CellType
  <2> QED BY <2>2 DEF PageType
<1>3. margin \in MarginType
  BY DEF MarginType
<1> HIDE DEF page, margin
<1>4. edit' = [edit EXCEPT !.page = page, !.old = page, !.row = row, !.col = col, !.margin = margin,
                           !.origin = origin, !.op = "ready"]
  BY <1>1 DEF page, margin
<1>5. /\ DOMAIN edit' = EditFields /\ edit'.page = page /\ edit'.old = page /\ edit'.row = row /\ edit'.col = col
      /\ edit'.margin = margin /\ edit'.origin = origin /\ edit'.op = "ready" /\ edit'.protect = edit.protect
  BY <1>4 DEF EditReady, EditFields
<1> QED BY <1>2, <1>3, <1>5 DEF EditInv, EditReady, EditsStayInside, EditStaysInMargins, CopiedAsWas,
                                SelectiveKeepsProtected

\* Nothing is edited at first.
LEMMA EditStarts == ASSUME EditInit PROVE EditInv /\ EditsStayInside
<1>1. Untouched \in PageType
  <2>1. ASSUME NEW r \in EditRows, NEW c \in EditCols PROVE Place(r, c) \in Int
    BY EditSizes DEF Place
  <2>2. ASSUME NEW r \in EditRows, NEW c \in EditCols PROVE EditCell(Place(r, c), FALSE) \in CellType
    BY <2>1 DEF EditCell, CellType
  <2> QED BY <2>2 DEF PageType, Untouched
<1>2. FullEditMargin \in MarginType /\ 0 \in EditRows /\ 0 \in EditCols
  BY EditSizes DEF FullEditMargin, MarginType
<1>3. /\ DOMAIN edit = EditFields /\ edit.page = Untouched /\ edit.old = Untouched /\ edit.row = 0 /\ edit.col = 0
      /\ edit.margin = FullEditMargin /\ edit.origin = FALSE /\ edit.protect = FALSE /\ edit.op = "none"
  BY DEF EditInit, EditFields
<1> QED BY <1>1, <1>2, <1>3 DEF EditInv, EditReady, EditsStayInside, EditStaysInMargins, CopiedAsWas,
                                SelectiveKeepsProtected

\* Every operation stays inside.
LEMMA EditStep == ASSUME EditInv, EditsStayInside, [EditNext]_edit PROVE EditInv' /\ EditsStayInside'
<1>1. CASE UNCHANGED edit
  BY <1>1 DEF EditInv, EditReady, EditsStayInside, EditStaysInMargins, CopiedAsWas, SelectiveKeepsProtected,
              Changed, FullHorizontal, AreaCells
<1>2. CASE Prepare
  <2>1. EditReady
    BY <1>2 DEF Prepare, EditInv
  <2> QED BY <1>2, <2>1, PrepareReady
<1>3. CASE edit.op = "ready"
           /\ \/ EraseInLine \/ EraseInDisplay \/ SelectiveEraseInLine \/ SelectiveEraseInDisplay
              \/ \E n \in 0 .. MaxCount : Edited("ECH", EraseCharacters(edit.page, n), FullEditMargin)
              \/ InsertCharacters \/ InsertColumns \/ DeleteCharacters \/ DeleteColumns
              \/ InsertLines \/ DeleteLines
              \/ CopyRectangularArea \/ EraseRectangularArea \/ FillRectangularArea
              \/ SelectiveEraseRectangularArea
  <2>1. EditReady
    BY <1>3 DEF EditInv
  <2>2. ASSUME NEW op \in {"EL", "ED", "ECH", "DECSED", "DECERA", "DECFRA"}, NEW page, NEW area, Edited(op, page, area)
        PROVE  EditInv' /\ EditsStayInside'
    BY <2>1, <2>2, Elsewhere DEF Inserting
  <2>3. CASE EraseInLine
    BY <2>2, <2>3 DEF EraseInLine
  <2>4. CASE EraseInDisplay
    BY <2>2, <2>4 DEF EraseInDisplay
  <2>5. CASE SelectiveEraseInDisplay
    BY <2>2, <2>5 DEF SelectiveEraseInDisplay
  <2>6. CASE \E n \in 0 .. MaxCount : Edited("ECH", EraseCharacters(edit.page, n), FullEditMargin)
    BY <2>2, <2>6
  <2>7. CASE EraseRectangularArea
    BY <2>2, <2>7 DEF EraseRectangularArea
  <2>8. CASE FillRectangularArea
    BY <2>2, <2>8 DEF FillRectangularArea
  <2> QED BY <1>3, <2>1, <2>3, <2>4, <2>5, <2>6, <2>7, <2>8, SelectiveInLineKeeps, SelectiveAreaKeeps,
             InsertCharactersStays, InsertColumnsStays, DeleteCharactersStays, DeleteColumnsStays,
             InsertLinesStays, DeleteLinesStays, CopyCopiesAsWas
<1> QED BY <1>1, <1>2, <1>3 DEF EditNext

(***************************************************************************)
(* Editing stays inside: for pages, margins, areas and counts of any size, *)
(* characters, columns and lines are inserted and deleted inside the       *)
(* margins, an area is copied onto itself as it was, and selective erases  *)
(* keep protected cells (Screen::insertChars to copyArea).                 *)
(***************************************************************************)
THEOREM EditingStaysInside == EditSpec => []EditsStayInside
<1>1. EditInit => EditInv /\ EditsStayInside
  BY EditStarts
<1>2. EditInv /\ EditsStayInside /\ [EditNext]_edit => (EditInv /\ EditsStayInside)'
  BY EditStep
<1> QED BY <1>1, <1>2, PTL DEF EditSpec

-----------------------------------------------------------------------------
(* The VT parser.                                                          *)

ParserFields == {"state", "seq", "hooked", "result", "executed", "printed", "seen"}
SequenceFields == {"leader", "intermediates", "values", "subs"}

\* A 16-bit number.
Word == {k \in Nat : k < 65536}

\* The sequence under construction: at most one value more than there are
\* slots, and each one a 16-bit number.
SlotsOK(q) ==
    /\ DOMAIN q = SequenceFields
    /\ q.values \in Seq(Word) /\ Len(q.values) \in 1..(MaxParameters + 1)

\* What is dispatched has no more parameters than that.
ResultOK(d) ==
    d = NoResult \/ ( /\ Len(d.parameters) <= MaxParameters + 1
                     /\ d.category # "OSC" => d.parameters \in Seq(Word))

\* What every handler of the parser keeps.
BuilderOK(p) == DOMAIN p = ParserFields /\ SlotsOK(p.seq) /\ ResultOK(p.result)

ParserInv ==
    BuilderOK(parser) /\ parser.state \in ParserStates /\ HookEndsWithString

LEMMA NoSequenceOK == SlotsOK(NoSequence)
<1>1. NoSequence.values = <<0>> /\ DOMAIN NoSequence = SequenceFields
  BY DEF NoSequence, SequenceFields
<1>2. <<0>> \in Seq(Word) /\ Len(<<0>>) = 1
  BY DEF Word
<1>3. MaxParameters \in Nat
  BY ParserAssumption
<1> QED BY <1>1, <1>2, <1>3 DEF SlotsOK

\* A digit of a parameter is added in its slot, modulo 2^16.
LEMMA DigitAdded ==
    ASSUME NEW v \in Seq(Word), Len(v) >= 1, NEW d \in Int
    PROVE  LET w == [v EXCEPT ![Len(v)] = (@ * 10 + d) % 65536]
           IN  w \in Seq(Word) /\ Len(w) = Len(v)
<1> DEFINE n == Len(v)
           x == (v[n] * 10 + d) % 65536
<1>1. n \in 1..Len(v)
  BY LenProperties
<1>2. v[n] \in Word
  BY <1>1, ElementOfSeq
<1>3. x \in Word
  <2>1. v[n] * 10 + d \in Int
    BY <1>2 DEF Word
  <2>2. \A k \in Int : k % 65536 \in Word
    BY DEF Word
  <2> QED BY <2>1, <2>2
<1> HIDE DEF x, n
<1>4. [v EXCEPT ![n] = x] \in Seq(Word) /\ Len([v EXCEPT ![n] = x]) = Len(v)
  BY <1>1, <1>3, ExceptSeq
<1>5. [v EXCEPT ![Len(v)] = (@ * 10 + d) % 65536] = [v EXCEPT ![n] = x]
  BY DEF x, n
<1> QED BY <1>4, <1>5

LEMMA DigitOK ==
    ASSUME NEW q, SlotsOK(q), NEW d \in Int
    PROVE  SlotsOK(MultiplyBy10AndAdd(q, d))
<1> DEFINE v == q.values
           w == [v EXCEPT ![Len(v)] = (@ * 10 + d) % 65536]
           r == MultiplyBy10AndAdd(q, d)
<1>1. v \in Seq(Word) /\ Len(v) \in 1..(MaxParameters + 1) /\ DOMAIN q = SequenceFields
  BY DEF SlotsOK
<1>2. CASE Len(v) > MaxParameters
  BY <1>2 DEF MultiplyBy10AndAdd
<1>3. CASE ~(Len(v) > MaxParameters)
  <2>1. Len(v) >= 1
    BY <1>1, ParserAssumption
  <2>2. w \in Seq(Word) /\ Len(w) = Len(v)
    BY <1>1, <2>1, DigitAdded
  <2>3. r = [q EXCEPT !.values = w]
    BY <1>3 DEF MultiplyBy10AndAdd
  <2>4. DOMAIN r = SequenceFields /\ r.values = w
    BY <1>1, <2>3 DEF SequenceFields
  <2> HIDE DEF r, w, v
  <2>5. SlotsOK(r)
    BY <1>1, <2>2, <2>4 DEF SlotsOK
  <2> QED BY <2>5 DEF r
<1> QED BY <1>2, <1>3

\* The next slot is taken only while there is one, the end of the array included.
LEMMA SeparatorOK ==
    ASSUME NEW q, SlotsOK(q), NEW isSub \in BOOLEAN
    PROVE  SlotsOK(NextParameter(q, isSub))
<1> DEFINE r == NextParameter(q, isSub)
<1>1. q.values \in Seq(Word) /\ Len(q.values) \in 1..(MaxParameters + 1) /\ DOMAIN q = SequenceFields
  BY DEF SlotsOK
<1>2. CASE Len(q.values) > MaxParameters
  BY <1>2 DEF NextParameter
<1>3. CASE ~(Len(q.values) > MaxParameters)
  <2>1. r = [q EXCEPT !.values = Append(@, 0),
                      !.subs = IF isSub THEN @ \cup {Len(q.values)} ELSE @]
    BY <1>3 DEF NextParameter
  <2>2. DOMAIN r = SequenceFields /\ r.values = Append(q.values, 0)
    BY <1>1, <2>1 DEF SequenceFields
  <2>3. /\ Append(q.values, 0) \in Seq(Word)
        /\ Len(Append(q.values, 0)) = Len(q.values) + 1
    BY <1>1 DEF Word
  <2>4. Len(q.values) + 1 \in 1..(MaxParameters + 1)
    BY <1>1, <1>3, ParserAssumption
  <2> HIDE DEF r
  <2>5. SlotsOK(r)
    BY <2>2, <2>3, <2>4 DEF SlotsOK
  <2> QED BY <2>5 DEF r
<1> QED BY <1>2, <1>3

LEMMA ParamOK ==
    ASSUME NEW q, SlotsOK(q), NEW byte \in Nat
    PROVE  SlotsOK(Param(q, byte))
<1>1. CASE byte = 59
  BY <1>1, SeparatorOK DEF Param
<1>2. CASE byte = 58
  BY <1>2, SeparatorOK DEF Param
<1>3. CASE byte # 59 /\ byte # 58
  <2>1. Param(q, byte) = MultiplyBy10AndAdd(q, byte - 48)
    BY <1>3 DEF Param
  <2> QED BY <2>1, DigitOK
<1> QED BY <1>1, <1>2, <1>3

\* What a control sequence or the start of a device control string hands on.
LEMMA DispatchedOK ==
    ASSUME NEW q, SlotsOK(q), NEW category, NEW final
    PROVE  ResultOK(Dispatched(category, q, final))
<1> DEFINE d == Dispatched(category, q, final)
<1>1. d.parameters = IF ParameterCount(q) = 0 THEN <<>> ELSE q.values
  BY DEF Dispatched, Resolved
<1>2. q.values \in Seq(Word) /\ Len(q.values) <= MaxParameters + 1
  BY ParserAssumption DEF SlotsOK
<1>3. <<>> \in Seq(Word) /\ Len(<<>>) <= MaxParameters + 1
  BY ParserAssumption
<1> HIDE DEF d
<1>4. ResultOK(d)
  BY <1>1, <1>2, <1>3 DEF ResultOK
<1> QED BY <1>4 DEF d

\* An operating system command hands on its number and nothing else.
LEMMA OscDispatchedOK ==
    ASSUME NEW q
    PROVE  ResultOK(OscDispatched(q))
<1> DEFINE d == OscDispatched(q)
           code == CodePrefix(q.intermediates) % 65536
<1>1. d.category = "OSC" /\ d.parameters = IF code = 0 THEN <<>> ELSE <<code>>
  BY DEF OscDispatched, Resolved
<1> HIDE DEF d, code
<1>2. Len(<<>>) = 0 /\ Len(<<code>>) = 1 /\ MaxParameters \in Nat
  BY ParserAssumption
<1>3. Len(d.parameters) <= MaxParameters + 1
  BY <1>1, <1>2
<1>4. ResultOK(d)
  BY <1>1, <1>3 DEF ResultOK
<1> QED BY <1>4 DEF d

\* A handler that leaves the parser where it is.
Kept(p, t) == BuilderOK(t) /\ t.state = p.state /\ t.hooked = p.hooked

\* Bytes go to a device control string's parser from Hook to Unhook only.
Steady(p, action, t) ==
    /\ BuilderOK(t) /\ t.state = p.state
    /\ action # "Hook" /\ t.hooked => p.hooked
    /\ action = "Unhook" => ~t.hooked

LEMMA SequenceSet ==
    ASSUME NEW p, BuilderOK(p), NEW q, SlotsOK(q)
    PROVE  Kept(p, [p EXCEPT !.seq = q])
  BY DEF Kept, BuilderOK, ParserFields

LEMMA ResultSet ==
    ASSUME NEW p, BuilderOK(p), NEW d, ResultOK(d)
    PROVE  Kept(p, [p EXCEPT !.result = d])
  BY DEF Kept, BuilderOK, ParserFields

\* What the builder does in a control string.
LEMMA StringKeeps ==
    ASSUME NEW p, BuilderOK(p), NEW action, NEW byte \in Nat
    PROVE  Steady(p, action, HandleString(p, action, byte))
<1> DEFINE t == HandleString(p, action, byte)
<1>0. DOMAIN p = ParserFields /\ SlotsOK(p.seq) /\ ResultOK(p.result)
  BY DEF BuilderOK
<1>1. CASE action = "OSC_Put"
  <2> DEFINE q == [p.seq EXCEPT !.intermediates = IF Len(@) + 1 < MaxOscLength THEN Append(@, byte) ELSE @]
  <2>1. t = [p EXCEPT !.seq = q]
    BY <1>1 DEF HandleString
  <2>2. DOMAIN q = SequenceFields /\ q.values = p.seq.values
    BY <1>0 DEF SlotsOK, SequenceFields
  <2> HIDE DEF q, t
  <2>3. SlotsOK(q)
    BY <1>0, <2>2 DEF SlotsOK
  <2>4. Kept(p, t)
    BY <2>1, <2>3, SequenceSet
  <2> QED BY <1>1, <2>4 DEF Kept, Steady, t
<1>2. CASE action = "OSC_End"
  <2> DEFINE d == OscDispatched(p.seq)
             u == [p EXCEPT !.result = d]
  <2>1. t = [p EXCEPT !.result = d, !.seq = NoSequence]
    BY <1>2 DEF HandleString
  <2>2. t = [u EXCEPT !.seq = NoSequence]
    BY <2>1
  <2>3. ResultOK(d)
    BY OscDispatchedOK
  <2> HIDE DEF d, t
  <2>4. Kept(p, u)
    BY <2>3, ResultSet
  <2> HIDE DEF u
  <2>5. Kept(u, t)
    BY <2>2, <2>4, NoSequenceOK, SequenceSet DEF Kept
  <2> QED BY <1>2, <2>4, <2>5 DEF Kept, Steady, t
<1>3. CASE action = "Hook"
  <2> DEFINE d == Dispatched("DCS", p.seq, byte)
  <2>1. t = [p EXCEPT !.result = d, !.hooked = d.function # NoFunction]
    BY <1>3 DEF HandleString
  <2>2. ResultOK(d)
    BY <1>0, DispatchedOK
  <2> HIDE DEF d, t
  <2>3. DOMAIN t = ParserFields /\ t.seq = p.seq /\ t.result = d /\ t.state = p.state
    BY <1>0, <2>1 DEF ParserFields
  <2>4. BuilderOK(t)
    BY <1>0, <2>2, <2>3 DEF BuilderOK
  <2> QED BY <1>3, <2>3, <2>4 DEF Steady, t
<1>4. CASE action = "Unhook"
  <2>1. t = [p EXCEPT !.hooked = FALSE]
    BY <1>4 DEF HandleString
  <2> HIDE DEF t
  <2>2. /\ DOMAIN t = ParserFields /\ t.seq = p.seq /\ t.result = p.result
        /\ t.state = p.state /\ t.hooked = FALSE
    BY <1>0, <2>1 DEF ParserFields
  <2>3. BuilderOK(t)
    BY <1>0, <2>2 DEF BuilderOK
  <2> QED BY <1>4, <2>2, <2>3 DEF Steady, t
<1>5. CASE action \notin {"OSC_Put", "OSC_End", "Hook", "Unhook"}
  <2>1. t = p
    BY <1>5 DEF HandleString
  <2> QED BY <1>5, <2>1 DEF Steady
<1> QED BY <1>1, <1>2, <1>3, <1>4, <1>5

\* No action of a row starts to hand bytes to a device control string's
\* parser: only the entry event Hook does, and the exit event Unhook ends it.
LEMMA HandleKeeps ==
    ASSUME NEW p, BuilderOK(p), NEW action, NEW byte \in Nat
    PROVE  Steady(p, action, Handle(p, action, byte))
<1> DEFINE t == Handle(p, action, byte)
           Params == {"Param", "ParamDigit", "ParamSeparator", "ParamSubSeparator"}
<1>0. DOMAIN p = ParserFields /\ SlotsOK(p.seq) /\ ResultOK(p.result)
  BY DEF BuilderOK
<1>1. ASSUME NEW u, Kept(p, u), action # "Unhook"
      PROVE  Steady(p, action, u)
  BY <1>1 DEF Kept, Steady
<1>2. CASE action = "Clear"
  <2> DEFINE u == [p EXCEPT !.seq = NoSequence]
  <2>1. t = [u EXCEPT !.seen = <<>>]
    BY <1>2 DEF Handle
  <2>2. Kept(p, u)
    BY NoSequenceOK, SequenceSet
  <2> HIDE DEF u, t
  <2>3. Kept(p, t)
    BY <2>1, <2>2 DEF Kept, BuilderOK, ParserFields
  <2> QED BY <1>1, <1>2, <2>3 DEF t
<1>3. CASE action = "CollectLeader"
  <2> DEFINE q == [p.seq EXCEPT !.leader = byte]
  <2>1. t = [p EXCEPT !.seq = q]
    BY <1>3 DEF Handle
  <2>2. DOMAIN q = SequenceFields /\ q.values = p.seq.values
    BY <1>0 DEF SlotsOK, SequenceFields
  <2> HIDE DEF q, t
  <2>3. SlotsOK(q)
    BY <1>0, <2>2 DEF SlotsOK
  <2>4. Kept(p, t)
    BY <2>1, <2>3, SequenceSet
  <2> QED BY <1>1, <1>3, <2>4 DEF t
<1>4. CASE action = "Collect"
  <2> DEFINE q == [p.seq EXCEPT !.intermediates = Append(@, byte)]
  <2>1. t = [p EXCEPT !.seq = q]
    BY <1>4 DEF Handle
  <2>2. DOMAIN q = SequenceFields /\ q.values = p.seq.values
    BY <1>0 DEF SlotsOK, SequenceFields
  <2> HIDE DEF q, t
  <2>3. SlotsOK(q)
    BY <1>0, <2>2 DEF SlotsOK
  <2>4. Kept(p, t)
    BY <2>1, <2>3, SequenceSet
  <2> QED BY <1>1, <1>4, <2>4 DEF t
<1>5. CASE action \in Params
  <2> DEFINE q == Param(p.seq, byte)
  <2>1. t = [p EXCEPT !.seq = q]
    BY <1>5 DEF Handle
  <2>2. SlotsOK(q)
    BY <1>0, ParamOK
  <2> HIDE DEF q, t
  <2>3. Kept(p, t)
    BY <2>1, <2>2, SequenceSet
  <2> QED BY <1>1, <1>5, <2>3 DEF t
<1>6. CASE action \in {"Execute", "Print"}
  <2>1. t = [p EXCEPT !.executed = TRUE] \/ t = [p EXCEPT !.printed = TRUE]
    BY <1>6 DEF Handle
  <2> HIDE DEF t
  <2>2. Kept(p, t)
    BY <1>0, <2>1 DEF Kept, BuilderOK, ParserFields
  <2> QED BY <1>1, <1>6, <2>2 DEF t
<1>7. CASE action \in {"ESC_Dispatch", "CSI_Dispatch"}
  <2>1. PICK category : t = [p EXCEPT !.result = Dispatched(category, p.seq, byte)]
    BY <1>7 DEF Handle
  <2>2. ResultOK(Dispatched(category, p.seq, byte))
    BY <1>0, DispatchedOK
  <2> HIDE DEF t
  <2>3. Kept(p, t)
    BY <2>1, <2>2, ResultSet
  <2> QED BY <1>1, <1>7, <2>3 DEF t
<1>8. CASE action \notin {"Clear", "CollectLeader", "Collect", "Execute", "Print", "ESC_Dispatch",
                          "CSI_Dispatch"} \cup Params
  <2>1. t = HandleString(p, action, byte)
    BY <1>8 DEF Handle
  <2> QED BY <2>1, StringKeeps
<1> QED BY <1>2, <1>3, <1>4, <1>5, <1>6, <1>7, <1>8

\* A row of the table leads to a state of the parser, and none hooks.
GoodRow(r) == r[3] \in ParserStates \cup {Undefined} /\ r[4] # "Hook"
GoodRows(S) == \A r \in S : GoodRow(r)

LEMMA OnIsGood ==
    ASSUME NEW first, NEW last, NEW action, action # "Hook"
    PROVE  GoodRows(On(first, last, action))
  BY DEF GoodRows, GoodRow, On

LEMMA GoIsGood ==
    ASSUME NEW first, NEW last, NEW state \in ParserStates, NEW action, action # "Hook"
    PROVE  GoodRows(Go(first, last, state, action))
  BY DEF GoodRows, GoodRow, Go

LEMMA BothAreGood ==
    ASSUME NEW S, NEW T, GoodRows(S), GoodRows(T)
    PROVE  GoodRows(S \cup T)
  BY DEF GoodRows

LEMMA TableIsGood ==
    ASSUME NEW state \in ParserStates
    PROVE  GoodRows(ParserTable[state] \cup Anywhere)
<1> USE DEF GoodRows, GoodRow, On, Go, OnC0, OnDelete, ParserStates, Undefined
<1>1. GoodRows(GroundRows) /\ GoodRows(OnC0("Ignore")) /\ GoodRows(Anywhere)
  BY DEF GroundRows, Anywhere
<1>2. GoodRows(EscapeRows)
  <2> DEFINE U == UNION {Go(r[1], r[2], "Ground", "ESC_Dispatch") :
                           r \in {<<48, 79>>, <<81, 87>>, <<89, 89>>, <<90, 90>>, <<96, 126>>}}
  <2>1. GoodRows(U)
    OBVIOUS
  <2> HIDE DEF U
  <2>2. \A r \in EscapeRows : r \in U \/ GoodRow(r)
    BY DEF EscapeRows, U
  <2> QED BY <2>1, <2>2
<1>3. GoodRows(EscapeIntermediateRows)
  BY DEF EscapeIntermediateRows
<1>4. GoodRows(DcsEntryRows)
  BY DEF DcsEntryRows
<1>5. GoodRows(DcsIgnoreRows) /\ GoodRows(DcsIntermediateRows) /\ GoodRows(DcsPassThroughRows)
  BY DEF DcsIgnoreRows, DcsIntermediateRows, DcsPassThroughRows
<1>6. GoodRows(DcsParamRows)
  BY DEF DcsParamRows
<1>7. GoodRows(OscRows) /\ GoodRows(ApcRows) /\ GoodRows(PmRows)
  BY DEF OscRows, ApcRows, PmRows
<1>8. GoodRows(CsiEntryRows)
  BY DEF CsiEntryRows
<1>9. GoodRows(CsiParamRows)
  BY DEF CsiParamRows
<1>10. GoodRows(CsiIgnoreRows) /\ GoodRows(CsiIntermediateRows)
  BY DEF CsiIgnoreRows, CsiIntermediateRows
<1> HIDE DEF GoodRows, GoodRow, On, Go, OnC0, OnDelete, Undefined
<1>11. GoodRows(ParserTable[state])
  BY <1>1, <1>2, <1>3, <1>4, <1>5, <1>6, <1>7, <1>8, <1>9, <1>10 DEF ParserTable, ParserStates
<1> QED BY <1>1, <1>11, BothAreGood

LEMMA RowIsGood ==
    ASSUME NEW state \in ParserStates, NEW byte
    PROVE  GoodRow(Row(state, byte))
<1> DEFINE rows == {r \in ParserTable[state] \cup Anywhere : byte \in r[1] .. r[2]}
<1>1. CASE rows = {}
  <2>1. Row(state, byte) = <<0, 0, Undefined, Undefined>>
    BY <1>1 DEF Row
  <2> QED BY <2>1 DEF GoodRow, Undefined
<1>2. CASE rows # {}
  <2>1. Row(state, byte) = CHOOSE r \in rows : TRUE
    BY <1>2 DEF Row
  <2>2. Row(state, byte) \in ParserTable[state] \cup Anywhere
    BY <1>2, <2>1
  <2>3. GoodRows(ParserTable[state] \cup Anywhere)
    BY TableIsGood
  <2> QED BY <2>2, <2>3 DEF GoodRows
<1> QED BY <1>1, <1>2

\* One byte.
LEMMA ByteKeeps ==
    ASSUME ParserInv, NEW byte \in Nat, parser' = ProcessOnce(parser, byte)
    PROVE  ParserInv'
<1> DEFINE row == Row(parser.state, byte)
           q == [Quiet(parser) EXCEPT
                   !.seen = IF parser.state \in Headers THEN Append(@, byte) ELSE <<>>]
           left == Handle(q, ExitEvents[parser.state], byte)
           over == Handle(left, row[4], byte)
           moved == [over EXCEPT !.state = row[3]]
           t == Handle(moved, EntryEvents[row[3]], byte)
<1>0. BuilderOK(parser) /\ parser.state \in ParserStates /\ HookEndsWithString
  BY DEF ParserInv
<1>1. BuilderOK(q) /\ q.state = parser.state /\ q.hooked = parser.hooked
  BY <1>0 DEF Quiet, BuilderOK, ParserFields, ResultOK
<1>2. GoodRow(row)
  BY <1>0, RowIsGood
<1>3. parser' = IF row[3] = Undefined THEN Handle(q, row[4], byte) ELSE t
  BY DEF ProcessOnce
<1> HIDE DEF row, q, t
<1>4. CASE row[3] = Undefined
  <2>1. Steady(q, row[4], parser')
    BY <1>1, <1>3, <1>4, HandleKeeps
  <2>2. /\ BuilderOK(parser') /\ parser'.state = parser.state /\ (parser'.hooked => parser.hooked)
    BY <1>1, <1>2, <2>1 DEF Steady, GoodRow
  <2> QED BY <1>0, <2>2 DEF ParserInv, HookEndsWithString, BuilderOK
<1>5. CASE row[3] # Undefined
  <2>1. Steady(q, ExitEvents[parser.state], left)
    BY <1>1, HandleKeeps
  <2>2. /\ ExitEvents[parser.state] # "Hook"
        /\ parser.state = "DCS_PassThrough" => ExitEvents[parser.state] = "Unhook"
    BY <1>0 DEF ExitEvents, Undefined
  <2> HIDE DEF left
  <2>3. BuilderOK(left) /\ ~left.hooked
    BY <1>0, <1>1, <2>1, <2>2 DEF Steady, HookEndsWithString
  <2>4. Steady(left, row[4], over)
    BY <2>3, HandleKeeps
  <2> HIDE DEF over
  <2>5. BuilderOK(over) /\ ~over.hooked
    BY <1>2, <2>3, <2>4 DEF Steady, GoodRow
  <2>6. BuilderOK(moved) /\ ~moved.hooked /\ moved.state = row[3]
    BY <2>5 DEF BuilderOK, ParserFields
  <2> HIDE DEF moved
  <2>7. Steady(moved, EntryEvents[row[3]], t)
    BY <2>6, HandleKeeps DEF t
  <2>8. row[3] \in ParserStates
    BY <1>2, <1>5 DEF GoodRow
  <2>9. EntryEvents[row[3]] = "Hook" => row[3] = "DCS_PassThrough"
    BY <2>8 DEF EntryEvents, Undefined
  <2>10. BuilderOK(t) /\ t.state = row[3] /\ (t.hooked => row[3] = "DCS_PassThrough")
    BY <2>6, <2>7, <2>9 DEF Steady
  <2>11. parser' = t
    BY <1>3, <1>5
  <2> QED BY <2>8, <2>10, <2>11 DEF ParserInv, HookEndsWithString, BuilderOK
<1> QED BY <1>4, <1>5

\* The parser keeps its invariant.
LEMMA ParserKeeps == ParserSpec => []ParserInv
<1>1. ParserInit => ParserInv
  <2> SUFFICES ASSUME ParserInit PROVE ParserInv
    OBVIOUS
  <2>1. /\ DOMAIN parser = ParserFields /\ parser.seq = NoSequence /\ parser.result = NoResult
        /\ parser.state = "Ground" /\ parser.hooked = FALSE
    BY DEF ParserInit, ParserFields
  <2> QED BY <2>1, NoSequenceOK DEF ParserInv, BuilderOK, ResultOK, ParserStates, HookEndsWithString
<1>2. ParserInv /\ [ParserNext]_parser => ParserInv'
  <2>1. ASSUME ParserInv, ParserNext PROVE ParserInv'
    <3>1. PICK byte \in Bytes : parser' = ProcessOnce(parser, byte)
      BY <2>1 DEF ParserNext
    <3>2. byte \in Nat
      BY ParserAssumption
    <3> QED BY <2>1, <3>1, <3>2, ByteKeeps
  <2>2. ASSUME ParserInv, UNCHANGED parser PROVE ParserInv'
    BY <2>2 DEF ParserInv, BuilderOK, SlotsOK, ResultOK, HookEndsWithString
  <2> QED BY <2>1, <2>2
<1> QED BY <1>1, <1>2, PTL DEF ParserSpec

\* Whatever bytes arrive, in whatever order, cancelled and restarted at any
\* point, and whichever functions are active: the parser of a device control
\* string is handed bytes only while the string lasts (Parser-impl.h, hook and
\* unhook in SequenceBuilder.h).
THEOREM HookEnds == ParserSpec => []HookEndsWithString
<1>1. ParserInv => HookEndsWithString
  BY DEF ParserInv
<1> QED BY <1>1, ParserKeeps, PTL

\* However many separators and digits arrive, the builder counts at most one
\* parameter more than it has slots, here and in what it dispatches, and every
\* parameter is a 16-bit number (SequenceBuilder::paramSeparator and
\* paramDigit, SequenceParameterBuilder).
THEOREM ParametersBounded == ParserSpec => [](SlotsOK(parser.seq) /\ ResultOK(parser.result))
<1>1. ParserInv => SlotsOK(parser.seq) /\ ResultOK(parser.result)
  BY DEF ParserInv, BuilderOK
<1> QED BY <1>1, ParserKeeps, PTL

=============================================================================
