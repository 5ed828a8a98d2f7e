------------------------------ MODULE SshConfig ------------------------------
(***************************************************************************)
(* Reading and writing ~/.ssh/config (SshSession.cpp).  A file is a        *)
(* sequence of lines, each a key and a value.                              *)
(***************************************************************************)
EXTENDS Naturals, Sequences, SequencesExt, Functions

VARIABLE sshc

SshOptions == {"HostName", "Port", "User", "IdentityFile", "ForwardAgent"}
SshLine(key, value) == [key |-> key, value |-> value]
\* What can be on a line here: two hosts and the default, options, a comment or an unknown key.
SshLines == {SshLine("Host", h) : h \in {"a", "b", "*"}}
            \cup {SshLine("Port", p) : p \in {"22", "2022"}}
            \cup {SshLine("ForwardAgent", v) : v \in {"yes", "true"}} \cup {SshLine("#", ""), SshLine("Unknown", "x")}
MaxSshLines == 4
DefaultSsh == [o \in SshOptions |-> CASE o = "Port" -> "22" [] o = "ForwardAgent" -> "no" [] OTHER -> ""]

Convert(line) == IF line.key # "ForwardAgent" THEN line.value ELSE IF line.value = "yes" THEN "yes" ELSE "no"
\* acc.host is "" while the default is described.
LoadSshLine(acc, line) ==
  CASE line.key = "Host" /\ line.value = "*" -> [acc EXCEPT !.host = ""]
    [] line.key = "Host" /\ line.value # "*" ->
         [acc EXCEPT !.host = line.value, !.configs = (line.value :> acc.default) @@ @]
    [] line.key \in SshOptions /\ acc.host = "" -> [acc EXCEPT !.default[line.key] = Convert(line)]
    [] line.key \in SshOptions /\ acc.host # "" -> [acc EXCEPT !.configs[acc.host][line.key] = Convert(line)]
    [] OTHER -> acc
LoadSshConfig(lines) ==
  FoldLeft(LoadSshLine, [host |-> "", default |-> DefaultSsh, configs |-> <<>>], lines).configs

\* A boolean is written as true or false; the file of known hosts has a key that is not read.
ToConfigString(host, c) ==
  <<SshLine("Host", host)>>
  \o (IF c["HostName"] = "" THEN <<>> ELSE <<SshLine("HostName", c["HostName"])>>)
  \o (IF c["Port"] = "22" THEN <<>> ELSE <<SshLine("Port", c["Port"])>>)
  \o (IF c["User"] = "" THEN <<>> ELSE <<SshLine("User", c["User"])>>)
  \o (IF c["IdentityFile"] = "" THEN <<>> ELSE <<SshLine("IdentityFile", c["IdentityFile"])>>)
  \o <<SshLine("ForwardAgent", IF c["ForwardAgent"] = "yes" THEN "true" ELSE "false")>>

SshConfigInit == sshc = <<>>
AddLine(line) == Len(sshc) < MaxSshLines /\ sshc' = Append(sshc, line)
SshConfigNext == \E line \in SshLines : AddLine(line)

(***************************************************************************)
(* A host has the options of its last block, and for the others what the   *)
(* default blocks before that block say (loadSshConfig copies the default  *)
(* when a block starts).                                                   *)
(***************************************************************************)
BlockOf(i) == LET heads == {j \in 1 .. i : sshc[j].key = "Host"}
              IN  IF heads = {} THEN "*" ELSE sshc[CHOOSE j \in heads : \A k \in heads : k <= j].value
LastOf(indices) == CHOOSE i \in indices : \A j \in indices : j <= i
HostsIndependent ==
  \A h \in {"a", "b"} :
    LET starts == {i \in 1 .. Len(sshc) : sshc[i] = SshLine("Host", h)} IN
    IF starts = {} THEN h \notin DOMAIN LoadSshConfig(sshc)
    ELSE \A o \in {"Port", "ForwardAgent"} :
           LET own == {i \in LastOf(starts) .. Len(sshc) : sshc[i].key = o /\ BlockOf(i) = h}
               all == {i \in 1 .. LastOf(starts) : sshc[i].key = o /\ BlockOf(i) = "*"}
           IN  LoadSshConfig(sshc)[h][o] = IF own # {} THEN Convert(sshc[LastOf(own)])
                                           ELSE IF all # {} THEN Convert(sshc[LastOf(all)])
                                           ELSE DefaultSsh[o]

\* A configuration that is written and read again is the same.  ForwardAgent is not.
SshConfigSurvives ==
  LET configs == LoadSshConfig(sshc) IN
  \A h \in DOMAIN configs : LoadSshConfig(ToConfigString(h, configs[h])) = (h :> configs[h])
=============================================================================
