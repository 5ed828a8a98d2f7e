-------- MODULE ServiceSuite ------------------------------------------------
(***************************************************************************)
(* Components around the terminal, each run on its own: `part' chooses one *)
(* and the others keep their initial state.                                *)
(***************************************************************************)
EXTENDS Configuration, InputMapping, Permissions, SessionActions, SshSession, SshConfig,
  CommandLine, ScreenCapture

VARIABLE part      \* the component that runs

components == <<conf, imap, perm, sess, ssh, sshc, cli, cap>>
suiteVars == <<part, components>>

Init ==
  /\ part \in {"Configuration", "InputMapping", "Permissions", "Session", "Ssh", "SshConfig",
             "CommandLine", "Capture"}
  /\ ConfigurationInit
  /\ InputMappingInit
  /\ PermissionsInit
  /\ SessionInit
  /\ SshInit
  /\ SshConfigInit
  /\ CommandLineInit
  /\ CaptureInit

Only(name, next) == part = name /\ next /\ UNCHANGED part

Next ==
  \/ Only("Configuration", ConfigurationNext) /\ UNCHANGED <<imap, perm, sess, ssh, sshc, cli, cap>>
  \/ Only("InputMapping", InputMappingNext) /\ UNCHANGED <<conf, perm, sess, ssh, sshc, cli, cap>>
  \/ Only("Permissions", PermissionsNext) /\ UNCHANGED <<conf, imap, sess, ssh, sshc, cli, cap>>
  \/ Only("Session", SessionNext) /\ UNCHANGED <<conf, imap, perm, ssh, sshc, cli, cap>>
  \/ Only("Ssh", SshNext) /\ UNCHANGED <<conf, imap, perm, sess, sshc, cli, cap>>
  \/ Only("SshConfig", SshConfigNext) /\ UNCHANGED <<conf, imap, perm, sess, ssh, cli, cap>>
  \/ Only("CommandLine", CommandLineNext) /\ UNCHANGED <<conf, imap, perm, sess, ssh, sshc, cap>>
  \/ Only("Capture", CaptureNext) /\ UNCHANGED <<conf, imap, perm, sess, ssh, sshc, cli>>

Spec == Init /\ [][Next]_suiteVars
        /\ WF_cap(Program)

-----------------------------------------------------------------------------
(* What the components promise.  Each part is stated in its own module.    *)

\* A configuration that is written reads back as it was, in the terminal and
\* in ssh: each value under its own key, profiles from the default one, and
\* a bad value of a profile spoils no other section, all colours being one
\* and the cursors left out, nor a bad host another (YAMLConfigReader,
\* YAMLConfigWriter, loadSshConfig).
FilesReadBack ==
  /\ SavedIsLoaded
  /\ ExampleIsRead
  /\ ProfileInherits
  /\ BadValueIsLocal
  /\ DefaultsSurvive
  /\ BadEntryIsLocal
  /\ SavedModesAgree
  /\ HostsIndependent

\* The command line means one thing however it is spelled: the command named
\* runs, with the program given to it, and the capture command writes the
\* lines it was asked for (CLI::parse, ContourGuiApp, captureScreen).
ProgramsDoAsTold ==
  /\ SpellingsAgree
  /\ NamedCommandRuns
  /\ ProgramStarts
  /\ CapturedText
=============================================================================
