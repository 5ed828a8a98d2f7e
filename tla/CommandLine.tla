----------------------------- MODULE CommandLine -----------------------------
(***************************************************************************)
(* The command line: its grammar (crispy/CLI.cpp), the commands of the     *)
(* terminal (ContourApp, ContourGuiApp), the choice of the handler         *)
(* (App.cpp) and what the handlers do before the event loop starts.        *)
(* An argument is its text, cut into dashes, name and value.               *)
(***************************************************************************)
EXTENDS Integers, Sequences, SequencesExt, FiniteSets

CONSTANTS ArgumentCounts, \* how many arguments follow the command
          CommandLines,   \* the names of the command lines of Starts that are tried
          ProfileFiles    \* the names of the configuration files of Files that are tried

VARIABLE cli

\* {{{ arguments, options and commands
Argument(dashes, name) == [dashes |-> dashes, name |-> name, assigned |-> FALSE, value |-> "",
                           text |-> (IF dashes = 2 THEN "--" ELSE IF dashes = 1 THEN "-" ELSE "") \o name]
Assignment(name, value) == [dashes |-> 2, name |-> name, assigned |-> TRUE, value |-> value,
                            text |-> "--" \o name \o "=" \o value]
Option(longName, shortName, type, default, required) ==
  [longName |-> longName, shortName |-> shortName, type |-> type, default |-> default, required |-> required]
Optional(name, type, default) == Option(name, "", type, default, FALSE)
Required(name) == Option(name, "", "string", "", TRUE)
Command(options, children) == [options |-> options, children |-> children]

ConfigOptions == {Optional("config", "string", "contour.yml"), Optional("profile", "string", ""),
                  Optional("debug", "string", "")}
TerminalOptions ==
  ConfigOptions
  \cup {Optional(name, "string", "") : name \in {"dump-state-at-exit", "working-directory", "class", "platform",
                                                  "session", "display"}}
  \cup {Optional("live-config", "bool", "false"), Optional("early-exit-threshold", "int", "-1"),
        Option("execute", "e", "string", "", FALSE)}
CaptureOptions == {Optional("logical", "bool", "false"), Optional("words", "bool", "false"),
                   Optional("timeout", "double", "1.0"), Optional("lines", "uint", "0"), Required("to")}
\* The commands by path; no options and no children where a path is not listed with any.
Branches ==
  <<  <<<<"contour">>, <<"terminal", "font-locator", "help", "version", "license", "list-debug-tags", "info",
                        "documentation", "generate", "capture", "set">>>>,
      <<<<"contour", "info">>, <<"vt", "config">>>>,
      <<<<"contour", "documentation">>, <<"vt", "keys", "configuration">>>>,
      <<<<"contour", "documentation", "configuration">>, <<"global", "profile">>>>,
      <<<<"contour", "generate">>, <<"parser-table", "terminfo", "config", "integration">>>>,
      <<<<"contour", "set">>, <<"profile">>>> >>
ChildrenOf(path) == LET found == {i \in DOMAIN Branches : Branches[i][1] = path}
                    IN  IF found = {} THEN <<>> ELSE Branches[CHOOSE i \in found : TRUE][2]
OptionsOf(path) ==
  CASE path = <<"contour", "terminal">> -> TerminalOptions
    [] path = <<"contour", "font-locator">> -> ConfigOptions
    [] path = <<"contour", "capture">> -> CaptureOptions
    [] path \in {<<"contour", "generate", "terminfo">>, <<"contour", "generate", "config">>} -> {Required("to")}
    [] path = <<"contour", "generate", "integration">> -> {Required("shell"), Required("to")}
    [] path = <<"contour", "set", "profile">> -> {Optional("to", "string", "")}
    [] OTHER -> {}
CommandPaths == {<<"contour">>} \cup UNION {{Branches[i][1] \o <<Branches[i][2][k]>> : k \in DOMAIN Branches[i][2]} :
                                            i \in DOMAIN Branches}
Implicit == "terminal"
IsVerbatim(path) == path = <<"contour", "terminal">>
\* }}}
\* {{{ the parser
HasTokens(c) == c.pos <= Len(c.args)
CurrentToken(c) == IF HasTokens(c) THEN c.args[c.pos] ELSE Argument(0, "")
Fail(c, what) == [c EXCEPT !.error = what]
Consume(c) == IF HasTokens(c) THEN [c EXCEPT !.pos = @ + 1] ELSE Fail(c, "Not enough arguments specified.")
FindOption(path, name) == {o \in OptionsOf(path) : name = o.longName \/ (name # "" /\ name = o.shortName)}

IsTrue(text) == text \in {"true", "yes"}
IsFalse(text) == text \in {"false", "no"}
\* stod, stoul and stoi take the number a text starts with; stoul negates what follows a minus sign.
Numbers == [double |-> ("1.5" :> "1.5" @@ "5" :> "5" @@ "-1" :> "-1"),
            uint |-> ("1.5" :> "1" @@ "5" :> "5" @@ "-1" :> "4294967295"),
            int |-> ("1.5" :> "1" @@ "5" :> "5" @@ "-1" :> "-1")]
Store(c, o, value) == [c EXCEPT !.values = (Append(c.path, o.longName) :> value) @@ @]
ParseText(c, o, text) ==
  CASE o.type = "bool" /\ IsTrue(text) -> Store(c, o, "true")
    [] o.type = "bool" /\ IsFalse(text) -> Store(c, o, "false")
    [] o.type = "bool" /\ ~IsTrue(text) /\ ~IsFalse(text) -> Fail(c, "Boolean value expected")
    [] o.type = "string" -> Store(c, o, text)
    [] o.type \in DOMAIN Numbers -> IF text \in DOMAIN Numbers[o.type] THEN Store(c, o, Numbers[o.type][text])
                                    ELSE Fail(c, "Number expected")
\* A flag without a value is true, and does not consume what follows.
ParseValueText(c, next, o, text) ==
  IF o.type = "bool" THEN IF IsTrue(text) \/ IsFalse(text) THEN ParseText(next, o, text) ELSE Store(c, o, "true")
  ELSE IF next.error # "" THEN next ELSE ParseText(next, o, text)
ParseValue(c, o) == ParseValueText(c, Consume(c), o, CurrentToken(c).text)
ParseAssigned(c, o, value) ==
  IF value = "" /\ o.type # "string" THEN Fail(c, "Explicit empty value passed") ELSE ParseText(c, o, value)
ParseFound(c, t, found) ==
  IF found = {} THEN c
  ELSE IF t.assigned THEN ParseAssigned(c, CHOOSE o \in found : TRUE, t.value) ELSE ParseValue(c, CHOOSE o \in found : TRUE)
\* -NAME VALUE, --NAME VALUE, NAME VALUE and --NAME=VALUE; the other arguments are no options.
TryParseOption(c) ==
  IF ~HasTokens(c) \/ FindOption(c.path, CurrentToken(c).name) = {} THEN c
  ELSE ParseFound(Consume(c), CurrentToken(c), FindOption(c.path, CurrentToken(c).name))
RECURSIVE ParseOptionList(_), ContinueOptionList(_, _)
ContinueOptionList(c, next) == IF next.error # "" \/ next.pos = c.pos THEN next ELSE ParseOptionList(next)
ParseOptionList(c) == ContinueOptionList(c, TryParseOption(c))

\* A command may be written with two dashes.
TryLookupCommand(c) == LET t == CurrentToken(c)
                       IN  {ChildrenOf(c.path)[k] : k \in {k \in DOMAIN ChildrenOf(c.path) :
                                                             HasTokens(c) /\ t.dashes # 1 /\ ~t.assigned
                                                             /\ ChildrenOf(c.path)[k] = t.name}}
TryImplicitCommand(c) == {Implicit} \cap Range(ChildrenOf(c.path))
TakeVerbatim(c) ==
  IF ~HasTokens(c) THEN c
  ELSE LET first == IF CurrentToken(c).text = "--" THEN c.pos + 1 ELSE c.pos
       IN  [c EXCEPT !.pos = Len(c.args) + 1, !.verbatim = [i \in 1 .. Len(c.args) - first + 1 |-> c.args[first + i - 1].text]]
Enter(c, name) == [c EXCEPT !.path = Append(@, name), !.values = (Append(c.path, name) :> "true") @@ @]
RECURSIVE ParseCommand(_), ParseCommandImplicitFirst(_), ParseSubcommand(_), ParseImplicitFirst(_)
\* What follows the options of a command.
ParseSubcommand(c) ==
  IF c.error # "" THEN c
  ELSE IF TryLookupCommand(c) # {} THEN ParseCommand(Enter(Consume(c), CHOOSE n \in TryLookupCommand(c) : TRUE))
  ELSE IF TryImplicitCommand(c) # {} THEN ParseCommand(Enter(c, Implicit))
  ELSE IF IsVerbatim(c.path) THEN TakeVerbatim(c) ELSE c
ParseImplicitFirst(c) ==
  IF c.error # "" THEN c
  ELSE IF TryImplicitCommand(c) # {} THEN ParseCommandImplicitFirst(Enter(c, Implicit))
  ELSE IF IsVerbatim(c.path) THEN TakeVerbatim(c) ELSE c
ParseCommandImplicitFirst(c) == ParseImplicitFirst(ParseOptionList(c))
ParseCommand(c) == ParseSubcommand(ParseOptionList(c))

Keys == {Append(p, o) : p \in CommandPaths, o \in {q.longName : q \in UNION {OptionsOf(r) : r \in CommandPaths}}}
PrefilledOptions == {k \in Keys : \E o \in OptionsOf(Front(k)) : o.longName = Last(k) /\ ~o.required}
\* A command whose path is also an option's would overwrite it: there is none.
PrefillDefaults ==
  [k \in PrefilledOptions \cup (CommandPaths \ {<<"contour">>}) |->
     IF k \in CommandPaths THEN "false" ELSE (CHOOSE o \in OptionsOf(Front(k)) : o.longName = Last(k)).default]
Context(args) == [args |-> args, pos |-> 1, path |-> <<"contour">>, verbatim |-> <<>>, error |-> "",
                  values |-> (<<"contour">> :> "true") @@ PrefillDefaults]
\* The options that must be given are looked for in the commands that are on.
IsOn(c, path) == \A n \in 2 .. Len(path) : c.values[SubSeq(path, 1, n)] = "true"
MissingOptions(c) == {k \in Keys : /\ k \notin DOMAIN c.values /\ IsOn(c, Front(k))
                                  /\ \E o \in OptionsOf(Front(k)) : o.longName = Last(k) /\ o.required}
Validate(c) ==
  IF c.error # "" THEN c
  ELSE IF HasTokens(c) THEN Fail(c, "Failed to parse command line parameters.")
  ELSE IF MissingOptions(c) = {} THEN c ELSE Fail(c, "Missing option")
ParseArguments(args) == Validate(ParseCommand(Context(args)))
\* }}}
\* {{{ the handlers
\* In the order in which run() looks at them.
Handlers == << <<"contour", "capture">>, <<"contour", "documentation", "configuration", "global">>,
               <<"contour", "documentation", "configuration", "profile">>, <<"contour", "documentation", "keys">>,
               <<"contour", "documentation", "vt">>, <<"contour", "font-locator">>, <<"contour", "generate", "config">>,
               <<"contour", "generate", "integration">>, <<"contour", "generate", "parser-table">>,
               <<"contour", "generate", "terminfo">>, <<"contour", "help">>, <<"contour", "info", "config">>,
               <<"contour", "info", "vt">>, <<"contour", "license">>, <<"contour", "list-debug-tags">>,
               <<"contour", "set", "profile">>, <<"contour", "terminal">>, <<"contour", "version">> >>
HandlersOn(values) == {i \in DOMAIN Handlers : values[Handlers[i]] = "true"}
Value(command, option) == cli.flags.values[<<"contour">> \o command \o <<option>>]

\* Configuration files: the profiles, and the default, which a file with profiles always has.
Files == [only |-> [profiles |-> {"main"}, default |-> "main", live |-> FALSE],
          two |-> [profiles |-> {"main", "dev"}, default |-> "main", live |-> TRUE],
          unnamed |-> [profiles |-> {"", "main"}, default |-> "", live |-> FALSE],
          missing |-> [profiles |-> {"main"}, default |-> "dev", live |-> FALSE]]
ConfiguredShell == [program |-> "sh", arguments |-> <<"-l">>, directory |-> "home"]
\* What the arguments of the command lines below are in the file system.
IsOtherFile(name) == name = "notes"
IsDirectory(name) == name = "folder"

\* A command line: what precedes the arguments, and the arguments that may follow.
Starts ==
  [terminal |-> [args |-> <<>>,
                 more |-> {Argument(2, "profile"), Argument(0, "profile"), Assignment("profile", "dev"), Argument(0, "dev"),
                           Argument(0, "gone"), Argument(1, "e"), Argument(2, ""), Argument(0, "tool"),
                           Argument(0, "folder"), Argument(0, "notes"), Argument(2, "working-directory")}],
   flags |-> [args |-> <<Argument(0, "terminal")>>,
              more |-> {Argument(2, "live-config"), Argument(0, "true"), Argument(0, "no"), Assignment("live-config", ""),
                        Assignment("live-config", "yes"), Argument(0, "early-exit-threshold"), Argument(1, "1"),
                        Argument(0, "5"), Argument(2, "")}],
   qt |-> [args |-> <<Assignment("session", "s")>>,
           more |-> {Assignment("platform", "xcb"), Assignment("display", "d"), Argument(0, "session"), Argument(0, "x")}],
   font |-> [args |-> <<Argument(0, "font-locator")>>,
             more |-> {Argument(2, "profile"), Assignment("profile", "dev"), Argument(0, "dev"), Argument(2, "config")}],
   capture |-> [args |-> <<Argument(0, "capture"), Assignment("to", "file")>>,
                more |-> {Argument(0, "logical"), Argument(2, "lines"), Argument(1, "1"), Argument(0, "5"),
                          Argument(0, "1.5"), Assignment("timeout", "1.5"), Argument(0, "x"), Argument(0, "true")}],
   generate |-> [args |-> <<Argument(2, "generate")>>,
                 more |-> {Argument(0, "integration"), Argument(2, "terminfo"), Argument(0, "parser-table"),
                           Assignment("to", "-"), Assignment("shell", "bash"), Assignment("shell", "x")}],
   other |-> [args |-> <<>>,
              more |-> {Argument(0, n) : n \in {"help", "info", "vt", "config", "set", "profile", "documentation",
                                                "configuration", "global"}}]]
MaxArguments == 3

CommandLineInit == cli = [step |-> "start"]
ChooseCommandLine(name, file) ==
  /\ cli.step = "start"
  /\ cli' = [step |-> "args", name |-> name, file |-> file, args |-> Starts[name].args]
AddArgument(t) ==
  /\ cli.step = "args"
  /\ Len(cli.args) - Len(Starts[cli.name].args) < MaxArguments
  /\ t \in Starts[cli.name].more
  /\ cli' = [cli EXCEPT !.args = Append(@, t)]
\* run(): parse, then the first handler that is on.  A failure ends the program.
RunApp ==
  /\ cli.step = "args"
  /\ Len(cli.args) - Len(Starts[cli.name].args) \in ArgumentCounts
  /\ \E c \in {ParseArguments(cli.args)} : \E on \in {HandlersOn(c.values)} :
         cli' = [step |-> IF c.error # "" \/ on = {} THEN "done" ELSE "handler", args |-> cli.args, file |-> cli.file,
                 skip |-> Len(Starts[cli.name].args), flags |-> c,
                 handler |-> IF c.error # "" \/ on = {} THEN <<>> ELSE Handlers[CHOOSE i \in on : \A j \in on : i <= j],
                 exit |-> IF c.error # "" \/ on = {} THEN "failure" ELSE "", output |-> "", sent |-> <<>>,
                 fonts |-> "", live |-> FALSE, threshold |-> "", shell |-> ConfiguredShell, class |-> "", qt |-> <<>>]
Handles(path) == cli.step = "handler" /\ cli.handler = path
Exit(code, output) == cli' = [cli EXCEPT !.step = "done", !.exit = code, !.output = output]

WithOutput(command) == IF Value(command, "to") = "-" THEN "stdout" ELSE Value(command, "to")
\* The commands that only print.
PrintAction ==
  /\ cli.step = "handler" /\ cli.handler \notin {<<"contour", "terminal">>, <<"contour", "font-locator">>,
       <<"contour", "capture">>, <<"contour", "set", "profile">>, <<"contour", "generate", "integration">>,
       <<"contour", "generate", "config">>, <<"contour", "generate", "terminfo">>}
  /\ Exit("success", "stdout")
GenerateAction(name) ==
  /\ Handles(<<"contour", "generate", name>>)
  /\ Exit("success", WithOutput(<<"generate", name>>))
\* The file is opened, and so emptied, before the shell is looked at.
IntegrationAction ==
  /\ Handles(<<"contour", "generate", "integration">>)
  /\ Exit(IF Value(<<"generate", "integration">>, "shell") \in {"zsh", "fish", "tcsh", "bash"} THEN "success" ELSE "failure",
          WithOutput(<<"generate", "integration">>))
CaptureAction ==
  /\ Handles(<<"contour", "capture">>)
  /\ cli' = [cli EXCEPT !.step = "done", !.exit = "success", !.output = Value(<<"capture">>, "to"),
                        !.sent = <<Value(<<"capture">>, "logical"), Value(<<"capture">>, "words"),
                                   Value(<<"capture">>, "timeout"), Value(<<"capture">>, "lines")>>]
SetProfileAction ==
  /\ Handles(<<"contour", "set", "profile">>)
  /\ cli' = [cli EXCEPT !.step = "done", !.exit = "success", !.output = "stdout", !.sent = <<Value(<<"set", "profile">>, "to")>>]

Config == Files[cli.file]
ProfileName ==
  CASE Value(<<"terminal">>, "profile") # "" -> Value(<<"terminal">>, "profile")
    [] Value(<<"terminal">>, "profile") = "" /\ Config.default # "" -> Config.default
    [] OTHER -> IF Cardinality(Config.profiles) = 1 THEN CHOOSE p \in Config.profiles : TRUE ELSE ""
EarlyExitThreshold == LET t == Value(<<"terminal">>, "early-exit-threshold") IN IF t = "-1" THEN "configured" ELSE t
\* The program of the command line: what its first word is decides.
OverrideShellKeeping(shell, execute, verbatim) ==
  IF execute # "" THEN [shell EXCEPT !.program = execute, !.arguments = @ \o verbatim]
  ELSE IF verbatim = <<>> THEN shell
  ELSE LET front == Head(verbatim)
           named == CASE IsOtherFile(front) -> [shell EXCEPT !.directory = "parent"]
                      [] IsDirectory(front) -> [shell EXCEPT !.directory = front]
                      [] ~IsOtherFile(front) /\ ~IsDirectory(front) -> [shell EXCEPT !.program = front]
       IN  [named EXCEPT !.arguments = @ \o Tail(verbatim)]
OverrideShell(shell, execute, verbatim) ==
  IF execute = "" /\ verbatim = <<>> THEN shell
  ELSE OverrideShellKeeping([shell EXCEPT !.arguments = <<>>], execute, verbatim)
\* Failures are counted and reported, and 1 is returned for them: it counts as success.
\* A working directory for a profile that is not there uses a null pointer.
LoadProgramConfig(crashes, loaded) ==
  LET directory == Value(<<"terminal">>, "working-directory")
      known == ProfileName \in Config.profiles
      shell == IF directory = "" THEN ConfiguredShell ELSE [ConfiguredShell EXCEPT !.directory = directory]
  IN  IF ~known THEN IF directory # "" THEN crashes ELSE loaded
      ELSE [loaded EXCEPT !.live = Config.live \/ Value(<<"terminal">>, "live-config") = "true",
                          !.shell = OverrideShell(shell, Value(<<"terminal">>, "execute"), cli.flags.verbatim),
                          !.class = Value(<<"terminal">>, "class"), !.threshold = EarlyExitThreshold]
Crash == [cli EXCEPT !.step = "done", !.exit = "crash"]
FontConfigAction ==
  /\ Handles(<<"contour", "font-locator">>)
  /\ LET next == LoadProgramConfig(Crash, cli)
     IN  cli' = IF next.step = "done" THEN next
                ELSE IF Config.default \notin Config.profiles THEN Crash
                ELSE [next EXCEPT !.step = "done", !.exit = "success", !.output = "stdout", !.fonts = Config.default]
\* The arguments for Qt: the pointer at a short text is into the element of a vector, which moves when it grows.
AddQtArgs(options) ==
  LET given == SelectSeq(options, LAMBDA o : Value(<<"terminal">>, o) # "")
  IN  [i \in 1 .. Len(given) |-> [option |-> given[i], valid |-> \A n \in i + 1 .. Len(given) : n \notin {2, 3, 5}]]
TerminalGuiAction ==
  /\ Handles(<<"contour", "terminal">>)
  /\ LET next == LoadProgramConfig(Crash, cli)
     IN  cli' = IF next.step = "done" THEN next
                ELSE IF ProfileName \notin Config.profiles THEN [next EXCEPT !.step = "done", !.exit = "failure"]
                ELSE [next EXCEPT !.step = "running", !.qt = AddQtArgs(<<"session", "platform", "display">>)]
\* The event loop ends with the status of the process that ended last, or its own.
OnExit(status) ==
  /\ cli.step = "running"
  /\ cli' = [cli EXCEPT !.step = "done",
                        !.exit = CASE status = "zero" -> "success" [] status = "unknown" -> "success" [] OTHER -> "failure"]

CommandLineNext ==
  \/ \E name \in CommandLines, file \in ProfileFiles : ChooseCommandLine(name, file)
  \/ cli.step = "args" /\ \E t \in Starts[cli.name].more : AddArgument(t)
  \/ RunApp \/ PrintAction \/ IntegrationAction \/ CaptureAction \/ SetProfileAction \/ FontConfigAction \/ TerminalGuiAction
  \/ \E name \in {"config", "terminfo"} : GenerateAction(name)
  \/ \E status \in {"zero", "nonzero", "signal", "unknown"} : OnExit(status)
\* }}}
(***************************************************************************)
(* An option means the same as --NAME, -NAME and NAME, and its value may   *)
(* follow it or an equal sign (tryParseOption), whatever follows.          *)
(***************************************************************************)
Parsed == cli.step \notin {"start", "args"}
SameFlags(args) == \E c \in {ParseArguments(args)} :
                     c.values = cli.flags.values /\ c.verbatim = cli.flags.verbatim /\ (c.error = "") = (cli.flags.error = "")
SpellingsAgree ==
  (Parsed /\ Len(cli.args) > cli.skip) =>
    LET k == cli.skip + 1
        t == cli.args[k]
        found == FindOption(cli.flags.path, t.name)
    IN  (found # {} /\ ~t.assigned) =>
          /\ \A d \in 0 .. 2 : SameFlags([cli.args EXCEPT ![k] = Argument(d, t.name)])
          /\ (k < Len(cli.args) /\ \A o \in found : o.type # "bool") =>
               SameFlags(SubSeq(cli.args, 1, k - 1) \o <<Assignment(t.name, cli.args[k + 1].text)>>
                         \o SubSeq(cli.args, k + 2, Len(cli.args)))

(***************************************************************************)
(* The command that is named by the arguments runs, the terminal where     *)
(* none is (tryLookupCommand, tryImplicitCommand), and only one is on.     *)
(***************************************************************************)
NamedPaths == {p \in CommandPaths : /\ Len(p) <= Len(cli.args) + 1
                                   /\ \A i \in 2 .. Len(p) : cli.args[i - 1].name = p[i] /\ cli.args[i - 1].dashes # 1}
NamedCommandRuns ==
  (Parsed /\ cli.flags.error = "") =>
    LET named == CHOOSE p \in NamedPaths : \A q \in NamedPaths : Len(q) <= Len(p)
    IN  /\ Cardinality(HandlersOn(cli.flags.values)) <= 1
        /\ cli.handler = IF named = <<"contour">> THEN <<"contour", "terminal">>
                         ELSE IF named \in Range(Handlers) THEN named ELSE <<>>

(***************************************************************************)
(* The program behind two dashes is started with the arguments that follow *)
(* it and with no others, unless it is a folder or no program              *)
(* (parseCommand, ContourGuiApp::loadConfig).                              *)
(***************************************************************************)
ProgramStarts ==
  (Parsed /\ cli.step = "running" /\ Len(cli.args) >= cli.skip + 2 /\ cli.args[cli.skip + 1].text = "--") =>
    LET front == cli.args[cli.skip + 2].text
    IN  (~IsDirectory(front) /\ ~IsOtherFile(front)) =>
          /\ cli.shell.program = front
          /\ cli.shell.arguments = [i \in 1 .. Len(cli.args) - cli.skip - 2 |-> cli.args[cli.skip + 2 + i].text]

(***************************************************************************)
(* What does not hold: a profile that is not there is a failure and no     *)
(* crash; a folder is opened with the configured shell and its arguments;  *)
(* the profile given to font-locator is used; what is passed to Qt stays   *)
(* valid; a command that is refused leaves its file alone.                 *)
(***************************************************************************)
UnknownProfileFails == Parsed => cli.exit # "crash"
FolderKeepsShell ==
  (Parsed /\ cli.step = "running" /\ Len(cli.flags.verbatim) = 1 /\ IsDirectory(Head(cli.flags.verbatim))) =>
    (cli.flags.values[<<"contour", "terminal", "execute">>] = "" => cli.shell = [ConfiguredShell EXCEPT !.directory = "folder"])
FontProfileUsed ==
  (Parsed /\ cli.fonts # "") =>
    (cli.flags.values[<<"contour", "font-locator", "profile">>] \in {"", cli.fonts})
QtArgumentsValid == Parsed => \A i \in DOMAIN cli.qt : cli.qt[i].valid
RefusedWritesNothing == (Parsed /\ cli.exit = "failure") => cli.output = ""
=============================================================================
