------------------------------ MODULE VTParser ------------------------------
(***************************************************************************)
(* The VT parser's state machine (vtparser/Parser-impl.h) and the sequence *)
(* it builds (vtbackend/SequenceBuilder.h, Sequence.h), byte by byte, up to *)
(* the function it is dispatched to.  Bulk text never leaves Ground and is *)
(* not told apart from its bytes.                                          *)
(***************************************************************************)
EXTENDS VTFunctions, SequencesExt

CONSTANTS Bytes,          \* bytes the application sends
          MaxParameters,  \* slots of SequenceParameters (16)
          MaxOscLength,   \* Sequence::MaxOscLength (512)
          MaxSeen         \* bound: bytes of one sequence

ASSUME ParserAssumption ==
  Bytes \subseteq Nat /\ MaxParameters \in Nat \ {0} /\ MaxOscLength \in Nat \ {0}

VARIABLE parser

Undefined == "Undefined"
ParserStates == {"Ground", "Escape", "EscapeIntermediate", "CSI_Entry", "CSI_Param",
  "CSI_Intermediate", "CSI_Ignore", "DCS_Entry", "DCS_Param", "DCS_Intermediate",
  "DCS_PassThrough", "DCS_Ignore", "OSC_String", "APC_String", "PM_String", "IgnoreUntilST"}

(***************************************************************************)
(* ParserTable::get(): rows <<first, last, next state, action>>.           *)
(***************************************************************************)
On(first, last, action) == {<<first, last, Undefined, action>>}
Go(first, last, state, action) == {<<first, last, state, action>>}
OnC0(action) == On(0, 23, action) \cup On(25, 25, action) \cup On(28, 31, action)
OnDelete == On(127, 127, "Ignore")

GroundRows == OnC0("Execute") \cup On(32, 255, "Print")
EscapeRows ==
  OnC0("Execute") \cup OnDelete \cup Go(88, 88, "IgnoreUntilST", "Ignore")
  \cup Go(94, 94, "PM_String", "Ignore") \cup Go(95, 95, "APC_String", "Ignore")
  \cup Go(80, 80, "DCS_Entry", "Ignore") \cup Go(93, 93, "OSC_String", "Ignore")
  \cup Go(91, 91, "CSI_Entry", "Ignore") \cup Go(92, 92, "Ground", "Ignore")
  \cup Go(32, 47, "EscapeIntermediate", "Collect")
  \cup UNION {Go(r[1], r[2], "Ground", "ESC_Dispatch") :
                r \in {<<48, 79>>, <<81, 87>>, <<89, 89>>, <<90, 90>>, <<96, 126>>}}
EscapeIntermediateRows ==
  OnC0("Execute") \cup On(32, 47, "Collect") \cup OnDelete \cup Go(48, 126, "Ground", "ESC_Dispatch")

DcsEntryRows ==
  OnC0("Ignore") \cup OnDelete \cup Go(32, 47, "DCS_Intermediate", "Collect")
  \cup Go(58, 58, "DCS_Ignore", "Ignore") \cup Go(48, 57, "DCS_Param", "Param")
  \cup Go(59, 59, "DCS_Param", "Param") \cup Go(60, 63, "DCS_Param", "CollectLeader")
  \cup Go(64, 126, "DCS_PassThrough", "Ignore")
DcsIgnoreRows == OnC0("Ignore") \cup On(32, 127, "Ignore") \cup On(128, 255, "Print")
DcsIntermediateRows ==
  OnC0("Ignore") \cup On(32, 47, "Collect") \cup OnDelete \cup Go(64, 126, "DCS_PassThrough", "Ignore")
DcsPassThroughRows == OnC0("Put") \cup On(32, 126, "Put") \cup OnDelete
DcsParamRows ==
  OnC0("Execute") \cup On(48, 57, "Param") \cup On(59, 59, "Param") \cup OnDelete
  \cup Go(58, 58, "DCS_Ignore", "Ignore") \cup Go(60, 63, "DCS_Ignore", "Ignore")
  \cup Go(32, 47, "DCS_Intermediate", "Ignore") \cup Go(64, 126, "DCS_PassThrough", "Ignore")

OscRows ==
  On(0, 6, "Ignore") \cup On(8, 23, "Ignore") \cup On(25, 25, "Ignore") \cup On(28, 31, "Ignore")
  \cup On(32, 255, "OSC_Put") \cup Go(7, 7, "Ground", "Ignore")
ApcRows == On(32, 255, "APC_Put") \cup Go(7, 7, "Ground", "Ignore")
PmRows ==
  On(0, 6, "PM_Put") \cup On(8, 23, "PM_Put") \cup On(25, 25, "PM_Put") \cup On(28, 31, "PM_Put")
  \cup On(32, 255, "PM_Put") \cup Go(7, 7, "Ground", "Ignore")

CsiEntryRows ==
  OnC0("Execute") \cup OnDelete \cup Go(64, 126, "Ground", "CSI_Dispatch")
  \cup Go(32, 47, "CSI_Intermediate", "Collect") \cup Go(58, 58, "CSI_Ignore", "Ignore")
  \cup Go(48, 57, "CSI_Param", "ParamDigit") \cup Go(59, 59, "CSI_Param", "ParamSeparator")
  \cup Go(60, 63, "CSI_Param", "CollectLeader")
CsiParamRows ==
  OnC0("Execute") \cup On(48, 57, "ParamDigit") \cup On(58, 58, "ParamSubSeparator")
  \cup On(59, 59, "ParamSeparator") \cup OnDelete \cup Go(60, 63, "CSI_Ignore", "Ignore")
  \cup Go(32, 47, "CSI_Intermediate", "Collect") \cup Go(64, 126, "Ground", "CSI_Dispatch")
CsiIgnoreRows ==
  OnC0("Execute") \cup On(32, 63, "Ignore") \cup OnDelete \cup Go(64, 126, "Ground", "Ignore")
CsiIntermediateRows ==
  OnC0("Execute") \cup On(32, 47, "Collect") \cup OnDelete
  \cup Go(48, 63, "CSI_Ignore", "Ignore") \cup Go(64, 126, "Ground", "CSI_Dispatch")

Anywhere == Go(24, 24, "Ground", "Ignore") \cup Go(26, 26, "Ground", "Ignore")
            \cup Go(27, 27, "Escape", "Ignore")

ParserTable ==
  [Ground |-> GroundRows, Escape |-> EscapeRows, EscapeIntermediate |-> EscapeIntermediateRows,
   CSI_Entry |-> CsiEntryRows, CSI_Param |-> CsiParamRows, CSI_Intermediate |-> CsiIntermediateRows,
   CSI_Ignore |-> CsiIgnoreRows, DCS_Entry |-> DcsEntryRows, DCS_Param |-> DcsParamRows,
   DCS_Intermediate |-> DcsIntermediateRows, DCS_PassThrough |-> DcsPassThroughRows,
   DCS_Ignore |-> DcsIgnoreRows, OSC_String |-> OscRows, APC_String |-> ApcRows,
   PM_String |-> PmRows, IgnoreUntilST |-> OnC0("Ignore")]

EntryEvents ==
  [s \in ParserStates |->
     CASE s = "Ground" -> "GroundStart" [] s \in {"Escape", "CSI_Entry", "DCS_Entry"} -> "Clear"
       [] s = "DCS_PassThrough" -> "Hook" [] s = "OSC_String" -> "OSC_Start"
       [] OTHER -> Undefined]
ExitEvents ==
  [s \in ParserStates |->
     CASE s = "DCS_PassThrough" -> "Unhook" [] s = "OSC_String" -> "OSC_End" [] OTHER -> Undefined]

(***************************************************************************)
(* The sequence under construction.                                        *)
(***************************************************************************)
NoResult == [category |-> "none"]
NoSequence == [leader |-> 0, intermediates |-> <<>>, values |-> <<0>>, subs |-> {}]

\* paramDigit(): 16-bit arithmetic; past the last slot the write hits the
\* memory behind the array and no slot.
MultiplyBy10AndAdd(q, digit) ==
  IF Len(q.values) > MaxParameters THEN q
  ELSE [q EXCEPT !.values[Len(q.values)] = (@ * 10 + digit) % 65536]

NextKeepsValue(q, isSub) ==
  IF Len(q.values) > MaxParameters THEN q
  ELSE [q EXCEPT !.values = Append(@, Last(@)), !.subs = IF isSub THEN @ \cup {Len(q.values)} ELSE @]
\* nextParameter(), nextSubParameter(): the test is against the end of the array,
\* so the iterator may step onto the end once.
NextParameter(q, isSub) ==
  IF Len(q.values) > MaxParameters THEN q
  ELSE [q EXCEPT !.values = Append(@, 0), !.subs = IF isSub THEN @ \cup {Len(q.values)} ELSE @]

\* count() and fixiate(): a lone zero is no parameter.
ParameterCount(q) == IF q.values = <<0>> THEN 0 ELSE Len(q.values)

Param(q, byte) ==
  CASE byte = 59 -> NextParameter(q, FALSE)
    [] byte = 58 -> NextParameter(q, TRUE)
    [] OTHER -> MultiplyBy10AndAdd(q, byte - 48)

\* What processSequence() is given, and the function it stands for.
Resolved(d) ==
  [category |-> d.category, leader |-> d.leader, intermediate |-> d.intermediate,
   parameters |-> d.parameters, subs |-> d.subs, final |-> d.final,
   function |-> Select([category |-> d.category, leader |-> d.leader, final |-> d.final,
                        intermediate |-> d.intermediate,
                        argc |-> IF d.category # "OSC" THEN Len(d.parameters)
                                 ELSE IF d.parameters = <<>> THEN 0 ELSE d.parameters[1]],
                       functions.active)]
Dispatched(category, q, final) ==
  Resolved([category |-> category, leader |-> q.leader,
            intermediate |-> IF Len(q.intermediates) = 1 THEN q.intermediates[1] ELSE 0,
            parameters |-> IF ParameterCount(q) = 0 THEN <<>> ELSE q.values,
            subs |-> q.subs, final |-> final])

\* extractCodePrefix(): the leading digits of an OSC string.
CodePrefix(data) ==
  LET digits == CHOOSE n \in 0 .. Len(data) :
                  /\ \A i \in 1 .. n : data[i] \in 48 .. 57
                  /\ n = Len(data) \/ data[n + 1] \notin 48 .. 57
  IN  IF digits = 0 /\ data # <<>> /\ data[1] # 59 THEN -data[1]
      ELSE FoldLeft(LAMBDA code, b : code * 10 + b - 48, 0, SubSeq(data, 1, digits))

OscDispatched(q) ==
  LET code == CodePrefix(q.intermediates) % 65536
  IN  Resolved([category |-> "OSC", leader |-> 0, intermediate |-> 0, subs |-> {}, final |-> 0,
                parameters |-> IF code = 0 THEN <<>> ELSE <<code>>])

\* The sequence builder's part in control strings.
HandleString(p, action, byte) ==
  CASE action = "OSC_Put" ->
         [p EXCEPT !.seq.intermediates = IF Len(@) + 1 < MaxOscLength THEN Append(@, byte) ELSE @]
    [] action = "OSC_End" -> [p EXCEPT !.result = OscDispatched(p.seq), !.seq = NoSequence]
    [] action = "Hook" ->
         LET d == Dispatched("DCS", p.seq, byte)
         IN  [p EXCEPT !.result = d, !.hooked = d.function # NoFunction]
    [] action = "Unhook" -> [p EXCEPT !.hooked = FALSE]
    [] OTHER -> p

\* handle(): the effect of an action on the parser and its builder.
Handle(p, action, byte) ==
  CASE action = "Clear" -> [p EXCEPT !.seq = NoSequence, !.seen = <<>>]
    [] action = "CollectLeader" -> [p EXCEPT !.seq.leader = byte]
    [] action = "Collect" -> [p EXCEPT !.seq.intermediates = Append(@, byte)]
    [] action \in {"Param", "ParamDigit", "ParamSeparator", "ParamSubSeparator"} ->
         [p EXCEPT !.seq = Param(@, byte)]
    [] action = "Execute" -> [p EXCEPT !.executed = TRUE]
    [] action = "Print" -> [p EXCEPT !.printed = TRUE]
    [] action = "ESC_Dispatch" -> [p EXCEPT !.result = Dispatched("ESC", p.seq, byte)]
    [] action = "CSI_Dispatch" -> [p EXCEPT !.result = Dispatched("CSI", p.seq, byte)]
    [] OTHER -> HandleString(p, action, byte)

Quiet(p) == [p EXCEPT !.result = NoResult, !.executed = FALSE, !.printed = FALSE]

\* The states that read the part of a sequence before its payload; `seen' holds
\* the bytes read there since the last Clear.
Headers == {"Escape", "EscapeIntermediate", "CSI_Entry", "CSI_Param", "CSI_Intermediate",
            "DCS_Entry", "DCS_Param", "DCS_Intermediate"}

\* processOnceViaStateMachine(): exit action, transition action, entry action.
Row(state, byte) ==
  LET rows == {r \in ParserTable[state] \cup Anywhere : byte \in r[1] .. r[2]}
  IN  IF rows = {} THEN <<0, 0, Undefined, Undefined>> ELSE CHOOSE r \in rows : TRUE

ProcessOnce(p, byte) ==
  LET row == Row(p.state, byte)
      q == [Quiet(p) EXCEPT !.seen = IF p.state \in Headers THEN Append(@, byte) ELSE <<>>]
  IN  IF row[3] = Undefined THEN Handle(q, row[4], byte)
      ELSE LET left == Handle(q, ExitEvents[p.state], byte)
               moved == [Handle(left, row[4], byte) EXCEPT !.state = row[3]]
           IN  Handle(moved, EntryEvents[row[3]], byte)

ParserInit ==
  parser = [state |-> "Ground", seq |-> NoSequence, hooked |-> FALSE, result |-> NoResult,
            executed |-> FALSE, printed |-> FALSE, seen |-> <<>>]

ParserNext ==
  \E byte \in Bytes :
     /\ Len(parser.seen) < MaxSeen \/ byte = 27
     /\ parser' = ProcessOnce(parser, byte)

ParserSpec == ParserInit /\ [][ParserNext]_parser

(***************************************************************************)
(* Properties.                                                             *)
(***************************************************************************)
\* A plain reading of a parameter string: its segments between separators.
Separators(s) == {i \in DOMAIN s : s[i] \in {58, 59}}
Segment(s, k) ==
  LET before == {i \in DOMAIN s : s[i] \notin {58, 59} /\ Cardinality({j \in Separators(s) : j < i}) = k - 1}
  IN  FoldLeft(LAMBDA v, i : (v * 10 + s[i] - 48) % 65536, 0, SetToSortSeq(before, <))
Parameters(s) == [k \in 1 .. Cardinality(Separators(s)) + 1 |-> Segment(s, k)]
SubParameters(s) ==
  {Cardinality({j \in Separators(s) : j <= i}) : i \in {i \in Separators(s) : s[i] = 58}}

\* Whatever was received before it, whether complete, malformed, cancelled or
\* mixed with control characters, a control sequence is dispatched with the
\* parameters, sub-parameters, leader and intermediate its own bytes spell.
SequenceDecoded ==
  LET d == parser.result
      body == SelectSeq(parser.seen, LAMBDA b : b \in 48 .. 59)
      wanted == Parameters(body)
      marks == SelectSeq(Front(parser.seen), LAMBDA b : b \in 32 .. 47)
  IN  d # NoResult /\ d.category = "CSI" /\ Len(wanted) <= MaxParameters =>
        /\ d.parameters = IF wanted = <<0>> THEN <<>> ELSE wanted
        /\ d.subs = SubParameters(body)
        /\ (d.leader # 0) = (\E i \in DOMAIN parser.seen : parser.seen[i] \in 60 .. 63)
        /\ Len(marks) = 1 => d.intermediate = marks[1]

\* A device control string's parser is hooked only while the string lasts: it
\* is finalized however the string ends, and the next string never reaches it.
HookEndsWithString == parser.hooked => parser.state = "DCS_PassThrough"

\* "If more than 16 parameters arrive, all the extra parameters are silently
\* ignored" (the parser's description of its param action).
ExtraParametersIgnored ==
  parser.result # NoResult => Len(parser.result.parameters) <= MaxParameters

\* A malformed device control string is consumed without a trace.
IgnoredIsSilent == [][parser.state = "DCS_Ignore" => ~parser'.printed]_parser

\* The intermediate character of a device control string selects its function.
DcsIntermediateKept ==
  LET marks == SelectSeq(parser.seen, LAMBDA b : b \in 32 .. 47)
  IN  parser.result # NoResult /\ parser.result.category = "DCS" /\ Len(marks) = 1
        => parser.result.intermediate = marks[1]
=============================================================================
