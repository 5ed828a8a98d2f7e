---------------------------- MODULE ScreenCapture ----------------------------
(***************************************************************************)
(* "contour capture": the program in the terminal asks for the page size   *)
(* and for the text of the screen and collects the replies (CaptureScreen  *)
(* .cpp); the terminal answers after it was permitted to (captureBuffer).  *)
(* Bytes on the way to the program are items: a cell's text, "PM" for the  *)
(* introducer with its code, "ST", and the parts of the reply to the size. *)
(***************************************************************************)
EXTENDS Integers, Sequences, SequencesExt

CONSTANTS CapturedScreens, \* the names of the screens of ScreenTable that are captured
          MaxHistoryLines, \* lines of history the ring has room for
          MaxChunkSize,    \* bytes of a chunk
          MaxKeysTyped, MaxScrolls,
          CanHangUp        \* whether the connection may end

VARIABLE cap

TextLine(wrapped, cells) == [wrapped |-> wrapped, cells |-> cells]
\* Two lines of a page, and the line of the history above them; "" is a cell that was never written.
ScreenTable ==
  [short |-> <<TextLine(FALSE, <<"h">>), TextLine(FALSE, <<"a", "b">>), TextLine(FALSE, <<"c">>)>>,
   wrapped |-> <<TextLine(FALSE, <<"h">>), TextLine(FALSE, <<"a", "b", "c">>), TextLine(TRUE, <<"d">>)>>,
   words |-> <<TextLine(FALSE, <<"u", "u">>), TextLine(FALSE, <<>>), TextLine(FALSE, <<"a", " ", "b", "c", "d">>)>>,
   gap |-> <<TextLine(FALSE, <<>>), TextLine(FALSE, <<"a", "", "b", "">>), TextLine(FALSE, <<>>)>>]
CapturePageLines == 2
CaptureHistory == 1
NewLine == TextLine(FALSE, <<"x">>)
CellSize(c) == CASE c = "" -> 0 [] c = "u" -> 2 [] OTHER -> 1
\* Lines are numbered from the top of the page, the history is negative.
LineAt(s, line) == IF line >= -CaptureHistory THEN s.lines[line + CaptureHistory + 1] ELSE TextLine(FALSE, <<>>)
LastCaptureLine == CapturePageLines - 1

\* The cells from the first to the last one that is not empty.
TrimBlankRight(cells) == LET last == {i \in DOMAIN cells : cells[i] # ""}
                         IN  IF last = {} THEN <<>> ELSE SubSeq(cells, 1, CHOOSE i \in last : \A j \in last : j <= i)

\* {{{ the terminal
\* The ring is walked from its last element, which is the line above the page where there is a history.
RingFromLast == [i \in 1 .. MaxHistoryLines |-> -i] \o [i \in 1 .. CapturePageLines |-> CapturePageLines - i]
RECURSIVE WalkLogical(_, _, _, _)
WalkLogical(s, i, seen, n) ==
  IF i > Len(RingFromLast) THEN i
  ELSE LET now == IF LineAt(s, RingFromLast[i]).wrapped THEN seen ELSE seen + 1
       IN  IF now = n THEN i + 1 ELSE WalkLogical(s, i + 1, now, n)
RECURSIVE WalkWrapped(_, _)
WalkWrapped(s, i) == IF i <= Len(RingFromLast) /\ LineAt(s, RingFromLast[i]).wrapped THEN WalkWrapped(s, i + 1) ELSE i
ComputeLogicalLineNumberFromBottom(s, n) == CapturePageLines - 1 - (WalkWrapped(s, WalkLogical(s, 1, 0, n)) - 1)
Clamp(x, low, high) == IF x < low THEN low ELSE IF x > high THEN high ELSE x
StartLine(s) ==
  Clamp(IF s.logical THEN ComputeLogicalLineNumberFromBottom(s, s.count) ELSE CapturePageLines - s.count,
        -CaptureHistory, CapturePageLines)

PushContent(s, data) ==
  CASE CellSize(data) = 0 -> s
    [] CellSize(data) > 0 /\ s.chunk = 0 -> [s EXCEPT !.input = @ \o <<"PM", data>>, !.chunk = CellSize(data)]
    [] CellSize(data) > 0 /\ s.chunk # 0 /\ s.chunk + CellSize(data) >= MaxChunkSize ->
         [s EXCEPT !.input = @ \o <<"ST", "PM", data>>, !.chunk = CellSize(data)]
    [] OTHER -> [s EXCEPT !.input = Append(@, data), !.chunk = @ + CellSize(data)]

CaptureInit == cap = [step |-> "setup"]
\* captureScreen(): the request for the size is sent.
CaptureScreen(screen, count, logical, words) ==
  /\ cap.step = "setup"
  /\ cap' = [step |-> "size", screen |-> screen, lines |-> ScreenTable[screen], count |-> count, logical |-> logical,
             words |-> words, request |-> "size", at |-> 0, chunk |-> 0, input |-> <<>>, eof |-> FALSE, reply |-> <<>>,
             inside |-> FALSE, buffer |-> <<>>, output |-> <<>>, done |-> FALSE, result |-> "", keys |-> 0, scrolls |-> 0]
RequestCharacterSize ==
  /\ cap.step # "setup" /\ cap.request = "size"
  /\ cap' = [cap EXCEPT !.request = "none", !.input = @ \o <<"CSI", ";", "24", ";", "80", "t">>]
\* The user answers the prompt; what is captured is chosen then, on the thread of the display.
AnswerPrompt(allow) ==
  /\ cap.step # "setup" /\ cap.request = "asked"
  /\ cap' = IF allow THEN [cap EXCEPT !.request = "capturing", !.at = StartLine(cap)] ELSE [cap EXCEPT !.request = "none"]
\* Without the lock of the terminal: the loop of captureBuffer(), a line at a time.
CaptureBufferLine ==
  /\ cap.step # "setup" /\ cap.request = "capturing"
  /\ cap' = IF cap.at <= LastCaptureLine
            THEN LET cells == TrimBlankRight(LineAt(cap, cap.at).cells)
                     pushed == IF cells = <<>> THEN cap ELSE FoldLeft(PushContent, cap, Append(cells, "NL"))
                 IN  [pushed EXCEPT !.at = @ + 1]
            ELSE [cap EXCEPT !.request = "none", !.chunk = 0,
                             !.input = @ \o (IF cap.chunk # 0 THEN <<"ST">> ELSE <<>>) \o <<"PM", "ST">>]
\* }}}
\* {{{ the program
TypeKey(key) ==
  /\ cap.step \in {"size", "capture"} /\ cap.request # "capturing" /\ cap.keys < MaxKeysTyped
  /\ cap' = [cap EXCEPT !.keys = @ + 1, !.input = Append(@, key)]
ScrollWhileCapturing ==
  /\ cap.step # "setup" /\ cap.request = "capturing" /\ cap.scrolls < MaxScrolls
  /\ cap' = [cap EXCEPT !.scrolls = @ + 1, !.lines = Append(Tail(@), NewLine)]
HangUp ==
  /\ CanHangUp /\ cap.step \in {"size", "capture"} /\ ~cap.eof
  /\ cap' = [cap EXCEPT !.eof = TRUE, !.request = "none"]

EndProgram(s, result) == [s EXCEPT !.step = "ended", !.result = result]
SplitAt(items, separator) ==
  LET all == FoldLeft(LAMBDA acc, i : IF i = separator THEN Append(acc, <<>>) ELSE Append(Front(acc), Append(Last(acc), i)),
                      << <<>> >>, items)
  IN  IF Last(all) = <<>> THEN Front(all) ELSE all
\* stoi() of a field throws unless it starts with the number.
SizeAnswer(s) ==
  LET fields == SplitAt(s.reply, ";")
  IN  CASE Len(fields) # 3 -> EndProgram(s, "failure")
        [] Len(fields) = 3 /\ (fields[2] = <<>> \/ fields[3] = <<>> \/ Head(fields[2]) # "24" \/ Head(fields[3]) # "80") ->
             EndProgram(s, "error")
        [] OTHER -> [s EXCEPT !.step = "capture", !.request = "asked"]
ReadSize ==
  /\ cap.step = "size"
  /\ cap.input # <<>> \/ cap.eof
  /\ cap' = IF cap.input = <<>> THEN EndProgram(cap, "failure")
            ELSE LET s == [cap EXCEPT !.input = Tail(@)]
                 IN  IF Head(cap.input) = "t" THEN SizeAnswer(s) ELSE [s EXCEPT !.reply = Append(@, Head(cap.input))]
\* CaptureBufferCollector: the end of a private message.
DispatchPM(s) ==
  LET words == FoldLeft(LAMBDA acc, w : acc \o w \o <<"NL">>, <<>>, SplitAt(s.buffer, " "))
  IN  [s EXCEPT !.inside = FALSE, !.done = @ \/ s.buffer = <<>>, !.output = @ \o (IF s.words THEN words ELSE s.buffer)]
CollectItem(s, item) ==
  CASE item = "PM" -> [s EXCEPT !.inside = TRUE, !.buffer = <<>>]
    [] item = "ST" -> IF s.inside THEN DispatchPM(s) ELSE s
    [] OTHER -> IF s.inside THEN [s EXCEPT !.buffer = Append(@, item)] ELSE s
\* A read returns what is there, or a part of it; nothing is read at the end of the file, again and again.
ReadCaptureReply(n) ==
  /\ cap.step = "capture" /\ n \in 1 .. Len(cap.input)
  /\ LET s == FoldLeft(CollectItem, [cap EXCEPT !.input = SubSeq(@, n + 1, Len(@))], SubSeq(cap.input, 1, n))
     IN  cap' = IF s.done THEN EndProgram(s, "success") ELSE s
TimeOutReadingSize ==
  /\ cap.step = "size" /\ cap.input = <<>> /\ ~cap.eof
  /\ cap' = EndProgram(cap, "failure")
\* select() fails at its timeout, which is what is left of the whole time.
TimeOut ==
  /\ cap.step \in {"size", "capture"} /\ cap.input = <<>> /\ ~cap.eof
  /\ cap' = EndProgram(cap, "failure")
\* }}}
Program == ReadSize \/ (cap.step = "capture" /\ \E n \in {1, Len(cap.input)} : ReadCaptureReply(n)) \/ TimeOut
CaptureNext ==
  \/ \E screen \in CapturedScreens, count \in 0 .. 3, logical, words \in BOOLEAN : CaptureScreen(screen, count, logical, words)
  \/ RequestCharacterSize \/ CaptureBufferLine \/ ScrollWhileCapturing \/ HangUp
  \/ \E allow \in BOOLEAN : AnswerPrompt(allow)
  \/ \E key \in {"k", "t"} : TypeKey(key)
  \/ Program

(***************************************************************************)
(* A capture that succeeds has written the text of the lines asked for:    *)
(* each as far as it is written, and ended by a new line, however it was   *)
(* cut into chunks and reads and whatever was typed meanwhile              *)
(* (captureBuffer, CaptureBufferCollector).                                *)
(***************************************************************************)
Succeeded == cap.step = "ended" /\ cap.result = "success"
TextFrom(lines, first, drops) ==
  FoldLeft(LAMBDA acc, l : LET cells == SelectSeq(TrimBlankRight(l.cells), LAMBDA c : c # drops)
                           IN  IF cells = <<>> THEN acc ELSE acc \o cells \o <<"NL">>,
           <<>>, SubSeq(lines, first, Len(lines)))
FirstAsked == LET asked == CaptureHistory + CapturePageLines - cap.count IN IF asked < 0 THEN 1 ELSE asked + 1
CapturedText ==
  (Succeeded /\ ~cap.logical /\ ~cap.words /\ cap.scrolls = 0) =>
    cap.output = TextFrom(ScreenTable[cap.screen], FirstAsked, "")

(***************************************************************************)
(* The program ends, answered or not: it waits no longer than its timeout  *)
(* (readCaptureReply, screenSize).                                         *)
(***************************************************************************)
CaptureFinishes == cap.step = "size" ~> cap.step = "ended"

(***************************************************************************)
(* What does not hold.  No number of lines means the page.  A logical line *)
(* is one line, and as many of them are captured as asked for.  A word is  *)
(* not cut in two.  Cells left out keep their place.  The text is that of  *)
(* one moment.  The program takes every reply to it from the terminal      *)
(* before it ends.                                                         *)
(***************************************************************************)
ZeroMeansPage ==
  (Succeeded /\ ~cap.logical /\ ~cap.words /\ cap.count = 0 /\ cap.scrolls = 0) =>
    cap.output = TextFrom(ScreenTable[cap.screen], CaptureHistory + 1, "")
LinesOf(items) == Len(SplitAt(items, "NL"))
LogicalLinesWhole ==
  (Succeeded /\ cap.logical /\ ~cap.words /\ cap.screen = "wrapped") => <<"a", "b", "c", "NL", "d">> \notin
     {SubSeq(cap.output, i, i + 4) : i \in 1 .. Len(cap.output) - 4}
LogicalLinesCounted ==
  (Succeeded /\ cap.logical /\ ~cap.words /\ cap.screen = "short" /\ cap.count > 0) => LinesOf(cap.output) <= cap.count
WordsWhole ==
  (Succeeded /\ cap.words /\ ~cap.logical /\ cap.screen = "words" /\ cap.count = 1) =>
    \E i \in DOMAIN SplitAt(cap.output, "NL") : SplitAt(cap.output, "NL")[i] = <<"b", "c", "d">>
GapsKept ==
  (Succeeded /\ ~cap.logical /\ ~cap.words /\ cap.screen = "gap" /\ cap.count = 2) => Len(cap.output) = 4
CapturedAtOnce ==
  (Succeeded /\ ~cap.logical /\ ~cap.words /\ cap.scrolls = 1 /\ cap.screen = "short" /\ cap.count = 2) =>
    cap.output \in {TextFrom(ScreenTable[cap.screen], FirstAsked, ""),
                    TextFrom(Append(Tail(ScreenTable[cap.screen]), NewLine), FirstAsked, "")}
NothingLeftBehind == (cap.step = "ended" /\ cap.keys = 0) => cap.input = <<>> /\ cap.request = "none"
=============================================================================
