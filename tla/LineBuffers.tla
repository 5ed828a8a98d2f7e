----------------------------- MODULE LineBuffers -----------------------------
(***************************************************************************)
(* Where the text of a line lives.  A read from the PTY fills the current  *)
(* buffer behind its hot end; text that is written to a blank line is not  *)
(* copied, the (trivial) line refers to the bytes in the buffer, and only  *)
(* then the hot end advances past them.  Everything else inflates the line *)
(* to cells.  A buffer that nothing refers to returns to the pool.         *)
(***************************************************************************)
EXTENDS Integers, Sequences, SequencesExt, FiniteSets, FiniteSetsExt

CONSTANTS
  BufferSize,        \* bytes of a buffer object
  LineColumns,       \* columns of the page
  ScreenLines2,      \* lines of the page
  KeptLines,         \* lines of the page and its history
  LowWater,          \* writeToScreen changes the buffer below this (64 in the code)
  MaxReads,          \* bound: reads and writes of a behaviour
  ReadItems,         \* what a program writes: "a" and "b" are text, the others controls
  MaxItems,          \* bound: bytes of a read
  Racing             \* whether WriteScreen may come between a read, its parsing and its replay

VARIABLE store

Text == {"a", "b"}
BlankCell == <<"", FALSE>>
NoRead == <<>>
BufferIds == 1 .. KeptLines + 2     \* one for each line, the current one and one being allocated
BlankLine(owner) == [trivial |-> TRUE, owner |-> owner, at |-> 0, said |-> <<>>, bold |-> FALSE, cells |-> <<>>]
BlankCells == [c \in 1 .. LineColumns |-> BlankCell]
Reads == UNION {[1 .. n -> ReadItems] : n \in 1 .. MaxItems}

StoreInit == store = [mem |-> [b \in BufferIds |-> [i \in 0 .. BufferSize - 1 |-> ""]], hot |-> [b \in BufferIds |-> 0],
                      made |-> 1, current |-> 1, unused |-> <<>>, lines |-> [i \in 1 .. KeptLines |-> BlankLine(0)],
                      row |-> 1, col |-> 0, wrap |-> FALSE, bold |-> FALSE, read |-> NoRead, queue |-> <<>>, tracing |-> FALSE,
                      want |-> [i \in 1 .. KeptLines |-> BlankCells], shown |-> TRUE, always |-> TRUE, reads |-> 0]

(***************************************************************************)
(* The pool.                                                               *)
(***************************************************************************)
BytesAvailable(s) == BufferSize - s.hot[s.current]
Referenced(s) == {s.current} \cup {s.lines[i].owner : i \in DOMAIN s.lines} \cup ToSet(s.unused)
ReleasedAtOnce(s) ==
  LET free == {b \in 1 .. s.made : b # s.current /\ b \notin ToSet(s.unused)}
  IN  [s EXCEPT !.unused = @ \o SetToSeq(free), !.hot = [b \in BufferIds |-> IF b \in free THEN 0 ELSE @[b]]]
\* What nothing refers to any more is reset and goes to the end of the list.
Released(s) ==
  LET free == (1 .. s.made) \ Referenced(s)
  IN  [s EXCEPT !.unused = @ \o SetToSeq(free), !.hot = [b \in BufferIds |-> IF b \in free THEN 0 ELSE @[b]]]
AllocateBufferObject(s) ==
  Released(IF s.unused = <<>> THEN [s EXCEPT !.made = @ + 1, !.current = s.made + 1]
           ELSE [s EXCEPT !.current = Head(s.unused), !.unused = Tail(@)])
WriteAtEnd(s, items) ==
  [s EXCEPT !.mem[s.current] = [i \in DOMAIN @ |->
     IF i - s.hot[s.current] \in 0 .. Len(items) - 1 THEN items[i - s.hot[s.current] + 1] ELSE @[i]]]
AdvanceHotEndUntil(s, at) == [s EXCEPT !.hot[s.current] = at]
Bytes3(s, buf, at, n) == [i \in 1 .. n |-> s.mem[buf][at + i - 1]]

(***************************************************************************)
(* Lines.                                                                  *)
(***************************************************************************)
Cur(s) == KeptLines - ScreenLines2 + s.row
CurrentLine(s) == s.lines[Cur(s)]
EndOf(line) == line.at + Len(line.said)
CellsOf(s, line) ==
  IF ~line.trivial THEN line.cells
  ELSE [c \in 1 .. LineColumns |->
          IF c <= Len(line.said) THEN <<s.mem[line.owner][line.at + c - 1], line.bold>> ELSE BlankCell]
InflateLine(s, i) ==
  Released([s EXCEPT !.lines[i] = [BlankLine(0) EXCEPT !.trivial = FALSE, !.cells = CellsOf(s, s.lines[i])]])
LineEmpty(line) == IF line.trivial THEN line.said = <<>> ELSE line.cells = BlankCells
\* The buffer of a trivial line is kept when its text is reset.
ResetLine(line) == IF line.trivial THEN BlankLine(line.owner) ELSE BlankLine(0)
Linefeed(s) ==
  LET t == [s EXCEPT !.col = 0, !.wrap = FALSE]
  IN  IF s.row < ScreenLines2 THEN [t EXCEPT !.row = @ + 1]
      ELSE [t EXCEPT !.lines = Append(Tail(@), ResetLine(Head(@))), !.want = Append(Tail(@), BlankCells)]
CrlfIfWrapPending(s) == IF s.wrap THEN Linefeed(s) ELSE s
AdvanceCursorAfterWrite(s, n) ==
  IF s.col + n < LineColumns THEN [s EXCEPT !.col = @ + n] ELSE [s EXCEPT !.col = @ + n - 1, !.wrap = TRUE]
Expected(s, text) ==
  [s EXCEPT !.want[Cur(s)] = [c \in 1 .. LineColumns |-> IF c - s.col \in 1 .. Len(text) THEN <<text[c - s.col], s.bold>> ELSE @[c]]]
WriteTextInternal(s, ch) ==
  LET t == CrlfIfWrapPending(s)
      u == InflateLine(Expected(t, <<ch>>), Cur(t))
  IN  AdvanceCursorAfterWrite([u EXCEPT !.lines[Cur(u)].cells[u.col + 1] = <<ch, u.bold>>], 1)

\* The cursor is not looked at: the text only has to begin where the line's text ends.
IsContiguousToCurrentLine(s, at) ==
  LET line == CurrentLine(s) IN line.trivial /\ line.owner = s.current /\ line.said # <<>> /\ EndOf(line) = at
EmplaceCharsIntoCurrentLine(s, at, text) ==
  [s EXCEPT !.lines[Cur(s)] = [BlankLine(s.current) EXCEPT !.at = at, !.said = text, !.bold = s.bold]]
GrowBy(s, text) == [s EXCEPT !.lines[Cur(s)].said = @ \o text]
TryEmplaceChars(s, at, text) ==
  LET n == Len(text)
  IN  IF s.col = 0 /\ LineEmpty(CurrentLine(s))
        THEN AdvanceHotEndUntil(Released(EmplaceCharsIntoCurrentLine(s, at, text)), at + n)
      ELSE IF s.col # 0 /\ IsContiguousToCurrentLine(s, at) THEN AdvanceHotEndUntil(GrowBy(s, text), at + n)
      ELSE s
WriteText(s, at, text) ==
  LET u == CrlfIfWrapPending(s)
      t == TryEmplaceChars(u, at, text)
  IN  IF t = u THEN FoldLeft(WriteTextInternal, u, text) ELSE AdvanceCursorAfterWrite(Expected(t, text), Len(text))

(***************************************************************************)
(* Parsing.                                                                *)
(***************************************************************************)
Control(s, item) ==
  CASE item = "lf"   -> Linefeed(s)
    [] item = "cr"   -> [s EXCEPT !.col = 0, !.wrap = FALSE]
    [] item = "back" -> [s EXCEPT !.col = IF @ > 0 THEN @ - 1 ELSE 0, !.wrap = FALSE]
    [] item = "bold" -> [s EXCEPT !.bold = ~@]
MaxBulkTextSequenceWidth(s) == IF CurrentLine(s).trivial THEN LineColumns - 1 - s.col ELSE 0
Handle(s, entry) ==
  IF entry.n > 0 THEN WriteText(s, entry.at, Bytes3(s, entry.buf, entry.at, entry.n))
  ELSE IF entry.said[1] \in Text THEN WriteTextInternal(s, entry.said[1])
  ELSE Control(s, entry.said[1])
Emit(s, entry) == IF s.tracing THEN [s EXCEPT !.queue = Append(@, entry)] ELSE Handle(s, entry)
RunLength(items, i) == CHOOSE k \in 0 .. Len(items) - i + 1 :
  /\ \A j \in i .. i + k - 1 : items[j] \in Text
  /\ i + k <= Len(items) => items[i + k] \notin Text
\* Text goes in bulk as far as the line allows, everything else one at a time; n = 0 is no view.
ParseNext(at, items, p, i) ==
  LET s == p.s
      k == Min({MaxBulkTextSequenceWidth(s), RunLength(items, i)})
      entry == [buf |-> s.current, at |-> at + i - 1, n |-> k, said |-> SubSeq(items, i, i + Max({k, 1}) - 1)]
  IN  IF i < p.next THEN p ELSE [s |-> Emit(s, entry), next |-> i + Max({k, 1})]
ParseFragment(s, at, n) ==
  LET items == Bytes3(s, s.current, at, n)
  IN  FoldLeft(LAMBDA p, i : ParseNext(at, items, p, i), [s |-> s, next |-> 1], [i \in 1 .. n |-> i]).s

(***************************************************************************)
(* The thread of the terminal: a read is not under the terminal's lock,    *)
(* its parsing is.                                                         *)
(***************************************************************************)
Counted2(s) == [s EXCEPT !.reads = @ + 1, !.always = @ /\ s.shown, !.shown = FALSE]
ReadFromPty(items) ==
  LET s == IF BytesAvailable(store) < LineColumns THEN AllocateBufferObject(store) ELSE store
  IN  /\ store.read = NoRead /\ store.queue = <<>> /\ store.reads < MaxReads /\ Len(items) <= BytesAvailable(s)
      /\ store' = Counted2(WriteAtEnd([s EXCEPT !.read = <<[at |-> s.hot[s.current], said |-> items]>>], items))
ProcessInputOnce ==
  /\ store.read # NoRead
  /\ store' = ParseFragment([store EXCEPT !.read = NoRead], store.read[1].at, Len(store.read[1].said))
\* While it is traced, what was parsed waits for the user, and so does the next read.
\* Explored as far as the assertions of writeText and buffer_fragment hold.
FitsLine(s) == s.queue[1].n <= LineColumns - s.col
FlushOne ==
  /\ store.read = NoRead /\ store.queue # <<>> /\ store.queue[1].buf = store.current /\ FitsLine(store)
  /\ store' = Handle([store EXCEPT !.queue = Tail(@)], store.queue[1])
SetExecutionMode == store' = [store EXCEPT !.tracing = ~@]

(***************************************************************************)
(* The thread of the GUI: the action WriteScreen, and a frame, which asks  *)
(* for the width of the cell under the cursor and so inflates its line.    *)
(***************************************************************************)
WriteChunk(p) ==
  LET s == IF BytesAvailable(p.s) < LowWater /\ BytesAvailable(p.s) < Len(p.rest) THEN AllocateBufferObject(p.s) ELSE p.s
      n == Min({Len(p.rest), BytesAvailable(s)})
  IN  [s |-> ParseFragment(WriteAtEnd(s, SubSeq(p.rest, 1, n)), s.hot[s.current], n), rest |-> SubSeq(p.rest, n + 1, Len(p.rest))]
WriteToScreen(items) ==
  LET t == FoldLeft(LAMBDA p, i : IF p.rest = <<>> THEN p ELSE WriteChunk(p), [s |-> Counted2(store), rest |-> items], items).s
  IN  /\ store.reads < MaxReads
      /\ (store.read = NoRead /\ store.queue = <<>>) \/ (Racing /\ t.current = store.current)
      /\ store' = t
CellWidthAt(s) == IF CurrentLine(s).trivial THEN InflateLine(s, Cur(s)) ELSE s
BuildFrame == ~store.shown /\ store.read = NoRead /\ store' = [CellWidthAt(store) EXCEPT !.shown = TRUE]

StoreNext ==
  \/ \E items \in Reads : ReadFromPty(items) \/ WriteToScreen(items)
  \/ ProcessInputOnce \/ FlushOne \/ SetExecutionMode \/ BuildFrame

(***************************************************************************)
(* Every line, read and queued text that refers into a buffer finds there  *)
(* the bytes that were put there: neither a later read nor a recycled      *)
(* buffer overwrites what is still in use (advanceHotEndUntil, release).   *)
(***************************************************************************)
TextKept ==
  LET s == store
  IN  /\ \A i \in DOMAIN s.lines : LET l == s.lines[i]
           IN l.trivial /\ l.said # <<>> => Bytes3(s, l.owner, l.at, Len(l.said)) = l.said
      /\ \A i \in DOMAIN s.queue : LET e == s.queue[i] IN e.n > 0 => Bytes3(s, e.buf, e.at, e.n) = e.said
      /\ s.read # NoRead => Bytes3(s, s.current, s.read[1].at, Len(s.read[1].said)) = s.read[1].said

(***************************************************************************)
(* Text that is replayed while the user steps fits the rest of the line,   *)
(* as writeText asserts; its length was chosen when it was parsed, at      *)
(* another position of the cursor.                                         *)
(***************************************************************************)
ReplayFits == store.queue # <<>> => FitsLine(store)

(***************************************************************************)
(* The lines show every character in the cell of the cursor it was written *)
(* at and with its rendition, whatever path it took (tryEmplaceChars or    *)
(* writeCharToCurrentAndAdvance).                                          *)
(***************************************************************************)
ShownAsWritten == \A i \in DOMAIN store.lines : CellsOf(store, store.lines[i]) = store.want[i]

(***************************************************************************)
(* This holds as long as a frame is built between any two reads: the frame *)
(* inflates the line of the cursor (cellWidthAt), so that no later text    *)
(* can be taken for the continuation of it.                                *)
(***************************************************************************)
ShownAsWrittenWithFrames == store.always => ShownAsWritten
=============================================================================
